SPECIFICATION FairSpec
CONSTANTS
    Procs = {"m1", "m2"}
    Names <- ThreeNames
    Prefixes <- OnlyPrefix
    Kinds <- OnlyKind
    Sources <- OnlySource
    Like <- OnlyLike
    Machines <- TwoMachines
    Record <- TwoRecord
    Sel <- TwoSel
    Ops <- AllOps
    Keep = 1
    MaxDate = 1
    MaxFaults = 1
    UnmountLeaves = "missing"
    CanCreateUnder = FALSE
    MountsAnytime = TRUE
PROPERTIES OnlyOwnerForgets Converges
