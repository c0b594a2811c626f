SPECIFICATION Spec
CONSTANTS
    Procs = {"unit", "hand"}
    Names <- ThreeNames
    Prefixes <- OnlyPrefix
    Kinds <- OnlyKind
    Sources <- OnlySource
    Like <- OnlyLike
    Machines <- OneMachine
    Record <- OneRecord
    Sel <- OneSel
    Ops <- UnitAndHand
    Keep = 1
    MaxDate = 1
    MaxFaults = 1
    UnmountLeaves = "missing"
    CanCreateUnder = TRUE
    MountsAnytime = FALSE
INVARIANT Tracked
