SPECIFICATION FairSpec
CONSTANTS
    Procs = {"m1", "m2"}
    Names <- ThreeNames
    Prefixes <- OnlyPrefix
    Kinds <- OnlyKind
    Sources <- OnlySource
    Like <- OnlyLike
    Machines <- TwoMachines
    Record <- TwoRecord
    Host <- TwoHost
    Place <- OwnDisk
    Ops <- SendOnly
    Prefix <- RootPrefix
    Keep <- KeepAll
    Targets = {"backup"}
    Media = {"m1", "m2"}
    MaxFaults = 0
    DetachLeaves = "gone"
    DetachAnytime = FALSE
    Events = {}
PROPERTY EventuallyReplicated
