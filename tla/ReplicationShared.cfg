SPECIFICATION Spec
CONSTANTS
    Procs = {"m1", "m2"}
    Names <- FourNames
    Prefixes <- OnlyPrefix
    Kinds <- BothKinds
    Sources <- OnlySource
    Like <- OnlyLike
    Machines <- TwoMachines
    Record <- KindRecord
    Host <- TwoHost
    Place <- OnePlace
    Ops <- SendOrDel
    Prefix <- RootPrefix
    Keep <- KeepOne
    Targets = {"backup"}
    Media = {"backup"}
    MaxFaults = 1
    DetachLeaves = "bare"
    DetachAnytime = FALSE
    Events = {"detach_early", "tamper"}
INVARIANTS TypeOK RecordedPresent TargetRetention
PROPERTY PrunedStaysPruned
