SPECIFICATION Spec
CONSTANTS
    Procs = {"unit"}
    Names <- TwoNames
    Prefixes <- OnlyPrefix
    Kinds <- OnlyKind
    Sources <- OnlySource
    Like <- OnlyLike
    Machines <- OneMachine
    Record <- OneRecord
    Host <- OneHost
    Place <- OnePlace
    Ops <- SendOnly
    Prefix <- RootPrefix
    Keep <- KeepAll
    Targets = {"backup"}
    Media = {"backup"}
    MaxFaults = 1
    DetachLeaves = "bare"
    DetachAnytime = FALSE
    Events = {}
INVARIANT RecordedWhole
