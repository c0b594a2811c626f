SPECIFICATION FairSpec
CONSTANTS
    Procs = {"unit"}
    Names <- TwoNames
    Prefixes <- OnlyPrefix
    Kinds <- OnlyKind
    Sources <- OnlySource
    Like <- OnlyLike
    Machines <- OneMachine
    Record <- OneRecord
    Host <- OneHost
    Place <- OnePlace
    Ops <- SendOnly
    Prefix <- RootPrefix
    Keep <- KeepOne
    Targets = {"backup", "nas"}
    Media = {"backup", "nas"}
    MaxFaults = 2
    DetachLeaves = "bare"
    DetachAnytime = FALSE
    Events = {"clean", "detach"}
PROPERTIES EventuallyReplicated RecordsKept RefinesLedger
