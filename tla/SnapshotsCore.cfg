SPECIFICATION Spec
CONSTANTS
    Procs = {"unit", "hand"}
    Names <- ThreeNames
    Prefixes <- OnlyPrefix
    Kinds <- OnlyKind
    Sources <- OnlySource
    Like <- OnlyLike
    Machines <- OneMachine
    Record <- OneRecord
    Sel <- OneSel
    Ops <- UnitAndHand
    Keep = 1
    MaxDate = 2
    MaxFaults = 2
    UnmountLeaves = "missing"
    CanCreateUnder = FALSE
    MountsAnytime = FALSE
INVARIANTS TypeOK Tracked Retention CopiesTracked SuccessMeansGone
PROPERTY RefinesLifecycle
