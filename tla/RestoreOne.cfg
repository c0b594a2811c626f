SPECIFICATION FairSpec
CONSTANTS
    Procs = {"a", "b"}
    Names <- OneName
    Places <- OnePlace
    Want <- SameWant
    Retried = {"a"}
    Total = 2
    Capacity = 1
    MaxFaults = 2
INVARIANTS TypeOK NoFalseSuccess BlameIsCause RestoredWhole NothingLeftBehind
PROPERTIES Settles EventuallyRestored
CHECK_DEADLOCK FALSE
