SPECIFICATION FairSpec
CONSTANTS
    Procs = {"a", "b"}
    Commands <- MCCommands
    Rows = {r1}
    Quoted = {"a"}
    DbDir = "file"
    MaxFaults = 1
INVARIANTS TypeOK ReadyForWork WalUnlessCutShort OptionsAsGiven
PROPERTIES OnlyCreateMakes EventuallyWorks
CHECK_DEADLOCK FALSE
