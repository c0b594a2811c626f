SPECIFICATION FairSpec
CONSTANTS
    Procs = {"daily", "weekly"}
    Names <- TwoNames
    Paths <- TwoPaths
    MaxFaults = 2
INVARIANTS TypeOK OnlySharedCopiesLeak
PROPERTY EventuallySent
CHECK_DEADLOCK FALSE
