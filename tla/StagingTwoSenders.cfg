SPECIFICATION Spec
CONSTANTS
    Procs = {"daily", "weekly"}
    Names <- OneName
    Paths <- ThreePaths
    MaxFaults = 0
INVARIANT NothingExcludedLeaves
CHECK_DEADLOCK FALSE
