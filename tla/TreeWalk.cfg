SPECIFICATION Spec
CONSTANTS
    Trees <- SmallTrees
    Lists <- SmallLists
    Root = 1
    Live = 5
INVARIANTS TypeOK OnlyExcludedGo ClearedAreNeeded NothingExcludedStays FailsOnlyOutside Accounting
CHECK_DEADLOCK FALSE
