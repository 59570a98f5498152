SPECIFICATION FairSpec
CONSTANTS
    None = None
    PageSize = 1
    Start = 1
    MaxWrites = 2
    MaxFaults = 1
INVARIANTS ShowsPrefix SectionIsCurrent PostedTwiceOnlyAfterLoss RepliesListedOnce
PROPERTIES EndIsReached
CHECK_DEADLOCK FALSE
