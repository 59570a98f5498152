SPECIFICATION FairSpec
CONSTANTS
    Users = {u1, u2}
    Watchers = {u1}
    Types = {like}
    None = None
    Unset = Unset
    MaxToggles = 2
    MaxFaults = 1
INVARIANTS TabShowsLatest
PROPERTIES TotalsDriftOnlyByLateCount OwnDriftsOnlyByLateRead TabCatchesUp
CHECK_DEADLOCK FALSE
