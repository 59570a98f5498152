SPECIFICATION Spec
CONSTANTS
    Workers = {w1, w2}
    Crons = {c1}
    Bodies = {b1, b2}
    NoPost = NoPost
    NoEntry = NoEntry
    Starts = {"pending", "published"}
    Schedules = {TRUE}
    Earlier = 2
    MaxRequests = 2
    MaxCrashes = 0
SYMMETRY Symmetric
INVARIANTS CacheServesCurrent
PROPERTIES UnvettedOnlyByStaleSaveOrSchedule DriftOnlyByStaleSave SilentOnlyByRestore DeletionStands 
CHECK_DEADLOCK FALSE
