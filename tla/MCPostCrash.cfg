SPECIFICATION FairSpec
CONSTANTS
    Workers = {w1}
    Crons = {c1, c2}
    Bodies = {b1}
    NoPost = NoPost
    NoEntry = NoEntry
    Starts = {"pending", "rejected"}
    Schedules = {TRUE}
    Earlier = 0
    MaxRequests = 1
    MaxCrashes = 1
PROPERTIES DueIsPublished
CHECK_DEADLOCK FALSE
