SPECIFICATION Spec
CONSTANTS
    Workers = {w1}
    Crons = {c1}
    Bodies = {b1, b2}
    NoPost = NoPost
    NoEntry = NoEntry
    Starts = {"absent"}
    Schedules = {}
    Earlier = 0
    MaxRequests = 4
    MaxCrashes = 0
SYMMETRY SymmetricTexts
INVARIANTS JournalAgrees
CHECK_DEADLOCK FALSE
