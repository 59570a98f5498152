SPECIFICATION Spec
CONSTANTS
    Readers = {r1, r2}
    Writers = {w1, w2}
    MaxWrites = 3
    MaxDeaths = 1
    MaxFlushes = 1
SYMMETRY Symmetric
INVARIANTS ServesTheDatabase
PROPERTIES ReadsAreFresh
CHECK_DEADLOCK FALSE
