SPECIFICATION FairSpec
CONSTANTS
    None = None
    MaxAttempts = 2
INVARIANTS SaveTellsUnsaved
PROPERTIES TextLostOnlyByEarlySwitch PageSettles
CHECK_DEADLOCK FALSE
