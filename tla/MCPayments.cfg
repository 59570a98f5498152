SPECIFICATION FairSpec
CONSTANTS
    Workers = {w1, w2}
    Nobody = Nobody
    Nothing = Nothing
    None = None
    Funds = 0
    Grant = 1
    MaxGrants = 1
    MaxCrashes = 1
    Charges = {c1, m1}
    Mock = {m1}
    Tokens = 2
INVARIANTS LedgerExplainsBalance IntentsMatchCredits
PROPERTIES DoubleCreditOnlyByOverlap PendingIsCredited
CHECK_DEADLOCK FALSE
