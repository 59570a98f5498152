SPECIFICATION Spec
CONSTANTS
    Workers = {w1, w2}
    Nobody = Nobody
    Nothing = Nothing
    None = None
    Funds = 3
    Grant = 1
    MaxGrants = 0
    MaxCrashes = 1
    Orders = {o1, o2}
    Cost = 2
SYMMETRY Symmetric
INVARIANTS LedgerExplainsBalance CompletedIsCharged StaleInsightOnlyByOverlap
PROPERTIES FinalOnlyByStaleRecord OverdraftOnlyByStaleBalance SecondPendingOnlyByOverlap CooldownMissedOnlyByOverlap
CHECK_DEADLOCK FALSE
