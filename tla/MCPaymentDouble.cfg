SPECIFICATION Spec
CONSTANTS
    Workers = {w1, w2}
    Nobody = Nobody
    Nothing = Nothing
    None = None
    Funds = 0
    Grant = 1
    MaxGrants = 0
    MaxCrashes = 0
    Charges = {c1}
    Tokens = 2
    Mock = {}
PROPERTY SucceededIsNotCreditedAgain
CHECK_DEADLOCK FALSE
