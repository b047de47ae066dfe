\* Two messages for the swap, each with a retry, and a recovery pass.
SPECIFICATION Spec
CONSTANTS
    p1 = p1
    p2 = p2
    r1 = r1
    o1 = o1
    Nobody = Nobody
    Recoverers <- Pass
    Processes <- TwoMessages
    Operators <- NoOperator
    MaxRetries = 1
    MaxCrashes = 0
    MaxRequests = 0
    Features <- NoRequests
SYMMETRY Symmetry
CHECK_DEADLOCK FALSE
INVARIANTS OneClaimScript RowFollowsChain OwnPaymentNotAbandoned
