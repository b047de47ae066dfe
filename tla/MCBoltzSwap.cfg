\* A message, a recovery pass, an operator request and a crash.
SPECIFICATION FairSpec
CONSTANTS
    p1 = p1
    p2 = p2
    r1 = r1
    o1 = o1
    Nobody = Nobody
    Recoverers <- Pass
    Processes <- OneMessage
    Operators <- Operator
    MaxRetries = 0
    MaxCrashes = 1
    MaxRequests = 1
    Features <- AllRequests
CHECK_DEADLOCK FALSE
PROPERTIES EverySwapEnds KeepsPromise
