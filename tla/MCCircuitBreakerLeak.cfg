SPECIFICATION Spec
CONSTANTS
    r1 = r1
    r2 = r2
    m1 = m1
    RetryCallers <- MCRetryCallers
    MutatingCallers <- NoCallers
    FailureThreshold = 2
    MaxAttempts = 2
    MaxFailures = 4
    MaxLocks = 2
SYMMETRY Symmetry
INVARIANT WaitsForALiveCall
