SPECIFICATION Spec
CONSTANTS
    Pipelines <- MCPipelines
    RequestedK = 4
    MinK = 2
    MaxRetries = 1
    MaxRetriesSemi = 1
    MaxFails = 2
    MinConfirmations = 1
    GiveUpReorgs = 1
    MaxEvents = 2
INVARIANTS TypeOK SelfPaidOnce RepaidOnlyIfLost CompletedIsEarned SpendsOnlyWhatArrived RetriesAreBounded
PROPERTIES EverySessionEnds
CHECK_DEADLOCK FALSE
