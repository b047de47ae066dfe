\* Appends, retention pruning, out-of-band losses.
SPECIFICATION Spec
CONSTANTS
    PageSize = 1
    MaxRows = 5
    MaxClock = 3
    Features <- Retention
CHECK_DEADLOCK FALSE
INVARIANT TypeOK
INVARIANT HighWaterExact
INVARIANT NoFalseAlarm
INVARIANT ObserverNotMisled
