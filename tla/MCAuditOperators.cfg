\* Appends, re-anchorings, verifications and losses; retention is disabled.
SPECIFICATION Spec
CONSTANTS
    PageSize = 1
    MaxRows = 3
    MaxClock = 2
    Features <- Operators
CHECK_DEADLOCK FALSE
INVARIANT ChainIntact
