CONSTANTS
    MaxLeases = 2
    MaxGuidance = 0
    MaxFaults = 0
    Collapses = TRUE
SPECIFICATION Spec
INVARIANT DeliveredReached
CHECK_DEADLOCK FALSE
