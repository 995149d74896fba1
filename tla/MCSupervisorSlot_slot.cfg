CONSTANTS
    MaxLeases = 2
    MaxGuidance = 1
    MaxFaults = 1
    Collapses = FALSE
SPECIFICATION Spec
INVARIANTS PastedOnce DeliveredReached
PROPERTIES AcknowledgedStopped InterruptServed GuidanceHeard
CHECK_DEADLOCK FALSE
