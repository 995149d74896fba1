CONSTANTS
    Repos = {r1, r2}
    MaxLeases = 2
    MaxCheckpoints = 2
    MaxFaults = 0
SPECIFICATION WorkerSpec
CHECK_DEADLOCK FALSE
INVARIANT SavedBeforeChanged
PROPERTY StoppedBeforeAcknowledged
