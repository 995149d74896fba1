CONSTANTS
    Repos = {r1, r2}
    MaxLeases = 3
    MaxCheckpoints = 2
    MaxFaults = 1
SPECIFICATION WorkerSpec
INVARIANTS RestoreAtomic
PROPERTIES LeaseSettles
CHECK_DEADLOCK FALSE
