CONSTANTS
    Kinds = {"agent_transcript"}
    BatchSize = 2
    Capacity = 4
    MaxEvents = 2
    Contents = {"session"}
    MaxFaults = 1
    MaxTraces = 2
    None = none
SPECIFICATION Spec
INVARIANTS TraceWhole CompleteMarked
PROPERTIES SlotFreed
CHECK_DEADLOCK FALSE
