CONSTANTS
    Workers = {w1}
    NoWorker = none
    MaxFacts = 1
    PerRun = 1
    PerDay = 1
    MaxOpen = 1
    MaxDays = 0
    MaxFaults = 1
SPECIFICATION Spec
CHECK_DEADLOCK FALSE
PROPERTIES
    DisabledStops
    RunsClaimed
    SourcesScheduled
