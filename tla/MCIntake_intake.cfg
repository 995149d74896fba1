CONSTANTS
    Workers = {w1}
    NoWorker = none
    MaxFacts = 2
    PerRun = 1
    PerDay = 1
    MaxOpen = 1
    MaxDays = 1
    MaxFaults = 1
SPECIFICATION Spec
INVARIANTS NoDuplicateTickets CursorCovers DayLimitKept
PROPERTIES FactsRecorded
CHECK_DEADLOCK FALSE
