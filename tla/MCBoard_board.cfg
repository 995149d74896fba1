CONSTANTS
    Tickets = {t1, t2}
    Config = config
    MaxEdits = 2
    MaxClicks = 1
    MaxFlights = 2
    None = none
SPECIFICATION Spec
INVARIANTS DraftsApart
PROPERTIES RacingEditsKept ConfigKept
