SPECIFICATION Spec
CHECK_DEADLOCK FALSE
CONSTANTS
    NoNode = "none"
    Root = "root"
    Def <- ParentAndChild
    StartOf <- Starts
    Ceiling <- Ceilings
    Values = {"no", "yes"}
    WaitDelay = 1
    WaitDeadline = 2
    MaxDepth = 2
    SettleCap = 8
    VisitCap = 2
    Destinations = {"pause"}
    MaxFrames = 1
    Commands <- MigrateInside
INVARIANT CallsNest
