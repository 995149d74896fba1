SPECIFICATION Spec
CHECK_DEADLOCK FALSE
CONSTANTS
    t1 = t1
    t2 = t2
    s1 = s1
    s2 = s2
    work = work
    check = check
    gate = gate
    review = review
    done = done
    NoTicket = NoTicket
    NoSup = NoSup
    NoHost = NoHost
    NoNode = NoNode
    Start = work
    HostOf <- OwnHost
    Tickets = {t1}
    Supervisors = {s1}
    Nodes = {work, done}
    ReposOf <- OwnRepo
    Capable <- EveryRuntime
    Kind <- ShortKind
    Succ <- ShortSucc
    Feedback <- LongFeedback
    Stage <- OwnStage
    Bypass <- NoBypass
    DefaultOff = {}
    LossLimit = 2
    MaxMoves = 3
    MaxLeases = 2
    MaxCalls = 1
    Commands = {"ready", "cancelled", "edit"}
PROPERTIES
    InterruptHonoured
    HistoryKept
