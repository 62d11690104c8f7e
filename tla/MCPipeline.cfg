CONSTANTS
    Empty = ""
    BadText = {"${1}"}
    BadNumber = BadNumber
    Nil = Nil
    None = None
    PerSecond = 2
    MaxTags = 2
    HalfRange = 2
    HalfTime = 15
    LineLength <- MCLineLength
    MaxLine = 1
    MaxSeries = 1
    MaxAge = 1
    MaxStep = 2
    CleanupEveryN = 2
    Lines <- MCLines
    RelaySeq <- MCRelaySeq
    Aggregator = "y"
    Scenarios <- MCScenarios
    SelfPoints = "self"
    SelfErrors = "errs"
    Objs = {o1, o2, o3, o4, o5}
    MaxQueue = 1
    MaxRelayQueue = 1
    MaxServerQueue = 1
    IdleTimeout = 2
    Start = 3
SPECIFICATION FairSpec
CHECK_DEADLOCK FALSE
INVARIANTS TypeOK ServerReadsSent KillJustified
PROPERTIES Mirrors OrderUnlessAged TickOrder Drains
