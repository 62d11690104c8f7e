CONSTANTS
    Callers = {"lbvserver", "service", j1, j2}
    Jobs = {j1, j2}
    CollectorSeq <- MCCollectorSeq
    Lists <- MCLists
    Scenarios <- MCScenarios
    MaxConns = 1
    MaxTrips = 2
    Window = 1
    Nil = Nil
SPECIFICATION FairSpec
CHECK_DEADLOCK FALSE
INVARIANTS TypeOK LoginsBounded Survives
PROPERTIES  BindingsNewer
