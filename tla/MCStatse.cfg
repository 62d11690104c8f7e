SPECIFICATION Spec
CONSTANTS
    Hosts = {h1, h2}
    Messages <- MCMessages
    Blocked <- MCBlocked
    NoHost <- MCNoHost
    StatKeys = {"time", "size"}
    MaxBufferLen = 2
    Timeout = 2
    Intervals = {0, 2, 4}
    CleanupInterval = 1
    Scenarios <- MCScenarios
    Nil = Nil
INVARIANTS
    TypeOK
    EventIntact
PROPERTIES
    LostOnlyIfLate
    CountsMonotone
    StatsExact
SYMMETRY MCHostSymmetry
CHECK_DEADLOCK FALSE
