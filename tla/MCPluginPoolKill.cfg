CONSTANTS
    Paths = {"f", "g"}
    Entries = {1, 2, 3}
    Procs = {1, 2, 3}
    MaxProcs = {1}
    MaxEdits = 2
    None = None
SPECIFICATION FairSpec
CHECK_DEADLOCK FALSE
PROPERTIES KillReturns
