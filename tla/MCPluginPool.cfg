CONSTANTS
    Paths = {"f", "g"}
    Entries = {1, 2, 3}
    Procs = {1, 2, 3}
    MaxProcs = {1, 2}
    MaxEdits = 3
    None = None
SPECIFICATION FairSpec
CHECK_DEADLOCK FALSE
INVARIANTS TypeOK NoUnexpectedEvent EntriesListen NoOrphan
PROPERTIES KillEndsStarts CatchesUp
