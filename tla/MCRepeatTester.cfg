CONSTANTS
    s1 = s1  s2 = s2  v1 = v1  v2 = v2
    Series = {s1, s2}
    Values = {v1, v2}
    Heartbeat = 2
    MaxAge = 3
    CleanupEveryN = 3
    MaxTime = 5
    None = None
SPECIFICATION Spec
SYMMETRY MCSymmetry
CHECK_DEADLOCK FALSE
INVARIANTS TypeOK LineFaithful SentInOrder HeartbeatKept LostOnlyIfSilent
