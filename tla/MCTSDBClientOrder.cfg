SPECIFICATION Spec
CONSTANTS
    Points <- MCPoints
    Series <- MCSeries
    SeriesOf <- MCSeriesOf
    SeriesHash <- MCSeriesHash
    Hosts = {h1}
    Conns = {c1, c2}
    MaxConnsPerHost = 1
    MaxQueue = 2
    QueueFullModes = {"Drop"}
    DropRepeats = FALSE
    SockBuf = 2
    MaxFaults = 1
    Version = Version
    None = None
INVARIANT OrderGuarantee
CHECK_DEADLOCK FALSE
