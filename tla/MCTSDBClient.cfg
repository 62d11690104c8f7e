SPECIFICATION Spec
CONSTANTS
    Points <- MCPoints
    Series <- MCSeries
    SeriesOf <- MCSeriesOf
    SeriesHash <- MCSeriesHash
    Hosts = {h1, h2}
    Conns = {c1, c2, c3}
    MaxConnsPerHost = 1
    MaxQueue = 1
    QueueFullModes = {"Drop", "DropAndLog"}
    DropRepeats = TRUE
    SockBuf = 2
    MaxFaults = 1
    Version = Version
    None = None
INVARIANTS TypeOK AtMostOnce AckSound Accounted PoolConserved OrderedPerConn
SYMMETRY MCSymmetry
CHECK_DEADLOCK FALSE
