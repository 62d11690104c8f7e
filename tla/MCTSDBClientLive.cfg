SPECIFICATION FairSpec
CONSTANTS
    Points <- MCPoints
    Series <- MCSeries
    SeriesOf <- MCSeriesOf2
    SeriesHash <- MCSeriesHash
    Hosts = {h1}
    Conns = {c1, c2, c3}
    MaxConnsPerHost = 1
    MaxQueue = 2
    QueueFullModes = {"Drop"}
    DropRepeats = FALSE
    SockBuf = 2
    MaxFaults = 2
    Version = Version
    None = None
PROPERTIES FeedSpec QueueDrains
CHECK_DEADLOCK FALSE
