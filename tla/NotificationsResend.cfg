SPECIFICATION Spec
CONSTANTS
    r1 = r1
    r2 = r2
    d1 = d1
    d2 = d2
    k1 = k1
    k2 = k2
    sync = sync
    anomaly = anomaly
    Writer <- TwoReports
    Deliverer <- TwoWorkers
    Reports <- Pairs
    Windowed = {sync}
    BatchSize = 1
    StreamLimit = 1
    MaxAborts = 1
CHECK_DEADLOCK FALSE
INVARIANT
    NeverDoubleSent
