SPECIFICATION Spec
CONSTANTS
    i1 = i1
    i2 = i2
    f1 = f1
    a1 = a1
    p1 = p1
    p2 = p2
    Ingester <- TwoLoops
    Follower <- OneFollower
    Account <- OneAccount
    Payload <- OneBody
    AccountOf <- SameAccount
    Downstream <- ScoringOnly
    MaxRetries = 3
    MaxJobs = 2
    MaxRequeues = 1
    LockOutlivesJob = TRUE
CHECK_DEADLOCK FALSE
INVARIANTS
    TypeOK
    OneIngestionPerAccount
PROPERTIES
    KeepsEveryJob
    QueuesDrain
    LockIsFreed
