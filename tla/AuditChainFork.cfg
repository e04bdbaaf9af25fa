SPECIFICATION Spec
CONSTANTS
    t1 = t1
    t2 = t2
    c1 = c1
    c2 = c2
    Writer <- TwoWriters
    Checkpointer <- TwoRuns
    KeepLast <- Retention
    MaxNow = 4
INVARIANT
    CommittedChainValid
