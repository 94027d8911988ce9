SPECIFICATION FairSpec
CONSTANTS
    j1 = j1
    j2 = j2
    j3 = j3
    Job <- Jobs3
    Pairs <- PairJobs
    QueueSize = 1
    BatchSize = 2
    MaxOpenConns = 1
    DbFaults = TRUE
    MayClose = TRUE
INVARIANTS LossExplained SplitExplained
PROPERTY EveryJobSettled
CHECK_DEADLOCK FALSE
