SPECIFICATION FairSpec
CONSTANTS
    i1 = i1
    i2 = i2
    u1 = u1
    u2 = u2
    u3 = u3
    k1 = k1
    k2 = k2
    Initer <- Initers1
    Uploader <- Uploaders2
    Completer <- Completers1
    TotalChunks = 2
    Index = {0, 1}
    Workers = 2
    QueueSize = 1
    Free = Free
    Faults = {"expire", "lockExpire", "failover", "down", "crash", "body", "db"}
INVARIANT AnsweredThenIntact
PROPERTIES ImplementsUpload CompletionAnswered
CHECK_DEADLOCK FALSE
