SPECIFICATION Spec
CONSTANTS
    i1 = i1
    i2 = i2
    u1 = u1
    u2 = u2
    u3 = u3
    k1 = k1
    k2 = k2
    Initer <- Initers2
    Uploader <- Uploaders2
    Completer <- Completers2
    TotalChunks = 1
    Index = {0}
    Workers = 1
    QueueSize = 1
    Free = Free
    Faults = {"expire", "lockExpire", "db"}
SYMMETRY SymUploads2
INVARIANT OneRecordPerSession
CHECK_DEADLOCK FALSE
