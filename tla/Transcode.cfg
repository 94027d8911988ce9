SPECIFICATION FairSpec
CONSTANTS
    r1 = r1
    r2 = r2
    r3 = r3
    None = None
    Request <- Requests3
    MaxRetry = 1
    Faults = {"download", "ffmpeg", "rename", "purge", "crash"}
INVARIANTS DoneIsWhole SourceKept PendingHonoured
PROPERTY PollingEnds
CHECK_DEADLOCK FALSE
