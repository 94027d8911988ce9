SPECIFICATION BlobSpec
CONSTANTS
    r1 = r1
    r2 = r2
    r3 = r3
    s1 = s1
    c1 = c1
    c2 = c2
    Startup = Startup
    Request <- Requests3
    Seed <- Seeds1
    Content <- Contents
    Kinds = {"create", "check", "save", "edit", "purge", "empty"}
    Faults = {"insert", "count", "disk", "crash"}
SYMMETRY Symmetric
INVARIANTS DanglingExplained OrphanExplained
CHECK_DEADLOCK FALSE
