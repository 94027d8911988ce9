SPECIFICATION Spec
CONSTANTS
    u1 = u1
    u2 = u2
    u3 = u3
    k1 = k1
    k2 = k2
    Uploader <- Uploaders3
    Completer <- Completers2
    TotalChunks = 2
    Index = {0, 1, 2}
    DbFaults = TRUE
SYMMETRY Symmetry
INVARIANTS RowsBacked RecordsWhole TornExplained CompletedHasRecord
PROPERTY ImplementsUpload
CHECK_DEADLOCK FALSE
