SPECIFICATION Spec
CONSTANTS
    d1 = d1
    d2 = d2
    b1 = b1
    b2 = b2
    Desktop <- Calls
    Browser <- Tasks
    Scenes <- MCScenes
    Version <- Versions
    DesktopPart = 1
    BrowserParts <- Parts
    HeadLen = 1
    MaxEdits = 1
SYMMETRY Symmetry
CHECK_DEADLOCK FALSE
INVARIANTS DoneExplained SyncedExplained ShownRuns
PROPERTY DoneStays
