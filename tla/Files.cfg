SPECIFICATION Spec
CONSTANTS
    q1 = q1
    q2 = q2
    q3 = q3
    p1 = p1
    p2 = p2
    home = home
    work = work
    nowhere = nowhere
    v1 = v1
    None = None
    Request <- Requests3
    Past = {p1, p2}
    Dir = {"a", "b"}
    Bases <- BaseSeq
    Space <- Spaces3
    Home <- home
    Nowhere <- nowhere
    Visitor = {v1}
    Stock <- Stocks
    Plans <- AllPlans
    Asked <- AskedNames
    Quota = 1
    MaxFaults = 1
INVARIANTS GhostExplained CountExplained
PROPERTIES DuplicatesExplained StrandedExplained
CHECK_DEADLOCK FALSE
