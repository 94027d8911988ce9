SPECIFICATION Spec
CONSTANTS
    q1 = q1
    q2 = q2
    q3 = q3
    q4 = q4
    admin = admin
    customer = customer
    None = None
    Request <- Requests4
    User <- Users2
    Admin <- admin
    Staff <- Staff1
    Plans <- Plans4
    Targets <- SomeTargets
    MaxFaults = 1
    Codes = {"super_admin", "operator"}
INVARIANTS TrailFaithful RefundsExplained AccessExplained TogglesExplained PlacesExplained
CHECK_DEADLOCK FALSE
