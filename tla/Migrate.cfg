SPECIFICATION Spec
CONSTANTS
    server = server
    authSvc = authSvc
    Service = {server, authSvc}
    Duties <- DutiesOf
    Dialects = {"mysql", "sqlite"}
    Olds <- AllOlds
    User = {"u"}
    Admin = "admin"
    Row = {"r"}
    MaxFaults = 2
INVARIANTS SchemaExplained IndexExplained OwnersHomed
PROPERTY Starts
CHECK_DEADLOCK FALSE
