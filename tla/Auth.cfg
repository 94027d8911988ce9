SPECIFICATION Spec
CONSTANTS
    q1 = q1
    q2 = q2
    q3 = q3
    Past = Past
    Request <- Requests3
    Plans <- Plans3
    MaxFaults = 1
    Quotas = {0, 1}
INVARIANTS CodeOnce EndedOnceExplained ResetRevokes ActivationExplained QuotaExplained
CHECK_DEADLOCK FALSE
