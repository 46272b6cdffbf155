SPECIFICATION Spec
CONSTANTS
    Exec = {e1, e2}
    Step = {1, 2, 3}
    Request = {"chain", "fork", "bad", "raise"}
    NoRequest = NoRequest
    Worker = {w1, w2}
    NoExec = NoExec
    Plan <- MCPlan
    MaxDeliveries = 3
INVARIANT AttemptLimit
CHECK_DEADLOCK FALSE
