CONSTANTS
    NumLoops = 1
    Addrs = {a1}
    MaxConns = 1
    StopAfterStart = TRUE
SPECIFICATION Spec
INVARIANT StopClosesConnections
CHECK_DEADLOCK FALSE
