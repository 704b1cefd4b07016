CONSTANTS
    NumLoops = 1
    Addrs = {a1}
    MaxConns = 2
    StopAfterStart = FALSE
SPECIFICATION FairSpec
PROPERTIES GoneIsClosed StopReturns
CHECK_DEADLOCK FALSE
