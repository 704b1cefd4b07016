CONSTANTS
    NumLoops = 2
    Addrs = {a1, a2}
    MaxConns = 2
    StopAfterStart = FALSE
SYMMETRY AddrSymmetry
SPECIFICATION Spec
INVARIANTS TypeOK PoolHoldsOpen MissingOnlyForNamesake StopAsksAll
PROPERTY SessionSpec
CHECK_DEADLOCK FALSE
