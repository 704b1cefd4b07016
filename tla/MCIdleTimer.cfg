CONSTANTS
    IdleTime = 6
    Second = 4
    WheelTick = 2
    Late = 1
    MaxNow = 24
SPECIFICATION Spec
INVARIANTS TypeOK NotTooEarly NotTooLate
CHECK_DEADLOCK FALSE
