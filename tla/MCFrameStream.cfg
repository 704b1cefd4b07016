CONSTANTS
    Base = 4
    Inputs <- AllInputs
    MaxLen = 6
    MaxMessages = 3
    MinMessage = 0
    MaxMessage = 3
SPECIFICATION Spec
INVARIANTS TypeOK NoByteLost FramesMatch CompleteHandled
CHECK_DEADLOCK FALSE
