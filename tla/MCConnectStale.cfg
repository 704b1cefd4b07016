CONSTANTS
    Users = {u1}
    ReplyLen = 1
    SndCap = 1
    ReadMax = 1
    MaxFrames = 1
    MaxCalls = 2
    OffLoopShutdown = FALSE
SPECIFICATION Spec
INVARIANT NoUseAfterClose
