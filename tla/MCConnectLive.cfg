CONSTANTS
    Users = {u1}
    ReplyLen = 2
    SndCap = 2
    ReadMax = 2
    MaxFrames = 2
    MaxCalls = 2
    OffLoopShutdown = TRUE
SPECIFICATION FairSpec
INVARIANTS Backpressure RepliesInOrder CloseOnce
PROPERTIES FramesHandled BytesFlushed CloseTakesEffect
