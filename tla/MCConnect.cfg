CONSTANTS
    Users = {u1, u2}
    ReplyLen = 2
    SndCap = 2
    ReadMax = 2
    MaxFrames = 4
    MaxCalls = 2
    OffLoopShutdown = FALSE
SPECIFICATION Spec
INVARIANTS TypeOK Backpressure RepliesInOrder OutBufferBounded CloseOnce EofLosesNothing
PROPERTY ChannelSpec
