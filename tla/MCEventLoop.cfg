CONSTANTS
    Callers = {g1, g2}
    Loop = Loop
    NoOne = NoOne
    Fds = {f1}
    Wake = Wake
    MaxPosts = 4
SPECIFICATION FairSpec
INVARIANTS TypeOK NoLostWakeup WakeReadNeverBlocks RunsInPostingOrder PollerOpenWhileLoopRuns
PROPERTIES MailboxSpec PostedRuns StopReturns
