CONSTANTS
    Producers = {p1, p2}
    Ids = {a, b}
    Used <- NormalAndHigh
    QueueMax = 3
    SkipMax = 2
    PackMax = 2
    MaxFrames = 5
SPECIFICATION FairSpec
INVARIANTS RoundInv NoLostWakeup FramesConserved SentInOrder HighBeforeNormal
PROPERTIES EveryFrameServed ImplementsService
