CONSTANTS
    FrameCount = 2
    TurnLimit = 2
    Dir <- TwoDirs
    QueueMax = 2
    Faults <- NoFaults
SPECIFICATION FairSpec
PROPERTY EveryTensorHandled
CHECK_DEADLOCK FALSE
