CONSTANTS
    FrameCount = 3
    TurnLimit = 3
    Dir <- TwoDirs
    QueueMax = 1
    Faults <- NoFaults
SPECIFICATION FairSpec
PROPERTY EveryImageHandled
CHECK_DEADLOCK FALSE
