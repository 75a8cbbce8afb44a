CONSTANTS
    FrameCount = 4
    TurnLimit = 4
    Dir <- TwoDirs
    QueueMax = 2
    Faults <- NoFaults
SPECIFICATION Spec
INVARIANT DetectionsReleased
CHECK_DEADLOCK FALSE
