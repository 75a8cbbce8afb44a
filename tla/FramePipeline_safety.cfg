CONSTANTS
    FrameCount = 3
    TurnLimit = 3
    Dir <- TwoDirs
    QueueMax = 2
    Faults <- AllButCrops
SPECIFICATION Spec
INVARIANTS
    TypeOK
    QueueBounded
    ResultsReleased
PROPERTY CameraKeepsDirs
CHECK_DEADLOCK FALSE
