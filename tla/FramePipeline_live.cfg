CONSTANTS
    FrameCount = 2
    TurnLimit = 3
    Dir <- TwoDirs
    QueueMax = 2
    Faults <- AllButResults
SPECIFICATION FairSpec
INVARIANTS
    PixelsOwned
    DetectionsLive
    MappingsOfRejectedOnly
    ShotOrder
PROPERTIES
    DeliversFrames
    QueuedPixelsFreed
    HandledOrStuck
    LeakNeedsFullQueue
    OrphanNeedsLateTensor
CHECK_DEADLOCK FALSE
