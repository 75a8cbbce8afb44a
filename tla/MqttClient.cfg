SPECIFICATION FairSpec
CONSTANTS
    BufSize = 9
    Header = 1
    ConnectSize = 2
    PingSize = 2
    PublishSizes = {1, 3}
    PublishLimit = 3
    TimeoutLimit = 1
INVARIANTS
    TypeOK
    Layout
    FramingHolds
    AcksMatch
    NothingForgotten
PROPERTIES
    DeliversMessages
    PublishesArrive
\* After an error of the connection nothing is sent any more.
CHECK_DEADLOCK FALSE
