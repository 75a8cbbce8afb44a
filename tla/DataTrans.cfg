SPECIFICATION FairSpec
CONSTANT SessionMax = 3
INVARIANTS
    TypeOK
    NothingLeaks
    OldRefreshersStopping
    FailureIsReported
    LiveUntilStopped
    LockedBySomebody
PROPERTIES
    RefreshersEnd
    SendReturns
\* A refresher may be cancelled with the mutex of a later session locked
\* by it; then everybody waits.
CHECK_DEADLOCK FALSE
