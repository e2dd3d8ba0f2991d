SPECIFICATION FairSpec
CONSTANTS
    Ids = {i1, i2}
    RequestData = {d1, d2, d3}
    NoData = NoData
INVARIANTS
    IInv
    OfferedOnceWhenWhole
    ClosedOnce
    CleanClose
    CleanupAssertionsHold
PROPERTIES
    NothingOfferedAfterClose
    ReplyEndsItsOwnRequest
    ImplementsLifecycle
    EndedStaysEnded
    WindDownCompletes
    CommitSettles
CHECK_DEADLOCK FALSE
