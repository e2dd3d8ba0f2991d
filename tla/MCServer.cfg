SPECIFICATION SFairSpec
CONSTANTS
    Requests = {r1, r2}
    Ids = {i1, i2}
    IoThreads = 2
    None = None
INVARIANTS
    STypeOK
    RegisteredUntilDropped
    DeleteFindsHandler
    DestructorFreesId
PROPERTIES
    ErasesOnlyDropped
    StoppedIsQuiet
    HandlerReleased
    RequestSettled
CHECK_DEADLOCK FALSE
