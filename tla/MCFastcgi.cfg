SPECIFICATION FFairSpec
CONSTANTS
    Ids = {i1, i2}
    RequestData = {d1, d2}
    NoData = NoData
    Threads = {t1, t2}
INVARIANTS
    FTypeOK
    ErasedOnceAfterClose
    NotErasedBeforeDelivery
PROPERTIES
    CallbacksFindConnection
    ImplementsConnection
    ClosedIsErased
    DeliveredIsSettled
CHECK_DEADLOCK FALSE
