SPECIFICATION Spec
CONSTANTS
    Ids = {i1, i2}
    RequestData = {d1, d2}
    NoData = NoData
INVARIANTS
    NeverWritesOnClosedSocket
CHECK_DEADLOCK FALSE
