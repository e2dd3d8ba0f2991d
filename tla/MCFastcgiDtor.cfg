SPECIFICATION FSpec
CONSTANTS
    Ids = {i1}
    RequestData = {d1}
    NoData = NoData
    Threads = {t1}
INVARIANTS
    DestructorNeverThrows
CHECK_DEADLOCK FALSE
