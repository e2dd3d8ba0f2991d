SPECIFICATION SSpec
CONSTANTS
    Requests = {r1, r2}
    Ids = {i1}
    IoThreads = 2
    None = None
INVARIANTS
    RequestOutlivesRouting
CHECK_DEADLOCK FALSE
