SPECIFICATION SSpec
CONSTANTS
    Requests = {r1, r2}
    Ids = {i1}
    IoThreads = 2
    None = None
INVARIANTS
    IdIsFree
CHECK_DEADLOCK FALSE
