SPECIFICATION AFairSpec
CONSTANTS
    Conns = {c1, c2, c3, c4}
    NoConn = NoConn
    Empty = Empty
    IdCount = 3
INVARIANTS
    ATypeOK
    EntryIsOwn
    HandleIsOwn
    CloseIsOwn
    IdReusedOnlyAfterWrap
    MissOnlyInRace
PROPERTIES
    ClosedLeavesMap
CHECK_DEADLOCK FALSE
