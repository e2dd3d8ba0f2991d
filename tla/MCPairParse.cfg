SPECIFICATION PairSpec
CONSTANTS
    Base = 4
    Lists <- MCLists
    Others <- MCOthers
INVARIANTS
    ReadsInBounds
    ParsesWholePairs
CHECK_DEADLOCK FALSE
