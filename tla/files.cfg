SPECIFICATION Spec
CONSTANTS
    p1 = p1
    p2 = p2
SYMMETRY Interchangeable
INVARIANTS
    RefsCount
    NamesAlive
    BlocksExact
    ReadsBack
    WaitersWoken
PROPERTIES
    CacheTransparent
CHECK_DEADLOCK FALSE
