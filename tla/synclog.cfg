SPECIFICATION LiveSpec
CONSTANTS
    Caller = {p1}
    Home = {b1, b2, b3}
    Val = {v1, v2}
    None = None
    NBUF = 3
    NRESBUF = 1
    LOGSIZE = 4
    MaxHeld = 2
    OpWrites = 2
    MayCrash = TRUE
INVARIANTS
    SyncedDurable
    BuffersSuffice
PROPERTIES
    CommitAllOrNothing
    BreadReturns
