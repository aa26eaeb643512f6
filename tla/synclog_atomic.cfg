SPECIFICATION Spec
CONSTANTS
    Caller = {p1, p2}
    Home = {b1, b2}
    Val = {v1, v2}
    None = None
    NBUF = 9
    NRESBUF = 2
    LOGSIZE = 5
    MaxHeld = 1
    OpWrites = 2
    MayCrash = TRUE
SYMMETRY Interchangeable
PROPERTIES
    AtomicCommits
