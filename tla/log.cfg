SPECIFICATION LiveSpec
CONSTANTS
    Caller = {p1, p2}
    Home = {b1, b2, b3}
    Val = {x, y}
    None = None
    MAXOPBLOCKS = 2
    LOGSIZE = 4
    NLOG = 4
    OpWrites = 1
INVARIANTS
    DurableWhenQuiet
    ReservationSuffices
PROPERTIES
    AtomicCommits
    SleepersWoken
