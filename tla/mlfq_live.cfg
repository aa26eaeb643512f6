SPECIFICATION FairSpec
CONSTANTS
    Calls <- LiveCalls
    NPROC = 4
    NCPU = 1
    NQUEUE = 2
    MaxPriority = 0
    QuantumBase = 1
    QuantumStep = 1
    BoostTicks = 3
    TickMod = 8
    KillPids = {2}
    SleepTimes = {4}
    SetLevels = {}
    Priorities = {}
    TickInScheduler = FALSE
    MaxPid = 3
    MaxTicks = 3
    MaxTq = 5
    MaxLockCalls = 1
INVARIANTS
    TqWithinQuantum
PROPERTIES
    NoStarvation
    LockReleased
    KilledDies
