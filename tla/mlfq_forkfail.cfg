SPECIFICATION Spec
CONSTANTS
    Calls <- ForkFailCalls
    NPROC = 3
    NCPU = 1
    NQUEUE = 2
    MaxPriority = 1
    QuantumBase = 1
    QuantumStep = 1
    BoostTicks = 2
    TickMod = 8
    KillPids = {}
    SleepTimes = {}
    SetLevels = {}
    Priorities = {}
    TickInScheduler = TRUE
    MaxPid = 4
    MaxTicks = 3
    MaxTq = 5
    MaxLockCalls = 1
INVARIANTS
    NoQueuePanic
CHECK_DEADLOCK FALSE
