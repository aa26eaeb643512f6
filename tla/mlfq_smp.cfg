SPECIFICATION Spec
CONSTANTS
    Calls <- SmpCalls
    NPROC = 3
    NCPU = 2
    NQUEUE = 1
    MaxPriority = 0
    QuantumBase = 1
    QuantumStep = 0
    BoostTicks = 1
    TickMod = 8
    KillPids = {}
    SleepTimes = {}
    SetLevels = {}
    Priorities = {}
    TickInScheduler = FALSE
    MaxPid = 3
    MaxTicks = 1
    MaxTq = 1
    MaxLockCalls = 1
INVARIANTS
    OneCpuPerProcess
    LockHolderLive
    NoLostChildWakeup
CHECK_DEADLOCK FALSE
