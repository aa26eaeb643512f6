SPECIFICATION Spec
CONSTANTS
    Calls <- OneCpuCalls
    NPROC = 3
    NCPU = 1
    NQUEUE = 2
    MaxPriority = 1
    QuantumBase = 1
    QuantumStep = 0
    BoostTicks = 1
    TickMod = 8
    KillPids = {2}
    SleepTimes = {}
    SetLevels = {1}
    Priorities = {0}
    TickInScheduler = FALSE
    MaxPid = 3
    MaxTicks = 1
    MaxTq = 1
    MaxLockCalls = 1
INVARIANTS
    TypeOK
    QueuesExact
    SchedulerLockExclusive
CHECK_DEADLOCK FALSE
