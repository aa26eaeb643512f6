SPECIFICATION Spec
CONSTANTS
    NPROC = 3
    NTHREAD = 2
    NCPU = 2
    Calls <- MCTable
    NoMemory = FALSE
    MaxOps = 0
INVARIANTS
    NoLostJoin
    OneThreadPerProcess
    NoLostChildWakeup
CHECK_DEADLOCK FALSE
