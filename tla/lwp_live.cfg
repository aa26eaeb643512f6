SPECIFICATION LiveSpec
CONSTANTS
    NPROC = 2
    NTHREAD = 2
    NCPU = 1
    Calls <- MCLive
    NoMemory = TRUE
    MaxOps = 1
PROPERTIES
    ThreadsRun
CHECK_DEADLOCK FALSE
