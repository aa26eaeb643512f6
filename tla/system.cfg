SPECIFICATION Spec
CONSTANTS
    thread = thread
    p1 = p1
    p2 = p2
    b1 = b1
    v1 = v1
    v2 = v2
    Nobody = Nobody
INVARIANTS
    NoLostWakeup
    ResourcesExact
    NoPanic
    TestsPass
    ProgramsEnd
    ShellRuns
    AlgorithmsExact
    HeapExact
PROPERTIES
    ImplementsLines
    ImplementsQueues
    
CHECK_DEADLOCK FALSE
