SPECIFICATION Spec
CONSTANTS
    p1 = p1
    p2 = p2
SYMMETRY Interchangeable
INVARIANTS
    NoLockCycle
CHECK_DEADLOCK FALSE
