CONSTANTS
    B = 2
    K = 2
    Files <- Partial
    Hole = 0
    R = 1
SPECIFICATION Spec
INVARIANTS TypeOK MarkedIsKept KeptIsMarked
CHECK_DEADLOCK FALSE
