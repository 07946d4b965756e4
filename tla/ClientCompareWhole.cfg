CONSTANTS
    B = 2
    K = 2
    Files <- Whole
    Hole = 0
    R = 1
SPECIFICATION Spec
INVARIANT MarksAreBlocks
CHECK_DEADLOCK FALSE
