CONSTANTS
    Headers <- TwoLines
    Bodies <- NoBody
    Requests <- NoRequests
    Size = 20
    CutAnywhere = TRUE
SPECIFICATION XSpec
INVARIANT LineByLine
CHECK_DEADLOCK FALSE
