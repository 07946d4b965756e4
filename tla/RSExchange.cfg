CONSTANTS
    Headers <- AllHeaders
    Bodies <- AllBodies
    Requests <- SomeRequests
    Size = 32
    CutAnywhere = FALSE
SPECIFICATION XSpec
INVARIANTS TypeOK LineByLine NothingLeftBehind Cutting
           RequestUnderstood AnswerUnderstood
CHECK_DEADLOCK FALSE
