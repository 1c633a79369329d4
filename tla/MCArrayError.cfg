SPECIFICATION Spec
CONSTANTS
    Unit <- MCUnit
    Streams <- ArrayStreams
    Modes = {TRUE}
    StrMax = 2
    BinMax = 1
    ElmMax = 2
    FldMax = 2
    UintMax = 15
INVARIANT
    CallbackErrorReturned
CHECK_DEADLOCK FALSE
