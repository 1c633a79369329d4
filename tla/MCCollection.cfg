SPECIFICATION Spec
CONSTANTS
    Unit <- MCUnit
    Streams <- MCStreams
    Modes = {FALSE, TRUE}
    StrMax = 2
    BinMax = 1
    ElmMax = 2
    FldMax = 2
    UintMax = 15
INVARIANTS
    TypeOK
    DecodesWhole
    CountEndLeavesEnd
    ArrayErrorReturned
    RejectedLeavesEnd
    FieldErrorLeavesEnd
CHECK_DEADLOCK FALSE
