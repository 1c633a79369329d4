SPECIFICATION Spec
CONSTANTS
    Unit <- MCUnit
    Streams <- MCStreams
    Modes = {FALSE, TRUE}
    StrMax = 3
    BinMax = 2
    LvMax = 2
    ElmMax = 2
    FldMax = 2
    MaxCalls = 2
INVARIANTS
    TypeOK
    WrittenInside
    DecodedIntact
    NothingElseLost
    InStep
CHECK_DEADLOCK FALSE
