SPECIFICATION FairSpec
CONSTANTS
    Unit <- MCUnit
    StrMax = 2
    BinMax = 1
    ElmMax = 2
    FldMax = 1
    UintMax = 15
    MaxLen = 5
    Counts = {2, 3}
PROPERTIES
    Terminates
INVARIANTS
    TypeOK
    LoopsAlive
    DepthBounded
    AgreesWithLayout
CHECK_DEADLOCK FALSE
