SPECIFICATION Spec
CONSTANTS
    Unit <- MCUnit
    StrMax = 4
    LvMax = 3
    Str16Max = 3
    BinMax = 3
    ElmMax = 3
    FldMax = 3
    Nr16Max = 2
    FixStrMax = 1
    Str8Max = 2
    Bin8Max = 1
    Bin16Max = 2
    FixNrMax = 1
    IntWidth = {0, 1, 2}
    IdWidth = {0, 1}
    FloatWidth = 3
    DoubleWidth = 4
    Capacity = {5, 9, 13}
    MaxDepth = 3
INVARIANTS
    TypeOK
    ReadsBack
    CutIsNoticed
    SizesAnnounced
