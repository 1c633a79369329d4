SPECIFICATION Spec
CONSTANTS
    PageSize = 2
    FileSizes = {0, 1, 4, 5, 9, 12}
    MapSizes = {1, 3, 4, 6}
    SizeMax = 11
    OffMax = 15
    Descriptors = {0, 1, 2}
    BitAnd <- MCAnd
INVARIANTS
    TypeOK
    AllOrNothing
    WindowTracked
    AlignedReadStoresAll
    Released
CHECK_DEADLOCK FALSE
