SPECIFICATION Spec
CONSTANTS
    PageSize = 2
    FileSizes = {9}
    MapSizes = {4}
    SizeMax = 11
    OffMax = 15
    Descriptors = {0, 1}
    BitAnd <- MCAnd
INVARIANTS
    ReadStoresAll
CHECK_DEADLOCK FALSE
