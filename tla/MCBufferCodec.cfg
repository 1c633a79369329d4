SPECIFICATION Spec
CONSTANTS
    Byte = {0, 1}
    MemSize = 3
    SizeMax = 7
    Payloads <- MCPayloads
    Sizes <- MCSizes
INVARIANTS
    TypeOK
    CursorsInBounds
PROPERTIES
    LeftIsExact
    ImplementsByteStream
