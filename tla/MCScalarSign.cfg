SPECIFICATION ScalarSpec
CONSTANTS
    Base = 64
    Width <- MCWidth
    FirstTag = 40
    Room = 5
    MaxItems = 2
    Values <- MCValues
    Reals <- MCReals
    Streams <- MCStreams
    Bounds <- MCBounds
    RealBounds <- MCRealBounds
INVARIANTS
    NothingOutOfRange
\* The application stops at the first failure, unless the decoder discards.
CHECK_DEADLOCK FALSE
