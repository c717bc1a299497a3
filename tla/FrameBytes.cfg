\* A decoder that failed is thrown away: it stops there.
CONSTANTS
    NumBytes = 40
    MinFrame = 10
    MaxFrame = 265
    MaxIdle = 2
    Filler = 255
    Traffic <- MCTraffic
SPECIFICATION ByteSpec
INVARIANTS Transparent
PROPERTIES ImplementsDecoder
CHECK_DEADLOCK FALSE
