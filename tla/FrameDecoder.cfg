\* A decoder that failed is thrown away: it stops there.
CONSTANTS
    NumBytes = 6
    MinFrame = 2
    MaxFrame = 4
    MaxIdle = 2
SPECIFICATION Spec
INVARIANTS TypeOK NoneLost DelayBounded AllSalvaged
PROPERTIES ArrivedNeverCut ImplementsStream
CHECK_DEADLOCK FALSE
