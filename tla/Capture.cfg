CONSTANTS
    NumPins = 3
    Used = {0, 2}
    Watched = {0}
    Buffers = {1, 2, 3, 4}
    None = None
    MaxFree = 1
    MaxTime = 2
    MaxFaults = 1
SPECIFICATION Spec
INVARIANTS
    TypeOK
    RefsCounted
    HeldIntact
    PoolBounded
    OwnFrames
PROPERTIES
    ReadsInOrder
    EveryCameraRouted
CHECK_DEADLOCK FALSE
