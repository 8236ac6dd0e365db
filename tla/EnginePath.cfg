CONSTANTS
    Cameras = {1}
    MaxSize = 1
    MaxFrames = 3
    MaxRequests = 1
    FlagValues = {TRUE, FALSE}
SPECIFICATION Spec
INVARIANTS
    TypeOK
    NoRectsWithoutSignal
    RectsInOrder
PROPERTIES
    FramesInOrder
CHECK_DEADLOCK FALSE
