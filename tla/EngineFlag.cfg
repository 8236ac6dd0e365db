CONSTANTS
    Cameras = {1}
    MaxSize = 1
    MaxFrames = 1
    MaxRequests = 1
    FlagValues = {TRUE, FALSE}
SPECIFICATION Spec
INVARIANTS
    WorksUntilTold
CHECK_DEADLOCK FALSE
