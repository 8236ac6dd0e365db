CONSTANTS
    Cameras = {1}
    MaxSize = 1
    MaxFrames = 1
    MaxRequests = 1
    FlagValues = {TRUE}
SPECIFICATION Spec
INVARIANTS
    NoInadmissibleMessage
CHECK_DEADLOCK FALSE
