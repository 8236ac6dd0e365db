CONSTANTS
    Cameras = {1}
    MaxSize = 1
    MaxFrames = 1
    MaxRequests = 1
    FlagValues = {TRUE}
SPECIFICATION Spec
INVARIANTS
    HallAnalyzerAlive
CHECK_DEADLOCK FALSE
