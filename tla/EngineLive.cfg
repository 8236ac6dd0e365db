CONSTANTS
    Cameras = {1}
    MaxSize = 1
    MaxFrames = 1
    MaxRequests = 1
    FlagValues = {TRUE}
SPECIFICATION FairSpec
PROPERTIES
    LaunchRetried
    ShutdownCompletes
    FramesSettle
CHECK_DEADLOCK FALSE
