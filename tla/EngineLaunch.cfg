CONSTANTS
    Cameras = {1, 2}
    MaxSize = 0
    MaxFrames = 1
    MaxRequests = 1
    FlagValues = {TRUE}
SPECIFICATION Spec
INVARIANTS
    QueuesBounded
    RelaunchFromScratch
    RecorderPresent
    UsersGoFirst
CHECK_DEADLOCK FALSE
