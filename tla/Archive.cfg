CONSTANTS
    Cameras = {1, 2}
    DayLen = 2
    DiskSize = 3
    MinFree = 2
    StoreTime = 2
    SegmentTime = 2
    SegmentSize = 2
    PassEvery = 2
    DirsEvery = 4
    MaxTime = 2
    MaxFrames = 3
SPECIFICATION Spec
INVARIANTS
    TypeOK
    ArchiveIsNewest
    WriterHasFile
PROPERTIES
    SpaceRecovers
    EmptyDirsGo
CHECK_DEADLOCK FALSE
