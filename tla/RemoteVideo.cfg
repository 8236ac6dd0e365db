CONSTANTS
    Streams = {1}
    Conns = {c1, c2}
    NoConn = NoConn
    MarkerLen = 2
    PayloadLen = 2
    Capacity = 6
    Garbage <- SmallGarbage
    MaxFrames = 2
    MaxFaults = 2
SPECIFICATION Spec
INVARIANTS
    TypeOK
    NoThreadOutlives
PROPERTIES
    PacketsIntact
    StreamsInOrder
    DeadDropped
    StopReturns
    ClientRecovers
CHECK_DEADLOCK FALSE
