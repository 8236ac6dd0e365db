CONSTANTS
    Streams = {1}
    Conns = {c1}
    NoConn = NoConn
    MarkerLen = 4
    PayloadLen = 6
    Capacity = 20
    Garbage = {0, 1, 7}
    MaxFrames = 2
    MaxFaults = 0
SPECIFICATION Spec
PROPERTY OneCallIsEnough
CHECK_DEADLOCK FALSE
