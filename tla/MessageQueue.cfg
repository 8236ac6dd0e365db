CONSTANTS
    MaxSize = 2
    MaxSent = 7
SPECIFICATION Spec
INVARIANTS
    TypeOK
    QueueIsNewest
PROPERTIES
    LossExplained
    RefinesFifo
    Settled
CHECK_DEADLOCK FALSE
