CONSTANTS
    Cameras = {c1}
    Timeout = 1
    MaxPeriod = 2
    CallGap = 2
    MaxTime = 7
SPECIFICATION Spec
INVARIANTS
    TypeOK
    PeriodsDisjoint
    EverySightingKept
    NoLongSilence
    OpenPeriodBounded
CHECK_DEADLOCK FALSE
