SPECIFICATION AcpiSpec
CONSTANTS
    Callers = {c1, c2}
    TscUsers = {c1}
    Delays = {0, 2}
    Short = 3
    Long = 5
    PmPerMs = 2
    CalibrateMs = 2
    TscRate = 1
    MaxWait = 10
    Images <- MCImages
    MaxIds = 2
    N = 3
    Bsp = 2
    Rebooters = {2, 3}
    Offs = {1}
INVARIANTS GivenIsTrue OthersStopped
PROPERTIES NeverEarly DelayEnds StartupGoesOn SurvivorReboots
CHECK_DEADLOCK FALSE
