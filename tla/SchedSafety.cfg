SPECIFICATION Spec
CONSTANTS
    Bsp = bsp
    APs = {a1, a2}
    Main = main
    Threads = {t1, t2}
    NULL = NULL
    Idle = Idle
    Wild = Wild
    Commanders = {main, t1, t2}
    AllocMayFail = FALSE
    TimerOn = TRUE
SYMMETRY Symmetry
INVARIANTS ListsIntact OnePlace FreeCoreIsIdle
PROPERTIES ImplementsTasks
