SPECIFICATION Spec
CONSTANTS
    Bsp = bsp
    APs = {a1, a2}
    Main = main
    Threads = {t1, t2}
    NULL = NULL
    Idle = Idle
    Wild = Wild
    Commanders = {}
    AllocMayFail = TRUE
    TimerOn = FALSE
SYMMETRY Symmetry
INVARIANTS NeverWild OneCpu
