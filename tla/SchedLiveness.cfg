SPECIFICATION FairSpec
CONSTANTS
    Bsp = bsp
    APs = {a1}
    Main = main
    Threads = {t1, t2, t3}
    NULL = NULL
    Idle = Idle
    Wild = Wild
    Commanders = {main, t1, t2, t3}
    AllocMayFail = FALSE
    TimerOn = TRUE
PROPERTIES SeenIdleIsWoken ReserveIsSeen ImplementsFairTasks
