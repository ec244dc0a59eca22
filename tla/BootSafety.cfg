SPECIFICATION FairSpec
CONSTANTS
    a1 = a1
    a2 = a2
    a3 = a3
    bsp = bsp
    Bsp = bsp
    Order <- BspSecond
    NULL = NULL
INVARIANTS OwnBlocks AllocAlone ReportTrue TableTrue
PROPERTIES BootEnds
