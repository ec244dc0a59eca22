SPECIFICATION DevicesSpec
CONSTANTS
    Printers = {"c1", "c2"}
    Texts <- MCTexts
    MaxTokens = 3
    MaxCalls = 1
    Faulty = {"c1"}
    Callers = {"c1", "c2"}
    Sectors = {0, 1}
    MaxCount = 2
    DiskCalls = 1
    Typist = "t"
    Others = {"o"}
    Keys = {"a", "b", "enter", "back", "none"}
    MaxKeys = 4
    max_len = 3
    Mcfgs <- MCMcfgs
    Spaces <- MCSpaces
    BusesPerSegment = 4
    Funcs = 2
    Targets <- MCTargets
    Mods = {"m1", "m2", "m3", "m4", "m5"}
    Growth = 2
    MaxBlocks = 3
    Bsp = "b"
    APs = {"a1", "a2"}
INVARIANTS ScreenRight TransfersTrue  RegistryIntact LoadedIsComplete
PROPERTIES Unbroken CallsEnd
CHECK_DEADLOCK FALSE
