SPECIFICATION Spec
CONSTANTS
    kernel = kernel
    driver = driver
    Callers = {c1, c2}
    Heaps = {kernel, driver}
    HeapBase <- Bases
    HeapEnd <- Ends
    Frames = {1, 2, 3}
    MaxSlots = 3
    Word = 8
    Sizes = {1, 2, 6}
SYMMETRY CallerSymmetry
INVARIANTS FramesExclusive PagesExclusive   
CHECK_DEADLOCK FALSE
