SPECIFICATION Spec
CONSTANTS
    PageSize = 2
    Word = 32
    BitmapPages = 10
    Regions <- TwoRegions
    Sizes = {0, 1, 3, 4, 6, 31}
INVARIANTS BitmapExact LargeEnough ScanIsFirstFit
PROPERTIES ImplementsFrames
