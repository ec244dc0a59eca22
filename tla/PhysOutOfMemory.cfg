SPECIFICATION Spec
CONSTANTS
    PageSize = 2
    Word = 32
    BitmapPages = 10
    Regions <- OneRegion
    Sizes = {1, 3, 6}
INVARIANTS OutOfMemoryIsTrue
