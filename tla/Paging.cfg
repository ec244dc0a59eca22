SPECIFICATION PagingSpec
CONSTANTS
    Fan = 2
    Mappers = {c1, c2}
    Frames = {2, 3, 4, 5, 6, 7, 8, 9}
    FirstPage = 5
    LastPage = 8
    Sizes = {1, 2, 3}
SYMMETRY MapperSymmetry
INVARIANTS AddressSpaceRight WalkInTables DirectMapComplete
CHECK_DEADLOCK FALSE
