SPECIFICATION Spec
CONSTANTS
    i1 = i1
    i2 = i2
    i3 = i3
    i4 = i4
    Indices <- MCIndices
    Windows <- MCWindows
    Sizes <- MCSizes
    EvictAfterInsert = TRUE
    MaxOpens = 5
INVARIANTS
    UsedPageIsOpen
    OpenPagesBounded
PROPERTY
    NoPageMislaid
SYMMETRY Symmetry
CHECK_DEADLOCK FALSE
