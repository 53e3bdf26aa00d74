SPECIFICATION Spec
CONSTANTS
    i1 = i1
    i2 = i2
    i3 = i3
    i4 = i4
    Indices <- MCIndices
    Windows <- MCOneWindow
    Sizes <- MCSizeZero
    EvictAfterInsert = TRUE
    MaxOpens = 2
INVARIANT
    UsedPageIsOpen
SYMMETRY Symmetry
CHECK_DEADLOCK FALSE
