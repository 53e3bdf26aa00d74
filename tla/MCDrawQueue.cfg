SPECIFICATION FairSpec
CONSTANTS
    Capacity = 2
    MaxStates = 6
    MaxSurfaces = 3
INVARIANTS
    DrawsOnSurface
PROPERTIES
    ImplementsScreen
    EachIsDrawn
    JoinEnds
CHECK_DEADLOCK FALSE
