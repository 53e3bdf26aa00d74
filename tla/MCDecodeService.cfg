SPECIFICATION Spec
CONSTANTS
    n1 = n1
    n2 = n2
    z1 = z1
    z2 = z2
    Nodes <- MCNodes
    Zooms <- MCZooms
    MaxTasks = 3
    MaxSearches = 0
    NoTask = NoTask
    NoZoom = NoZoom
SYMMETRY Symmetry
INVARIANTS
    QueueMatchesMap
    NoNodeForgotten
    ProgressIsExact
    ImagesInOrder
CHECK_DEADLOCK FALSE
