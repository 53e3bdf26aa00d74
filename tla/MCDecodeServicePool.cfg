SPECIFICATION FairSpec
CONSTANTS
    n1 = n1
    n2 = n2
    z1 = z1
    z2 = z2
    Nodes <- MCNodes
    Zooms <- MCOneZoom
    MaxTasks = 2
    MaxSearches = 2
    NoTask = NoTask
    NoZoom = NoZoom
PROPERTIES
    ImplementsPool
    SpinnerStops
    WorkerEnds
    SearchAnswered
CHECK_DEADLOCK FALSE
