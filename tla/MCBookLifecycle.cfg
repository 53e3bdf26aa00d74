SPECIFICATION FairSpec
CONSTANTS
    MaxViews = 3
    MaxLoads = 3
    Djvu = TRUE
INVARIANTS
    LoadUsesLive
    ClosedIsRecycled
    PagesAreGivenUp
    FreedOnce
PROPERTIES
    LoadEnds
    ClosedIsFreed
CHECK_DEADLOCK FALSE
