SPECIFICATION Spec
CONSTANTS
    r1 = r1
    r2 = r2
    r3 = r3
    r4 = r4
    x1 = x1
    x2 = x2
    x3 = x3
    n1 = n1
    n2 = n2
    Refs <- MCMoreRefs
    Textures <- MCTextures
    Nodes <- MCNodes
    NoRef = NoRef
    NoTexture = NoTexture
    NoNode = NoNode
    Limit = 3
    Threshold = 1
    MaxPosted = 1
    MaxMemory = 4
    TasksFail = TRUE
    UiReleases = FALSE
    UiGets = FALSE
SYMMETRY SymmetryMore
INVARIANTS
    OneOwner
    UsedIsOwned
    InUseIsLive
    CountersExact
    PoolIsBounded
CHECK_DEADLOCK FALSE
