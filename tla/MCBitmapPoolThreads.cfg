SPECIFICATION Spec
CONSTANTS
    r1 = r1
    r2 = r2
    r3 = r3
    r4 = r4
    x1 = x1
    x2 = x2
    x3 = x3
    n1 = n1
    n2 = n2
    Refs <- MCRefs
    Textures <- MCTwoTextures
    Nodes <- MCOneNode
    NoRef = NoRef
    NoTexture = NoTexture
    NoNode = NoNode
    Limit = 2
    Threshold = 1
    MaxPosted = 1
    MaxMemory = 2
    TasksFail = FALSE
    UiReleases = TRUE
    UiGets = TRUE
SYMMETRY Symmetry
INVARIANTS
    LiveIsRecorded
CHECK_DEADLOCK FALSE
