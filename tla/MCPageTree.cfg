SPECIFICATION Spec
CONSTANTS
    Fanout = 2
    Levels = 3
INVARIANTS
    MaxIsExact
    NoBadAccess
CHECK_DEADLOCK FALSE
