SPECIFICATION Spec
CONSTANTS
    a = a
    b = b
    Letters = {a, b}
    Blank = Blank
    Ignored = Ignored
    Empty = Empty
    Styles = {s1, s2}
    None = None
    Patterns <- MCPatterns
    MaxGlyphs = 3
INVARIANTS
    NothingIsLost
    HitsAreMatches
    HangsOnlyAtTheEnd
    EverythingFreed
    HarmOnlyAfterThrow
CHECK_DEADLOCK FALSE
