SPECIFICATION TSpec
CONSTANTS
    a1 = a1
    a2 = a2
    b = b
    c = c
    ka = ka
    kb = kb
    kc = kc
    t1 = t1
    t2 = t2
    Threads = {t1, t2}
    Vals = {a1, a2, b, c}
    Keys = {ka, kb, kc}
    KeyOf <- MCKeyOf
    Hashed <- MCHashed
    Codes <- MCCodes
    Size <- MCSize
    MaxSize = 3
    TableSize = 2
    LoadTenths = 4
    MaxHeld = 2
    None = None
INVARIANTS
    RefsKeepAlive
    HashIsTheList
    PinnedIsStored
    TableIsHash
    StoreFits
PROPERTIES
    ImplementsStorable
SYMMETRY Symmetry
CHECK_DEADLOCK FALSE
