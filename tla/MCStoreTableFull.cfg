SPECIFICATION TSpec
CONSTANTS
    a1 = a1
    a2 = a2
    b = b
    c = c
    ka = ka
    kb = kb
    kc = kc
    t1 = t1
    t2 = t2
    Threads = {t1}
    Vals = {a1, a2, b, c}
    Keys = {ka, kb, kc}
    KeyOf <- MCKeyOf
    Hashed <- MCHashed
    Codes <- MCCodes
    Size <- MCSize
    MaxSize = 3
    TableSize = 2
    LoadTenths = 4
    MaxHeld = 2
    None = None
PROPERTIES
    GivesUpWithoutSpace
CHECK_DEADLOCK FALSE
