SPECIFICATION Spec
CONSTANTS
    p = p
    q = q
    a1 = a1
    a2 = a2
    b1 = b1
    None = None
    Proc = {p, q}
    Caller = {a1, a2, b1}
    Home <- MCHome
    Takeover = {b1}
    MaxStalls = 1
    MaxDeaths = 1
CHECK_DEADLOCK FALSE
INVARIANTS TypeOK OwnerOnDisk MapNamesHeldLock
