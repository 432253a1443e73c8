SPECIFICATION Spec
CONSTANTS
    p = p
    q = q
    a1 = a1
    a2 = a2
    b1 = b1
    None = None
    Proc = {p, q}
    Caller = {a1, a2, b1}
    Home <- MCHome
    Takeover = {}
    MaxStalls = 0
    MaxDeaths = 0
CHECK_DEADLOCK FALSE
INVARIANT SingleWriter
