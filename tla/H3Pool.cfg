SPECIFICATION FairSpec
CONSTANTS
    r1 = r1
    r2 = r2
    r3 = r3
    c1 = c1
    c2 = c2
    a1 = a1
    s1 = s1
    s2 = s2
    Request = {r1, r2, r3}
    Tcp = {r3}
    Conn = {c1, c2}
    ConnOf <- MCConnOf
    Agent = {a1}
    Stream = {s1, s2}
    Cap = 2
    MaxKeptPerConn = 1
CHECK_DEADLOCK FALSE
INVARIANTS
    SlotsExact
    
    NothingKeptInTheWay
PROPERTIES
    DrainNotHeldUp
