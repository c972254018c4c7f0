SPECIFICATION FairSpec
CONSTANTS
    t1 = t1
    t2 = t2
    q1 = q1
    Tcp = {t1, t2}
    OffHTTP3 = {t2}
    Quic = {q1}
    Cap = 2
    MaxActive = 2
CHECK_DEADLOCK FALSE
INVARIANTS
    SlotsExact
PROPERTIES
    RequestsNotCut
    
    ServeEnds
