SPECIFICATION RunFairSpec
CONSTANTS
    h1 = h1
    h2 = h2
    Hup = {h1, h2}
    MinBackoff = 2
    MaxBackoff = 3
    MaxStreams = 1
    MaxWaits = 1
CHECK_DEADLOCK FALSE
INVARIANTS
    ShutdownInOrder
    ReloadIsSafe
PROPERTIES
    
    RunNeverHangs
