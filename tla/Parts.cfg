SPECIFICATION Spec
CONSTANTS
    la = la
    lb = lb
    Label = {la, lb}
    Width <- MCWidth
    MaxCands = 3
    MaxLoad = 2
    MaxLabels = 3
    MaxRoutes = 3
    Heads <- MCHeads
    Bodies <- MCBodies
    MaxHeader = 8
    g1 = g1
    g2 = g2
    g3 = g3
    Request = {g1, g2, g3}
    Short = 1
    Long = 6
    MaxNow = 3
    Stream = {g1, g2, g3}
    MaxOpens = 3
    MaxConnects = 2
SYMMETRY Goroutines
CHECK_DEADLOCK FALSE
INVARIANTS
    PickIsBest
    MostSpecificRoute
    ConfigSound
    AltSvcExact
    CountersSound

    
