SPECIFICATION DaemonsFairSpec
CONSTANTS
    d1 = d1
    d2 = d2
    Daemon = {d1, d2}
CHECK_DEADLOCK FALSE
INVARIANTS
    SocketPathRight
PROPERTIES
    DrainIsVisible
    NobodyWaitsForever
