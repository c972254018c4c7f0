SPECIFICATION FairSpec
CONSTANTS
    s1 = s1
    s2 = s2
    r1 = r1
    Session = {s1, s2}
    V2 = {s1}
    Request = {r1}
    RouteOf <- MCRouteOf
    RoundRobin = {}
    AgentWait = TRUE
    MaxRetries = 1
    Turns = 2
CHECK_DEADLOCK FALSE
INVARIANTS
    AccountsExact
    JoinNotMissed
PROPERTIES
    ImplementsDelivery
    EveryRequestAnswered
