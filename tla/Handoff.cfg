SPECIFICATION HandoffFairSpec
CONSTANTS
    o1 = o1
    o2 = o2
    d1 = d1
    Open = {o1, o2}
    Drain = {d1}
    Budgets = {"none", "short", "long"}
INVARIANTS
    AckFollowsOpens
    HandoffLosesNothing
    RetryIsSafe
PROPERTIES
    DrainIsAcked
    ShutdownEnds
CHECK_DEADLOCK FALSE
