SPECIFICATION Spec
CONSTANTS
    s1 = s1
    s2 = s2
    s3 = s3
    a = a
    Session = {s1, s2, s3}
    Fingerprint = {a}
    FpOf <- MCFpOf
    V2 = {s1}
    Shared = {}
    MaxSharedSessions = 2
SYMMETRY SessionSymmetry
INVARIANTS
    ExclusivePool
    CountersExact
    NothingLeftBehind
PROPERTIES
    NoDisplacement
    ImplementsAgentPool
CHECK_DEADLOCK FALSE
