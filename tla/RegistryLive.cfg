SPECIFICATION FairSpec
CONSTANTS
    s1 = s1
    s2 = s2
    s3 = s3
    a = a
    Session = {s1, s2}
    Fingerprint = {a}
    FpOf <- MCFpOf
    V2 = {s1, s2}
    Shared = {}
    MaxSharedSessions = 2
PROPERTIES
    SessionsEnd
CHECK_DEADLOCK FALSE
