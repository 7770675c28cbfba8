SPECIFICATION FairSpec
CONSTANTS
    u1 = u1
    u2 = u2
    e1 = e1
    n1 = n1
    n2 = n2
    k1 = k1
    w1 = w1
    w2 = w2
    Users = {u1, u2}
    Emails = {e1}
    Names = {n1, n2}
    Wakes = {k1}
    Thresholds = {}
    Workers = {w1, w2}
    TTL = 2
    DefaultWake = "Jarvis"
    DefaultThreshold = 100
    None = None
INVARIANTS
    StaleIsExplained
    OneAccountPerEmail
    RefusedOnlyWhenGone
PROPERTIES
    StaleExpires
    DefaultsNeverOverwrite
CHECK_DEADLOCK FALSE
