SPECIFICATION Spec
CONSTANTS
    t1 = t1
    s1 = s1
    s2 = s2
    p1 = p1
    p2 = p2
    p3 = p3
    Logs <- LogTopic
    Tenant = {t1}
    Service = {s1, s2}
    Pattern = {p1, p2, p3}
    Distance <- Distances
    Limit = 1
    Unit = 3
    MaxCollection = 1
    Batch = 2
    Cooldown = 1
    MaxTime = 1
    MaxFaults = 1
    MaxEnds = 1
    MaxLag = 2
INVARIANTS
    AlertsAreApart
    CollectionBounded
    AbortCostsOneRow
CHECK_DEADLOCK FALSE
