CONSTANTS
    p1 = p1
    p2 = p2
    t1 = t1
    t2 = t2
    s1 = s1
    s2 = s2
    s3 = s3
    none = none
    Ports = {p1, p2}
    QueriedPort = p1
    Status = {s1, s2, s3}
    Unknown = none
    Threads = {t1, t2}
    MaxQueue = 3
SPECIFICATION FairSpec
INVARIANTS TypeOK UpdatedCacheIsCurrent BroadcastIsCached
PROPERTIES CacheCatchesUp
