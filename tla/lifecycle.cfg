CONSTANTS
    s1 = s1
    s2 = s2
    s3 = s3
    Subscribers = {s1, s2, s3}
    EventRetries = 10
    StartupMaxTime = 30
SPECIFICATION FairSpec
INVARIANTS TypeOK ReadyHasOneSubscriber
PROPERTIES StartEnds
