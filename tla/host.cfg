CONSTANTS
    a1 = a1
    a2 = a2
    zero = zero
    Addrs = {a1, a2}
    Nameless = zero
    MaxPlugs = 3
    BadDescriptors = TRUE
    ClientsMayClose = TRUE
SPECIFICATION FairSpec
INVARIANTS TypeOK QuietListIsRight EventsMatchList ListOwnsObjects ServiceLetsGo
PROPERTIES EventsAlternate ListFollowsPlugs
