SPECIFICATION FairSpec
CONSTANTS
    p1 = p1
    p2 = p2
    w1 = w1
    w2 = w2
    v1 = v1
    o1 = o1
    o2 = o2
    None = None
    Pods = {p1, p2}
    PodSpec <- TwoWorkloads
    Workloads = {w1, w2}
    Versions = {v1}
    Owners = {o1, o2}
    MaxRequests = 2
    MaxFaults = 1
    UserActs = TRUE
    Versioned = {w1}
INVARIANTS
    ListedUnlessRaced
    VersionsFollow
PROPERTIES
    UserAppUntouched
    EventuallyListed
CHECK_DEADLOCK FALSE
