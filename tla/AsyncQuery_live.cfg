\* Two calls, a poller, no crashes: everything settles.
CONSTANTS
    q1 = q1
    q2 = q2
    k1 = k1
    r1 = r1
    Queries = {q1, q2}
    Keys = {k1}
    KeyOf <- SameKey
    Readers = {r1}
    PageSizes = {500}
    Hosts = {"main", "worker"}
    StorageEnabled = FALSE
    CacheEnabled = FALSE
    StaleTime = 4
    DefaultBuffer = 1
    MaxTime = 0
    MaxFaults = 0
    NoQuery = NoQuery
    NoSize = NoSize
SPECIFICATION FairSpec
CHECK_DEADLOCK FALSE
INVARIANTS
    PendingIsOwned
PROPERTIES
    PendingSettles
    PollingEnds
