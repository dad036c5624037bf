\* Two calls with one key; any one crash or lost database answer.
CONSTANTS
    q1 = q1
    q2 = q2
    k1 = k1
    r1 = r1
    Queries = {q1, q2}
    Keys = {k1}
    KeyOf <- SameKey
    Readers = {r1}
    PageSizes = {500}
    Hosts = {"main", "worker"}
    StorageEnabled = TRUE
    CacheEnabled = TRUE
    StaleTime = 2
    DefaultBuffer = 1
    MaxTime = 1
    MaxFaults = 1
    NoQuery = NoQuery
    NoSize = NoSize
SYMMETRY Symmetry
SPECIFICATION Spec
CHECK_DEADLOCK FALSE
INVARIANTS
    TypeOK
    NamedFilesAreComplete
PROPERTIES
    OnlyPendingBecomesReady
    ResultsWrittenOnce
    ImplementsQueryResults
    WarehouseAskedOnce
