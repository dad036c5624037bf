\* Two calls with one key and a clock that passes the first expiry.
CONSTANTS
    q1 = q1
    q2 = q2
    k1 = k1
    r1 = r1
    Queries = {q1, q2}
    Keys = {k1}
    KeyOf <- SameKey
    Readers = {}
    PageSizes = {500}
    Hosts = {"main"}
    StorageEnabled = TRUE
    CacheEnabled = TRUE
    StaleTime = 8
    DefaultBuffer = 2
    MaxTime = 9
    MaxFaults = 0
    NoQuery = NoQuery
    NoSize = NoSize
SYMMETRY Symmetry
SPECIFICATION Spec
CHECK_DEADLOCK FALSE
INVARIANTS
    FilesExpireWithTheirData
    CacheHitsOutliveBuffer
