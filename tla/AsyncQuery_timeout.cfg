\* One call; what the README says of tasks that time out.
CONSTANTS
    q1 = q1
    q2 = q2
    k1 = k1
    r1 = r1
    Queries = {q1}
    Keys = {k1}
    KeyOf <- SameKey
    Readers = {}
    PageSizes = {500}
    Hosts = {"main", "worker"}
    StorageEnabled = TRUE
    CacheEnabled = FALSE
    StaleTime = 4
    DefaultBuffer = 1
    MaxTime = 0
    MaxFaults = 0
    NoQuery = NoQuery
    NoSize = NoSize
SPECIFICATION Spec
CHECK_DEADLOCK FALSE
INVARIANT
    TimedOutTasksStop
