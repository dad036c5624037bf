\* An alert that fires once, a delivery and two calls at a time, the midnight task of two days.
CONSTANTS
    s1 = s1
    s2 = s2
    c1 = c1
    c2 = c2
    p1 = p1
    p2 = p2
    h1 = h1
    h2 = h2
    slack = slack
    email = email
    Schedulers = {s1}
    Crons = {c2}
    RunsAt <- TwoCrons
    Alerts = {s1}
    OnceAlerts = {s1}
    Images = {}
    Targets = {}
    Requests = {p1, p2}
    Handlers = {h1}
    DayLength = 3
    MaxTime = 4
    MaxFaults = 0
    NoScheduler = NoScheduler
    NoCron = NoCron
    Daily = Daily
SPECIFICATION Spec
CONSTRAINT JobsToCome
SYMMETRY CallSymmetry
CHECK_DEADLOCK FALSE
INVARIANTS
    TypeOK
    EnabledSchedulersHaveJobs
