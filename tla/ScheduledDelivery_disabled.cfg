\* One call and the midnight task; the comment on disabled schedulers.
CONSTANTS
    s1 = s1
    s2 = s2
    c1 = c1
    c2 = c2
    p1 = p1
    p2 = p2
    h1 = h1
    h2 = h2
    slack = slack
    email = email
    Schedulers = {s1}
    Crons = {c1, c2}
    RunsAt <- TwoCrons
    Alerts = {}
    OnceAlerts = {}
    Images = {}
    Targets = {}
    Requests = {p1}
    Handlers = {}
    DayLength = 3
    MaxTime = 2
    MaxFaults = 0
    NoScheduler = NoScheduler
    NoCron = NoCron
    Daily = Daily
SPECIFICATION Spec
CHECK_DEADLOCK FALSE
INVARIANTS
    DisabledSchedulersHaveNoJobs
