\* One scheduler, one fault: what deletion leaves behind.
CONSTANTS
    s1 = s1
    s2 = s2
    c1 = c1
    c2 = c2
    p1 = p1
    p2 = p2
    h1 = h1
    h2 = h2
    slack = slack
    email = email
    Schedulers = {s1}
    Crons = {c1}
    RunsAt <- TwoCrons
    Alerts = {}
    OnceAlerts = {}
    Images = {s1}
    Targets = {slack}
    Requests = {p1}
    Handlers = {h1}
    DayLength = 3
    MaxTime = 2
    MaxFaults = 1
    NoScheduler = NoScheduler
    NoCron = NoCron
    Daily = Daily
SPECIFICATION FairSpec
CHECK_DEADLOCK FALSE
PROPERTIES
    DeletedSchedulersDrain
