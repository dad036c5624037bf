\* An alert that fires once; the message on disabling it.
CONSTANTS
    s1 = s1
    s2 = s2
    c1 = c1
    c2 = c2
    p1 = p1
    p2 = p2
    h1 = h1
    h2 = h2
    slack = slack
    email = email
    Schedulers = {s1}
    Crons = {c1}
    RunsAt <- TwoCrons
    Alerts = {s1}
    OnceAlerts = {s1}
    Images = {}
    Targets = {slack}
    Requests = {}
    Handlers = {h1}
    DayLength = 3
    MaxTime = 2
    MaxFaults = 0
    NoScheduler = NoScheduler
    NoCron = NoCron
    Daily = Daily
SPECIFICATION Spec
CHECK_DEADLOCK FALSE
PROPERTIES
    FiredAlertsAreSent
