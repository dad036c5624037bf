\* An update and a deployment, any one crash or failed call, and users who edit the catalog in between.
CONSTANTS
    r1 = r1
    r2 = r2
    u1 = u1
    d1 = d1
    orders = orders
    sales = sales
    costs = costs
    adhoc = adhoc
    revenue = revenue
    ui = ui
    finance = finance
    core = core
    Refreshes = {}
    Updates = {u1}
    Deploys = {d1}
    Items = {orders, sales, costs, adhoc}
    Views = {adhoc}
    Tags = {ui, finance, core}
    MetricOf <- MetricsOfItems
    Configs <- Two
    InitConfig <- Plain
    MaxEdits = 1
    MaxFaults = 1
    Initial = Initial
    None = None
SPECIFICATION Spec
CONSTRAINT EditOrFault
ACTION_CONSTRAINTS
    OneAtATime
    OwnTags
CHECK_DEADLOCK FALSE
INVARIANTS
    DoneIsTrue
PROPERTIES
    EndedJobsStayEnded
    TagsAndIconsSurvive
    MetricsTreeSurvives
