\* Two refreshes of a project; everything goes on.
CONSTANTS
    r1 = r1
    r2 = r2
    u1 = u1
    d1 = d1
    orders = orders
    sales = sales
    costs = costs
    adhoc = adhoc
    revenue = revenue
    ui = ui
    finance = finance
    core = core
    Refreshes = {r1, r2}
    Updates = {}
    Deploys = {}
    Items = {orders, sales, costs}
    Views = {}
    Tags = {ui, core}
    MetricOf <- MetricsOfItems
    Configs <- Two
    InitConfig <- Plain
    MaxEdits = 0
    MaxFaults = 0
    Initial = Initial
    None = None
SPECIFICATION FairSpec
CHECK_DEADLOCK FALSE
INVARIANTS
    TypeOK
    LockIsHeld
    ConfigurationIsWhole
    CatalogIsOwed
    DoneIsTrue
PROPERTIES
    EndedJobsStayEnded
    JobsEnd
    CatalogCatchesUp
