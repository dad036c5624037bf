\* Two uses at a time of one project whose settings change, two ports.
CONSTANTS
    p1 = p1
    u1 = u1
    u2 = u2
    ann = ann
    bob = bob
    bastion = bastion
    orders = orders
    stock = stock
    port1 = port1
    port2 = port2
    small = small
    large = large
    Projects = {p1}
    Users = {ann, bob}
    Uses = {u1, u2}
    Connections <- SomeConnections
    Servers = {bastion}
    Addresses = {orders, stock}
    Ports = {port1, port2}
    Sizes = {small, large}
    Asked = {large}
    Shared = Shared
    NoServer = NoServer
    NoSize = NoSize
    NoPort = NoPort
    NoClient = NoClient
    NoProject = NoProject
    NoCredentials = NoCredentials
    Closed = Closed
SPECIFICATION Spec
CHECK_DEADLOCK FALSE
INVARIANTS
    TypeOK
    QueriesReachTheirWarehouse
PROPERTIES
    ClosingCutsNobodyOff
