------------------------ MODULE WarehouseConnections ------------------------
(***************************************************************************)
(* Connections to the warehouses of projects in one process.  Whoever asks *)
(* a warehouse opens an SSH tunnel, if the project has one, on a local     *)
(* port that the operating system picks, takes the warehouse client of the *)
(* project from a cache, or makes one, and closes the tunnel at the end.   *)
(* The cache is never invalidated: a client is taken if its credentials    *)
(* are the ones it would be made with now, the local port among them.      *)
(***************************************************************************)
CONSTANTS
    Projects,
    Users,
    Uses,          \* pieces of work that may be in progress together
    Connections,   \* warehouse settings that projects may have
    Servers,       \* SSH servers
    Addresses,     \* hosts and ports of warehouses
    Ports,         \* local ports
    Sizes,         \* Snowflake warehouses or Databricks computes
    Asked,         \* of these, the ones that explores ask for
    Shared,        \* the user of a project's own credentials
    NoServer, NoSize, NoPort, NoClient, NoProject, NoCredentials,
    Closed

VARIABLES
    saved,     \* the settings of each project
    clients,   \* warehouseClients of ProjectService
    tunnels,   \* where the open local ports lead to
    use

vars == <<saved, clients, tunnels, use>>

SomeServer == Servers \cup {NoServer}
SomeSize == Sizes \cup {NoSize}

\* override: the setting that makes explores' own choice of a size ignored.
Connection == [server: SomeServer, address: Addresses, size: SomeSize,
               override: BOOLEAN, personal: BOOLEAN]

\* Credentials of a connection; behind a tunnel the address is a local port.
Credentials == [server: SomeServer, address: Addresses \cup Ports, size: SomeSize,
                override: BOOLEAN, user: Users \cup {Shared}]

\* Only Postgres and Redshift have tunnels, only Snowflake and Databricks have sizes.
ASSUME ConnectionsAssumption ==
    /\ Connections \subseteq Connection
    /\ \A c \in Connections : c.server = NoServer \/ c.size = NoSize
ASSUME DistinctAssumption ==
    /\ Ports \cap Addresses = {}
    /\ Asked \subseteq Sizes
    /\ NoServer \notin Servers /\ NoSize \notin Sizes /\ NoPort \notin Ports
    /\ NoClient \notin Credentials /\ NoCredentials \notin Credentials

Place == [server: SomeServer, address: Addresses]
ASSUME ClosedAssumption == Closed \notin Place

\* execute: a query that AsyncQueryService executes; query: whatever else asks for a
\* client; adapter: a test or a compilation of the project.
Kinds == {"execute", "query", "adapter"}

UseState == [phase: {"idle", "connecting", "working"},
             kind: Kinds,
             project: Projects \cup {NoProject},
             size: SomeSize,                          \* what the explore asks for
             credentials: Credentials \cup {NoCredentials},
             client: Credentials \cup {NoClient},
             port: Ports \cup {NoPort}]               \* of its tunnel, while open

Idle == [phase |-> "idle", kind |-> "query", project |-> NoProject, size |-> NoSize,
         credentials |-> NoCredentials, client |-> NoClient, port |-> NoPort]

TypeOK ==
    /\ saved \in [Projects -> Connections]
    /\ clients \in [Projects \X SomeSize -> Credentials \cup {NoClient}]
    /\ tunnels \in [Ports -> Place \cup {Closed}]
    /\ use \in [Uses -> UseState]

Init ==
    /\ saved \in [Projects -> Connections]
    /\ clients = [k \in Projects \X SomeSize |-> NoClient]
    /\ tunnels = [n \in Ports |-> Closed]
    /\ use = [u \in Uses |-> Idle]

-----------------------------------------------------------------------------
(* Credentials and clients. *)

\* The credentials of the project, or the user's own where the project requires it.
getWarehouseCredentials(p, user) ==
    [server |-> saved[p].server, address |-> saved[p].address, size |-> saved[p].size,
     override |-> saved[p].override,
     user |-> IF saved[p].personal THEN user ELSE Shared]

Tunnelled(cs) == cs.server # NoServer
PlaceOf(cs) == [server |-> cs.server, address |-> cs.address]

\* Mutant: the address is overridden without a tunnel, too.
overrideCredentialsAlways(cs, n) == [cs EXCEPT !.address = n]

\* overrideCredentials of a tunnel that listens on a port.
overrideCredentials(cs, n) == IF Tunnelled(cs) THEN [cs EXCEPT !.address = n] ELSE cs

\* getSnowflakeWarehouse, getDatabricksHttpPath: the size an explore asks for.
SizeFor(cs, size) ==
    IF cs.size = NoSize \/ cs.override \/ size = NoSize THEN cs.size ELSE size

credentialsWithOverrides(cs, size) == [cs EXCEPT !.size = SizeFor(cs, size)]

CacheKey(p, size) == <<p, size>>

\* Mutant: clients are compared as if there were no tunnels.
existingClientAnyPort(p, size, cs) ==
    LET client == clients[CacheKey(p, size)]
    IN  IF client # NoClient /\ [client EXCEPT !.address = cs.address] = cs
        THEN client ELSE NoClient

\* A cached client, compared with the credentials before the size is overridden.
existingClient(p, size, cs) ==
    IF clients[CacheKey(p, size)] = cs THEN cs ELSE NoClient

-----------------------------------------------------------------------------
(* Uses of a warehouse. *)

\* A user, or a job on behalf of one, needs the warehouse of a project.
Start(u, p, user, size, kind) ==
    /\ use[u].phase = "idle"
    /\ IF kind = "adapter" THEN user = Shared /\ size = NoSize ELSE user # Shared
    /\ use' = [use EXCEPT ![u] =
                [Idle EXCEPT !.phase = "connecting", !.kind = kind, !.project = p,
                             !.size = size,
                             !.credentials = getWarehouseCredentials(p, user)]]
    /\ UNCHANGED <<saved, clients, tunnels>>

\* Mutant: a tunnel that leads to the same place is shared.
ConnectsShared(u, n) ==
    /\ use[u].phase = "connecting"
    /\ IF Tunnelled(use[u].credentials)
       THEN /\ n \in Ports /\ tunnels[n] \in {Closed, PlaceOf(use[u].credentials)}
            /\ tunnels' = [tunnels EXCEPT ![n] = PlaceOf(use[u].credentials)]
       ELSE n = NoPort /\ UNCHANGED tunnels

\* The tunnel is up on a free port, or none is needed.
Connects(u, n) ==
    /\ use[u].phase = "connecting"
    /\ IF Tunnelled(use[u].credentials)
       THEN /\ n \in Ports /\ tunnels[n] = Closed
            /\ tunnels' = [tunnels EXCEPT ![n] = PlaceOf(use[u].credentials)]
       ELSE n = NoPort /\ UNCHANGED tunnels

\* _getWarehouseClient from the end of connect: it awaits nothing more.
GetWarehouseClient(u, n) ==
    LET cs       == overrideCredentials(use[u].credentials, n)
        key      == CacheKey(use[u].project, use[u].size)
        existing == existingClient(use[u].project, use[u].size, cs)
        client   == IF existing # NoClient THEN existing
                    ELSE credentialsWithOverrides(cs, use[u].size)
    IN  /\ use[u].kind # "adapter"
        /\ Connects(u, n)
        /\ use' = [use EXCEPT ![u].phase = "working", ![u].port = n, ![u].client = client]
        /\ clients' = [clients EXCEPT ![key] = client]
        /\ UNCHANGED saved

\* testProjectAdapter and buildAdapter make a client of their own.
GetAdapter(u, n) ==
    /\ use[u].kind = "adapter"
    /\ Connects(u, n)
    /\ use' = [use EXCEPT ![u].phase = "working", ![u].port = n,
                          ![u].client = overrideCredentials(use[u].credentials, n)]
    /\ UNCHANGED <<saved, clients>>

\* A client that is not in the cache cannot be made (a certificate is missing, a setting
\* is invalid) although the tunnel is up; nobody holds the tunnel from here on.
ClientFails(u, n) ==
    /\ use[u].kind # "adapter"
    /\ Connects(u, n)
    /\ existingClient(use[u].project, use[u].size,
                      overrideCredentials(use[u].credentials, n)) = NoClient
    /\ use' = [use EXCEPT ![u] = Idle]
    /\ UNCHANGED <<saved, clients>>

ConnectFails(u) ==
    /\ use[u].phase = "connecting"
    /\ Tunnelled(use[u].credentials)
    /\ use' = [use EXCEPT ![u] = Idle]
    /\ UNCHANGED <<saved, clients, tunnels>>

\* disconnect closes the tunnel of the use, if it is still open.
Disconnect(u) ==
    tunnels' = [n \in Ports |-> IF n = use[u].port THEN Closed ELSE tunnels[n]]

Ends(u) ==
    /\ use[u].phase = "working"
    /\ use' = [use EXCEPT ![u] = Idle]
    /\ UNCHANGED <<saved, clients>>

Succeeds(u) == Ends(u) /\ Disconnect(u)

\* Executions and compilations disconnect in a finally block.
ThrowsGuarded(u) == Ends(u) /\ use[u].kind \in {"execute", "adapter"} /\ Disconnect(u)

\* The other disconnects are skipped when the query throws, and so is the one of an
\* adapter that throws before the block is entered.
ThrowsUnguarded(u) == Ends(u) /\ use[u].kind # "execute" /\ UNCHANGED tunnels

\* The values of a filter may come from a cache; a page of results that are not stored
\* and the columns of a virtual view are never followed by a disconnect.
ReturnsConnected(u) == Ends(u) /\ use[u].kind = "query" /\ UNCHANGED tunnels

\* The SSH client or the local server reports an error, and the tunnel closes
\* itself; its user learns of it when the next query fails.
TunnelBreaks(n) ==
    /\ tunnels[n] # Closed
    /\ tunnels' = [tunnels EXCEPT ![n] = Closed]
    /\ use' = [u \in Uses |-> IF use[u].port = n THEN [use[u] EXCEPT !.port = NoPort]
                              ELSE use[u]]
    /\ UNCHANGED <<saved, clients>>

\* Settings of a project, saved by a user.
UpdateProject(p, c) ==
    /\ c # saved[p]
    /\ saved' = [saved EXCEPT ![p] = c]
    /\ UNCHANGED <<clients, tunnels, use>>

Next ==
    \/ \E u \in Uses, p \in Projects, user \in Users \cup {Shared},
          size \in Asked \cup {NoSize}, kind \in Kinds : Start(u, p, user, size, kind)
    \/ \E u \in Uses, n \in Ports \cup {NoPort} : GetWarehouseClient(u, n) \/ GetAdapter(u, n)
    \/ \E u \in Uses, n \in Ports \cup {NoPort} : ClientFails(u, n)
    \/ \E u \in Uses : ConnectFails(u)
    \/ \E u \in Uses : Succeeds(u) \/ ThrowsGuarded(u) \/ ThrowsUnguarded(u)
    \/ \E u \in Uses : ReturnsConnected(u)
    \/ \E n \in Ports : TunnelBreaks(n)
    \/ \E p \in Projects, c \in Connections : UpdateProject(p, c)

Spec == Init /\ [][Next]_vars

-----------------------------------------------------------------------------
(* Properties. *)

\* Where the queries of a use end up.
Reached(u) ==
    LET at == use[u].client.address
    IN  IF at \in Ports THEN tunnels[at] ELSE [server |-> NoServer, address |-> at]

\* The tunnel of a use has broken down.
Broken(u) == Tunnelled(use[u].credentials) /\ use[u].port = NoPort

\* Whatever the cache holds (clients of other users, of settings that were changed
\* since, of tunnels that are closed and whose port leads elsewhere by now), a
\* query runs in the warehouse, as the user and with the size that the settings
\* gave when the work began, unless its own tunnel has broken down.
QueriesReachTheirWarehouse ==
    \A u \in Uses : use[u].phase = "working" /\ ~Broken(u) =>
        /\ Reached(u) = PlaceOf(use[u].credentials)
        /\ use[u].client.user = use[u].credentials.user
        /\ use[u].client.size = SizeFor(use[u].credentials, use[u].size)

\* When a tunnel closes, because the work that opened it ends or because it breaks down,
\* nobody else is cut off: a cached client is shared by everyone whose local port is the
\* same, and a port is used again, but whoever works through the tunnel and has not lost
\* its own is the one that opened it, and its own step, or the breakdown, closes it.
ClosingCutsNobodyOff ==
    [][\A n \in Ports, v \in Uses :
         /\ tunnels[n] # Closed /\ tunnels'[n] = Closed
         /\ use[v].phase = "working" /\ use[v].client.address = n /\ ~Broken(v)
         => /\ use[v].port = n
            /\ \A u \in Uses : u # v => use'[u] = use[u]]_vars
=============================================================================
