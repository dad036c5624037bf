-------------------- MODULE WarehouseConnections_proofs --------------------
(***************************************************************************)
(* Proofs about connections to warehouses, for any projects, users, uses,  *)
(* settings and ports.                                                     *)
(***************************************************************************)
EXTENDS WarehouseConnections, TLAPS

-----------------------------------------------------------------------------
(* Types. *)

\* What is under way has its credentials, and a client once it works.
Equipped ==
    \A u \in Uses :
        /\ use[u].phase # "idle" => /\ use[u].project \in Projects
                                    /\ use[u].credentials \in Credentials
                                    /\ use[u].credentials.address \in Addresses
                                    /\ Tunnelled(use[u].credentials)
                                         => use[u].credentials.size = NoSize
        /\ use[u].phase = "working" => use[u].client \in Credentials

TInv == TypeOK /\ Equipped

LEMMA CredentialsTyped ==
  ASSUME TypeOK, NEW p \in Projects, NEW user \in Users \cup {Shared}
  PROVE  LET cs == getWarehouseCredentials(p, user)
         IN  /\ cs \in Credentials
             /\ cs.address \in Addresses
             /\ Tunnelled(cs) => cs.size = NoSize
<1>1. saved[p] \in Connections /\ saved[p] \in Connection
  BY ConnectionsAssumption DEF TypeOK
<1>2. saved[p].server = NoServer \/ saved[p].size = NoSize
  BY <1>1, ConnectionsAssumption
<1> QED BY <1>1, <1>2 DEF getWarehouseCredentials, Credentials, Connection, Tunnelled

LEMMA OverridesTyped ==
  ASSUME NEW cs \in Credentials, NEW n \in Ports \cup {NoPort},
         Tunnelled(cs) => n \in Ports
  PROVE  overrideCredentials(cs, n) \in Credentials
BY DEF overrideCredentials, Credentials

LEMMA SizesTyped ==
  ASSUME NEW cs \in Credentials, NEW size \in SomeSize
  PROVE  credentialsWithOverrides(cs, size) \in Credentials
<1>1. SizeFor(cs, size) \in SomeSize
  BY DEF SizeFor, Credentials
<1> QED BY <1>1 DEF credentialsWithOverrides, Credentials

LEMMA IdleTyped == Idle \in UseState
BY DEF Idle, UseState, Kinds, SomeSize

LEMMA PlacesTyped ==
  ASSUME NEW cs \in Credentials, cs.address \in Addresses
  PROVE  PlaceOf(cs) \in Place
BY DEF PlaceOf, Place, Credentials

LEMMA TInit == ASSUME Init PROVE TInv
<1>1. saved \in [Projects -> Connections]
  BY DEF Init
<1>2. \A u \in Uses : use[u].phase = "idle"
  BY DEF Init, Idle
<1>3. use \in [Uses -> UseState]
  BY IdleTyped DEF Init
<1> QED BY <1>1, <1>2, <1>3 DEF Init, TInv, TypeOK, Equipped

\* The step of one use.
LEMMA UseStepTyped ==
  ASSUME TInv, NEW u \in Uses, NEW x \in UseState,
         use' = [use EXCEPT ![u] = x],
         x.phase # "idle" => /\ x.project \in Projects
                             /\ x.credentials \in Credentials
                             /\ x.credentials.address \in Addresses
                             /\ Tunnelled(x.credentials) => x.credentials.size = NoSize,
         x.phase = "working" => x.client \in Credentials
  PROVE  use' \in [Uses -> UseState] /\ Equipped'
<1>1. use \in [Uses -> UseState] /\ Equipped
  BY DEF TInv, TypeOK
<1>2. use' \in [Uses -> UseState]
  BY <1>1
<1>3. \A v \in Uses : use'[v] = IF v = u THEN x ELSE use[v]
  BY <1>1
<1> QED BY <1>1, <1>2, <1>3 DEF Equipped, Tunnelled

LEMMA TStart ==
  ASSUME TInv, NEW u \in Uses, NEW p \in Projects, NEW user \in Users \cup {Shared},
         NEW size \in Asked \cup {NoSize}, NEW kind \in Kinds, Start(u, p, user, size, kind)
  PROVE  TInv'
<1> DEFINE cs == getWarehouseCredentials(p, user)
           x == [Idle EXCEPT !.phase = "connecting", !.kind = kind, !.project = p,
                             !.size = size, !.credentials = cs]
<1>1. /\ cs \in Credentials /\ cs.address \in Addresses
      /\ Tunnelled(cs) => cs.size = NoSize
  BY CredentialsTyped DEF TInv
<1>2. use' = [use EXCEPT ![u] = x]
  BY DEF Start
<1> HIDE DEF cs
<1>3. size \in SomeSize
  BY DistinctAssumption DEF SomeSize
<1>4. /\ x \in UseState /\ x.phase = "connecting" /\ x.project = p /\ x.credentials = cs
  BY <1>1, <1>3 DEF Idle, UseState, Kinds
<1> HIDE DEF x
<1>5. use' \in [Uses -> UseState] /\ Equipped'
  BY <1>1, <1>2, <1>4, UseStepTyped
<1> QED BY <1>5 DEF Start, TInv, TypeOK

\* A use whose tunnel is up, with the client it has been given.
Working(u, n, client) ==
    [use EXCEPT ![u].phase = "working", ![u].port = n, ![u].client = client]

LEMMA WorkingTyped ==
  ASSUME TInv, NEW u \in Uses, NEW n \in Ports \cup {NoPort}, Connects(u, n),
         NEW client \in Credentials, use' = Working(u, n, client)
  PROVE  /\ use' \in [Uses -> UseState] /\ Equipped'
         /\ tunnels' \in [Ports -> Place \cup {Closed}]
<1> DEFINE x == [use[u] EXCEPT !.phase = "working", !.port = n, !.client = client]
<1>1. use[u] \in UseState /\ use \in [Uses -> UseState]
  BY DEF TInv, TypeOK
<1>2. /\ use[u].project \in Projects
      /\ use[u].credentials \in Credentials
      /\ use[u].credentials.address \in Addresses
      /\ Tunnelled(use[u].credentials) => use[u].credentials.size = NoSize
  BY DEF TInv, Equipped, Connects
<1>3. use' = [use EXCEPT ![u] = x]
  BY <1>1 DEF Working
<1>4. /\ x \in UseState /\ x.project = use[u].project
      /\ x.credentials = use[u].credentials /\ x.client = client
  BY <1>1 DEF UseState
<1> HIDE DEF x
<1>5. use' \in [Uses -> UseState] /\ Equipped'
  BY <1>2, <1>3, <1>4, UseStepTyped
<1>6. PlaceOf(use[u].credentials) \in Place
  BY <1>2, PlacesTyped
<1>7. tunnels' \in [Ports -> Place \cup {Closed}]
  BY <1>6 DEF Connects, TInv, TypeOK
<1> QED BY <1>5, <1>7

\* The client that a use is given.
ClientFor(u, n) ==
    LET cs       == overrideCredentials(use[u].credentials, n)
        existing == existingClient(use[u].project, use[u].size, cs)
    IN  IF existing # NoClient THEN existing ELSE credentialsWithOverrides(cs, use[u].size)

\* Either the cache holds the credentials as they are, or the client is new.
LEMMA ClientsGiven ==
  ASSUME TInv, NEW u \in Uses, NEW n \in Ports \cup {NoPort}, Connects(u, n)
  PROVE  LET cs == overrideCredentials(use[u].credentials, n)
         IN  /\ cs \in Credentials
             /\ ClientFor(u, n) \in Credentials
             /\ \/ /\ ClientFor(u, n) = cs
                   /\ clients[CacheKey(use[u].project, use[u].size)] = cs
                \/ ClientFor(u, n) = credentialsWithOverrides(cs, use[u].size)
<1> DEFINE cs == overrideCredentials(use[u].credentials, n)
<1>1. use[u].credentials \in Credentials /\ use[u].size \in SomeSize
  BY DEF TInv, TypeOK, Equipped, Connects, UseState
<1>2. cs \in Credentials
  BY <1>1, OverridesTyped DEF Connects
<1> HIDE DEF cs
<1>3. credentialsWithOverrides(cs, use[u].size) \in Credentials
  BY <1>1, <1>2, SizesTyped
<1> QED BY <1>2, <1>3 DEF ClientFor, existingClient, cs

LEMMA TGetWarehouseClient ==
  ASSUME TInv, NEW u \in Uses, NEW n \in Ports \cup {NoPort}, GetWarehouseClient(u, n)
  PROVE  TInv'
<1> DEFINE key == CacheKey(use[u].project, use[u].size)
<1>1. Connects(u, n)
  BY DEF GetWarehouseClient
<1>2. ClientFor(u, n) \in Credentials
  BY <1>1, ClientsGiven
<1>3. /\ use' = Working(u, n, ClientFor(u, n))
      /\ clients' = [clients EXCEPT ![key] = ClientFor(u, n)]
      /\ UNCHANGED saved
  BY DEF GetWarehouseClient, Working, ClientFor
<1>4. use' \in [Uses -> UseState] /\ Equipped' /\ tunnels' \in [Ports -> Place \cup {Closed}]
  BY <1>1, <1>2, <1>3, WorkingTyped
<1>5. clients' \in [Projects \X SomeSize -> Credentials \cup {NoClient}]
  BY <1>2, <1>3 DEF TInv, TypeOK
<1> QED BY <1>3, <1>4, <1>5 DEF TInv, TypeOK

LEMMA TGetAdapter ==
  ASSUME TInv, NEW u \in Uses, NEW n \in Ports \cup {NoPort}, GetAdapter(u, n)
  PROVE  TInv'
<1> DEFINE cs == overrideCredentials(use[u].credentials, n)
<1>1. Connects(u, n) /\ use' = Working(u, n, cs) /\ UNCHANGED <<saved, clients>>
  BY DEF GetAdapter, Working
<1>2. cs \in Credentials
  BY <1>1, ClientsGiven
<1> HIDE DEF cs
<1>3. use' \in [Uses -> UseState] /\ Equipped' /\ tunnels' \in [Ports -> Place \cup {Closed}]
  BY <1>1, <1>2, WorkingTyped
<1> QED BY <1>1, <1>3 DEF TInv, TypeOK

LEMMA TBecomesIdle ==
  ASSUME TInv, NEW u \in Uses, use' = [use EXCEPT ![u] = Idle], UNCHANGED <<saved, clients>>,
         tunnels' \in [Ports -> Place \cup {Closed}]
  PROVE  TInv'
<1>1. use' \in [Uses -> UseState] /\ Equipped'
  BY IdleTyped, UseStepTyped, Idle.phase = "idle" DEF Idle
<1> QED BY <1>1 DEF TInv, TypeOK

LEMMA TClientFails ==
  ASSUME TInv, NEW u \in Uses, NEW n \in Ports \cup {NoPort}, ClientFails(u, n)
  PROVE  TInv'
<1>1. PlaceOf(use[u].credentials) \in Place
  BY PlacesTyped DEF ClientFails, Connects, TInv, Equipped
<1>2. tunnels' \in [Ports -> Place \cup {Closed}]
  BY <1>1 DEF ClientFails, Connects, TInv, TypeOK
<1> QED BY <1>2, TBecomesIdle DEF ClientFails

LEMMA DisconnectTyped ==
  ASSUME TInv, NEW u \in Uses, Disconnect(u) \/ UNCHANGED tunnels
  PROVE  tunnels' \in [Ports -> Place \cup {Closed}]
BY DEF Disconnect, TInv, TypeOK

LEMMA TTunnelBreaks ==
  ASSUME TInv, NEW n \in Ports, TunnelBreaks(n)
  PROVE  TInv'
<1>1. \A u \in Uses : /\ use[u] \in UseState
                      /\ use'[u] = IF use[u].port = n THEN [use[u] EXCEPT !.port = NoPort]
                                   ELSE use[u]
  BY DEF TunnelBreaks, TInv, TypeOK
<1>2. \A u \in Uses : /\ use'[u] \in UseState /\ use'[u].phase = use[u].phase
                      /\ use'[u].credentials = use[u].credentials
                      /\ use'[u].project = use[u].project /\ use'[u].client = use[u].client
  <2> SUFFICES ASSUME NEW u \in Uses
               PROVE  /\ use'[u] \in UseState /\ use'[u].phase = use[u].phase
                      /\ use'[u].credentials = use[u].credentials
                      /\ use'[u].project = use[u].project /\ use'[u].client = use[u].client
    OBVIOUS
  <2> DEFINE x == [use[u] EXCEPT !.port = NoPort]
  <2>1. use[u] \in UseState /\ (use'[u] = use[u] \/ use'[u] = x)
    BY <1>1
  <2>2. /\ x \in UseState /\ x.phase = use[u].phase
        /\ x.credentials = use[u].credentials
        /\ x.project = use[u].project /\ x.client = use[u].client
    BY <2>1 DEF UseState
  <2> HIDE DEF x
  <2> QED BY <2>1, <2>2
<1>3. use' \in [Uses -> UseState]
  BY <1>2 DEF TunnelBreaks
<1>4. Equipped'
  BY <1>2 DEF TInv, Equipped, Tunnelled
<1> QED BY <1>3, <1>4 DEF TunnelBreaks, TInv, TypeOK

LEMMA TStep == ASSUME TInv, [Next]_vars PROVE TInv'
<1>1. ASSUME NEW u \in Uses, NEW p \in Projects, NEW user \in Users \cup {Shared},
             NEW size \in Asked \cup {NoSize}, NEW kind \in Kinds,
             Start(u, p, user, size, kind)
      PROVE TInv'
  BY <1>1, TStart
<1>2. ASSUME NEW u \in Uses, NEW n \in Ports \cup {NoPort},
             GetWarehouseClient(u, n) \/ GetAdapter(u, n)
      PROVE TInv'
  BY <1>2, TGetWarehouseClient, TGetAdapter
<1>3. ASSUME NEW u \in Uses, ConnectFails(u) PROVE TInv'
  BY <1>3, TBecomesIdle DEF ConnectFails, TInv, TypeOK
<1>4. ASSUME NEW u \in Uses,
             \/ Succeeds(u) \/ ThrowsGuarded(u) \/ ThrowsUnguarded(u)
             \/ ReturnsConnected(u)
      PROVE TInv'
  <2>1. Ends(u) /\ (Disconnect(u) \/ UNCHANGED tunnels)
    BY <1>4 DEF Succeeds, ThrowsGuarded, ThrowsUnguarded, ReturnsConnected
  <2> QED BY <2>1, DisconnectTyped, TBecomesIdle DEF Ends
<1>5. ASSUME NEW n \in Ports, TunnelBreaks(n) PROVE TInv'
  BY <1>5, TTunnelBreaks
<1>6. ASSUME NEW p \in Projects, NEW c \in Connections, UpdateProject(p, c) PROVE TInv'
  BY <1>6 DEF UpdateProject, TInv, TypeOK, Equipped, Tunnelled
<1>7. CASE UNCHANGED vars
  BY <1>7 DEF vars, TInv, TypeOK, Equipped, Tunnelled
<1>8. ASSUME NEW u \in Uses, NEW n \in Ports \cup {NoPort}, ClientFails(u, n) PROVE TInv'
  BY <1>8, TClientFails
<1> QED BY <1>1, <1>2, <1>3, <1>4, <1>5, <1>6, <1>7, <1>8 DEF Next

\* Settings, cached clients, ports and uses keep their types, and what is under way
\* has credentials whose address is one of a warehouse.
THEOREM TypeCorrect == Spec => []TypeOK
<1>1. Init => TInv
  BY TInit
<1>2. TInv /\ [Next]_vars => TInv'
  BY TStep
<1>3. TInv => TypeOK
  BY DEF TInv
<1> QED BY <1>1, <1>2, <1>3, PTL DEF Spec

-----------------------------------------------------------------------------
(* Where the queries of a use end up. *)

\* A use holds a port only while it works; its client is the one that its credentials
\* ask for, at the port of the tunnel, if there is one and it is not broken.
Furnished(x) ==
    /\ x.phase # "working" => x.port = NoPort
    /\ x.kind = "adapter" => x.size = NoSize
    /\ x.phase = "working" =>
         /\ x.client.user = x.credentials.user
         /\ x.client.size = SizeFor(x.credentials, x.size)
         /\ ~Tunnelled(x.credentials) => x.client.address = x.credentials.address
         /\ x.port # NoPort => Tunnelled(x.credentials) /\ x.client.address = x.port

\* The ports that are held lead to the warehouses of their holders, and nobody
\* else holds them.
PortsHeld ==
    /\ \A u \in Uses : use[u].port # NoPort
         => tunnels[use[u].port] = PlaceOf(use[u].credentials)
    /\ \A u, v \in Uses : u # v /\ use[u].port = use[v].port => use[u].port = NoPort

\* A cached client has the size that its key asks for.
ClientsFit ==
    \A p \in Projects, size \in SomeSize :
        LET client == clients[CacheKey(p, size)]
        IN  client # NoClient => SizeFor(client, size) = client.size

IInv == TInv /\ (\A u \in Uses : Furnished(use[u])) /\ PortsHeld /\ ClientsFit

LEMMA IInit == ASSUME Init PROVE IInv
<1>1. TInv
  BY TInit
<1>2. \A u \in Uses : use[u] = Idle
  BY DEF Init
<1>3. ClientsFit
  BY DEF Init, ClientsFit, CacheKey
<1> QED BY <1>1, <1>2, <1>3 DEF IInv, Furnished, PortsHeld, Idle

LEMMA IdleFurnished == Furnished(Idle) /\ Idle.port = NoPort
BY DEF Idle, Furnished

\* The step of one use that holds no port of others.
LEMMA UseStepFurnished ==
  ASSUME IInv, NEW u \in Uses, NEW x, use' = [use EXCEPT ![u] = x], Furnished(x),
         x.port # NoPort => tunnels'[x.port] = PlaceOf(x.credentials),
         \A v \in Uses : v # u /\ use[v].port # NoPort
             => /\ use[v].port # x.port
                /\ tunnels'[use[v].port] = tunnels[use[v].port]
  PROVE  (\A v \in Uses : Furnished(use[v]))' /\ PortsHeld'
<1>1. \A v \in Uses : use'[v] = IF v = u THEN x ELSE use[v]
  BY DEF IInv, TInv, TypeOK
<1>2. \A v \in Uses : Furnished(use'[v])
  BY <1>1 DEF IInv
<1>3. \A v \in Uses : use'[v].port # NoPort
        => tunnels'[use'[v].port] = PlaceOf(use'[v].credentials)
  BY <1>1 DEF IInv, PortsHeld
<1>4. \A v, w \in Uses : v # w /\ use'[v].port = use'[w].port => use'[v].port = NoPort
  BY <1>1 DEF IInv, PortsHeld
<1> QED BY <1>2, <1>3, <1>4 DEF PortsHeld, Furnished, SizeFor, Tunnelled, PlaceOf

\* Sizes are asked for once.
LEMMA SizesSettle ==
  ASSUME NEW cs \in Credentials, NEW size \in SomeSize
  PROVE  LET client == credentialsWithOverrides(cs, size)
         IN  /\ client.size = SizeFor(cs, size)
             /\ client.user = cs.user /\ client.address = cs.address
             /\ SizeFor(client, size) = client.size
BY DEF credentialsWithOverrides, SizeFor, Credentials

LEMMA OverridesOnlyTheAddress ==
  ASSUME NEW cs \in Credentials, NEW n
  PROVE  LET over == overrideCredentials(cs, n)
         IN  /\ over.user = cs.user /\ over.size = cs.size
             /\ \A size : SizeFor(over, size) = SizeFor(cs, size)
             /\ over.address = IF Tunnelled(cs) THEN n ELSE cs.address
BY DEF overrideCredentials, Tunnelled, SizeFor, Credentials

\* Whether it comes from the cache or not, a client is the one asked for.
LEMMA ClientsAsked ==
  ASSUME IInv, NEW u \in Uses, NEW n \in Ports \cup {NoPort}, Connects(u, n),
         use[u].kind # "adapter"
  PROVE  LET client == ClientFor(u, n)
         IN  /\ client.user = use[u].credentials.user
             /\ client.size = SizeFor(use[u].credentials, use[u].size)
             /\ client.address = IF Tunnelled(use[u].credentials) THEN n
                                 ELSE use[u].credentials.address
             /\ SizeFor(client, use[u].size) = client.size
<1> DEFINE cs == overrideCredentials(use[u].credentials, n)
<1>1. /\ use[u].credentials \in Credentials /\ use[u].size \in SomeSize
      /\ use[u].project \in Projects
  BY DEF IInv, TInv, TypeOK, Equipped, Connects, UseState
<1>2. /\ cs.user = use[u].credentials.user
      /\ SizeFor(cs, use[u].size) = SizeFor(use[u].credentials, use[u].size)
      /\ cs.address = IF Tunnelled(use[u].credentials) THEN n
                      ELSE use[u].credentials.address
  BY <1>1, OverridesOnlyTheAddress
<1>3. /\ cs \in Credentials
      /\ \/ /\ ClientFor(u, n) = cs
            /\ clients[CacheKey(use[u].project, use[u].size)] = cs
         \/ ClientFor(u, n) = credentialsWithOverrides(cs, use[u].size)
  BY ClientsGiven DEF IInv
<1> HIDE DEF cs
<1>4. CASE /\ ClientFor(u, n) = cs
           /\ clients[CacheKey(use[u].project, use[u].size)] = cs
  <2>1. cs # NoClient
    BY <1>3, DistinctAssumption
  <2>2. SizeFor(cs, use[u].size) = cs.size
    BY <1>1, <1>4, <2>1 DEF IInv, ClientsFit
  <2> QED BY <1>2, <1>4, <2>2
<1>5. CASE ClientFor(u, n) = credentialsWithOverrides(cs, use[u].size)
  BY <1>1, <1>2, <1>3, <1>5, SizesSettle
<1> QED BY <1>3, <1>4, <1>5

\* A port that is free is held by nobody.
LEMMA FreePorts ==
  ASSUME IInv, NEW n \in Ports, tunnels[n] = Closed, NEW u \in Uses
  PROVE  use[u].port # n
<1> SUFFICES ASSUME use[u].port = n PROVE FALSE
  OBVIOUS
<1>1. n # NoPort
  BY DistinctAssumption
<1>2. Closed = PlaceOf(use[u].credentials)
  BY <1>1 DEF IInv, PortsHeld
<1>3. use[u].phase = "working"
  BY <1>1 DEF IInv, Furnished
<1>4. PlaceOf(use[u].credentials) \in Place
  BY <1>3, PlacesTyped DEF IInv, TInv, Equipped
<1> QED BY <1>2, <1>4, ClosedAssumption

LEMMA WorkingFurnished ==
  ASSUME IInv, NEW u \in Uses, NEW n \in Ports \cup {NoPort}, Connects(u, n), NEW client,
         use' = Working(u, n, client),
         client.user = use[u].credentials.user,
         client.size = SizeFor(use[u].credentials, use[u].size),
         client.address = IF Tunnelled(use[u].credentials) THEN n
                          ELSE use[u].credentials.address
  PROVE  (\A v \in Uses : Furnished(use[v]))' /\ PortsHeld'
<1> DEFINE x == [use[u] EXCEPT !.phase = "working", !.port = n, !.client = client]
<1>1. use[u] \in UseState /\ use \in [Uses -> UseState] /\ Furnished(use[u])
  BY DEF IInv, TInv, TypeOK
<1>2. use' = [use EXCEPT ![u] = x]
  BY <1>1 DEF Working
<1>3. /\ x.phase = "working" /\ x.port = n /\ x.client = client
      /\ x.credentials = use[u].credentials /\ x.kind = use[u].kind /\ x.size = use[u].size
  BY <1>1 DEF UseState
<1> HIDE DEF x
<1>4. Furnished(x)
  BY <1>1, <1>3 DEF Furnished, Connects
<1>5. n # NoPort => n \in Ports /\ tunnels[n] = Closed
                    /\ tunnels' = [tunnels EXCEPT ![n] = PlaceOf(use[u].credentials)]
  BY DEF Connects
<1>6. n = NoPort => tunnels' = tunnels
  BY DistinctAssumption DEF Connects
<1>7. tunnels \in [Ports -> Place \cup {Closed}]
  BY DEF IInv, TInv, TypeOK
<1>8. x.port # NoPort => tunnels'[x.port] = PlaceOf(x.credentials)
  BY <1>3, <1>5, <1>7
<1>9. \A v \in Uses : v # u /\ use[v].port # NoPort
          => /\ use[v].port # x.port
             /\ tunnels'[use[v].port] = tunnels[use[v].port]
  <2> SUFFICES ASSUME NEW v \in Uses, use[v].port # NoPort
               PROVE  use[v].port # x.port /\ tunnels'[use[v].port] = tunnels[use[v].port]
    OBVIOUS
  <2>1. use[v].port \in Ports
    BY DEF IInv, TInv, TypeOK, UseState
  <2>2. CASE n = NoPort
    BY <1>3, <1>6, <2>2
  <2>3. CASE n # NoPort
    <3>1. use[v].port # n
      BY <1>5, <2>3, FreePorts
    <3> QED BY <1>3, <1>5, <1>7, <2>1, <2>3, <3>1
  <2> QED BY <2>2, <2>3
<1> QED BY <1>2, <1>4, <1>8, <1>9, UseStepFurnished

LEMMA SGetWarehouseClient ==
  ASSUME IInv, NEW u \in Uses, NEW n \in Ports \cup {NoPort}, GetWarehouseClient(u, n)
  PROVE  IInv'
<1> DEFINE key == CacheKey(use[u].project, use[u].size)
           client == ClientFor(u, n)
<1>1. Connects(u, n) /\ use[u].kind # "adapter"
  BY DEF GetWarehouseClient
<1>2. use' = Working(u, n, client) /\ clients' = [clients EXCEPT ![key] = client]
  BY DEF GetWarehouseClient, Working, ClientFor
<1>3. /\ client.user = use[u].credentials.user
      /\ client.size = SizeFor(use[u].credentials, use[u].size)
      /\ client.address = IF Tunnelled(use[u].credentials) THEN n
                          ELSE use[u].credentials.address
      /\ SizeFor(client, use[u].size) = client.size
  BY <1>1, ClientsAsked
<1> HIDE DEF client
<1>4. (\A v \in Uses : Furnished(use[v]))' /\ PortsHeld'
  BY <1>1, <1>2, <1>3, WorkingFurnished
<1>5. TInv'
  BY TGetWarehouseClient DEF IInv
<1>6. ClientsFit'
  <2> SUFFICES ASSUME NEW p \in Projects, NEW size \in SomeSize,
                      clients'[CacheKey(p, size)] # NoClient
               PROVE  SizeFor(clients'[CacheKey(p, size)], size)
                        = clients'[CacheKey(p, size)].size
    BY DEF ClientsFit, SizeFor, CacheKey
  <2>1. CacheKey(p, size) \in DOMAIN clients
    BY DEF IInv, TInv, TypeOK, CacheKey
  <2>2. CASE key = CacheKey(p, size)
    <3>1. clients'[CacheKey(p, size)] = client /\ size = use[u].size
      BY <1>2, <2>1, <2>2 DEF CacheKey
    <3> QED BY <1>3, <3>1
  <2>3. CASE key # CacheKey(p, size)
    <3>1. clients'[CacheKey(p, size)] = clients[CacheKey(p, size)]
      BY <1>2, <2>1, <2>3
    <3> QED BY <3>1 DEF IInv, ClientsFit
  <2> QED BY <2>2, <2>3
<1> QED BY <1>4, <1>5, <1>6 DEF IInv

LEMMA SGetAdapter ==
  ASSUME IInv, NEW u \in Uses, NEW n \in Ports \cup {NoPort}, GetAdapter(u, n)
  PROVE  IInv'
<1> DEFINE cs == use[u].credentials
           client == overrideCredentials(cs, n)
<1>1. Connects(u, n) /\ use' = Working(u, n, client) /\ UNCHANGED clients
  BY DEF GetAdapter, Working
<1>2. cs \in Credentials /\ use[u].size = NoSize
  BY DEF GetAdapter, Connects, IInv, TInv, Equipped, Furnished
<1>3. SizeFor(cs, use[u].size) = cs.size
  BY <1>2 DEF SizeFor
<1>4. /\ client.user = cs.user /\ client.size = SizeFor(cs, use[u].size)
      /\ client.address = IF Tunnelled(cs) THEN n ELSE cs.address
  BY <1>2, <1>3, OverridesOnlyTheAddress
<1> HIDE DEF client
<1>5. (\A v \in Uses : Furnished(use[v]))' /\ PortsHeld'
  BY <1>1, <1>4, WorkingFurnished
<1>6. TInv'
  BY TGetAdapter DEF IInv
<1>7. ClientsFit'
  BY <1>1 DEF IInv, ClientsFit, SizeFor, CacheKey
<1> QED BY <1>5, <1>6, <1>7 DEF IInv

\* A use that holds no port begins, or ends, whatever it does to its own port.
LEMMA SHoldsNothing ==
  ASSUME IInv, NEW u \in Uses, NEW x, use' = [use EXCEPT ![u] = x],
         Furnished(x), x.port = NoPort, UNCHANGED clients,
         Disconnect(u) \/ UNCHANGED tunnels, TInv'
  PROVE  IInv'
<1>1. \A v \in Uses : v # u /\ use[v].port # NoPort
          => /\ use[v].port # x.port
             /\ tunnels'[use[v].port] = tunnels[use[v].port]
  <2> SUFFICES ASSUME NEW v \in Uses, v # u, use[v].port # NoPort
               PROVE  tunnels'[use[v].port] = tunnels[use[v].port]
    OBVIOUS
  <2>1. use[v].port \in Ports /\ use[v].port # use[u].port
    BY DEF IInv, TInv, TypeOK, UseState, PortsHeld
  <2> QED BY <2>1 DEF Disconnect
<1>2. (\A v \in Uses : Furnished(use[v]))' /\ PortsHeld'
  BY <1>1, UseStepFurnished
<1>3. ClientsFit'
  BY DEF IInv, ClientsFit, SizeFor, CacheKey
<1> QED BY <1>2, <1>3 DEF IInv

\* The tunnel of a client that cannot be made stays open on a port that nobody holds.
LEMMA SClientFails ==
  ASSUME IInv, NEW u \in Uses, NEW n \in Ports \cup {NoPort}, ClientFails(u, n)
  PROVE  IInv'
<1>1. use' = [use EXCEPT ![u] = Idle] /\ UNCHANGED clients /\ Connects(u, n)
  BY DEF ClientFails
<1>2. \A v \in Uses : v # u /\ use[v].port # NoPort
          => /\ use[v].port # Idle.port
             /\ tunnels'[use[v].port] = tunnels[use[v].port]
  <2> SUFFICES ASSUME NEW v \in Uses, use[v].port # NoPort
               PROVE  tunnels'[use[v].port] = tunnels[use[v].port]
    BY IdleFurnished
  <2>1. use[v].port \in Ports /\ tunnels \in [Ports -> Place \cup {Closed}]
    BY DEF IInv, TInv, TypeOK, UseState
  <2>2. CASE n = NoPort
    BY <1>1, <2>2, DistinctAssumption DEF Connects
  <2>3. CASE n # NoPort
    <3>1. n \in Ports /\ tunnels[n] = Closed
          /\ tunnels' = [tunnels EXCEPT ![n] = PlaceOf(use[u].credentials)]
      BY <1>1, <2>3 DEF Connects
    <3>2. use[v].port # n
      BY <3>1, FreePorts
    <3> QED BY <2>1, <3>1, <3>2
  <2> QED BY <2>2, <2>3
<1>3. (\A v \in Uses : Furnished(use[v]))' /\ PortsHeld'
  BY <1>1, <1>2, IdleFurnished, UseStepFurnished
<1>4. ClientsFit'
  BY <1>1 DEF IInv, ClientsFit, SizeFor, CacheKey
<1>5. TInv'
  BY TClientFails DEF IInv
<1> QED BY <1>3, <1>4, <1>5 DEF IInv

LEMMA SStart ==
  ASSUME IInv, NEW u \in Uses, NEW p \in Projects, NEW user \in Users \cup {Shared},
         NEW size \in Asked \cup {NoSize}, NEW kind \in Kinds, Start(u, p, user, size, kind)
  PROVE  IInv'
<1> DEFINE cs == getWarehouseCredentials(p, user)
           x == [Idle EXCEPT !.phase = "connecting", !.kind = kind, !.project = p,
                             !.size = size, !.credentials = cs]
<1>1. use' = [use EXCEPT ![u] = x] /\ UNCHANGED <<clients, tunnels>>
  BY DEF Start
<1>2. kind = "adapter" => size = NoSize
  BY DEF Start
<1> HIDE DEF cs
<1>3. x.phase = "connecting" /\ x.port = NoPort /\ x.kind = kind /\ x.size = size
  BY DEF Idle
<1> HIDE DEF x
<1>4. Furnished(x)
  BY <1>2, <1>3 DEF Furnished
<1>5. TInv'
  BY TStart DEF IInv
<1> QED BY <1>1, <1>3, <1>4, <1>5, SHoldsNothing

LEMMA STunnelBreaks ==
  ASSUME IInv, NEW n \in Ports, TunnelBreaks(n)
  PROVE  IInv'
<1>1. /\ \A u \in Uses : use'[u] = IF use[u].port = n THEN [use[u] EXCEPT !.port = NoPort]
                                   ELSE use[u]
      /\ tunnels' = [tunnels EXCEPT ![n] = Closed] /\ UNCHANGED clients
  BY DEF TunnelBreaks
<1>2. ASSUME NEW u \in Uses
      PROVE  /\ Furnished(use'[u])
             /\ use'[u].port = IF use[u].port = n THEN NoPort ELSE use[u].port
             /\ use'[u].credentials = use[u].credentials
  <2> DEFINE x == [use[u] EXCEPT !.port = NoPort]
  <2>1. use[u] \in UseState /\ Furnished(use[u])
    BY DEF IInv, TInv, TypeOK
  <2>2. /\ x.port = NoPort /\ x.phase = use[u].phase /\ x.kind = use[u].kind
        /\ x.size = use[u].size /\ x.client = use[u].client
        /\ x.credentials = use[u].credentials
    BY <2>1 DEF UseState
  <2>3. use'[u] = IF use[u].port = n THEN x ELSE use[u]
    BY <1>1
  <2> HIDE DEF x
  <2>4. Furnished(x)
    BY <2>1, <2>2 DEF Furnished
  <2> QED BY <2>1, <2>2, <2>3, <2>4
<1>3. \A u \in Uses : use[u].port \in Ports \cup {NoPort}
  BY DEF IInv, TInv, TypeOK, UseState
<1>4. ASSUME NEW u \in Uses, use'[u].port # NoPort
      PROVE  tunnels'[use'[u].port] = PlaceOf(use'[u].credentials)
  <2>1. use[u].port # n /\ use'[u].port = use[u].port /\ use[u].port # NoPort
    BY <1>2, <1>4
  <2>2. tunnels'[use[u].port] = tunnels[use[u].port]
    BY <1>1, <1>3, <2>1 DEF IInv, TInv, TypeOK
  <2> QED BY <1>2, <2>1, <2>2 DEF IInv, PortsHeld
<1>5. \A u, v \in Uses : u # v /\ use'[u].port = use'[v].port => use'[u].port = NoPort
  BY <1>2 DEF IInv, PortsHeld
<1>6. TInv'
  BY TTunnelBreaks DEF IInv
<1>7. (\A u \in Uses : Furnished(use[u]))'
  BY <1>2 DEF Furnished, SizeFor, Tunnelled
<1>8. PortsHeld'
  BY <1>4, <1>5 DEF PortsHeld, PlaceOf
<1>9. ClientsFit'
  BY <1>1 DEF IInv, ClientsFit, SizeFor, CacheKey
<1> QED BY <1>6, <1>7, <1>8, <1>9 DEF IInv

LEMMA IStep == ASSUME IInv, [Next]_vars PROVE IInv'
<1>0. TInv'
  BY TStep DEF IInv
<1>1. ASSUME NEW u \in Uses, NEW p \in Projects, NEW user \in Users \cup {Shared},
             NEW size \in Asked \cup {NoSize}, NEW kind \in Kinds,
             Start(u, p, user, size, kind)
      PROVE IInv'
  BY <1>1, SStart
<1>2. ASSUME NEW u \in Uses, NEW n \in Ports \cup {NoPort},
             GetWarehouseClient(u, n) \/ GetAdapter(u, n)
      PROVE IInv'
  BY <1>2, SGetWarehouseClient, SGetAdapter
<1>3. ASSUME NEW u \in Uses,
             \/ ConnectFails(u) \/ Succeeds(u) \/ ThrowsGuarded(u) \/ ThrowsUnguarded(u)
             \/ ReturnsConnected(u)
      PROVE IInv'
  <2>1. /\ use' = [use EXCEPT ![u] = Idle] /\ UNCHANGED clients
        /\ Disconnect(u) \/ UNCHANGED tunnels
    BY <1>3 DEF ConnectFails, Succeeds, ThrowsGuarded, ThrowsUnguarded, ReturnsConnected, Ends
  <2> QED BY <1>0, <2>1, IdleFurnished, SHoldsNothing
<1>4. ASSUME NEW n \in Ports, TunnelBreaks(n) PROVE IInv'
  BY <1>4, STunnelBreaks
<1>5. CASE UNCHANGED <<clients, tunnels, use>>
  BY <1>0, <1>5 DEF IInv, Furnished, PortsHeld, ClientsFit, SizeFor, Tunnelled, PlaceOf,
                    CacheKey
<1>6. ASSUME NEW u \in Uses, NEW n \in Ports \cup {NoPort}, ClientFails(u, n) PROVE IInv'
  BY <1>6, SClientFails
<1> QED BY <1>1, <1>2, <1>3, <1>4, <1>5, <1>6 DEF Next, UpdateProject, vars

\* Queries run in the warehouse, as the user and with the size that the settings gave
\* when the work began, whatever _getWarehouseClient finds in its cache.
THEOREM QueriesReachTheirs == Spec => []QueriesReachTheirWarehouse
<1>1. IInv => QueriesReachTheirWarehouse
  <2> SUFFICES ASSUME IInv, NEW u \in Uses, use[u].phase = "working", ~Broken(u)
               PROVE  /\ Reached(u) = PlaceOf(use[u].credentials)
                      /\ use[u].client.user = use[u].credentials.user
                      /\ use[u].client.size = SizeFor(use[u].credentials, use[u].size)
    BY DEF QueriesReachTheirWarehouse
  <2>1. Furnished(use[u]) /\ use[u].port \in Ports \cup {NoPort}
    BY DEF IInv, TInv, TypeOK, UseState
  <2>2. Reached(u) = PlaceOf(use[u].credentials)
    <3>1. CASE Tunnelled(use[u].credentials)
      BY <2>1, <3>1 DEF Broken, Furnished, Reached, IInv, PortsHeld
    <3>2. CASE ~Tunnelled(use[u].credentials)
      <4>1. /\ use[u].client.address = use[u].credentials.address
            /\ use[u].credentials.address \in Addresses
        BY <2>1, <3>2 DEF Furnished, IInv, TInv, Equipped
      <4> QED BY <3>2, <4>1, DistinctAssumption DEF Reached, PlaceOf, Tunnelled
    <3> QED BY <3>1, <3>2
  <2> QED BY <2>1, <2>2 DEF Furnished
<1>2. Init => IInv
  BY IInit
<1>3. IInv /\ [Next]_vars => IInv'
  BY IStep
<1> QED BY <1>1, <1>2, <1>3, PTL DEF Spec

-----------------------------------------------------------------------------
(* Tunnels. *)

CutsNobodyOff ==
    \A n \in Ports, v \in Uses :
        /\ tunnels[n] # Closed /\ tunnels'[n] = Closed
        /\ use[v].phase = "working" /\ use[v].client.address = n /\ ~Broken(v)
        => /\ use[v].port = n
           /\ \A u \in Uses : u # v => use'[u] = use[u]

\* Only a disconnect and a breakdown close a tunnel.
LEMMA Closings ==
  ASSUME IInv, [Next]_vars, NEW n \in Ports, tunnels[n] # Closed, tunnels'[n] = Closed
  PROVE  \/ \E u \in Uses : use[u].port = n /\ use' = [use EXCEPT ![u] = Idle]
         \/ TunnelBreaks(n)
<1>0. tunnels \in [Ports -> Place \cup {Closed}]
  BY DEF IInv, TInv, TypeOK
<1>1. ASSUME NEW u \in Uses, NEW m \in Ports \cup {NoPort}, Connects(u, m) PROVE FALSE
  BY <1>0, <1>1 DEF Connects
<1>2. ASSUME NEW u \in Uses, Disconnect(u), use' = [use EXCEPT ![u] = Idle]
      PROVE  \E v \in Uses : use[v].port = n /\ use' = [use EXCEPT ![v] = Idle]
  BY <1>0, <1>2 DEF Disconnect
<1>3. ASSUME NEW m \in Ports, TunnelBreaks(m) PROVE TunnelBreaks(n)
  BY <1>0, <1>3 DEF TunnelBreaks
<1> QED
  BY <1>1, <1>2, <1>3 DEF Next, Start, GetWarehouseClient, GetAdapter, ClientFails,
     ConnectFails, Succeeds, ThrowsGuarded, ThrowsUnguarded, ReturnsConnected, Ends,
     UpdateProject, vars

\* A use that has not lost its tunnel and works through a port holds that port, and
\* nobody else does.
LEMMA NobodyCutOff == ASSUME IInv, [Next]_vars PROVE CutsNobodyOff
<1> SUFFICES ASSUME NEW n \in Ports, NEW v \in Uses,
                    tunnels[n] # Closed, tunnels'[n] = Closed,
                    use[v].phase = "working", use[v].client.address = n, ~Broken(v)
             PROVE  use[v].port = n /\ \A u \in Uses : u # v => use'[u] = use[u]
  BY DEF CutsNobodyOff
<1>1. use \in [Uses -> UseState] /\ Furnished(use[v])
      /\ use[v].credentials.address \in Addresses
  BY DEF IInv, TInv, TypeOK, Equipped
<1>2. use[v].port = n
  <2>1. Tunnelled(use[v].credentials)
    BY <1>1, DistinctAssumption DEF Furnished
  <2> QED BY <1>1, <2>1 DEF Furnished, Broken
<1>3. n # NoPort
  BY DistinctAssumption
<1>4. \A u \in Uses : u # v => use[u].port # n
  BY <1>2, <1>3 DEF IInv, PortsHeld
<1>5. \A u \in Uses : u # v => use'[u] = use[u]
  <2>1. ASSUME NEW w \in Uses, use[w].port = n, use' = [use EXCEPT ![w] = Idle]
        PROVE  \A u \in Uses : u # v => use'[u] = use[u]
    BY <1>1, <1>4, <2>1
  <2>2. ASSUME TunnelBreaks(n) PROVE \A u \in Uses : u # v => use'[u] = use[u]
    BY <1>4, <2>2 DEF TunnelBreaks
  <2> QED BY <2>1, <2>2, Closings
<1> QED BY <1>2, <1>5

\* When a tunnel closes, nobody but the work that opened it was working through it,
\* although clients are cached and shared and ports are used again.
THEOREM NobodyIsCutOff == Spec => ClosingCutsNobodyOff
<1>1. Init => IInv
  BY IInit
<1>2. IInv /\ [Next]_vars => IInv'
  BY IStep
<1>3. IInv /\ [Next]_vars => CutsNobodyOff
  BY NobodyCutOff
<1> QED BY <1>1, <1>2, <1>3, PTL DEF Spec, ClosingCutsNobodyOff, CutsNobodyOff
=============================================================================
