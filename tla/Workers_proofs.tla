---------------------------- MODULE Workers_proofs ----------------------------
(****************************************************************************)
(* Theorems about what the session server starts and waits for, for every   *)
(* value of the constants: the services of the MCP manager (McpManager),    *)
(* the tasks of subagents (SubagentTask), the runs of combos that clients   *)
(* ask for (ComboRuns), bash commands (CommandRun), which of these run      *)
(* without a question (CommandRules), and the streamed requests to the      *)
(* model (ModelStream).                                                     *)
(****************************************************************************)
EXTENDS McpManager, SubagentTask, ComboRuns, CommandRun, CommandRules, ModelStream,
        SequenceLemmas

-----------------------------------------------------------------------------
(* The services of the MCP manager: the invariant *)

Entries == [service : Services \cup {None}, idle : Nat]

ConnPlaces ==
    {"idle", "cleanup", "closing", "spawning", "spawned", "discarding", "calling"}

ConnStates ==
    [at : ConnPlaces, server : Servers \cup {None}, close : SUBSET Services,
     service : Services \cup {None}, own : Services \cup {None}, waited : Nat]

McpTypeOK ==
    /\ clients \in [Servers -> Entries]
    /\ alive \in SUBSET Services
    /\ of_server \in [Services -> Servers \cup {None}]
    /\ conn \in [Connections -> ConnStates]

\* What a connection holds, it holds only where the code has a variable for it.
HoldsInPlace(c) ==
    /\ conn[c].at # "idle" => conn[c].server \in Servers
    /\ conn[c].own # None <=> conn[c].at \in {"spawned", "discarding"}
    /\ conn[c].close # {} => conn[c].at = "closing"

\* The owners of a service: an entry of the table, the connection that spawned it, one
\* that is about to cancel it.  There is at most one, and one if the service runs.
InTable(v)    == \E s \in Servers : clients[s].service = v
IsOwn(v)      == \E c \in Connections : conn[c].own = v
IsClosing(v)  == \E c \in Connections : v \in conn[c].close

OwnedOnce(v) ==
    /\ v \in alive <=> InTable(v) \/ IsOwn(v) \/ IsClosing(v)
    /\ ~(InTable(v) /\ IsOwn(v)) /\ ~(InTable(v) /\ IsClosing(v))
    /\ ~(IsOwn(v) /\ IsClosing(v))
    /\ \A s, t \in Servers : clients[s].service = v /\ clients[t].service = v => s = t
    /\ \A c, d \in Connections : conn[c].own = v /\ conn[d].own = v => c = d
    /\ \A c, d \in Connections : v \in conn[c].close /\ v \in conn[d].close => c = d

\* A service that was not spawned yet is nobody's.
AliveWasSpawned == \A v \in alive : of_server[v] # None

\* The service a connection waits for is in the table, and was used no longer ago than
\* the request is old.
CallIsFresh(c) ==
    /\ conn[c].at \in {"calling", "discarding"} =>
          /\ has_client(conn[c].server)
          /\ clients[conn[c].server].service = conn[c].service
          /\ clients[conn[c].server].idle <= conn[c].waited
          /\ conn[c].waited <= RequestTimeout
    /\ conn[c].at # "calling" => conn[c].waited = 0

McpInv ==
    /\ McpTypeOK
    /\ \A c \in Connections : HoldsInPlace(c)
    /\ \A v \in Services : OwnedOnce(v)
    /\ AliveWasSpawned
    /\ RequestTimeout \in 1..IdleTtl => \A c \in Connections : CallIsFresh(c)

-----------------------------------------------------------------------------
(* One connection at a time *)

\* A step of one connection changes its record alone.
LEMMA ConnStep ==
    ASSUME McpTypeOK, NEW c \in Connections, NEW k \in ConnStates,
           conn' = [conn EXCEPT ![c] = k]
    PROVE  /\ conn' \in [Connections -> ConnStates]
           /\ conn'[c] = k
           /\ \A d \in Connections : d # c => conn'[d] = conn[d]
BY DEF McpTypeOK

\* What owns nothing new and gives up nothing leaves every service its owner.
LEMMA SameOwners ==
    ASSUME \A v \in Services : OwnedOnce(v), alive' = alive,
           \A c \in Connections : conn'[c].own = conn[c].own
                                  /\ conn'[c].close = conn[c].close,
           \A s \in Servers : clients'[s].service = clients[s].service
    PROVE  \A v \in Services : OwnedOnce(v)'
BY DEF OwnedOnce, InTable, IsOwn, IsClosing

\* The records a step writes are typed.
LEMMA RecordsAreTyped ==
    /\ Idle \in ConnStates /\ Idle.own = None /\ Idle.close = {} /\ Idle.at = "idle"
    /\ Idle.waited = 0
    /\ NoEntry \in Entries /\ NoEntry.service = None
BY DEF Idle, ConnStates, ConnPlaces, NoEntry, Entries

LEMMA RequestStep ==
    ASSUME McpInv, NEW c \in Connections, NEW s \in Servers, Request(c, s)
    PROVE  McpInv'
<1> USE DEF McpInv
<1> DEFINE k == [Idle EXCEPT !.at = "cleanup", !.server = s]
<1>1. /\ k \in ConnStates /\ k.at = "cleanup" /\ k.server = s
      /\ k.own = None /\ k.close = {} /\ k.waited = 0
  BY DEF Idle, ConnStates, ConnPlaces
<1>2. conn' = [conn EXCEPT ![c] = k] /\ conn[c].at = "idle"
      /\ UNCHANGED <<clients, alive, of_server>>
  BY DEF Request
<1> HIDE DEF k
<1>3. /\ conn' \in [Connections -> ConnStates]
      /\ conn'[c] = k
      /\ \A d \in Connections : d # c => conn'[d] = conn[d]
  BY <1>1, <1>2, ConnStep
<1>4. \A d \in Connections : HoldsInPlace(d)'
  BY <1>1, <1>3, McpAssumption DEF HoldsInPlace
<1>5. \A v \in Services : OwnedOnce(v)'
  BY <1>1, <1>2, <1>3, SameOwners DEF HoldsInPlace
<1>6. AliveWasSpawned' /\ McpTypeOK'
  BY <1>2, <1>3 DEF AliveWasSpawned, McpTypeOK
<1>7. RequestTimeout \in 1..IdleTtl => \A d \in Connections : CallIsFresh(d)'
  BY <1>1, <1>2, <1>3 DEF CallIsFresh, has_client
<1> QED
  BY <1>4, <1>5, <1>6, <1>7

LEMMA IdleStep ==
    ASSUME McpInv, NEW c \in Connections, SpawnFails(c) \/ Answer(c)
    PROVE  McpInv'
<1> USE DEF McpInv
<1>1. conn' = [conn EXCEPT ![c] = Idle] /\ conn[c].at \in {"spawning", "calling"}
      /\ UNCHANGED <<clients, alive, of_server>>
  BY DEF SpawnFails, Answer
<1>3. /\ conn' \in [Connections -> ConnStates]
      /\ conn'[c] = Idle
      /\ \A d \in Connections : d # c => conn'[d] = conn[d]
  BY <1>1, RecordsAreTyped, ConnStep
<1>4. \A d \in Connections : HoldsInPlace(d)'
  BY <1>1, <1>3, RecordsAreTyped DEF HoldsInPlace
<1>5. \A v \in Services : OwnedOnce(v)'
  BY <1>1, <1>3, SameOwners, RecordsAreTyped DEF HoldsInPlace
<1>6. AliveWasSpawned' /\ McpTypeOK'
  BY <1>1, <1>3 DEF AliveWasSpawned, McpTypeOK
<1>7. RequestTimeout \in 1..IdleTtl => \A d \in Connections : CallIsFresh(d)'
  BY <1>1, <1>3, RecordsAreTyped DEF CallIsFresh, has_client
<1> QED
  BY <1>4, <1>5, <1>6, <1>7

\* What is expired goes from the table to the connection that cleans up; what a
\* connection waits for is not expired.
LEMMA CleanupStep ==
    ASSUME McpInv, NEW c \in Connections, cleanup_idle(c)
    PROVE  McpInv'
<1> USE DEF McpInv
<1> DEFINE gone   == {s \in Servers : expired(s)}
           swept == {clients[s].service : s \in gone}
           k      == [conn[c] EXCEPT !.at = "closing", !.close = swept]
<1>1. /\ conn[c].at = "cleanup" /\ conn[c] \in ConnStates
      /\ clients' = [s \in Servers |-> IF s \in gone THEN NoEntry ELSE clients[s]]
      /\ conn' = [conn EXCEPT ![c] = k]
      /\ UNCHANGED <<alive, of_server>>
  BY DEF cleanup_idle, McpTypeOK
<1>2. \A s \in gone : clients[s].service \in Services
  BY DEF expired, has_client, McpTypeOK, Entries
<1>3. swept \in SUBSET Services
  BY <1>2
<1>4. \A v \in Services : v \in swept <=> \E s \in gone : clients[s].service = v
  OBVIOUS
<1> HIDE DEF swept
<1>5. /\ k \in ConnStates /\ k.at = "closing" /\ k.close = swept
      /\ k.server = conn[c].server /\ k.own = conn[c].own /\ k.waited = conn[c].waited
  BY <1>1, <1>3 DEF ConnStates, ConnPlaces
<1> HIDE DEF k
<1>6. /\ conn' \in [Connections -> ConnStates]
      /\ conn'[c] = k
      /\ \A d \in Connections : d # c => conn'[d] = conn[d]
  BY <1>1, <1>5, ConnStep
<1>7. \A d \in Connections : HoldsInPlace(d)'
  BY <1>1, <1>5, <1>6 DEF HoldsInPlace
<1>8. \A s \in Servers : clients'[s] = IF s \in gone THEN NoEntry ELSE clients[s]
  BY <1>1
<1>9. AliveWasSpawned' /\ McpTypeOK'
  BY <1>1, <1>6, RecordsAreTyped DEF AliveWasSpawned, McpTypeOK
<1>10. ASSUME NEW v \in Services
       PROVE  OwnedOnce(v)'
  <2>1. v # None
    BY McpAssumption
  <2>2. conn[c].close = {}
    BY <1>1 DEF HoldsInPlace
  <2>3. InTable(v)' <=> \E s \in Servers : s \notin gone /\ clients[s].service = v
    BY <1>8, <2>1, RecordsAreTyped DEF InTable
  <2>4. IsOwn(v)' <=> IsOwn(v)
    BY <1>5, <1>6 DEF IsOwn
  <2>5. IsClosing(v)' <=> IsClosing(v) \/ v \in swept
    BY <1>5, <1>6, <2>2 DEF IsClosing
  <2>6. InTable(v) <=> InTable(v)' \/ v \in swept
    BY <1>4, <2>3 DEF InTable
  <2>7. ~(InTable(v)' /\ v \in swept)
    BY <1>4, <2>3 DEF OwnedOnce
  <2>8. \A s, t \in Servers : clients'[s].service = v /\ clients'[t].service = v => s = t
    BY <1>8, <2>1, RecordsAreTyped DEF OwnedOnce
  <2>9. \A d, e \in Connections : conn'[d].own = v /\ conn'[e].own = v => d = e
    BY <1>5, <1>6 DEF OwnedOnce
  <2>10. \A d, e \in Connections : v \in conn'[d].close /\ v \in conn'[e].close => d = e
    <3>1. v \in swept => InTable(v) /\ ~IsClosing(v)
      BY <1>4 DEF InTable, OwnedOnce
    <3> QED
      BY <1>5, <1>6, <2>2, <3>1 DEF OwnedOnce, IsClosing
  <2> QED
    BY <1>1, <2>4, <2>5, <2>6, <2>7, <2>8, <2>9, <2>10 DEF OwnedOnce
<1>11. ASSUME RequestTimeout \in 1..IdleTtl, NEW d \in Connections
       PROVE  CallIsFresh(d)'
  <2>1. CASE d = c
    BY <1>1, <1>5, <1>6, <1>11, <2>1 DEF CallIsFresh
  <2>2. CASE d # c /\ conn[d].at \in {"calling", "discarding"}
    <3>1. /\ conn[d].server \in Servers
          /\ clients[conn[d].server].idle <= conn[d].waited
          /\ conn[d].waited <= RequestTimeout
      BY <1>11, <2>2 DEF CallIsFresh, HoldsInPlace
    <3>2. clients[conn[d].server].idle \in Nat /\ conn[d].waited \in Nat
      BY <3>1 DEF McpTypeOK, Entries, ConnStates
    <3>3. ~expired(conn[d].server)
      BY <1>11, <3>1, <3>2, McpAssumption DEF expired
    <3> QED
      BY <1>6, <1>8, <1>11, <2>2, <3>1, <3>3 DEF CallIsFresh, has_client
  <2>3. CASE d # c /\ conn[d].at \notin {"calling", "discarding"}
    BY <1>6, <1>11, <2>3 DEF CallIsFresh
  <2> QED
    BY <2>1, <2>2, <2>3
<1> QED
  BY <1>7, <1>9, <1>10, <1>11

\* Cancelled, a service has no owner and does not run.
LEMMA CloseStep ==
    ASSUME McpInv, NEW c \in Connections, CloseOne(c)
    PROVE  McpInv'
<1> USE DEF McpInv
<1>1. PICK w \in conn[c].close :
         /\ alive' = alive \ {w}
         /\ conn' = [conn EXCEPT ![c].close = @ \ {w}]
         /\ UNCHANGED <<clients, of_server>>
  BY DEF CloseOne
<1> DEFINE k == [conn[c] EXCEPT !.close = conn[c].close \ {w}]
<1>2. conn[c] \in ConnStates /\ conn' = [conn EXCEPT ![c] = k]
  BY <1>1 DEF McpTypeOK
<1>3. /\ k \in ConnStates /\ k.close = conn[c].close \ {w} /\ k.at = conn[c].at
      /\ k.server = conn[c].server /\ k.own = conn[c].own /\ k.waited = conn[c].waited
  BY <1>2 DEF ConnStates
<1> HIDE DEF k
<1>4. /\ conn' \in [Connections -> ConnStates]
      /\ conn'[c] = k
      /\ \A d \in Connections : d # c => conn'[d] = conn[d]
  BY <1>2, <1>3, ConnStep
<1>5. w \in Services /\ conn[c].at = "closing"
  BY <1>1, <1>2 DEF HoldsInPlace, ConnStates
<1>6. \A d \in Connections : HoldsInPlace(d)'
  BY <1>3, <1>4, <1>5 DEF HoldsInPlace
<1>7. AliveWasSpawned' /\ McpTypeOK'
  BY <1>1, <1>4 DEF AliveWasSpawned, McpTypeOK
<1>8. ASSUME NEW v \in Services
      PROVE  OwnedOnce(v)'
  <2>1. IsOwn(v)' <=> IsOwn(v)
    BY <1>3, <1>4 DEF IsOwn
  <2>2. InTable(v)' <=> InTable(v)
    BY <1>1 DEF InTable
  <2>3. IsClosing(w) /\ ~IsOwn(w) /\ ~InTable(w)
        /\ \A d \in Connections : w \in conn[d].close => d = c
    BY <1>1, <1>5 DEF IsClosing, OwnedOnce
  <2>4. IsClosing(v)' <=> IsClosing(v) /\ v # w
    BY <1>3, <1>4, <2>3 DEF IsClosing
  <2>5. \A d, e \in Connections : conn'[d].own = v /\ conn'[e].own = v => d = e
    BY <1>3, <1>4 DEF OwnedOnce
  <2>6. \A d, e \in Connections : v \in conn'[d].close /\ v \in conn'[e].close => d = e
    BY <1>3, <1>4 DEF OwnedOnce
  <2> QED
    BY <1>1, <2>1, <2>2, <2>3, <2>4, <2>5, <2>6 DEF OwnedOnce
<1>9. RequestTimeout \in 1..IdleTtl => \A d \in Connections : CallIsFresh(d)'
  BY <1>1, <1>3, <1>4 DEF CallIsFresh, has_client
<1> QED
  BY <1>6, <1>7, <1>8, <1>9

\* A service that is found is used: its entry is as good as new.
LEMMA Touched ==
    ASSUME McpTypeOK, NEW s \in Servers, touch(s), has_client(s)
    PROVE  /\ clients' \in [Servers -> Entries]
           /\ \A t \in Servers : clients'[t].service = clients[t].service
           /\ clients'[s].idle = 0
           /\ \A t \in Servers : t # s => clients'[t] = clients[t]
BY DEF touch, McpTypeOK, Entries

\* The connection waits for a service that was just used, or inserted.
LEMMA FreshStep ==
    ASSUME McpInv, McpTypeOK', NEW c \in Connections, conn[c].at # "idle",
           conn[c].at # "calling",
           \A d \in Connections : d # c => conn'[d] = conn[d],
           conn'[c].server = conn[c].server, conn'[c].waited = conn[c].waited,
           has_client(conn[c].server)',
           clients'[conn[c].server].service = conn'[c].service,
           clients'[conn[c].server].idle = 0,
           has_client(conn[c].server) =>
              clients'[conn[c].server].service = clients[conn[c].server].service,
           \A t \in Servers : t # conn[c].server => clients'[t] = clients[t]
    PROVE  RequestTimeout \in 1..IdleTtl => \A d \in Connections : CallIsFresh(d)'
<1> SUFFICES ASSUME RequestTimeout \in 1..IdleTtl, NEW d \in Connections
             PROVE  CallIsFresh(d)'
  OBVIOUS
<1> USE DEF McpInv
<1>1. IdleTtl \in Nat /\ RequestTimeout \in Nat
  BY McpAssumption
<1>2. CASE d = c
  BY <1>1, <1>2 DEF CallIsFresh
<1>3. CASE d # c /\ conn[d].at \in {"calling", "discarding"}
  <2>1. conn[d].server \in Servers /\ conn[d].waited \in Nat
    BY <1>3 DEF HoldsInPlace, McpTypeOK, ConnStates
  <2>2. CASE conn[d].server = conn[c].server
    BY <1>1, <1>3, <2>1, <2>2 DEF CallIsFresh, has_client
  <2>3. CASE conn[d].server # conn[c].server
    BY <1>3, <2>1, <2>3 DEF CallIsFresh, has_client
  <2> QED
    BY <2>2, <2>3
<1>4. CASE d # c /\ conn[d].at \notin {"calling", "discarding"}
  BY <1>4 DEF CallIsFresh
<1> QED
  BY <1>2, <1>3, <1>4

LEMMA PeerStep ==
    ASSUME McpInv, NEW c \in Connections, get_peer(c)
    PROVE  McpInv'
<1> USE DEF McpInv
<1>1. /\ conn[c].at = "closing" /\ conn[c] \in ConnStates /\ conn[c].close = {}
      /\ conn[c].server \in Servers /\ conn[c].own = None
      /\ UNCHANGED <<alive, of_server>>
  BY DEF get_peer, McpTypeOK, HoldsInPlace
<1>2. CASE has_client(conn[c].server)
  <2> DEFINE v == clients[conn[c].server].service
             k == [conn[c] EXCEPT !.at = "calling", !.service = v, !.own = None]
  <2>1. touch(conn[c].server)
        /\ conn' = [conn EXCEPT ![c] = k]
    BY <1>2 DEF get_peer, Call, McpTypeOK
  <2>2. v \in Services \cup {None}
    BY <1>1 DEF McpTypeOK, Entries
  <2> HIDE DEF v
  <2>3. /\ k \in ConnStates /\ k.at = "calling" /\ k.service = v /\ k.own = None
        /\ k.close = {} /\ k.server = conn[c].server /\ k.waited = conn[c].waited
    BY <1>1, <2>2 DEF ConnStates, ConnPlaces
  <2> HIDE DEF k
  <2>4. /\ conn' \in [Connections -> ConnStates]
        /\ conn'[c] = k
        /\ \A d \in Connections : d # c => conn'[d] = conn[d]
    BY <2>1, <2>3, ConnStep
  <2>5. \A d \in Connections : HoldsInPlace(d)'
    BY <1>1, <2>3, <2>4 DEF HoldsInPlace
  <2>6. /\ clients' \in [Servers -> Entries]
        /\ \A t \in Servers : clients'[t].service = clients[t].service
        /\ clients'[conn[c].server].idle = 0
        /\ \A t \in Servers : t # conn[c].server => clients'[t] = clients[t]
    BY <1>1, <1>2, <2>1, Touched
  <2>7. \A w \in Services : OwnedOnce(w)'
    BY <1>1, <2>3, <2>4, <2>6, SameOwners
  <2>8. AliveWasSpawned' /\ McpTypeOK'
    BY <1>1, <2>4, <2>6 DEF AliveWasSpawned, McpTypeOK
  <2>9. has_client(conn[c].server)'
    BY <1>1, <1>2, <2>3, <2>4, <2>6 DEF has_client
  <2>10. RequestTimeout \in 1..IdleTtl => \A d \in Connections : CallIsFresh(d)'
    BY <1>1, <2>3, <2>4, <2>6, <2>8, <2>9, FreshStep DEF v
  <2> QED
    BY <2>5, <2>7, <2>8, <2>10
<1>3. CASE ~has_client(conn[c].server)
  <2> DEFINE k == [conn[c] EXCEPT !.at = "spawning"]
  <2>1. conn' = [conn EXCEPT ![c] = k] /\ UNCHANGED clients
    BY <1>3 DEF get_peer, McpTypeOK
  <2>3. /\ k \in ConnStates /\ k.at = "spawning" /\ k.own = None
        /\ k.close = {} /\ k.server = conn[c].server /\ k.waited = conn[c].waited
    BY <1>1 DEF ConnStates, ConnPlaces
  <2> HIDE DEF k
  <2>4. /\ conn' \in [Connections -> ConnStates]
        /\ conn'[c] = k
        /\ \A d \in Connections : d # c => conn'[d] = conn[d]
    BY <2>1, <2>3, ConnStep
  <2>5. \A d \in Connections : HoldsInPlace(d)'
    BY <1>1, <2>3, <2>4 DEF HoldsInPlace
  <2>7. \A w \in Services : OwnedOnce(w)'
    BY <1>1, <2>1, <2>3, <2>4, SameOwners
  <2>8. AliveWasSpawned' /\ McpTypeOK'
    BY <1>1, <2>1, <2>4 DEF AliveWasSpawned, McpTypeOK
  <2>10. RequestTimeout \in 1..IdleTtl => \A d \in Connections : CallIsFresh(d)'
    BY <1>1, <2>1, <2>3, <2>4 DEF CallIsFresh, has_client
  <2> QED
    BY <2>5, <2>7, <2>8, <2>10
<1> QED
  BY <1>2, <1>3

LEMMA SpawnStep ==
    ASSUME McpInv, NEW c \in Connections, spawn_service(c)
    PROVE  McpInv'
<1> USE DEF McpInv
<1>1. PICK w \in Services :
         /\ of_server[w] = None
         /\ of_server' = [of_server EXCEPT ![w] = conn[c].server]
         /\ alive' = alive \cup {w}
         /\ conn' = [conn EXCEPT ![c].at = "spawned", ![c].own = w]
  BY DEF spawn_service
<1> DEFINE k == [conn[c] EXCEPT !.at = "spawned", !.own = w]
<1>2. /\ conn[c] \in ConnStates /\ conn[c].at = "spawning" /\ conn[c].close = {}
      /\ conn[c].server \in Servers
      /\ conn' = [conn EXCEPT ![c] = k] /\ UNCHANGED clients
  BY <1>1 DEF spawn_service, McpTypeOK, HoldsInPlace
<1>3. /\ k \in ConnStates /\ k.at = "spawned" /\ k.own = w /\ k.close = {}
      /\ k.server = conn[c].server /\ k.waited = conn[c].waited
  BY <1>2 DEF ConnStates, ConnPlaces
<1> HIDE DEF k
<1>4. /\ conn' \in [Connections -> ConnStates]
      /\ conn'[c] = k
      /\ \A d \in Connections : d # c => conn'[d] = conn[d]
  BY <1>2, <1>3, ConnStep
<1>5. \A d \in Connections : HoldsInPlace(d)'
  BY <1>2, <1>3, <1>4, McpAssumption DEF HoldsInPlace
<1>6. AliveWasSpawned' /\ McpTypeOK'
  BY <1>1, <1>2, <1>4, McpAssumption DEF AliveWasSpawned, McpTypeOK
<1>7. w \notin alive /\ ~InTable(w) /\ ~IsOwn(w) /\ ~IsClosing(w)
  BY <1>1 DEF AliveWasSpawned, OwnedOnce
<1>8. ASSUME NEW v \in Services
      PROVE  OwnedOnce(v)'
  <2>1. InTable(v)' <=> InTable(v)
    BY <1>2 DEF InTable
  <2>2. IsClosing(v)' <=> IsClosing(v)
    BY <1>2, <1>3, <1>4 DEF IsClosing
  <2>3. IsOwn(v)' <=> IsOwn(v) \/ v = w
    <3>1. conn[c].own = None
      BY <1>2 DEF HoldsInPlace
    <3> QED
      BY <1>3, <1>4, <3>1, McpAssumption DEF IsOwn
  <2>4. \A d, e \in Connections : conn'[d].own = v /\ conn'[e].own = v => d = e
    BY <1>3, <1>4, <1>7 DEF OwnedOnce, IsOwn
  <2>5. \A d, e \in Connections : v \in conn'[d].close /\ v \in conn'[e].close => d = e
    BY <1>2, <1>3, <1>4 DEF OwnedOnce
  <2> QED
    BY <1>1, <1>2, <1>7, <2>1, <2>2, <2>3, <2>4, <2>5 DEF OwnedOnce
<1>9. RequestTimeout \in 1..IdleTtl => \A d \in Connections : CallIsFresh(d)'
  BY <1>2, <1>3, <1>4 DEF CallIsFresh, has_client
<1> QED
  BY <1>5, <1>6, <1>8, <1>9

\* Of two connections that spawned a service for one server the second finds the
\* first one's, and keeps its own to discard it.
LEMMA LookStep ==
    ASSUME McpInv, NEW c \in Connections, LookAgain(c)
    PROVE  McpInv'
<1> USE DEF McpInv
<1>1. /\ conn[c].at = "spawned" /\ conn[c] \in ConnStates /\ conn[c].close = {}
      /\ conn[c].server \in Servers /\ conn[c].own # None
      /\ UNCHANGED <<alive, of_server>> /\ UseOrInsert(c)
  BY DEF LookAgain, McpTypeOK, HoldsInPlace
<1>2. CASE has_client(conn[c].server)
  <2> DEFINE v == clients[conn[c].server].service
             k == [conn[c] EXCEPT !.at = "discarding", !.service = v]
  <2>1. touch(conn[c].server)
        /\ conn' = [conn EXCEPT ![c] = k]
    BY <1>1, <1>2 DEF UseOrInsert, McpTypeOK
  <2>2. v \in Services \cup {None}
    BY <1>1 DEF McpTypeOK, Entries
  <2> HIDE DEF v
  <2>3. /\ k \in ConnStates /\ k.at = "discarding" /\ k.service = v
        /\ k.own = conn[c].own /\ k.close = {}
        /\ k.server = conn[c].server /\ k.waited = conn[c].waited
    BY <1>1, <2>2 DEF ConnStates, ConnPlaces
  <2> HIDE DEF k
  <2>4. /\ conn' \in [Connections -> ConnStates]
        /\ conn'[c] = k
        /\ \A d \in Connections : d # c => conn'[d] = conn[d]
    BY <2>1, <2>3, ConnStep
  <2>5. \A d \in Connections : HoldsInPlace(d)'
    BY <1>1, <2>3, <2>4 DEF HoldsInPlace
  <2>6. /\ clients' \in [Servers -> Entries]
        /\ \A t \in Servers : clients'[t].service = clients[t].service
        /\ clients'[conn[c].server].idle = 0
        /\ \A t \in Servers : t # conn[c].server => clients'[t] = clients[t]
    BY <1>1, <1>2, <2>1, Touched
  <2>7. \A w \in Services : OwnedOnce(w)'
    BY <1>1, <2>3, <2>4, <2>6, SameOwners
  <2>8. AliveWasSpawned' /\ McpTypeOK'
    BY <1>1, <2>4, <2>6 DEF AliveWasSpawned, McpTypeOK
  <2>9. has_client(conn[c].server)'
    BY <1>1, <1>2, <2>3, <2>4, <2>6 DEF has_client
  <2>10. RequestTimeout \in 1..IdleTtl => \A d \in Connections : CallIsFresh(d)'
    BY <1>1, <2>3, <2>4, <2>6, <2>8, <2>9, FreshStep DEF v
  <2> QED
    BY <2>5, <2>7, <2>8, <2>10
<1>3. CASE ~has_client(conn[c].server)
  <2> DEFINE v == conn[c].own
             s == conn[c].server
             k == [conn[c] EXCEPT !.at = "calling", !.service = v, !.own = None]
  <2>1. /\ clients' = [clients EXCEPT ![s] = [service |-> v, idle |-> 0]]
        /\ conn' = [conn EXCEPT ![c] = k]
    BY <1>1, <1>3 DEF UseOrInsert, InsertWithoutLooking, Call, McpTypeOK
  <2>2. v \in Services /\ s \in Servers /\ v # None /\ clients[s].service = None
    BY <1>1, <1>3, McpAssumption DEF ConnStates, has_client
  <2>3. /\ k \in ConnStates /\ k.at = "calling" /\ k.service = v /\ k.own = None
        /\ k.close = {} /\ k.server = conn[c].server /\ k.waited = conn[c].waited
    BY <1>1, <2>2 DEF ConnStates, ConnPlaces
  <2> HIDE DEF k
  <2>4. /\ conn' \in [Connections -> ConnStates]
        /\ conn'[c] = k
        /\ \A d \in Connections : d # c => conn'[d] = conn[d]
    BY <2>1, <2>3, ConnStep
  <2>5. \A d \in Connections : HoldsInPlace(d)'
    BY <1>1, <2>3, <2>4 DEF HoldsInPlace
  <2>6. /\ clients' \in [Servers -> Entries]
        /\ clients'[s].service = v /\ clients'[s].idle = 0
        /\ \A t \in Servers : t # s => clients'[t] = clients[t]
    BY <2>1, <2>2 DEF McpTypeOK, Entries
  <2>7. ASSUME NEW w \in Services
        PROVE  OwnedOnce(w)'
    <3>1. InTable(w)' <=> InTable(w) \/ w = v
      BY <2>2, <2>6, McpAssumption DEF InTable
    <3>2. IsClosing(w)' <=> IsClosing(w)
      BY <1>1, <2>3, <2>4 DEF IsClosing
    <3>3. IsOwn(w)' <=> IsOwn(w) /\ w # v
      BY <2>2, <2>3, <2>4, McpAssumption DEF IsOwn, OwnedOnce
    <3>4. IsOwn(v) /\ ~InTable(v)
      BY <2>2 DEF IsOwn, OwnedOnce
    <3>5. \A t, u \in Servers :
             clients'[t].service = w /\ clients'[u].service = w => t = u
      BY <2>2, <2>6, <3>4 DEF OwnedOnce, InTable
    <3>6. \A d, e \in Connections : conn'[d].own = w /\ conn'[e].own = w => d = e
      BY <2>3, <2>4, McpAssumption DEF OwnedOnce
    <3>7. \A d, e \in Connections :
             w \in conn'[d].close /\ w \in conn'[e].close => d = e
      BY <2>3, <2>4 DEF OwnedOnce
    <3> QED
      BY <1>1, <3>1, <3>2, <3>3, <3>4, <3>5, <3>6, <3>7 DEF OwnedOnce
  <2>8. AliveWasSpawned' /\ McpTypeOK'
    BY <1>1, <2>4, <2>6 DEF AliveWasSpawned, McpTypeOK
  <2>9. has_client(s)'
    BY <2>2, <2>3, <2>4, <2>6 DEF has_client
  <2>10. RequestTimeout \in 1..IdleTtl => \A d \in Connections : CallIsFresh(d)'
    BY <1>1, <1>3, <2>3, <2>4, <2>6, <2>8, <2>9, FreshStep
  <2> QED
    BY <2>5, <2>7, <2>8, <2>10
<1> QED
  BY <1>2, <1>3

LEMMA DiscardStep ==
    ASSUME McpInv, NEW c \in Connections, Discard(c)
    PROVE  McpInv'
<1> USE DEF McpInv
<1> DEFINE v == conn[c].own
           k == [conn[c] EXCEPT !.at = "calling", !.service = conn[c].service,
                                !.own = None]
<1>1. /\ conn[c].at = "discarding" /\ conn[c] \in ConnStates /\ conn[c].close = {}
      /\ conn[c].server \in Servers /\ v \in Services /\ v # None
      /\ alive' = alive \ {v} /\ conn' = [conn EXCEPT ![c] = k]
      /\ UNCHANGED <<clients, of_server>>
  BY McpAssumption DEF Discard, Call, McpTypeOK, HoldsInPlace, ConnStates
<1>2. /\ k \in ConnStates /\ k.at = "calling" /\ k.service = conn[c].service
      /\ k.own = None /\ k.close = {}
      /\ k.server = conn[c].server /\ k.waited = conn[c].waited
  BY <1>1 DEF ConnStates, ConnPlaces
<1> HIDE DEF k
<1>3. /\ conn' \in [Connections -> ConnStates]
      /\ conn'[c] = k
      /\ \A d \in Connections : d # c => conn'[d] = conn[d]
  BY <1>1, <1>2, ConnStep
<1>4. \A d \in Connections : HoldsInPlace(d)'
  BY <1>1, <1>2, <1>3 DEF HoldsInPlace
<1>5. AliveWasSpawned' /\ McpTypeOK'
  BY <1>1, <1>3 DEF AliveWasSpawned, McpTypeOK
<1>6. ASSUME NEW w \in Services
      PROVE  OwnedOnce(w)'
  <2>1. InTable(w)' <=> InTable(w)
    BY <1>1 DEF InTable
  <2>2. IsClosing(w)' <=> IsClosing(w)
    BY <1>1, <1>2, <1>3 DEF IsClosing
  <2>3. IsOwn(w)' <=> IsOwn(w) /\ w # v
    BY <1>1, <1>2, <1>3, McpAssumption DEF IsOwn, OwnedOnce
  <2>4. IsOwn(v) /\ ~InTable(v) /\ ~IsClosing(v)
    BY <1>1 DEF IsOwn, OwnedOnce
  <2>5. \A d, e \in Connections : conn'[d].own = w /\ conn'[e].own = w => d = e
    BY <1>2, <1>3, McpAssumption DEF OwnedOnce
  <2>6. \A d, e \in Connections : w \in conn'[d].close /\ w \in conn'[e].close => d = e
    BY <1>1, <1>2, <1>3 DEF OwnedOnce
  <2> QED
    BY <1>1, <2>1, <2>2, <2>3, <2>4, <2>5, <2>6 DEF OwnedOnce
<1>7. RequestTimeout \in 1..IdleTtl => \A d \in Connections : CallIsFresh(d)'
  BY <1>1, <1>2, <1>3 DEF CallIsFresh, has_client
<1> QED
  BY <1>4, <1>5, <1>6, <1>7

\* An entry and a request that waits for it grow old together; a request at its
\* timeout has been answered.
LEMMA TickStep ==
    ASSUME McpInv, Tick
    PROVE  McpInv'
<1> USE DEF McpInv
<1>1. UNCHANGED <<alive, of_server>>
  BY DEF Tick
<1>2. ASSUME NEW s \in Servers
      PROVE  /\ clients'[s] \in Entries
             /\ clients'[s].service = clients[s].service
             /\ has_client(s) => clients'[s].idle = clients[s].idle + 1
  <2>1. clients[s] \in Entries
    BY DEF McpTypeOK
  <2>2. clients'[s] = IF has_client(s) THEN [clients[s] EXCEPT !.idle = @ + 1]
                      ELSE clients[s]
    BY DEF Tick
  <2> QED
    BY <2>1, <2>2 DEF Entries
<1>3. ASSUME NEW c \in Connections
      PROVE  /\ conn'[c] \in ConnStates
             /\ conn'[c].at = conn[c].at /\ conn'[c].server = conn[c].server
             /\ conn'[c].close = conn[c].close /\ conn'[c].own = conn[c].own
             /\ conn'[c].service = conn[c].service
             /\ conn'[c].waited = IF conn[c].at = "calling" THEN conn[c].waited + 1
                                  ELSE conn[c].waited
  <2>1. conn[c] \in ConnStates
    BY DEF McpTypeOK
  <2>2. conn'[c] = IF conn[c].at = "calling" THEN [conn[c] EXCEPT !.waited = @ + 1]
                   ELSE conn[c]
    BY DEF Tick
  <2> QED
    BY <2>1, <2>2 DEF ConnStates
<1>4. McpTypeOK' /\ AliveWasSpawned'
  <2>1. /\ clients' = [s \in Servers |-> clients'[s]]
        /\ conn' = [c \in Connections |-> conn'[c]]
    BY DEF Tick
  <2> QED
    BY <1>1, <1>2, <1>3, <2>1 DEF McpTypeOK, AliveWasSpawned
<1>5. \A c \in Connections : HoldsInPlace(c)'
  BY <1>3 DEF HoldsInPlace
<1>6. \A v \in Services : OwnedOnce(v)'
  BY <1>1, <1>2, <1>3, SameOwners
<1>7. ASSUME RequestTimeout \in 1..IdleTtl, NEW c \in Connections
      PROVE  CallIsFresh(c)'
  <2>1. conn[c].at # "discarding" /\ ~Overdue(c)
    BY DEF Tick
  <2>2. RequestTimeout \in Nat /\ RequestTimeout > 0
    BY <1>7, McpAssumption
  <2>3. CASE conn[c].at = "calling"
    <3>1. /\ conn[c].server \in Servers /\ conn[c].waited \in Nat
          /\ clients[conn[c].server].idle \in Nat
      BY <2>3 DEF HoldsInPlace, McpTypeOK, ConnStates, Entries
    <3>2. conn[c].waited < RequestTimeout
      BY <2>1, <2>2, <2>3, <3>1 DEF Overdue
    <3>3. has_client(conn[c].server)'
      BY <1>2, <1>3, <1>7, <2>3, <3>1 DEF CallIsFresh, has_client
    <3> QED
      BY <1>2, <1>3, <1>7, <2>2, <2>3, <3>1, <3>2, <3>3 DEF CallIsFresh
  <2>4. CASE conn[c].at # "calling"
    BY <1>3, <1>7, <2>1, <2>4 DEF CallIsFresh
  <2> QED
    BY <2>3, <2>4
<1> QED
  BY <1>4, <1>5, <1>6, <1>7

LEMMA McpNextKeeps ==
    ASSUME McpInv, [McpNext]_mcpVars
    PROVE  McpInv'
<1>1. CASE UNCHANGED mcpVars
  BY <1>1 DEF mcpVars, McpInv, McpTypeOK, HoldsInPlace, OwnedOnce, InTable, IsOwn,
              IsClosing, AliveWasSpawned, CallIsFresh, has_client
<1> QED
  BY <1>1, RequestStep, IdleStep, CleanupStep, CloseStep, PeerStep, SpawnStep, LookStep,
     DiscardStep, TickStep DEF McpNext

\* One owner, counted: each of the three sets is empty or has one element.
LEMMA OwnersAreCounted ==
    ASSUME NEW v \in Services, OwnedOnce(v)
    PROVE  Owners(v) = IF v \in alive THEN 1 ELSE 0
<1> DEFINE table   == {s \in Servers : clients[s].service = v}
           owners  == {c \in Connections : conn[c].own = v}
           closing == {c \in Connections : v \in conn[c].close}
<1>1. /\ InTable(v) => \E s : table = {s}
      /\ ~InTable(v) => table = {}
  <2>1. ASSUME NEW s \in Servers, clients[s].service = v
        PROVE  table = {s}
    BY <2>1 DEF OwnedOnce
  <2> QED
    BY <2>1 DEF InTable
<1>2. /\ IsOwn(v) => \E c : owners = {c}
      /\ ~IsOwn(v) => owners = {}
  <2>1. ASSUME NEW c \in Connections, conn[c].own = v
        PROVE  owners = {c}
    BY <2>1 DEF OwnedOnce
  <2> QED
    BY <2>1 DEF IsOwn
<1>3. /\ IsClosing(v) => \E c : closing = {c}
      /\ ~IsClosing(v) => closing = {}
  <2>1. ASSUME NEW c \in Connections, v \in conn[c].close
        PROVE  closing = {c}
    BY <2>1 DEF OwnedOnce
  <2> QED
    BY <2>1 DEF IsClosing
<1>4. Owners(v) = Cardinality(table) + Cardinality(owners) + Cardinality(closing)
  BY DEF Owners
<1> HIDE DEF table, owners, closing
<1>5. /\ Cardinality(table) = IF InTable(v) THEN 1 ELSE 0
      /\ Cardinality(owners) = IF IsOwn(v) THEN 1 ELSE 0
      /\ Cardinality(closing) = IF IsClosing(v) THEN 1 ELSE 0
  BY <1>1, <1>2, <1>3, FS_Singleton, FS_EmptySet
<1> QED
  BY <1>4, <1>5 DEF OwnedOnce

\* For any number of connections, servers and services: every service that runs has
\* one owner, none is cancelled twice, and as long as a request may not last longer
\* than the time after which a service counts as idle, nobody's service is cancelled
\* while he waits for it (McpManager::get_peer, cleanup_idle).
THEOREM McpCorrect == McpSpec => []ServicesAreKept
<1>1. McpInit => McpInv
  <2> SUFFICES ASSUME McpInit PROVE McpInv
    OBVIOUS
  <2>1. McpTypeOK /\ AliveWasSpawned
    BY RecordsAreTyped DEF McpInit, McpTypeOK, AliveWasSpawned
  <2>2. \A c \in Connections : HoldsInPlace(c)
    BY DEF McpInit, HoldsInPlace, Idle
  <2>3. \A v \in Services : OwnedOnce(v)
    BY McpAssumption
    DEF McpInit, OwnedOnce, InTable, IsOwn, IsClosing, Idle, NoEntry
  <2>4. \A c \in Connections : CallIsFresh(c)
    BY DEF McpInit, CallIsFresh, Idle
  <2> QED
    BY <2>1, <2>2, <2>3, <2>4 DEF McpInv
<1>2. McpInv /\ [McpNext]_mcpVars => McpInv'
  BY McpNextKeeps
<1>3. McpInv => ServicesAreKept
  <2> SUFFICES ASSUME McpInv PROVE ServicesAreKept
    OBVIOUS
  <2>1. ServicesHaveOneOwner
    BY OwnersAreCounted DEF McpInv, ServicesHaveOneOwner
  <2>2. ASSUME RequestTimeout \in 1..IdleTtl, NEW c \in Connections,
               conn[c].at \in {"calling", "discarding"}
        PROVE  conn[c].service \in alive
    <3>1. /\ conn[c].server \in Servers
          /\ clients[conn[c].server].service = conn[c].service
          /\ conn[c].service # None
      BY <2>2 DEF McpInv, CallIsFresh, HoldsInPlace, has_client
    <3>2. conn[c].service \in Services
      BY <3>1 DEF McpInv, McpTypeOK, ConnStates
    <3> QED
      BY <3>1, <3>2 DEF McpInv, OwnedOnce, InTable
  <2> QED
    BY <2>1, <2>2 DEF ServicesAreKept, CallsKeepTheirService
<1> QED
  BY <1>1, <1>2, <1>3, PTL DEF McpSpec

-----------------------------------------------------------------------------
(* A subagent's tool uses: the invariant *)

UseIds == Nat \X Nat
ToolUses == [id : UseIds, name : ToolNames]
Messages == [role : {"user", "assistant"}, ids : Seq(UseIds)]
Statuses == [id : UseIds, name : ToolNames, status : {"completed", "failed", "cancelled"}]

SubagentTypeOK ==
    /\ auto_accept_edits \in BOOLEAN
    /\ turns \in Nat
    /\ todo \in Seq(ToolUses) /\ results \in Seq(UseIds)
    /\ history \in Seq(Messages)
    /\ reported \in Seq(Statuses) /\ executed \in SUBSET UseIds
    /\ at \in {"lookup", "chat", "turn", "tools", "done"}

LastMessage == history[Len(history)]

\* Between two responses there is nothing to handle; until the results of a response are
\* sent, what was handled of it and what is left are its tool uses, in their order.
HalfDone ==
    /\ at = "lookup" => history = <<>>
    /\ at \in {"lookup", "chat"} => todo = <<>>
    /\ at \in {"lookup", "chat", "turn"} => results = <<>>
    /\ at = "chat" => history # <<>> /\ LastMessage.role = "user"
    /\ at \in {"turn", "tools"} =>
          /\ history # <<>> /\ LastMessage.role = "assistant"
          /\ Len(LastMessage.ids) = Len(results) + Len(todo)
          /\ \A i \in 1..Len(results) : results[i] = LastMessage.ids[i]
          /\ \A i \in 1..Len(todo) : todo[i].id = LastMessage.ids[Len(results) + i]
          /\ \A i \in 1..Len(LastMessage.ids) : LastMessage.ids[i] = <<turns, i>>

\* An id that was used already is of an earlier response, or before those left to handle.
IsPast(id) ==
    /\ id[1] <= turns
    /\ at = "tools" /\ id[1] = turns => id[2] <= Len(results)
    /\ at = "turn" => id[1] < turns

NothingTwice ==
    /\ \A n \in 1..Len(reported) : IsPast(reported[n].id)
    /\ \A id \in executed : IsPast(id)

SubagentInv ==
    /\ SubagentTypeOK
    /\ HalfDone
    /\ NothingTwice
    /\ SubagentIsTruthful

\* The first tool use that is left, and the ones behind it.
LEMMA UseIsNext ==
  ASSUME SubagentTypeOK, HalfDone, at = "tools", todo # <<>>
  PROVE  /\ use \in ToolUses
         /\ use.id = <<turns, Len(results) + 1>>
         /\ Len(results) + 1 <= Len(LastMessage.ids)
         /\ use.id = LastMessage.ids[Len(results) + 1]
         /\ Tail(todo) \in Seq(ToolUses)
         /\ Len(Tail(todo)) = Len(todo) - 1
         /\ \A i \in 1..Len(Tail(todo)) : Tail(todo)[i] = todo[i + 1]
<1>1. /\ todo \in Seq(ToolUses) /\ results \in Seq(UseIds) /\ history \in Seq(Messages)
      /\ history # <<>>
  BY DEF SubagentTypeOK, HalfDone
<1>2. Len(todo) \in Nat \ {0} /\ Len(results) \in Nat
  BY <1>1, EmptySeq, LenProperties
<1>3. LastMessage \in Messages
  BY <1>1, EmptySeq, ElementOfSeq DEF LastMessage
<1>4. Len(LastMessage.ids) = Len(results) + Len(todo)
  BY DEF HalfDone
<1>5. use = todo[1] /\ use \in ToolUses
  BY <1>1, <1>2, ElementOfSeq DEF use
<1>6. use.id = LastMessage.ids[Len(results) + 1]
  BY <1>2, <1>5 DEF HalfDone
<1>7. Len(results) + 1 \in 1..Len(LastMessage.ids)
  BY <1>2, <1>4
<1>8. LastMessage.ids[Len(results) + 1] = <<turns, Len(results) + 1>>
  BY <1>7 DEF HalfDone
<1> QED
  BY <1>1, <1>4, <1>5, <1>6, <1>7, <1>8, HeadTailProperties

\* Whatever the outcome of a tool use, it is its own, and new.
LEMMA HandledKeeps ==
  ASSUME SubagentInv,
         NEW status \in {"completed", "failed", "cancelled"}, NEW effect \in BOOLEAN,
         Handled(status, effect),
         effect => use.name \in tools /\ (use.name = "bash" => session_grant),
         status = "completed" => effect \/ (use.name = "edit" /\ ~auto_accept_edits)
  PROVE  SubagentInv'
<1> USE DEF SubagentInv
<1> DEFINE r == [id |-> use.id, name |-> use.name, status |-> status]
<1>1. /\ at = "tools" /\ at' = "tools" /\ todo # <<>> /\ todo' = Tail(todo)
      /\ results' = Append(results, use.id) /\ reported' = Append(reported, r)
      /\ executed' = IF effect THEN executed \cup {use.id} ELSE executed
      /\ UNCHANGED <<allow_tools, session_grant, auto_accept_edits, turns, history>>
  BY DEF Handled, configVars
<1>2. /\ use \in ToolUses
      /\ use.id = <<turns, Len(results) + 1>>
      /\ Len(results) + 1 <= Len(LastMessage.ids)
      /\ use.id = LastMessage.ids[Len(results) + 1]
      /\ todo' \in Seq(ToolUses)
      /\ Len(todo') = Len(todo) - 1
      /\ \A i \in 1..Len(todo') : todo'[i] = todo[i + 1]
  BY <1>1, UseIsNext
<1>3. /\ Len(results) \in Nat /\ Len(todo) \in Nat /\ Len(reported) \in Nat
      /\ use.id \in UseIds /\ r \in Statuses /\ turns \in Nat
  BY <1>2, LenProperties DEF SubagentTypeOK, ToolUses, Statuses
<1> HIDE DEF r
<1>4. /\ results' \in Seq(UseIds) /\ Len(results') = Len(results) + 1
      /\ \A i \in 1..Len(results) : results'[i] = results[i]
      /\ results'[Len(results) + 1] = use.id
  BY <1>1, <1>3, AppendProperties DEF SubagentTypeOK
<1>5. /\ reported' \in Seq(Statuses) /\ Len(reported') = Len(reported) + 1
      /\ \A i \in 1..Len(reported) : reported'[i] = reported[i]
      /\ reported'[Len(reported) + 1] = r
  BY <1>1, <1>3, AppendProperties DEF SubagentTypeOK
<1>6. executed' \in SUBSET UseIds
  BY <1>1, <1>3 DEF SubagentTypeOK
<1>7. SubagentTypeOK'
  BY <1>1, <1>2, <1>4, <1>5, <1>6 DEF SubagentTypeOK
<1>8. LastMessage' = LastMessage
  BY <1>1 DEF LastMessage
<1>9. HalfDone'
  <2>1. /\ history' # <<>> /\ LastMessage'.role = "assistant"
        /\ Len(LastMessage.ids) = Len(results) + Len(todo)
        /\ \A i \in 1..Len(results) : results[i] = LastMessage.ids[i]
        /\ \A i \in 1..Len(todo) : todo[i].id = LastMessage.ids[Len(results) + i]
        /\ \A i \in 1..Len(LastMessage.ids) : LastMessage.ids[i] = <<turns, i>>
    BY <1>1, <1>8 DEF HalfDone
  <2>2. Len(LastMessage'.ids) = Len(results') + Len(todo')
    <3>1. Len(results') = Len(results) + 1 /\ Len(todo') = Len(todo) - 1
      BY <1>2, <1>4
    <3>2. Len(results') + Len(todo') = Len(results) + Len(todo)
      BY <3>1, <1>3
    <3> QED
      BY <2>1, <3>2, <1>8
  <2>3. ASSUME NEW i \in 1..Len(results')
        PROVE  results'[i] = LastMessage'.ids[i]
    <3>1. i \in 1..Len(results) \/ i = Len(results) + 1
      BY <1>3, <1>4
    <3> QED
      BY <2>1, <3>1, <1>2, <1>4, <1>8
  <2>4. ASSUME NEW i \in 1..Len(todo')
        PROVE  todo'[i].id = LastMessage'.ids[Len(results') + i]
    <3>1. todo'[i] = todo[i + 1] /\ i + 1 \in 1..Len(todo)
      BY <1>2, <1>3
    <3>2. Len(results') + i = Len(results) + (i + 1)
      BY <1>3, <1>4
    <3> QED
      BY <2>1, <3>1, <3>2, <1>8
  <2> QED
    BY <1>1, <1>8, <2>1, <2>2, <2>3, <2>4 DEF HalfDone
<1>10. /\ \A n \in 1..Len(reported) : reported[n].id # use.id
       /\ use.id \notin executed
  <2>1. use.id[1] = turns /\ use.id[2] = Len(results) + 1
    BY <1>2
  <2>2. ~IsPast(use.id)
    BY <1>1, <1>3, <2>1 DEF IsPast
  <2> QED
    BY <2>2 DEF NothingTwice
<1>11. NothingTwice'
  <2> PICK id_used \in UseIds : id_used = use.id
    BY <1>3
  <2>1. IsPast(id_used)'
    <3>1. id_used[1] = turns /\ id_used[2] = Len(results) + 1
      BY <1>2
    <3> QED
      BY <3>1, <1>1, <1>3, <1>4 DEF IsPast
  <2>2. ASSUME NEW id \in UseIds, IsPast(id)
        PROVE  IsPast(id)'
    BY <2>2, <1>1, <1>3, <1>4 DEF IsPast, UseIds
  <2>3. ASSUME NEW n \in 1..Len(reported')
        PROVE  IsPast(reported[n].id)'
    <3>1. CASE n = Len(reported) + 1
      <4>1. reported'[n].id = id_used
        BY <3>1, <1>5 DEF r
      <4> QED
        BY <4>1, <2>1 DEF IsPast
    <3>2. CASE n \in 1..Len(reported)
      <4>1. reported[n] \in Statuses
        BY <3>2, ElementOfSeq DEF SubagentTypeOK
      <4>2. reported[n].id \in UseIds /\ IsPast(reported[n].id)
        BY <3>2, <4>1 DEF NothingTwice, Statuses
      <4>3. PICK id \in UseIds : id = reported[n].id /\ IsPast(id)
        BY <4>2
      <4>4. IsPast(id)'
        BY <2>2, <4>3
      <4> QED
        BY <3>2, <1>5, <4>3, <4>4 DEF IsPast
    <3> QED
      BY <3>1, <3>2, <1>3, <1>5
  <2>4. ASSUME NEW id \in executed'
        PROVE  IsPast(id)'
    <3>1. id = id_used \/ (id \in UseIds /\ IsPast(id))
      BY <1>1 DEF NothingTwice, SubagentTypeOK
    <3> QED
      BY <3>1, <2>1, <2>2
  <2> QED
    BY <2>3, <2>4 DEF NothingTwice
<1>12. SubagentIsAnswered'
  BY <1>1 DEF SubagentIsTruthful, SubagentIsAnswered
<1>13. CompletedToolsRan'
  <2>1. ASSUME NEW n \in 1..Len(reported')
        PROVE  /\ reported'[n].status = "completed" =>
                     \/ reported'[n].id \in executed'
                     \/ (reported'[n].name = "edit" /\ ~auto_accept_edits')
               /\ reported'[n].id \in executed' =>
                     /\ reported'[n].name \in tools'
                     /\ (reported'[n].name = "bash" => session_grant')
    <3>1. tools' = tools
      BY <1>1 DEF tools
    <3>2. CASE n = Len(reported) + 1
      <4>1. reported'[n] = r
        BY <3>2, <1>5
      <4> QED
        BY <4>1, <3>1, <1>1, <1>10 DEF r
    <3>3. CASE n \in 1..Len(reported)
      <4>1. reported'[n] = reported[n] /\ reported[n].id # use.id
        BY <3>3, <1>5, <1>10
      <4>2. n \in DOMAIN reported
        BY <3>3, LenProperties DEF SubagentTypeOK
      <4> QED
        BY <4>1, <4>2, <3>1, <1>1 DEF SubagentIsTruthful, CompletedToolsRan
    <3> QED
      BY <3>2, <3>3, <1>3, <1>5
  <2>2. DOMAIN reported' = 1..Len(reported')
    BY <1>5, LenProperties
  <2> QED
    BY <2>1, <2>2 DEF CompletedToolsRan
<1> QED
  BY <1>7, <1>9, <1>11, <1>12, <1>13 DEF SubagentIsTruthful

LEMMA SubagentNextKeeps ==
  ASSUME SubagentInv, [SubagentNext]_subagentVars
  PROVE  SubagentInv'
<1> USE DEF SubagentInv
<1>1. ASSUME UNCHANGED <<configVars, turns, todo, history, results, reported, executed>>,
             SubagentTypeOK', HalfDone', at # "tools" => at' # "tools" \/ at = "turn",
             at' = "turn" => at = "turn"
      PROVE  SubagentInv'
  <2>1. NothingTwice'
    BY <1>1 DEF NothingTwice, IsPast, configVars, SubagentTypeOK
  <2>2. SubagentIsTruthful'
    BY <1>1
    DEF SubagentIsTruthful, SubagentIsAnswered, CompletedToolsRan, tools, configVars
  <2> QED
    BY <1>1, <2>1, <2>2
<1>2. ASSUME UNCHANGED subagentVars
      PROVE  SubagentInv'
  <2>1. SubagentTypeOK' /\ HalfDone'
    BY <1>2 DEF subagentVars, SubagentTypeOK, HalfDone, LastMessage
  <2> QED
    BY <1>2, <2>1, <1>1 DEF subagentVars, configVars
<1>3. CASE LookupFails \/ ChatFails \/ TurnEnds
  <2>1. at' = "done" /\ UNCHANGED <<configVars, turns, todo, history, results, reported, executed>>
    BY <1>3 DEF LookupFails, ChatFails, TurnEnds, Finish
  <2>2. SubagentTypeOK' /\ HalfDone'
    BY <2>1 DEF SubagentTypeOK, HalfDone, configVars
  <2> QED
    BY <2>1, <2>2, <1>1
<1>4. CASE TaskIsCancelled
  <2>1. UNCHANGED <<configVars, at, turns, todo, history, results, reported, executed>>
    BY <1>4 DEF TaskIsCancelled
  <2>2. SubagentTypeOK' /\ HalfDone'
    BY <2>1 DEF SubagentTypeOK, HalfDone, LastMessage, configVars
  <2> QED
    BY <2>1, <2>2, <1>1
<1>5. CASE TurnGoesOn
  <2>1. /\ at = "turn" /\ at' = "tools"
        /\ UNCHANGED <<configVars, turns, todo, history, results, reported, executed>>
    BY <1>5 DEF TurnGoesOn
  <2>2. SubagentTypeOK' /\ HalfDone'
    BY <2>1 DEF SubagentTypeOK, HalfDone, LastMessage, configVars
  <2> QED
    BY <2>1, <2>2, <1>1
<1>6. CASE StartTask
  <2>1. /\ at = "lookup" /\ at' = "chat" /\ history' = <<User(<<>>)>>
        /\ UNCHANGED <<configVars, turns, todo, results, reported, executed>>
    BY <1>6 DEF StartTask
  <2>2. <<>> \in Seq(UseIds) /\ User(<<>>) \in Messages
    BY EmptySeq DEF User, Messages
  <2>3. SubagentTypeOK'
    BY <2>1, <2>2 DEF SubagentTypeOK, configVars
  <2>4. /\ Len(history') = 1 /\ history' # <<>>
        /\ DOMAIN history' = {1} /\ history'[1] = User(<<>>)
    BY <2>1
  <2>5. HalfDone'
    BY <2>1, <2>4 DEF HalfDone, LastMessage, User
  <2>6. NothingTwice'
    BY <2>1 DEF NothingTwice, IsPast, configVars, SubagentTypeOK
  <2>7. SubagentIsTruthful'
    BY <2>1, <2>4
    DEF SubagentIsTruthful, SubagentIsAnswered, CompletedToolsRan, tools, configVars
  <2> QED
    BY <2>3, <2>5, <2>6, <2>7
<1>7. ASSUME NEW names \in BoundedSeq(ToolNames, MaxUses), NEW reason,
             Responds(names, reason)
      PROVE  SubagentInv'
  <2> DEFINE uses == [n \in DOMAIN names |-> [id |-> UseId(n), name |-> names[n]]]
             m    == Assistant([n \in DOMAIN uses |-> uses[n].id])
  <2>1. /\ at = "chat" /\ at' = "turn" /\ turns' = turns + 1
        /\ history' = Append(history, m) /\ todo' = uses
        /\ UNCHANGED <<configVars, results, reported, executed>>
    BY <1>7 DEF Responds
  <2>2. /\ turns \in Nat /\ turns' \in Nat /\ history \in Seq(Messages) /\ Len(history) \in Nat
        /\ history # <<>> /\ LastMessage.role = "user" /\ results = <<>>
    BY <2>1, LenProperties DEF SubagentTypeOK, HalfDone
  <2>3. PICK k \in 0..MaxUses : names \in [1..k -> ToolNames]
    BY DEF BoundedSeq, SeqOf
  <2>4. k \in Nat
    BY SubagentAssumption
  <2>5. \A n \in 1..k : /\ UseId(n) = <<turns', n>> /\ UseId(n) \in UseIds
                        /\ names[n] \in ToolNames
    BY <2>1, <2>2, <2>3, <2>4 DEF UseId, UseIds
  <2>6. /\ uses = [n \in 1..k |-> [id |-> UseId(n), name |-> names[n]]]
        /\ uses \in [1..k -> ToolUses]
        /\ \A n \in 1..k : uses[n].id = UseId(n)
    BY <2>3, <2>5 DEF ToolUses
  <2>7. /\ uses \in Seq(ToolUses) /\ Len(uses) = k /\ DOMAIN uses = 1..k
    BY <2>4, <2>6
  <2> HIDE DEF uses
  <2>8. /\ m.role = "assistant" /\ m.ids = [n \in 1..k |-> UseId(n)]
    BY <2>6, <2>7 DEF Assistant
  <2>9. /\ m.ids \in [1..k -> UseIds] /\ \A n \in 1..k : m.ids[n] = UseId(n)
    BY <2>5, <2>8
  <2>10. /\ m.ids \in Seq(UseIds) /\ Len(m.ids) = k
    BY <2>4, <2>9
  <2>11. m \in Messages
    BY <2>10 DEF Messages, Assistant
  <2> HIDE DEF m
  <2>12. /\ history' \in Seq(Messages) /\ Len(history') = Len(history) + 1
         /\ \A n \in 1..Len(history) : history'[n] = history[n]
         /\ history'[Len(history) + 1] = m
    BY <2>1, <2>2, <2>11, AppendProperties
  <2>13. SubagentTypeOK'
    BY <2>1, <2>2, <2>7, <2>12 DEF SubagentTypeOK, configVars
  <2>14. history' # <<>> /\ LastMessage' = m
    BY <2>2, <2>12, EmptySeq DEF LastMessage
  <2>15. HalfDone'
    <3>1. Len(results') = 0 /\ results' = <<>>
      BY <2>1, <2>2
    <3>2. \A i \in 1..Len(todo') : todo'[i].id = LastMessage'.ids[Len(results') + i]
      BY <3>1, <2>1, <2>4, <2>6, <2>7, <2>9, <2>14
    <3>3. \A i \in 1..Len(LastMessage'.ids) : LastMessage'.ids[i] = <<turns', i>>
      BY <2>5, <2>9, <2>10, <2>14
    <3> QED
      BY <3>1, <3>2, <3>3, <2>1, <2>4, <2>7, <2>8, <2>10, <2>14 DEF HalfDone
  <2>16. NothingTwice'
    <3>1. \A id \in UseIds : IsPast(id) => id[1] < turns'
      BY <2>1, <2>2 DEF IsPast, UseIds
    <3>2. \A n \in 1..Len(reported) : reported[n].id \in UseIds
      <4>1. \A n \in 1..Len(reported) : reported[n] \in Statuses
        BY ElementOfSeq DEF SubagentTypeOK
      <4> QED
        BY <4>1 DEF Statuses
    <3>3. /\ \A n \in 1..Len(reported) : reported[n].id[1] < turns'
          /\ \A id \in executed : id[1] < turns'
      BY <3>1, <3>2 DEF NothingTwice, SubagentTypeOK
    <3>4. \A id \in UseIds : id[1] < turns' => id[1] <= turns'
      BY <2>2 DEF UseIds
    <3> QED
      BY <2>1, <3>2, <3>3, <3>4 DEF NothingTwice, IsPast, SubagentTypeOK
  <2>17. SubagentIsAnswered'
    <3>1. DOMAIN history = 1..Len(history) /\ DOMAIN history' = 1..Len(history')
      BY <2>2, <2>12, LenProperties
    <3>2. history[Len(history)].role # "assistant"
      BY <2>2 DEF LastMessage
    <3>3. ASSUME NEW n \in 1..Len(history'), history'[n].role = "assistant", n < Len(history')
          PROVE  history'[n + 1].role = "user" /\ history'[n + 1].ids = history'[n].ids
      <4>1. n \in 1..Len(history) /\ history'[n] = history[n]
        BY <3>3, <2>2, <2>12
      <4>2. n # Len(history)
        BY <4>1, <3>2, <3>3
      <4>3. n + 1 \in 1..Len(history) /\ n < Len(history)
        BY <4>1, <4>2, <2>2
      <4> QED
        BY <3>1, <3>3, <4>1, <4>3, <2>12 DEF SubagentIsTruthful, SubagentIsAnswered
    <3> QED
      BY <3>1, <3>3 DEF SubagentIsAnswered
  <2>18. CompletedToolsRan'
    BY <2>1 DEF SubagentIsTruthful, CompletedToolsRan, tools, configVars
  <2> QED
    BY <2>13, <2>15, <2>16, <2>17, <2>18 DEF SubagentIsTruthful
<1>8. CASE ToolCancelled \/ ToolNotFound \/ BashAsks \/ BashRuns \/ ReadRuns \/ EditRuns
  <2> USE DEF SubagentTypeOK
  <2>1. CASE ToolCancelled
    BY <2>1, HandledKeeps DEF ToolCancelled
  <2>2. CASE ToolNotFound
    BY <2>2, HandledKeeps DEF ToolNotFound
  <2>3. CASE BashAsks
    BY <2>3, HandledKeeps DEF BashAsks, status_of_request
  <2>4. CASE BashRuns
    BY <2>4, HandledKeeps DEF BashRuns, IsKnown, has_session_permission
  <2>5. CASE ReadRuns
    <3>1. PICK status \in {"completed", "failed"} : Handled(status, status = "completed")
      BY <2>5 DEF ReadRuns
    <3>2. use.name \in tools /\ use.name # "bash"
      BY <2>5 DEF ReadRuns, IsKnown
    <3>3. CASE status = "completed"
      <4>1. Handled("completed", TRUE)
        BY <3>1, <3>3 DEF Handled
      <4> QED
        BY <4>1, <3>2, HandledKeeps
    <3>4. CASE status = "failed"
      <4>1. Handled("failed", FALSE)
        BY <3>1, <3>4 DEF Handled
      <4> QED
        BY <4>1, <3>2, HandledKeeps
    <3> QED
      BY <3>3, <3>4
  <2>6. CASE EditRuns
    <3>1. use.name \in tools /\ use.name = "edit"
      BY <2>6 DEF EditRuns, IsKnown
    <3>2. CASE Handled("failed", FALSE)
      BY <3>1, <3>2, HandledKeeps
    <3>3. CASE Handled("completed", auto_accept_edits)
      BY <3>1, <3>3, HandledKeeps
    <3> QED
      BY <2>6, <3>2, <3>3 DEF EditRuns
  <2> QED
    BY <1>8, <2>1, <2>2, <2>3, <2>4, <2>5, <2>6
<1>9. CASE SendResults
  <2>1. /\ at = "tools" /\ at' = "chat" /\ todo = <<>> /\ results' = <<>>
        /\ history' = Append(history, User(results))
        /\ UNCHANGED <<configVars, turns, todo, reported, executed>>
    BY <1>9 DEF SendResults
  <2>2. /\ history \in Seq(Messages) /\ Len(history) \in Nat /\ history # <<>>
        /\ results \in Seq(UseIds) /\ LastMessage \in Messages
        /\ Len(results) = Len(LastMessage.ids)
        /\ \A i \in 1..Len(results) : results[i] = LastMessage.ids[i]
    <3>1. history \in Seq(Messages) /\ Len(history) \in Nat /\ history # <<>>
      BY <2>1, LenProperties DEF SubagentTypeOK, HalfDone
    <3>2. Len(history) \in 1..Len(history)
      BY <3>1, EmptySeq
    <3>3. LastMessage \in Messages
      BY <3>1, <3>2, ElementOfSeq DEF LastMessage
    <3>4. Len(todo) = 0 /\ Len(results) \in Nat /\ results \in Seq(UseIds)
      BY <2>1, LenProperties DEF SubagentTypeOK
    <3> QED
      BY <3>1, <3>3, <3>4, <2>1, SMTT(30) DEF HalfDone
  <2>3. results = LastMessage.ids
    BY <2>2, SeqEqual DEF Messages
  <2>4. User(results) \in Messages
    BY <2>2 DEF Messages, User
  <2>5. /\ history' \in Seq(Messages) /\ Len(history') = Len(history) + 1
        /\ \A n \in 1..Len(history) : history'[n] = history[n]
        /\ history'[Len(history) + 1] = User(results)
    BY <2>1, <2>2, <2>4, AppendProperties
  <2>6. SubagentTypeOK'
    BY <2>1, <2>5, EmptySeq DEF SubagentTypeOK, configVars
  <2>7. history' # <<>> /\ LastMessage' = User(results)
    BY <2>2, <2>5, EmptySeq DEF LastMessage
  <2>8. HalfDone'
    BY <2>1, <2>7 DEF HalfDone, User
  <2>9. NothingTwice'
    BY <2>1 DEF NothingTwice, IsPast
  <2>10. SubagentIsAnswered'
    <3>1. DOMAIN history = 1..Len(history) /\ DOMAIN history' = 1..Len(history')
      BY <2>2, <2>5, LenProperties
    <3>2. ASSUME NEW n \in 1..Len(history'), history'[n].role = "assistant", n < Len(history')
          PROVE  history'[n + 1].role = "user" /\ history'[n + 1].ids = history'[n].ids
      <4>1. n \in 1..Len(history) /\ history'[n] = history[n]
        BY <3>2, <2>2, <2>5
      <4>2. CASE n = Len(history)
        BY <4>1, <4>2, <2>2, <2>3, <2>5 DEF User, LastMessage
      <4>3. CASE n # Len(history)
        <5>1. n + 1 \in 1..Len(history) /\ n < Len(history)
          BY <4>1, <4>3, <2>2
        <5> QED
          BY <3>1, <3>2, <4>1, <5>1, <2>5 DEF SubagentIsTruthful, SubagentIsAnswered
      <4> QED
        BY <4>2, <4>3
    <3> QED
      BY <3>1, <3>2 DEF SubagentIsAnswered
  <2>11. CompletedToolsRan'
    BY <2>1 DEF SubagentIsTruthful, CompletedToolsRan, tools, configVars
  <2> QED
    BY <2>6, <2>8, <2>9, <2>10, <2>11 DEF SubagentIsTruthful
<1> QED
  BY <1>2, <1>3, <1>4, <1>5, <1>6, <1>7, <1>8, <1>9 DEF SubagentNext

\* For any number of turns and of tool uses of a response: the model gets one result for
\* each of its tool uses, and what the events call completed took effect and was allowed
\* (execute_subagent, Executor::execute_with_output).
THEOREM SubagentCorrect == SubagentSpec => []SubagentIsTruthful
<1>1. SubagentInit => SubagentInv
  <2> SUFFICES ASSUME SubagentInit PROVE SubagentInv
    OBVIOUS
  <2>1. /\ todo = <<>> /\ results = <<>> /\ history = <<>> /\ reported = <<>>
        /\ executed = {} /\ at = "lookup" /\ turns = 0 /\ auto_accept_edits \in BOOLEAN
    BY DEF SubagentInit
  <2>2. Len(reported) = 0 /\ DOMAIN reported = {} /\ DOMAIN history = {}
    BY <2>1
  <2>3. SubagentTypeOK
    BY <2>1, EmptySeq DEF SubagentTypeOK
  <2> QED
    BY <2>1, <2>2, <2>3
    DEF SubagentInv, HalfDone, NothingTwice, SubagentIsTruthful, SubagentIsAnswered,
        CompletedToolsRan
<1>2. SubagentInv /\ [SubagentNext]_subagentVars => SubagentInv'
  BY SubagentNextKeeps
<1>3. SubagentInv => SubagentIsTruthful
  BY DEF SubagentInv
<1> QED
  BY <1>1, <1>2, <1>3, PTL DEF SubagentSpec

-----------------------------------------------------------------------------
(* The runs of combos: the invariant *)

ClientStates == {"no", "denied", "connected", "waiting", "dead", "answered"}
Answers == {Bot} \cup {Out(c) : c \in Clients} \cup {RunResult(c) : c \in Clients}

RunsTypeOK ==
    /\ client \in [Clients -> ClientStates]
    /\ bridge \in SUBSET Clients
    /\ inbox \in [Clients -> Seq({"event", "result"}) \cup {Closed}]
    /\ executes \in Seq(Clients) /\ answers \in Seq(Answers)
    /\ pending_bash_combo_id \in BashCalls \cup {NoCall}
    /\ bash_id_of_run \in [Clients -> BashCalls \cup {NoCall}]
    /\ combo \in [Clients -> {"no", "running", "ended"}]
    /\ widget \in [Ids -> SUBSET Clients]

\* A connection ends with its result or with its client: while it waits it has an inbox.
WaitsForSomething(c) ==
    client[c] = "waiting" =>
       /\ inbox[c] # Closed
       /\ (Running(c) /\ c \in bridge) \/ Contains(inbox[c], "result")

\* The name of the combo stands for a bash call until the first run takes it.
IsUnclaimed ==
    /\ \A c \in Clients : bash_id_of_run[c] = NoCall
    /\ \A b \in BashCalls : widget[Bash(b)] = {}

IsClaimedBy(c) ==
    /\ \A d \in Clients : d # c => bash_id_of_run[d] = NoCall
    /\ \A b \in BashCalls : widget[Bash(b)] \subseteq {c}

ClaimedOnce ==
    /\ \A i, j \in 1..Len(answers) : answers[i] = Bot /\ answers[j] = Bot => i = j
    /\ Contains(answers, Bot) => pending_bash_combo_id = NoCall
    /\ Contains(answers, Bot) \/ pending_bash_combo_id # NoCall => IsUnclaimed
    /\ IsUnclaimed \/ \E c \in Clients : IsClaimedBy(c)

RunsInv ==
    /\ RunsTypeOK
    /\ \A c \in Clients : WaitsForSomething(c)
    /\ \A c \in Clients : widget[Run(c)] \subseteq {c}
    /\ ClaimedOnce

\* What is in a queue stays in it when something is appended, and when something else is
\* taken off.
LEMMA AppendedTo ==
  ASSUME NEW S, NEW s \in Seq(S), NEW x \in S, NEW e
  PROVE  /\ Append(s, x) \in Seq(S)
         /\ Contains(Append(s, x), e) <=> Contains(s, e) \/ e = x
<1>1. /\ Append(s, x) \in Seq(S) /\ Len(Append(s, x)) = Len(s) + 1 /\ Len(s) \in Nat
      /\ \A i \in 1..Len(s) : Append(s, x)[i] = s[i]
      /\ Append(s, x)[Len(s) + 1] = x
  BY AppendProperties, LenProperties
<1> QED
  BY <1>1 DEF Contains

LEMMA TakenFrom ==
  ASSUME NEW S, NEW s \in Seq(S), s # <<>>, NEW e
  PROVE  /\ Head(s) \in S /\ Tail(s) \in Seq(S)
         /\ Contains(s, e) <=> Contains(Tail(s), e) \/ e = Head(s)
<1>1. /\ Tail(s) \in Seq(S) /\ Len(Tail(s)) = Len(s) - 1 /\ Len(s) \in Nat \ {0}
      /\ \A i \in 1..Len(Tail(s)) : Tail(s)[i] = s[i + 1]
      /\ Head(s) = s[1] /\ Head(s) \in S
  BY HeadTailProperties, LenProperties, EmptySeq
<1>2. ASSUME NEW i \in 1..Len(s), s[i] = e
      PROVE  Contains(Tail(s), e) \/ e = Head(s)
  <2>1. CASE i = 1
    BY <1>1, <1>2, <2>1
  <2>2. CASE i # 1
    <3>1. i - 1 \in 1..Len(Tail(s)) /\ Tail(s)[i - 1] = e
      BY <1>1, <1>2, <2>2
    <3> QED
      BY <3>1 DEF Contains
  <2> QED
    BY <2>1, <2>2
<1>3. ASSUME NEW i \in 1..Len(Tail(s)), Tail(s)[i] = e
      PROVE  Contains(s, e)
  <2>1. i + 1 \in 1..Len(s) /\ s[i + 1] = e
    BY <1>1, <1>3
  <2> QED
    BY <2>1 DEF Contains
<1>4. e = Head(s) => Contains(s, e)
  BY <1>1 DEF Contains
<1> QED
  BY <1>1, <1>2, <1>3, <1>4 DEF Contains

LEMMA IdsAreTyped ==
  /\ \A c \in Clients : Run(c) \in Ids
  /\ \A b \in BashCalls : Bash(b) \in Ids
  /\ \A c, d : Run(c) = Run(d) => c = d
  /\ \A b, d : Bash(b) = Bash(d) => b = d
  /\ \A b, c : Run(c) # Bash(b)
  /\ \A c \in Clients : Out(c) \in Answers /\ RunResult(c) \in Answers
  /\ Bot \in Answers
  /\ \A c : Out(c) # Bot /\ RunResult(c) # Bot
  /\ \A c, d : Out(c) # RunResult(d)
  /\ \A a \in Answers : a.type = "output" => a = Out(a.run) /\ a.run \in Clients
  /\ \A a \in Answers : a.type = "result" => a = RunResult(a.run) /\ a.run \in Clients
<1>1. /\ \A c \in Clients : Run(c) \in Ids
      /\ \A b \in BashCalls : Bash(b) \in Ids
  BY DEF Ids
<1>2. /\ \A c, d : Run(c) = Run(d) => c = d
      /\ \A b, d : Bash(b) = Bash(d) => b = d
      /\ \A b, c : Run(c) # Bash(b)
  BY DEF Run, Bash
<1>3. /\ \A c \in Clients : Out(c) \in Answers /\ RunResult(c) \in Answers
      /\ Bot \in Answers
  BY DEF Answers
<1>4. /\ Bot.type = "bot" /\ \A c : Out(c).type = "output" /\ Out(c).run = c
      /\ \A c : RunResult(c).type = "result" /\ RunResult(c).run = c
  BY DEF Bot, Out, RunResult
<1>5. /\ \A c : Out(c) # Bot /\ RunResult(c) # Bot
      /\ \A c, d : Out(c) # RunResult(d)
  BY <1>4
<1>6. \A a \in Answers :
         /\ a.type = "output" => a = Out(a.run) /\ a.run \in Clients
         /\ a.type = "result" => a = RunResult(a.run) /\ a.run \in Clients
  BY <1>4 DEF Answers
<1> QED
  BY <1>1, <1>2, <1>3, <1>5, <1>6

LEMMA DeliveredIsTyped ==
  ASSUME RunsTypeOK, NEW id, NEW message \in {"event", "result"}
  PROVE  Delivered(id, message) \in [Clients -> Seq({"event", "result"}) \cup {Closed}]
<1>1. ASSUME NEW c \in Clients, inbox[c] # Closed
      PROVE  Append(inbox[c], message) \in Seq({"event", "result"})
  <2>1. inbox[c] \in Seq({"event", "result"})
    BY <1>1 DEF RunsTypeOK
  <2> QED
    BY <2>1, AppendedTo
<1> QED
  BY <1>1 DEF Delivered, RunsTypeOK

LEMMA UiIdIsTyped ==
  ASSUME RunsTypeOK, NEW c \in Clients
  PROVE  ui_id(c) \in Ids
BY IdsAreTyped DEF RunsTypeOK, ui_id

LEMMA RunsTypeKept ==
  ASSUME RunsTypeOK, RunsNext
  PROVE  RunsTypeOK'
<1> USE DEF RunsTypeOK
<1>1. ASSUME NEW c \in Clients, ClientStarts(c) \/ ClientDies(c)
      PROVE  RunsTypeOK'
  BY <1>1 DEF ClientStarts, ClientDies, ClientStates
<1>2. ASSUME NEW c \in Clients, handle_combo_run(c)
      PROVE  RunsTypeOK'
  <2>1. executes' \in Seq(Clients)
    BY <1>2, AppendedTo DEF handle_combo_run
  <2>2. inbox' \in [Clients -> Seq({"event", "result"}) \cup {Closed}]
    BY <1>2, EmptySeq DEF handle_combo_run
  <2> QED
    BY <1>2, <2>1, <2>2 DEF handle_combo_run, ClientStates
<1>3. ASSUME NEW c \in Clients, Forwards(c)
      PROVE  RunsTypeOK'
  <2>1. Tail(inbox[c]) \in Seq({"event", "result"})
    BY <1>3, TakenFrom DEF Forwards
  <2>2. inbox' \in [Clients -> Seq({"event", "result"}) \cup {Closed}]
    BY <1>3, <2>1 DEF Forwards
  <2>3. client' \in [Clients -> ClientStates] /\ bridge' \in SUBSET Clients
    BY <1>3 DEF Forwards, ClientStates
  <2> QED
    BY <1>3, <2>2, <2>3 DEF Forwards
<1>4. ASSUME NEW c \in Clients, ComboOutputs(c) \/ ComboEnds(c)
      PROVE  RunsTypeOK'
  <2>1. PICK a \in Answers : answers' = Append(answers, a)
    BY <1>4, IdsAreTyped DEF ComboOutputs, ComboEnds
  <2>2. answers' \in Seq(Answers)
    BY <2>1, AppendedTo
  <2> QED
    BY <1>4, <2>2 DEF ComboOutputs, ComboEnds
<1>5. CASE HandleBot
  <2>1. answers' \in Seq(Answers)
    BY <1>5, TakenFrom DEF HandleBot
  <2>2. pending_bash_combo_id' \in BashCalls
    <3>1. Cardinality(BashCalls) \in Nat
      BY RunsAssumption, FS_CardinalityType
    <3>2. Cardinality(BashCalls) \in BashCalls
      BY <3>1, RunsAssumption
    <3>3. \A d \in BashCalls : d <= Cardinality(BashCalls)
      BY <3>1, RunsAssumption
    <3> QED
      BY <1>5, <3>2, <3>3 DEF HandleBot
  <2> QED
    BY <1>5, <2>1, <2>2 DEF HandleBot
<1>6. CASE HandleExecute
  <2>1. executes' \in Seq(Clients) /\ Head(executes) \in Clients
    BY <1>6, TakenFrom DEF HandleExecute
  <2> QED
    BY <1>6, <2>1 DEF HandleExecute, claim_bash_id
<1>7. CASE HandleComboToolEvent
  <2>1. answers' \in Seq(Answers) /\ Head(answers) \in Answers
    BY <1>7, TakenFrom DEF HandleComboToolEvent
  <2>2. PICK c \in Clients : c = Head(answers).run
    BY <1>7, <2>1, IdsAreTyped DEF HandleComboToolEvent
  <2>3. /\ send_event(ui_id(c))
        /\ widget' = [widget EXCEPT ![ui_id(c)] = @ \cup {c}]
        /\ UNCHANGED <<client, executes, pending_bash_combo_id, bash_id_of_run, combo, outputs>>
    BY <1>7, <2>2 DEF HandleComboToolEvent
  <2>4. inbox' \in [Clients -> Seq({"event", "result"}) \cup {Closed}]
    BY <2>3, DeliveredIsTyped DEF send_event
  <2>5. bridge' \in SUBSET Clients
    BY <2>3 DEF send_event
  <2>6. widget' \in [Ids -> SUBSET Clients]
    BY <2>3, UiIdIsTyped
  <2> QED
    BY <2>1, <2>3, <2>4, <2>5, <2>6
<1>8. CASE HandleBashResult
  <2>1. answers' \in Seq(Answers) /\ Head(answers) \in Answers
    BY <1>8, TakenFrom DEF HandleBashResult
  <2>2. PICK c \in Clients : c = Head(answers).run
    BY <1>8, <2>1, IdsAreTyped DEF HandleBashResult
  <2>3. /\ send_result(Run(c))
        /\ bash_id_of_run' = [bash_id_of_run EXCEPT ![c] = NoCall]
        /\ UNCHANGED <<client, executes, pending_bash_combo_id, combo, outputs, widget>>
    BY <1>8, <2>2 DEF HandleBashResult, result_id
  <2>4. inbox' \in [Clients -> Seq({"event", "result"}) \cup {Closed}]
    BY <2>3, DeliveredIsTyped DEF send_result
  <2>5. bridge' \in SUBSET Clients
    BY <2>3 DEF send_result
  <2> QED
    BY <2>1, <2>3, <2>4, <2>5
<1> QED
  BY <1>1, <1>2, <1>3, <1>4, <1>5, <1>6, <1>7, <1>8 DEF RunsNext

\* A step that leaves the client waiting leaves it something to wait for.
LEMMA WaitsKept ==
  ASSUME RunsTypeOK, RunsTypeOK', RunsNext, NEW w \in Clients, WaitsForSomething(w)
  PROVE  WaitsForSomething(w)'
<1> USE DEF WaitsForSomething
<1> SUFFICES ASSUME client'[w] = "waiting"
             PROVE  /\ inbox'[w] # Closed
                    /\ (Running(w)' /\ w \in bridge') \/ Contains(inbox'[w], "result")
  OBVIOUS
<1>1. ASSUME NEW c \in Clients, ClientStarts(c) \/ ClientDies(c)
      PROVE  WaitsForSomething(w)'
  <2>1. client[w] = "waiting"
    BY <1>1 DEF ClientStarts, ClientDies, RunsTypeOK
  <2> QED
    BY <1>1, <2>1 DEF ClientStarts, ClientDies, Running
<1>2. ASSUME NEW c \in Clients, handle_combo_run(c)
      PROVE  WaitsForSomething(w)'
  <2>1. Contains(executes', c) /\ (Contains(executes, w) => Contains(executes', w))
    BY <1>2, AppendedTo DEF handle_combo_run, RunsTypeOK
  <2>2. CASE w = c
    <3>1. inbox'[w] = <<>> /\ w \in bridge'
      BY <1>2, <2>2 DEF handle_combo_run, RunsTypeOK
    <3>2. <<>> # Closed
      BY DEF Closed
    <3> QED
      BY <2>1, <2>2, <3>1, <3>2 DEF Running
  <2>3. CASE w # c
    <3>1. client[w] = "waiting" /\ inbox'[w] = inbox[w]
      BY <1>2, <2>3 DEF handle_combo_run, RunsTypeOK
    <3> QED
      BY <1>2, <2>1, <3>1 DEF handle_combo_run, Running
  <2> QED
    BY <2>2, <2>3
<1>3. ASSUME NEW c \in Clients, Forwards(c)
      PROVE  WaitsForSomething(w)'
  <2>1. client[w] = "waiting"
    BY <1>3 DEF Forwards, RunsTypeOK
  <2>2. Running(w)' <=> Running(w)
    BY <1>3 DEF Forwards, Running
  <2>3. CASE w # c
    BY <1>3, <2>1, <2>2, <2>3 DEF Forwards, RunsTypeOK
  <2>4. CASE w = c
    <3>1. Head(inbox[w]) # "result"
      BY <1>3, <2>1, <2>4 DEF Forwards, RunsTypeOK
    <3>2. inbox'[w] = Tail(inbox[w]) /\ bridge' = bridge
      BY <1>3, <2>1, <2>4, <3>1 DEF Forwards, RunsTypeOK
    <3>3. inbox[w] \in Seq({"event", "result"}) /\ inbox[w] # <<>>
      BY <1>3, <2>4 DEF Forwards, RunsTypeOK
    <3>4. /\ Tail(inbox[w]) \in Seq({"event", "result"})
          /\ Contains(inbox[w], "result") => Contains(Tail(inbox[w]), "result")
      BY <3>1, <3>3, TakenFrom
    <3>5. Closed \notin Seq({"event", "result"})
      BY ElementOfSeq DEF Closed
    <3> QED
      BY <2>1, <2>2, <3>2, <3>4, <3>5
  <2> QED
    BY <2>3, <2>4
<1>4. ASSUME NEW c \in Clients, ComboOutputs(c) \/ ComboEnds(c)
      PROVE  WaitsForSomething(w)'
  <2>1. /\ Contains(answers, RunResult(w)) => Contains(answers', RunResult(w))
        /\ ComboEnds(c) => Contains(answers', RunResult(c))
    <3>1. PICK a \in Answers :
             answers' = Append(answers, a) /\ (ComboEnds(c) => a = RunResult(c))
      BY <1>4, IdsAreTyped DEF ComboOutputs, ComboEnds
    <3> QED
      BY <3>1, AppendedTo DEF RunsTypeOK
  <2>2. Running(w) => Running(w)'
    BY <1>4, <2>1 DEF ComboOutputs, ComboEnds, Running, RunsTypeOK
  <2> QED
    BY <1>4, <2>2 DEF ComboOutputs, ComboEnds
<1>5. CASE HandleBot
  <2>1. Contains(answers, RunResult(w)) => Contains(answers', RunResult(w))
    BY <1>5, TakenFrom, IdsAreTyped DEF HandleBot, RunsTypeOK
  <2> QED
    BY <1>5, <2>1 DEF HandleBot, Running
<1>6. CASE HandleExecute
  <2>1. Head(executes) \in Clients /\ (Contains(executes, w) => w = Head(executes)
                                                       \/ Contains(executes', w))
    BY <1>6, TakenFrom DEF HandleExecute, RunsTypeOK
  <2>2. Running(w) => Running(w)'
    BY <1>6, <2>1 DEF HandleExecute, Running, RunsTypeOK
  <2> QED
    BY <1>6, <2>2 DEF HandleExecute
<1>7. CASE HandleComboToolEvent
  <2>1. Head(answers) \in Answers
    BY <1>7, TakenFrom DEF HandleComboToolEvent, RunsTypeOK
  <2>2. Contains(answers, RunResult(w)) => Contains(answers', RunResult(w))
    <3>1. Head(answers) # RunResult(w)
      BY <1>7 DEF HandleComboToolEvent, RunResult
    <3> QED
      BY <1>7, <3>1, TakenFrom DEF HandleComboToolEvent, RunsTypeOK
  <2>3. Running(w) => Running(w)'
    BY <1>7, <2>2 DEF HandleComboToolEvent, Running
  <2>4. PICK id : send_event(id)
    BY <1>7 DEF HandleComboToolEvent
  <2>5. client[w] = "waiting" /\ inbox[w] # Closed
    BY <1>7 DEF HandleComboToolEvent
  <2>6. w \in bridge => w \in bridge'
    BY <2>4, <2>5 DEF send_event
  <2>7. inbox'[w] = Append(inbox[w], "event") \/ inbox'[w] = inbox[w]
    BY <2>4 DEF send_event, Delivered
  <2>8. inbox[w] \in Seq({"event", "result"})
    BY <2>5 DEF RunsTypeOK
  <2>9. /\ Append(inbox[w], "event") \in Seq({"event", "result"})
        /\ Contains(inbox[w], "result") => Contains(Append(inbox[w], "event"), "result")
    BY <2>8, AppendedTo
  <2>10. Closed \notin Seq({"event", "result"})
    BY ElementOfSeq DEF Closed
  <2> QED
    BY <2>3, <2>5, <2>6, <2>7, <2>8, <2>9, <2>10
<1>8. CASE HandleBashResult
  <2>1. Head(answers) \in Answers
    BY <1>8, TakenFrom DEF HandleBashResult, RunsTypeOK
  <2>2. PICK c \in Clients : c = Head(answers).run /\ Head(answers) = RunResult(c)
    BY <1>8, <2>1, IdsAreTyped DEF HandleBashResult
  <2>3. send_result(Run(c)) /\ answers' = Tail(answers) /\ UNCHANGED <<client, executes, combo>>
    BY <1>8, <2>2 DEF HandleBashResult, result_id
  <2>4. client[w] = "waiting" /\ inbox[w] # Closed
    BY <2>3
  <2>5. inbox[w] \in Seq({"event", "result"})
    BY <2>4 DEF RunsTypeOK
  <2>6. /\ Append(inbox[w], "result") \in Seq({"event", "result"})
        /\ Contains(Append(inbox[w], "result"), "result")
    BY <2>5, AppendedTo
  <2>7. Closed \notin Seq({"event", "result"})
    BY ElementOfSeq DEF Closed
  <2>8. CASE w = c
    <3>1. CASE w \in bridge
      <4>1. inbox'[w] = Append(inbox[w], "result")
        BY <2>3, <2>4, <2>8, <3>1 DEF send_result, Delivered
      <4> QED
        BY <4>1, <2>6, <2>7
    <3>2. CASE w \notin bridge
      <4>1. inbox'[w] = inbox[w]
        BY <2>3, <3>2 DEF send_result, Delivered
      <4> QED
        BY <4>1, <2>4, <3>2
    <3> QED
      BY <3>1, <3>2
  <2>9. CASE w # c
    <3>1. Run(w) # Run(c) /\ RunResult(w) # RunResult(c)
      BY <2>9, IdsAreTyped DEF RunResult
    <3>2. inbox'[w] = inbox[w] /\ (w \in bridge => w \in bridge')
      BY <2>3, <3>1 DEF send_result, Delivered
    <3>3. Contains(answers, RunResult(w)) => Contains(answers', RunResult(w))
      BY <1>8, <2>2, <2>3, <3>1, TakenFrom DEF HandleBashResult, RunsTypeOK
    <3>4. Running(w) => Running(w)'
      BY <2>3, <3>3 DEF Running
    <3> QED
      BY <2>4, <3>2, <3>4
  <2> QED
    BY <2>8, <2>9
<1> QED
  BY <1>1, <1>2, <1>3, <1>4, <1>5, <1>6, <1>7, <1>8 DEF RunsNext

\* What the bridge and the clients do leaves the claims alone.
LEMMA ClaimsUnchanged ==
  ASSUME RunsTypeOK, ClaimedOnce,
         UNCHANGED <<answers, pending_bash_combo_id, bash_id_of_run, widget>>
  PROVE  ClaimedOnce'
BY DEF ClaimedOnce, IsUnclaimed, IsClaimedBy, Contains

\* There is one answer of the model, and so one claim.
LEMMA ClaimsKept ==
  ASSUME RunsTypeOK, ClaimedOnce, RunsNext,
         \A c \in Clients : widget[Run(c)] \subseteq {c}
  PROVE  ClaimedOnce' /\ \A c \in Clients : widget'[Run(c)] \subseteq {c}
<1>1. ASSUME UNCHANGED <<answers, pending_bash_combo_id, bash_id_of_run, widget>>
      PROVE  ClaimedOnce' /\ \A c \in Clients : widget'[Run(c)] \subseteq {c}
  BY <1>1, ClaimsUnchanged
<1>2. ASSUME NEW a \in Answers, a # Bot, answers' = Append(answers, a),
             UNCHANGED <<pending_bash_combo_id, bash_id_of_run, widget>>
      PROVE  ClaimedOnce' /\ \A c \in Clients : widget'[Run(c)] \subseteq {c}
  <2>1. /\ answers \in Seq(Answers) /\ Len(answers) \in Nat
        /\ answers' \in Seq(Answers) /\ Len(answers') = Len(answers) + 1
        /\ \A i \in 1..Len(answers) : answers'[i] = answers[i]
        /\ answers'[Len(answers) + 1] = a
    BY <1>2, AppendProperties, LenProperties DEF RunsTypeOK
  <2>2. ASSUME NEW i \in 1..Len(answers'), answers'[i] = Bot
        PROVE  i \in 1..Len(answers) /\ answers[i] = Bot
    BY <1>2, <2>1, <2>2
  <2>3. Contains(answers', Bot) => Contains(answers, Bot)
    BY <2>2 DEF Contains
  <2> QED
    BY <1>2, <2>2, <2>3 DEF ClaimedOnce, IsUnclaimed, IsClaimedBy
<1>3. ASSUME answers # <<>>, answers' = Tail(answers)
      PROVE  /\ \A i, j \in 1..Len(answers') : answers'[i] = Bot /\ answers'[j] = Bot => i = j
             /\ Contains(answers', Bot) => Contains(answers, Bot)
             /\ Head(answers) = Bot => ~Contains(answers', Bot)
  <2>1. /\ Len(answers') = Len(answers) - 1 /\ Len(answers) \in Nat \ {0}
        /\ \A i \in 1..Len(answers') : answers'[i] = answers[i + 1]
        /\ Head(answers) = answers[1]
    BY <1>3, HeadTailProperties, LenProperties, EmptySeq DEF RunsTypeOK
  <2>2. \A i \in 1..Len(answers') :
           i + 1 \in 1..Len(answers) /\ i + 1 # 1 /\ answers'[i] = answers[i + 1]
    BY <2>1
  <2>3. ASSUME NEW i \in 1..Len(answers'), NEW j \in 1..Len(answers'),
               answers'[i] = Bot, answers'[j] = Bot
        PROVE  i = j
    <3>1. i + 1 = j + 1
      BY <2>2, <2>3 DEF ClaimedOnce
    <3> QED
      BY <3>1, <2>1
  <2>4. Head(answers) = Bot => ~Contains(answers', Bot)
    BY <2>1, <2>2 DEF ClaimedOnce, Contains
  <2>5. Contains(answers', Bot) => Contains(answers, Bot)
    BY <2>2 DEF Contains
  <2> QED
    BY <2>3, <2>4, <2>5
<1>4. CASE HandleBot
  <2>1. /\ Contains(answers, Bot) /\ IsUnclaimed /\ ~Contains(answers', Bot)
    BY <1>3, <1>4, TakenFrom DEF HandleBot, RunsTypeOK, ClaimedOnce
  <2>2. UNCHANGED <<bash_id_of_run, widget>>
    BY <1>4 DEF HandleBot
  <2>3. IsUnclaimed'
    BY <2>1, <2>2 DEF IsUnclaimed
  <2> QED
    BY <1>3, <1>4, <2>1, <2>2, <2>3 DEF HandleBot, ClaimedOnce
<1>5. CASE HandleExecute
  <2>1. PICK c \in Clients :
           bash_id_of_run' = [bash_id_of_run EXCEPT ![c] = pending_bash_combo_id]
    BY <1>5, TakenFrom DEF HandleExecute, RunsTypeOK
  <2>2. /\ pending_bash_combo_id' = NoCall
        /\ UNCHANGED <<answers, widget>>
    BY <1>5 DEF HandleExecute, claim_bash_id
  <2>3. CASE pending_bash_combo_id = NoCall
    <3>1. \A d \in Clients : bash_id_of_run[d] = NoCall => bash_id_of_run'[d] = NoCall
      BY <2>1, <2>3 DEF RunsTypeOK
    <3>2. IsUnclaimed => IsUnclaimed'
      BY <2>2, <3>1 DEF IsUnclaimed
    <3>3. \A d \in Clients : IsClaimedBy(d) => IsClaimedBy(d)'
      BY <2>2, <3>1 DEF IsClaimedBy
    <3> QED
      BY <2>2, <3>2, <3>3 DEF ClaimedOnce, Contains
  <2>4. CASE pending_bash_combo_id # NoCall
    <3>1. IsUnclaimed /\ ~Contains(answers, Bot)
      BY <2>4 DEF ClaimedOnce
    <3>2. IsClaimedBy(c)'
      BY <2>1, <2>2, <3>1 DEF IsUnclaimed, IsClaimedBy, RunsTypeOK
    <3> QED
      BY <2>2, <3>1, <3>2 DEF ClaimedOnce, Contains
  <2> QED
    BY <2>3, <2>4
<1>6. CASE HandleComboToolEvent
  <2>1. PICK c \in Clients :
           /\ widget' = [widget EXCEPT ![ui_id(c)] = @ \cup {c}]
           /\ UNCHANGED <<pending_bash_combo_id, bash_id_of_run>>
    BY <1>6, TakenFrom, IdsAreTyped DEF HandleComboToolEvent, RunsTypeOK
  <2>2. CASE bash_id_of_run[c] = NoCall
    <3>1. ui_id(c) = Run(c)
      BY <2>2 DEF ui_id
    <3>2. \A b \in BashCalls : widget'[Bash(b)] = widget[Bash(b)]
      BY <2>1, <3>1, IdsAreTyped DEF RunsTypeOK
    <3>3. \A d \in Clients : widget'[Run(d)] \subseteq {d}
      BY <2>1, <3>1, IdsAreTyped DEF RunsTypeOK
    <3>4. /\ IsUnclaimed => IsUnclaimed'
          /\ \A d \in Clients : IsClaimedBy(d) => IsClaimedBy(d)'
      BY <2>1, <3>2 DEF IsUnclaimed, IsClaimedBy
    <3> QED
      BY <1>3, <1>6, <2>1, <3>3, <3>4 DEF HandleComboToolEvent, ClaimedOnce
  <2>3. CASE bash_id_of_run[c] # NoCall
    <3>1. ui_id(c) = Bash(bash_id_of_run[c]) /\ bash_id_of_run[c] \in BashCalls
      BY <2>3 DEF ui_id, RunsTypeOK
    <3>2. ~IsUnclaimed /\ ~Contains(answers, Bot) /\ pending_bash_combo_id = NoCall
      BY <2>3 DEF ClaimedOnce, IsUnclaimed
    <3>3. IsClaimedBy(c)
      BY <2>3, <3>2 DEF ClaimedOnce, IsClaimedBy
    <3>4. \A b \in BashCalls : widget'[Bash(b)] \subseteq {c}
      BY <2>1, <3>1, <3>3, IdsAreTyped DEF IsClaimedBy, RunsTypeOK
    <3>5. IsClaimedBy(c)'
      BY <2>1, <3>3, <3>4 DEF IsClaimedBy
    <3>6. \A d \in Clients : widget'[Run(d)] = widget[Run(d)]
      BY <2>1, <3>1, IdsAreTyped DEF RunsTypeOK
    <3> QED
      BY <1>3, <1>6, <2>1, <3>2, <3>5, <3>6 DEF HandleComboToolEvent, ClaimedOnce
  <2> QED
    BY <2>2, <2>3
<1>7. CASE HandleBashResult
  <2>1. PICK c : bash_id_of_run' = [bash_id_of_run EXCEPT ![c] = NoCall]
    BY <1>7 DEF HandleBashResult
  <2>2. UNCHANGED <<pending_bash_combo_id, widget>>
    BY <1>7 DEF HandleBashResult
  <2>3. \A d \in Clients : bash_id_of_run[d] = NoCall => bash_id_of_run'[d] = NoCall
    BY <2>1 DEF RunsTypeOK
  <2>4. /\ IsUnclaimed => IsUnclaimed'
        /\ \A d \in Clients : IsClaimedBy(d) => IsClaimedBy(d)'
    BY <2>2, <2>3 DEF IsUnclaimed, IsClaimedBy
  <2> QED
    BY <1>3, <1>7, <2>2, <2>4 DEF HandleBashResult, ClaimedOnce
<1>8. ASSUME NEW c \in Clients,
             ClientStarts(c) \/ handle_combo_run(c) \/ ClientDies(c) \/ Forwards(c)
      PROVE  ClaimedOnce' /\ \A d \in Clients : widget'[Run(d)] \subseteq {d}
  BY <1>1, <1>8 DEF ClientStarts, handle_combo_run, ClientDies, Forwards
<1>9. ASSUME NEW c \in Clients, ComboOutputs(c) \/ ComboEnds(c)
      PROVE  ClaimedOnce' /\ \A d \in Clients : widget'[Run(d)] \subseteq {d}
  <2>1. CASE ComboOutputs(c)
    BY <1>2, <2>1, IdsAreTyped DEF ComboOutputs
  <2>2. CASE ComboEnds(c)
    BY <1>2, <2>2, IdsAreTyped DEF ComboEnds
  <2> QED
    BY <1>9, <2>1, <2>2
<1> QED
  BY <1>4, <1>5, <1>6, <1>7, <1>8, <1>9 DEF RunsNext

\* For any number of bash calls, of clients from elsewhere and of events of a run: a client
\* that waits is not forgotten, and two runs never share a widget (ComboRunBridge,
\* pending_bash_combo_ids).
THEOREM RunsCorrect == RunsSpec => []RunsAreServed
<1>1. RunsInit => RunsInv
  <2> SUFFICES ASSUME RunsInit PROVE RunsInv
    OBVIOUS
  <2>1. answers = <<Bot>> /\ Len(answers) = 1 /\ answers \in Seq(Answers)
    BY IdsAreTyped DEF RunsInit
  <2>2. RunsTypeOK
    BY <2>1, EmptySeq DEF RunsInit, RunsTypeOK, ClientStates
  <2>3. \A c \in Clients : WaitsForSomething(c)
    BY DEF RunsInit, WaitsForSomething
  <2>4. \A c \in Clients : widget[Run(c)] = {}
    BY IdsAreTyped DEF RunsInit
  <2>5. IsUnclaimed
    BY IdsAreTyped DEF RunsInit, IsUnclaimed
  <2>6. ClaimedOnce
    BY <2>1, <2>5 DEF RunsInit, ClaimedOnce
  <2> QED
    BY <2>2, <2>3, <2>4, <2>6 DEF RunsInv
<1>2. RunsInv /\ [RunsNext]_runsVars => RunsInv'
  <2> SUFFICES ASSUME RunsInv, [RunsNext]_runsVars PROVE RunsInv'
    OBVIOUS
  <2> USE DEF RunsInv
  <2>1. CASE RunsNext
    BY <2>1, RunsTypeKept, WaitsKept, ClaimsKept
  <2>2. CASE UNCHANGED runsVars
    <3>1. RunsTypeOK' /\ ClaimedOnce'
      BY <2>2, ClaimsUnchanged DEF runsVars, RunsTypeOK
    <3> QED
      BY <2>2, <3>1 DEF runsVars, WaitsForSomething, Running
  <2> QED
    BY <2>1, <2>2
<1>3. RunsInv => RunsAreServed
  <2> SUFFICES ASSUME RunsInv PROVE RunsAreServed
    OBVIOUS
  <2>1. WaitingClientsAreServed
    BY DEF RunsInv, WaitsForSomething, WaitingClientsAreServed
  <2>2. ASSUME NEW id \in Ids
        PROVE  Cardinality(widget[id]) <= 1
    <3>1. \E c : widget[id] \subseteq {c}
      BY SMTT(30) DEF RunsInv, ClaimedOnce, IsUnclaimed, IsClaimedBy, Ids
    <3>2. PICK c : widget[id] = {} \/ widget[id] = {c}
      BY <3>1
    <3>3. Cardinality({}) = 0 /\ Cardinality({c}) = 1
      BY FS_EmptySet, FS_Singleton
    <3> QED
      BY <3>2, <3>3
  <2> QED
    BY <2>1, <2>2 DEF RunsAreServed, WidgetsAreNotShared
<1> QED
  BY <1>1, <1>2, <1>3, PTL DEF RunsSpec

-----------------------------------------------------------------------------
(* The output of a command: the invariant *)

Texts     == Streams \X Seq(Nat)
CmdEvents == Texts \cup {Exited}

CmdTypeOK ==
    /\ child \in {"running", "exited", "killed"} /\ offspring \in BOOLEAN
    /\ written \in [Streams -> Nat] /\ pipe \in [Streams -> Seq(Nat)]
    /\ held \in [Streams -> {"no", "call", "before"}] /\ closed \in SUBSET Streams
    /\ lines \in [Streams -> Seq(Nat)] /\ batched \in BOOLEAN
    /\ task \in {"select", "sending", "done", "aborted"}
    /\ event \in CmdEvents \cup {NoEvent}
    /\ channel \in Seq(CmdEvents)
    /\ output \in [Streams -> Seq(Nat)]

\* The n lines of a stream, and the text behind them.
Item(n, k) == IF k <= n THEN k ELSE NoNewline

\* What follows the first items of a stream.
FollowsOn(n, text, first) == \A k \in 1..Len(text) : text[k] = Item(n, first + k)

LinesOf(s, e) == IF e \in Texts /\ e[1] = s THEN e[2] ELSE <<>>

\* Where the events of the channel begin in the stream, the first of them behind what
\* was collected.
ChannelFollowsOn(s, from) ==
    LET passed_on == from[Len(channel) + 1] IN
    /\ FollowsOn(written[s], output[s], 0) /\ from[1] = Len(output[s])
    /\ \A i \in 1..Len(channel) :
          /\ FollowsOn(written[s], LinesOf(s, channel[i]), from[i])
          /\ from[i + 1] = from[i] + Len(LinesOf(s, channel[i]))
    /\ \A i \in 1..Len(channel) + 1 : from[i] <= passed_on

\* What was read of the stream and is not passed_on, and what is still in the pipe.
RestFollowsOn(s, passed_on) ==
    LET read == passed_on + Len(LinesOf(s, event))
        end  == read + Len(lines[s])
        all  == end + Len(pipe[s])
    IN /\ FollowsOn(written[s], LinesOf(s, event), passed_on)
       /\ FollowsOn(written[s], lines[s], read)
       /\ FollowsOn(written[s], pipe[s], end)
       /\ all \in {written[s], written[s] + 1}
       /\ all # written[s] =>
             child # "running" /\ (pipe[s] = <<>> => held[s] # "call")

StreamIsKept(s) ==
    \E from \in [1..Len(channel) + 1 -> Nat] :
       ChannelFollowsOn(s, from) /\ RestFollowsOn(s, from[Len(channel) + 1])

\* Where the reader is, and what comes last.
ReaderInv ==
    /\ task = "select" => event = NoEvent
    /\ task = "done" => event = NoEvent
    /\ task = "sending" => event # NoEvent
    /\ ~batched => \A s \in Streams : lines[s] = <<>>
    /\ \A s \in closed : child # "running" /\ pipe[s] = <<>>
    /\ event = Exited \/ task = "done" =>
          /\ child # "running"
          /\ closed = Streams /\ \A s \in Streams : lines[s] = <<>>
    /\ \A i \in 1..Len(channel) :
          channel[i] = Exited => task \in {"done", "aborted"} /\ i = Len(channel)
    /\ task = "aborted" => tool = "timed_out"
    /\ tool = "ended" => task = "done" /\ channel = <<>>
    /\ killing = "seen" => ~offspring
    /\ tool = "cancelled, ended" => task = "done"

CommandInv ==
    /\ CmdTypeOK
    /\ \A s \in Streams : StreamIsKept(s)
    /\ ReaderInv

LEMMA EventsAreTyped ==
  /\ NoEvent \notin CmdEvents /\ Exited \notin Texts /\ NoEvent # Exited
  /\ \A s \in Streams, text \in Seq(Nat) : <<s, text>> \in CmdEvents
  /\ \A s, t \in Streams, text \in Seq(Nat) :
        LinesOf(s, <<t, text>>) = IF t = s THEN text ELSE <<>>
  /\ \A s : LinesOf(s, NoEvent) = <<>> /\ LinesOf(s, Exited) = <<>>
  /\ \A s, e : LinesOf(s, e) \in Seq(Nat)
  /\ \A e \in CmdEvents \cup {NoEvent} : e # NoEvent /\ e # Exited => e \in Texts
<1>1. NoEvent \notin Texts /\ Exited \notin Texts /\ NoEvent # Exited
  BY DEF Texts, NoEvent, Exited
<1>2. \A s \in Streams, text \in Seq(Nat) :
         <<s, text>> \in Texts /\ <<s, text>>[1] = s /\ <<s, text>>[2] = text
  BY DEF Texts
<1>3. \A e \in Texts : e[2] \in Seq(Nat)
  BY DEF Texts
<1>4. <<>> \in Seq(Nat)
  BY EmptySeq
<1> QED
  BY <1>1, <1>2, <1>3, <1>4 DEF LinesOf, CmdEvents

LEMMA LenIsNat == \A text \in Seq(Nat) : Len(text) \in Nat
BY LenProperties

LEMMA Grown ==
  ASSUME NEW n \in Nat, NEW text \in Seq(Nat), NEW first \in Nat,
         FollowsOn(n, text, first), first + Len(text) <= n
  PROVE  FollowsOn(n + 1, text, first)
BY LenProperties DEF FollowsOn, Item

LEMMA Added ==
  ASSUME NEW n \in Nat, NEW text \in Seq(Nat), NEW first \in Nat,
         FollowsOn(n, text, first), NEW x \in Nat, x = Item(n, first + (Len(text) + 1))
  PROVE  /\ Append(text, x) \in Seq(Nat) /\ Len(Append(text, x)) = Len(text) + 1
         /\ FollowsOn(n, Append(text, x), first)
<1>1. /\ Append(text, x) \in Seq(Nat) /\ Len(Append(text, x)) = Len(text) + 1
      /\ Len(text) \in Nat
      /\ \A i \in 1..Len(text) : Append(text, x)[i] = text[i]
      /\ Append(text, x)[Len(text) + 1] = x
  BY AppendProperties, LenProperties
<1>2. ASSUME NEW i \in 1..Len(Append(text, x))
      PROVE  Append(text, x)[i] = Item(n, first + i)
  <2>1. i \in 1..Len(text) \/ i = Len(text) + 1
    BY <1>1
  <2> QED
    BY <1>1, <2>1 DEF FollowsOn
<1> QED
  BY <1>1, <1>2 DEF FollowsOn

\* The same, of named parts
IsAdded(text, x, n, first) ==
    Len(Append(text, x)) = Len(text) + 1 /\ FollowsOn(n, Append(text, x), first)

LEMMA Addition ==
  ASSUME NEW n \in Nat, NEW text \in Seq(Nat), NEW first \in Nat,
         FollowsOn(n, text, first), NEW x \in Nat, x = Item(n, first + (Len(text) + 1))
  PROVE  IsAdded(text, x, n, first)
BY Added DEF IsAdded

LEMMA Shifted ==
  ASSUME NEW n \in Nat, NEW text \in Seq(Nat), NEW first \in Nat,
         FollowsOn(n, text, first), text # <<>>
  PROVE  /\ Head(text) = Item(n, first + 1) /\ Head(text) \in Nat
         /\ Tail(text) \in Seq(Nat) /\ Len(Tail(text)) = Len(text) - 1
         /\ FollowsOn(n, Tail(text), first + 1)
<1>1. /\ Tail(text) \in Seq(Nat) /\ Len(Tail(text)) = Len(text) - 1
      /\ Head(text) \in Nat /\ Head(text) = text[1] /\ Len(text) \in Nat \ {0}
      /\ \A i \in 1..Len(Tail(text)) : Tail(text)[i] = text[i + 1]
  BY HeadTailProperties, LenProperties, EmptySeq
<1>2. ASSUME NEW i \in 1..Len(Tail(text))
      PROVE  Tail(text)[i] = Item(n, first + 1 + i)
  <2>1. i + 1 \in 1..Len(text) /\ first + (i + 1) = first + 1 + i
    BY <1>1
  <2> QED
    BY <1>1, <2>1 DEF FollowsOn
<1> QED
  BY <1>1, <1>2 DEF FollowsOn

LEMMA Joined ==
  ASSUME NEW n \in Nat, NEW a \in Seq(Nat), NEW b \in Seq(Nat),
         FollowsOn(n, a, 0), FollowsOn(n, b, Len(a))
  PROVE  /\ a \o b \in Seq(Nat) /\ Len(a \o b) = Len(a) + Len(b)
         /\ FollowsOn(n, a \o b, 0)
<1>1. /\ a \o b \in Seq(Nat) /\ Len(a \o b) = Len(a) + Len(b)
      /\ \A i \in 1..Len(a) + Len(b) :
            (a \o b)[i] = IF i <= Len(a) THEN a[i] ELSE b[i - Len(a)]
      /\ Len(a) \in Nat /\ Len(b) \in Nat
  BY ConcatProperties, LenProperties
<1>2. ASSUME NEW i \in 1..Len(a) + Len(b)
      PROVE  (a \o b)[i] = Item(n, 0 + i)
  <2>1. CASE i <= Len(a)
    BY <1>1, <2>1 DEF FollowsOn
  <2>2. CASE ~(i <= Len(a))
    <3>1. i - Len(a) \in 1..Len(b) /\ Len(a) + (i - Len(a)) = i
      BY <1>1, <2>2
    <3> QED
      BY <1>1, <2>2, <3>1 DEF FollowsOn
  <2> QED
    BY <2>1, <2>2
<1> QED
  BY <1>1, <1>2 DEF FollowsOn

\* The reader moves what it has within the stream; the channel stays as it is.
LEMMA RestMoves ==
  ASSUME CmdTypeOK, NEW s \in Streams, StreamIsKept(s),
         UNCHANGED <<channel, output>>, written'[s] = written[s],
         ASSUME NEW passed_on \in Nat, RestFollowsOn(s, passed_on)
         PROVE  RestFollowsOn(s, passed_on)'
  PROVE  StreamIsKept(s)'
<1>1. PICK from \in [1..Len(channel) + 1 -> Nat] :
         ChannelFollowsOn(s, from) /\ RestFollowsOn(s, from[Len(channel) + 1])
  BY DEF StreamIsKept
<1>2. Len(channel) \in Nat
  BY LenProperties DEF CmdTypeOK
<1>3. PICK passed_on \in Nat : passed_on = from[Len(channel) + 1]
  BY <1>2
<1>4. RestFollowsOn(s, passed_on)'
  BY <1>1, <1>3
<1>5. ChannelFollowsOn(s, from)'
  BY <1>1 DEF ChannelFollowsOn
<1>6. from \in [1..Len(channel') + 1 -> Nat] /\ RestFollowsOn(s, from[Len(channel) + 1])'
  BY <1>3, <1>4 DEF RestFollowsOn
<1> QED
  BY <1>5, <1>6 DEF StreamIsKept

LEMMA RestStays ==
  ASSUME CmdTypeOK, NEW s \in Streams, StreamIsKept(s),
         UNCHANGED <<channel, output>>, written'[s] = written[s],
         LinesOf(s, event)' = LinesOf(s, event), lines'[s] = lines[s], pipe'[s] = pipe[s],
         child # "running" => child' # "running",
         child # "running" /\ held'[s] = "call" => held[s] = "call"
  PROVE  StreamIsKept(s)'
<1>1. ASSUME NEW passed_on \in Nat, RestFollowsOn(s, passed_on)
      PROVE  RestFollowsOn(s, passed_on)'
  BY <1>1 DEF RestFollowsOn
<1> QED
  BY <1>1, RestMoves

\* The reader delivers a line: it is the next of the stream behind those it holds.
LEMMA LineIsDelivered ==
  ASSUME CmdTypeOK, ReaderInv, NEW s \in Streams, task = "select",
         NEW passed_on \in Nat, RestFollowsOn(s, passed_on),
         NEW end \in Nat, end = passed_on + Len(lines[s]),
         NEW l \in Nat, l = Item(written[s], end + 1), Deliver(s, l),
         pipe'[s] \in Seq(Nat), FollowsOn(written[s], pipe'[s], end + 1),
         end + 1 + Len(pipe'[s]) \in {written[s], written[s] + 1},
         end + 1 + Len(pipe'[s]) # written[s] => child # "running"
  PROVE  RestFollowsOn(s, passed_on)'
<1>1. /\ event = NoEvent /\ LinesOf(s, event) = <<>> /\ Len(LinesOf(s, event)) = 0
      /\ lines[s] \in Seq(Nat) /\ Len(lines[s]) \in Nat /\ written[s] \in Nat
      /\ Len(pipe'[s]) \in Nat
  <2>1. lines[s] \in Seq(Nat) /\ written[s] \in Nat /\ event = NoEvent
    BY DEF ReaderInv, CmdTypeOK
  <2>2. LinesOf(s, event) = <<>> /\ Len(<<>>) = 0
    BY <2>1, EventsAreTyped
  <2> QED
    BY <2>1, <2>2, LenIsNat
<1>2. UNCHANGED <<child, written>> /\ held'[s] # "call"
  BY DEF Deliver, processVars, ReadsStopped
<1>3. FollowsOn(written[s], lines[s], passed_on)
  BY <1>1 DEF RestFollowsOn
<1>4. CASE batched
  <2>1. lines'[s] = Append(lines[s], l) /\ event' = event
    BY <1>4 DEF Deliver, CmdTypeOK
  <2>2. end + 1 = passed_on + (Len(lines[s]) + 1)
    BY <1>1
  <2>3. Len(lines'[s]) = Len(lines[s]) + 1 /\ FollowsOn(written[s], lines'[s], passed_on)
    <3>1. l = Item(written[s], passed_on + (Len(lines[s]) + 1))
      BY <2>2
    <3>2. /\ Len(Append(lines[s], l)) = Len(lines[s]) + 1
          /\ FollowsOn(written[s], Append(lines[s], l), passed_on)
      <4>1. /\ lines[s] \in Seq(Nat) /\ written[s] \in Nat
            /\ FollowsOn(written[s], lines[s], passed_on)
        BY <1>1, <1>3
      <4> DEFINE have == lines[s]
                 made == written[s]
      <4>2. have \in Seq(Nat) /\ made \in Nat /\ FollowsOn(made, have, passed_on)
            /\ l = Item(made, passed_on + (Len(have) + 1))
        BY <3>1, <4>1
      <4> HIDE DEF have, made
      <4>3. IsAdded(have, l, made, passed_on)
        BY <1>1, <4>2, Addition
      <4> QED
        BY <4>3 DEF IsAdded, have, made
    <3> QED
      BY <2>1, <3>2
  <2>4. LinesOf(s, event)' = <<>> /\ Len(<<>>) = 0 /\ passed_on + 0 = passed_on
    BY <1>1, <2>1 DEF LinesOf
  <2>5. passed_on + Len(lines'[s]) = end + 1
    BY <1>1, <2>2, <2>3
  <2>6. FollowsOn(written[s], <<>>, passed_on)
    BY <2>4 DEF FollowsOn
  <2> QED
    BY <1>2, <2>3, <2>4, <2>5, <2>6 DEF RestFollowsOn
<1>5. CASE ~batched
  <2>1. lines[s] = <<>> /\ lines'[s] = <<>> /\ event' = <<s, <<l>>>> /\ end = passed_on
    <3>1. lines[s] = <<>> /\ lines' = lines /\ event' = <<s, <<l>>>>
      BY <1>5 DEF Deliver, flush, ReaderInv
    <3>2. Len(<<>>) = 0
      OBVIOUS
    <3> QED
      BY <3>1, <3>2
  <2>2. <<l>> \in Seq(Nat) /\ Len(<<l>>) = 1 /\ Len(<<>>) = 0 /\ <<l>>[1] = l
    OBVIOUS
  <2>3. LinesOf(s, event)' = <<l>>
    BY <2>1, <2>2, EventsAreTyped DEF LinesOf
  <2>4. FollowsOn(written[s], <<l>>, passed_on) /\ FollowsOn(written[s], <<>>, passed_on + 1)
    BY <2>1, <2>2 DEF FollowsOn
  <2>5. passed_on + 1 + 0 = end + 1
    BY <2>1
  <2> QED
    BY <1>2, <2>1, <2>2, <2>3, <2>4, <2>5 DEF RestFollowsOn
<1> QED
  BY <1>4, <1>5

LEMMA LineIsWritten ==
  ASSUME CmdTypeOK, NEW s \in Streams, ChildWrites(s), StreamIsKept(s)
  PROVE  StreamIsKept(s)'
<1>1. PICK from \in [1..Len(channel) + 1 -> Nat] :
         ChannelFollowsOn(s, from) /\ RestFollowsOn(s, from[Len(channel) + 1])
  BY DEF StreamIsKept
<1>2. /\ child = "running" /\ written'[s] = written[s] + 1
      /\ pipe'[s] = Append(pipe[s], written[s] + 1)
      /\ UNCHANGED <<child, channel, output, event, lines>>
  BY DEF ChildWrites, CmdTypeOK, readerVars, toolVars
<1>3. Len(channel) \in Nat
  BY LenProperties DEF CmdTypeOK
<1>4. PICK n \in Nat, out \in Seq(Nat), sending \in Seq(Nat), kept \in Seq(Nat),
           unread \in Seq(Nat), passed_on \in Nat :
         /\ n = written[s] /\ out = output[s] /\ sending = LinesOf(s, event)
         /\ kept = lines[s] /\ unread = pipe[s] /\ passed_on = from[Len(channel) + 1]
  <2>1. /\ written[s] \in Nat /\ output[s] \in Seq(Nat) /\ LinesOf(s, event) \in Seq(Nat)
        /\ lines[s] \in Seq(Nat) /\ pipe[s] \in Seq(Nat)
    BY EventsAreTyped DEF CmdTypeOK
  <2>2. from[Len(channel) + 1] \in Nat
    BY <1>3
  <2> QED
    BY <2>1, <2>2
<1>5. /\ Len(out) \in Nat /\ Len(sending) \in Nat /\ Len(kept) \in Nat /\ Len(unread) \in Nat
  BY LenIsNat
<1>6. PICK read \in Nat, end \in Nat : read = passed_on + Len(sending) /\ end = read + Len(kept)
  BY <1>5
<1>7. /\ end + Len(unread) = n
      /\ FollowsOn(n, sending, passed_on) /\ FollowsOn(n, kept, read) /\ FollowsOn(n, unread, end)
  BY <1>1, <1>2, <1>4, <1>6 DEF RestFollowsOn
<1>8. passed_on <= n /\ read <= n /\ end <= n
  BY <1>5, <1>6, <1>7
<1>9. /\ FollowsOn(n + 1, sending, passed_on) /\ FollowsOn(n + 1, kept, read)
      /\ FollowsOn(n + 1, unread, end)
  BY <1>5, <1>6, <1>7, <1>8, Grown
<1>10. /\ FollowsOn(n + 1, Append(unread, n + 1), end)
       /\ end + Len(Append(unread, n + 1)) = n + 1
  <2>1. PICK m \in Nat : m = n + 1
    OBVIOUS
  <2>2. m = Item(m, end + (Len(unread) + 1))
    <3>1. end + Len(unread) = n
      BY <1>7
    <3>2. end + (Len(unread) + 1) = n + 1
      BY <1>5, <3>1
    <3> QED
      BY <2>1, <3>2 DEF Item
  <2>3. /\ FollowsOn(m, Append(unread, m), end)
        /\ Len(Append(unread, m)) = Len(unread) + 1
    BY <1>9, <2>1, <2>2, Added
  <2>4. end + (Len(unread) + 1) = n + 1
    <3>1. end + Len(unread) = n
      BY <1>7
    <3> QED
      BY <1>5, <3>1
  <2>5. FollowsOn(n + 1, Append(unread, n + 1), end)
    BY <2>1, <2>3
  <2>6. end + Len(Append(unread, n + 1)) = n + 1
    BY <2>1, <2>3, <2>4
  <2> QED
    BY <2>5, <2>6
<1>11. RestFollowsOn(s, from[Len(channel) + 1])'
  BY <1>2, <1>4, <1>6, <1>9, <1>10 DEF RestFollowsOn, LinesOf
<1>12. FollowsOn(n + 1, out, 0)
  <2>1. 1 \in 1..Len(channel) + 1
    BY <1>3
  <2>2. Len(out) <= passed_on /\ FollowsOn(n, out, 0)
    BY <1>1, <1>4, <2>1 DEF ChannelFollowsOn
  <2> QED
    BY <1>5, <1>8, <2>2, Grown
<1>13. ASSUME NEW i \in 1..Len(channel)
       PROVE  FollowsOn(n + 1, LinesOf(s, channel[i]), from[i])
  <2>1. i \in 1..Len(channel) + 1 /\ i + 1 \in 1..Len(channel) + 1
    BY <1>3
  <2>2. PICK text \in Seq(Nat), first \in Nat, later \in Nat :
           text = LinesOf(s, channel[i]) /\ first = from[i] /\ later = from[i + 1]
    BY <2>1, EventsAreTyped
  <2>3. FollowsOn(n, text, first) /\ later = first + Len(text) /\ later <= passed_on
    BY <1>1, <1>4, <2>1, <2>2 DEF ChannelFollowsOn
  <2>4. first + Len(text) <= n
    BY <1>8, <2>3
  <2> QED
    BY <2>2, <2>3, <2>4, Grown
<1>14. ChannelFollowsOn(s, from)'
  BY <1>1, <1>2, <1>4, <1>12, <1>13 DEF ChannelFollowsOn
<1> QED
  BY <1>2, <1>11, <1>14 DEF StreamIsKept

LEMMA OtherIsDelivered ==
  ASSUME CmdTypeOK, NEW s \in Streams, NEW t \in Streams, s # t, NEW l \in Nat,
         event = NoEvent, StreamIsKept(s), Deliver(t, l), pipe'[s] = pipe[s],
         UNCHANGED <<channel, output>>
  PROVE  StreamIsKept(s)'
<1>1. /\ UNCHANGED <<child, written>> /\ held'[s] # "call" /\ lines'[s] = lines[s]
      /\ event' = event \/ event' = <<t, <<l>>>>
  BY DEF Deliver, flush, processVars, ReadsStopped, CmdTypeOK
<1>2. <<l>> \in Seq(Nat)
  OBVIOUS
<1>3. LinesOf(s, event) = <<>> /\ LinesOf(s, event)' = <<>>
  BY <1>1, <1>2, EventsAreTyped DEF LinesOf
<1> QED
  BY <1>1, <1>3, RestStays

\* The event goes to the end of the channel.
LEMMA EventIsSent ==
  ASSUME CmdTypeOK, ReaderInv, NEW s \in Streams, Send, StreamIsKept(s)
  PROVE  StreamIsKept(s)'
<1>1. PICK from \in [1..Len(channel) + 1 -> Nat] :
         ChannelFollowsOn(s, from) /\ RestFollowsOn(s, from[Len(channel) + 1])
  BY DEF StreamIsKept
<1>2. /\ event \in CmdEvents /\ channel' = Append(channel, event) /\ event' = NoEvent
      /\ UNCHANGED <<child, written, pipe, held, lines, output>>
  BY DEF Send, ReaderInv, CmdTypeOK, processVars, toolVars
<1>3. PICK len \in Nat : len = Len(channel)
  BY LenProperties DEF CmdTypeOK
<1>4. /\ Len(channel') = len + 1 /\ channel'[len + 1] = event
      /\ \A i \in 1..len : channel'[i] = channel[i]
  BY <1>2, <1>3, AppendProperties DEF CmdTypeOK
<1>5. PICK sending \in Seq(Nat), passed_on \in Nat :
         sending = LinesOf(s, event) /\ passed_on = from[len + 1]
  <2>1. LinesOf(s, event) \in Seq(Nat)
    BY EventsAreTyped
  <2>2. from[len + 1] \in Nat
    BY <1>3
  <2> QED
    BY <2>1, <2>2
<1>6. Len(sending) \in Nat
  BY LenIsNat
<1>7. PICK later \in Nat : later = passed_on + Len(sending)
  BY <1>6
<1> DEFINE after == [i \in 1..len + 2 |-> IF i = len + 2 THEN later ELSE from[i]]
<1>8. /\ after \in [1..len + 2 -> Nat] /\ after[len + 2] = later
      /\ \A i \in 1..len + 1 : after[i] = from[i]
  BY <1>3
<1> HIDE DEF after
<1>9. /\ FollowsOn(written[s], output[s], 0) /\ from[1] = Len(output[s])
      /\ \A i \in 1..len :
            /\ FollowsOn(written[s], LinesOf(s, channel[i]), from[i])
            /\ from[i + 1] = from[i] + Len(LinesOf(s, channel[i]))
      /\ \A i \in 1..len + 1 : from[i] <= passed_on
  BY <1>1, <1>3, <1>5 DEF ChannelFollowsOn
<1>10. FollowsOn(written[s], sending, passed_on)
  BY <1>1, <1>3, <1>5 DEF RestFollowsOn
<1>11. ASSUME NEW i \in 1..len + 1
       PROVE  /\ FollowsOn(written[s], LinesOf(s, channel'[i]), after[i])
              /\ after[i + 1] = after[i] + Len(LinesOf(s, channel'[i]))
  <2>1. CASE i = len + 1
    <3>1. i + 1 = len + 2 /\ i \in 1..len + 1
      BY <2>1
    <3> QED
      BY <2>1, <3>1, <1>4, <1>5, <1>7, <1>8, <1>10
  <2>2. CASE i \in 1..len
    <3>1. i + 1 \in 1..len + 1
      BY <2>2
    <3> QED
      BY <2>2, <3>1, <1>4, <1>8, <1>9
  <2> QED
    BY <2>1, <2>2
<1>12. ASSUME NEW i \in 1..len + 2
       PROVE  after[i] <= later
  <2>1. CASE i = len + 2
    BY <2>1, <1>8
  <2>2. CASE i \in 1..len + 1
    <3>1. after[i] = from[i] /\ from[i] \in Nat /\ from[i] <= passed_on
      BY <2>2, <1>3, <1>8, <1>9
    <3> QED
      BY <3>1, <1>6, <1>7
  <2> QED
    BY <2>1, <2>2
<1>13. after[1] = from[1]
  BY <1>8
<1>14. /\ Len(channel') + 1 = len + 2
       /\ \A i \in 1..len + 1 : LinesOf(s, channel[i])' = LinesOf(s, channel'[i])
  BY <1>4 DEF LinesOf
<1>15. ChannelFollowsOn(s, after)'
  BY <1>2, <1>4, <1>8, <1>9, <1>11, <1>12, <1>13, <1>14 DEF ChannelFollowsOn
<1>16. RestFollowsOn(s, after[Len(channel) + 1])'
  <2>1. /\ LinesOf(s, event)' = <<>> /\ Len(<<>>) = 0 /\ later + 0 = later
        /\ FollowsOn(written[s], <<>>, later)
    BY <1>2, EventsAreTyped DEF LinesOf, FollowsOn
  <2>2. after[Len(channel') + 1] = passed_on + Len(sending)
    BY <1>7, <1>8, <1>14
  <2> QED
    BY <1>1, <1>2, <1>3, <1>5, <1>7, <2>1, <2>2 DEF RestFollowsOn
<1>17. after \in [1..Len(channel') + 1 -> Nat]
  BY <1>8, <1>14
<1> QED
  BY <1>15, <1>16, <1>17 DEF StreamIsKept

\* The tool takes the first event of the channel.
LEMMA EventIsTaken ==
  ASSUME CmdTypeOK, NEW s \in Streams, TakeEvent, StreamIsKept(s)
  PROVE  StreamIsKept(s)'
<1>1. PICK from \in [1..Len(channel) + 1 -> Nat] :
         ChannelFollowsOn(s, from) /\ RestFollowsOn(s, from[Len(channel) + 1])
  BY DEF StreamIsKept
<1>2. /\ channel # <<>> /\ channel' = Tail(channel)
      /\ UNCHANGED <<child, written, pipe, held, lines, event>>
  BY DEF TakeEvent, processVars, readerVars
<1>3. /\ channel \in Seq(CmdEvents) /\ Head(channel) \in CmdEvents
      /\ Head(channel) = channel[1]
  BY <1>2, HeadTailProperties DEF CmdTypeOK
<1>4. PICK len \in Nat : Len(channel) = len + 1
  <2>1. Len(channel) \in Nat \ {0}
    BY <1>2, <1>3, EmptySeq
  <2>2. Len(channel) - 1 \in Nat /\ Len(channel) = (Len(channel) - 1) + 1
    BY <2>1
  <2> QED
    BY <2>2
<1>5. /\ Len(channel') = len /\ \A i \in 1..len : channel'[i] = channel[i + 1]
  BY <1>2, <1>3, <1>4, HeadTailProperties
<1>6. PICK taken \in Seq(Nat), out \in Seq(Nat) :
         taken = LinesOf(s, channel[1]) /\ out = output[s]
  BY EventsAreTyped DEF CmdTypeOK
<1>7. output'[s] = out \o taken
  <2>1. CASE Head(channel) = Exited
    <3>1. taken = <<>> /\ output'[s] = out
      BY <1>3, <1>6, <2>1, EventsAreTyped DEF TakeEvent
    <3> QED
      BY <3>1, ConcatEmptySeq
  <2>2. CASE Head(channel) # Exited
    <3>1. /\ channel[1] \in Texts
          /\ output' = [output EXCEPT ![channel[1][1]] = @ \o channel[1][2]]
      BY <1>3, <2>2 DEF TakeEvent, CmdEvents
    <3>2. CASE channel[1][1] = s
      BY <1>6, <3>1, <3>2 DEF LinesOf, CmdTypeOK
    <3>3. CASE channel[1][1] # s
      <4>1. taken = <<>> /\ output'[s] = out
        BY <1>6, <3>1, <3>3 DEF LinesOf, CmdTypeOK
      <4> QED
        BY <4>1, ConcatEmptySeq
    <3> QED
      BY <3>2, <3>3
  <2> QED
    BY <2>1, <2>2
<1> DEFINE after == [i \in 1..len + 1 |-> from[i + 1]]
<1>8. /\ after \in [1..len + 1 -> Nat] /\ \A i \in 1..len + 1 : after[i] = from[i + 1]
  <2>1. \A i \in 1..len + 1 : i + 1 \in 1..Len(channel) + 1
    BY <1>4
  <2> QED
    BY <2>1
<1> HIDE DEF after
<1>9. /\ FollowsOn(written[s], out, 0) /\ from[1] = Len(out)
      /\ \A i \in 1..len + 1 :
            /\ FollowsOn(written[s], LinesOf(s, channel[i]), from[i])
            /\ from[i + 1] = from[i] + Len(LinesOf(s, channel[i]))
      /\ \A i \in 1..len + 2 : from[i] <= from[len + 2]
  <2>1. Len(channel) + 1 = len + 2
    BY <1>4
  <2> QED
    BY <1>1, <1>4, <1>6, <2>1 DEF ChannelFollowsOn
<1>10. /\ FollowsOn(written[s], output'[s], 0) /\ after[1] = Len(output'[s])
  <2>1. 1 \in 1..len + 1 /\ 1 + 1 = 2
    OBVIOUS
  <2>2. FollowsOn(written[s], taken, Len(out)) /\ from[2] = Len(out) + Len(taken)
    BY <1>6, <1>9, <2>1
  <2>3. written[s] \in Nat
    BY DEF CmdTypeOK
  <2>4. Len(out \o taken) = Len(out) + Len(taken) /\ FollowsOn(written[s], out \o taken, 0)
    BY <1>9, <2>2, <2>3, Joined
  <2> QED
    BY <1>7, <1>8, <2>1, <2>2, <2>4
<1>11. ASSUME NEW i \in 1..len
       PROVE  /\ FollowsOn(written[s], LinesOf(s, channel'[i]), after[i])
              /\ after[i + 1] = after[i] + Len(LinesOf(s, channel'[i]))
  <2>1. i + 1 \in 1..len + 1 /\ i \in 1..len + 1
    OBVIOUS
  <2> QED
    BY <2>1, <1>5, <1>8, <1>9
<1>12. ASSUME NEW i \in 1..len + 1
       PROVE  after[i] <= after[len + 1]
  <2>1. i + 1 \in 1..len + 2 /\ len + 1 \in 1..len + 1 /\ (len + 1) + 1 = len + 2
    OBVIOUS
  <2> QED
    BY <2>1, <1>8, <1>9
<1>13. \A i \in 1..len : LinesOf(s, channel[i])' = LinesOf(s, channel'[i])
  BY DEF LinesOf
<1>14. ChannelFollowsOn(s, after)'
  BY <1>2, <1>5, <1>10, <1>11, <1>12, <1>13 DEF ChannelFollowsOn
<1>15. after[Len(channel') + 1] = from[Len(channel) + 1]
  <2>1. (len + 1) + 1 = Len(channel) + 1 /\ len + 1 \in 1..len + 1
    BY <1>4
  <2> QED
    BY <2>1, <1>4, <1>5, <1>8
<1>16. RestFollowsOn(s, after[Len(channel) + 1])'
  BY <1>1, <1>2, <1>15 DEF RestFollowsOn, LinesOf
<1>17. after \in [1..Len(channel') + 1 -> Nat]
  BY <1>5, <1>8
<1> QED
  BY <1>14, <1>16, <1>17 DEF StreamIsKept

\* A step of the command, for one of its streams.
LEMMA StreamsAreKept ==
  ASSUME CmdTypeOK, ReaderInv, CommandNext, NEW s \in Streams, StreamIsKept(s)
  PROVE  StreamIsKept(s)'
<1>1. ASSUME NEW t \in Streams, ChildWrites(t)
      PROVE  StreamIsKept(s)'
  <2>1. CASE s # t
    BY <1>1, <2>1, RestStays
    DEF ChildWrites, CmdTypeOK, LinesOf, readerVars, toolVars
  <2>2. CASE s = t
    BY <1>1, <2>2, LineIsWritten
  <2> QED
    BY <2>1, <2>2
<1>2. CASE ChildExits
  <2>1. /\ child = "running" /\ child' # "running"
        /\ UNCHANGED <<channel, output, event, lines, written, held>>
        /\ pipe'[s] = pipe[s] \/ pipe'[s] = Append(pipe[s], NoNewline)
    BY <1>2 DEF ChildExits, CmdTypeOK, readerVars, toolVars
  <2>2. CASE pipe'[s] = pipe[s]
    BY <2>1, <2>2, RestStays DEF LinesOf
  <2>3. CASE pipe'[s] = Append(pipe[s], NoNewline)
    <3>1. ASSUME NEW passed_on \in Nat, RestFollowsOn(s, passed_on)
          PROVE  RestFollowsOn(s, passed_on)'
      <4> DEFINE end == passed_on + Len(LinesOf(s, event)) + Len(lines[s])
      <4>1. /\ written[s] \in Nat /\ pipe[s] \in Seq(Nat) /\ lines[s] \in Seq(Nat)
            /\ LinesOf(s, event) \in Seq(Nat)
            /\ Len(pipe[s]) \in Nat /\ Len(lines[s]) \in Nat
            /\ Len(LinesOf(s, event)) \in Nat /\ end \in Nat
        BY EventsAreTyped, LenProperties DEF CmdTypeOK
      <4>2. end + Len(pipe[s]) = written[s] /\ FollowsOn(written[s], pipe[s], end)
        BY <2>1, <3>1 DEF RestFollowsOn
      <4>3. /\ FollowsOn(written[s], pipe'[s], end) /\ pipe'[s] # <<>>
            /\ end + Len(pipe'[s]) = written[s] + 1
        <5> HIDE DEF end
        <5>1. NoNewline \in Nat /\ NoNewline = Item(written[s], end + (Len(pipe[s]) + 1))
          BY <4>1, <4>2 DEF Item, NoNewline
        <5>2. /\ Len(pipe'[s]) = Len(pipe[s]) + 1 /\ pipe'[s] \in Seq(Nat)
              /\ FollowsOn(written[s], pipe'[s], end)
          BY <2>3, <4>1, <4>2, <5>1, Added
        <5> QED
          BY <4>1, <4>2, <5>2, EmptySeq
      <4> QED
        BY <2>1, <3>1, <4>3 DEF RestFollowsOn, LinesOf
    <3> QED
      BY <2>1, <3>1, RestMoves
  <2> QED
    BY <2>1, <2>2, <2>3
<1>3. ASSUME NEW t \in Streams, ChildPrompts(t)
      PROVE  StreamIsKept(s)'
  BY <1>3, RestStays DEF ChildPrompts, LinesOf, toolVars
<1>4. CASE SeesKill
  BY <1>4, RestStays
  DEF SeesKill, kill_process_group, ReadsStopped, LinesOf, toolVars, CmdTypeOK
<1>5. ASSUME NEW t \in Streams, ReadLine(t)
      PROVE  StreamIsKept(s)'
  <2>1. /\ task = "select" /\ event = NoEvent /\ LinesOf(s, event) = <<>>
        /\ pipe' = [pipe EXCEPT ![t] = Tail(@)] /\ pipe[t] # <<>>
        /\ Deliver(t, Head(pipe[t]))
        /\ UNCHANGED <<child, written, channel, output>>
    BY <1>5, EventsAreTyped DEF ReadLine, ReaderInv, Deliver, processVars, toolVars
  <2>2. CASE s # t
    <3>1. Head(pipe[t]) \in Nat
      BY <2>1, HeadTailProperties DEF CmdTypeOK
    <3>2. pipe'[s] = pipe[s]
      BY <2>1, <2>2 DEF CmdTypeOK
    <3> QED
      BY <2>1, <2>2, <3>1, <3>2, OtherIsDelivered
  <2>3. CASE s = t
    <3>1. ASSUME NEW passed_on \in Nat, RestFollowsOn(s, passed_on)
          PROVE  RestFollowsOn(s, passed_on)'
      <4>1. PICK n \in Nat, unread \in Seq(Nat), kept \in Seq(Nat) :
               n = written[s] /\ unread = pipe[s] /\ kept = lines[s]
        BY DEF CmdTypeOK
      <4>2. Len(unread) \in Nat /\ Len(kept) \in Nat /\ unread # <<>>
        BY <2>1, <2>3, <4>1, LenIsNat
      <4>3. PICK end \in Nat : end = passed_on + Len(kept)
        BY <4>2
      <4>4. /\ FollowsOn(n, unread, end) /\ end + Len(unread) \in {n, n + 1}
            /\ end + Len(unread) # n => child # "running"
        <5>1. passed_on + Len(<<>>) + Len(kept) = end
          BY <4>2, <4>3
        <5> QED
          BY <3>1, <2>1, <4>1, <5>1 DEF RestFollowsOn
      <4>5. /\ Head(unread) = Item(n, end + 1) /\ Head(unread) \in Nat
            /\ Tail(unread) \in Seq(Nat) /\ Len(Tail(unread)) = Len(unread) - 1
            /\ FollowsOn(n, Tail(unread), end + 1)
        BY <4>2, <4>4, Shifted
      <4>6. pipe'[s] = Tail(unread) /\ Deliver(s, Head(unread))
        BY <2>1, <2>3, <4>1 DEF CmdTypeOK
      <4>7. end + 1 + Len(Tail(unread)) = end + Len(unread)
        BY <4>2, <4>5
      <4> QED
        BY <2>1, <3>1, <4>1, <4>3, <4>4, <4>5, <4>6, <4>7, LineIsDelivered
    <3> QED
      BY <2>1, <3>1, RestMoves
  <2> QED
    BY <2>2, <2>3
<1>6. ASSUME NEW t \in Streams, ReadLastLine(t)
      PROVE  StreamIsKept(s)'
  <2>1. /\ task = "select" /\ event = NoEvent /\ LinesOf(s, event) = <<>>
        /\ pipe' = [pipe EXCEPT ![t] = <<>>] /\ pipe[t] \in {<<>>, <<NoNewline>>}
        /\ pipe[t] # <<>> \/ held[t] = "call"
        /\ child # "running"
        /\ Deliver(t, NoNewline)
        /\ UNCHANGED <<child, written, channel, output>>
    BY <1>6, EventsAreTyped
    DEF ReadLastLine, AtEnd, ReaderInv, Deliver, processVars, toolVars
  <2>2. CASE s # t
    <3>1. NoNewline \in Nat /\ pipe'[s] = pipe[s]
      BY <2>1, <2>2 DEF CmdTypeOK, NoNewline
    <3> QED
      BY <2>1, <2>2, <3>1, OtherIsDelivered
  <2>3. CASE s = t
    <3>1. ASSUME NEW passed_on \in Nat, RestFollowsOn(s, passed_on)
          PROVE  RestFollowsOn(s, passed_on)'
      <4>1. PICK n \in Nat, unread \in Seq(Nat), kept \in Seq(Nat) :
               n = written[s] /\ unread = pipe[s] /\ kept = lines[s]
        BY DEF CmdTypeOK
      <4>2. Len(unread) \in Nat /\ Len(kept) \in Nat
        BY LenIsNat
      <4>3. PICK end \in Nat : end = passed_on + Len(kept)
        BY <4>2
      <4>4. /\ FollowsOn(n, unread, end) /\ end + Len(unread) \in {n, n + 1}
            /\ end + Len(unread) # n => (unread = <<>> => held[s] # "call")
        <5>1. passed_on + Len(<<>>) + Len(kept) = end
          BY <4>2, <4>3
        <5> QED
          BY <3>1, <2>1, <4>1, <5>1 DEF RestFollowsOn
      <4>5. end = n
        <5>1. CASE unread = <<>>
          <6>1. Len(unread) = 0 /\ held[s] = "call"
            BY <2>1, <2>3, <4>1, <5>1
          <6> QED
            BY <4>4, <5>1, <6>1
        <5>2. CASE unread = <<NoNewline>>
          <6>1. Len(unread) = 1 /\ unread[1] = NoNewline
            BY <5>2
          <6>2. Item(n, end + 1) = NoNewline
            BY <4>4, <6>1 DEF FollowsOn
          <6>3. ~(end + 1 <= n)
            BY <6>2 DEF Item, NoNewline
          <6> QED
            BY <4>4, <6>1, <6>3
        <5> QED
          BY <2>1, <2>3, <4>1, <5>1, <5>2
      <4>6. NoNewline \in Nat /\ NoNewline = Item(n, end + 1)
        BY <4>5 DEF Item, NoNewline
      <4>7. /\ pipe'[s] = <<>> /\ <<>> \in Seq(Nat) /\ Len(<<>>) = 0
            /\ FollowsOn(n, <<>>, end + 1) /\ end + 1 + 0 = n + 1
        BY <2>1, <2>3, <4>5 DEF CmdTypeOK, FollowsOn
      <4>8. Deliver(s, NoNewline)
        BY <2>1, <2>3
      <4> QED
        BY <2>1, <3>1, <4>1, <4>3, <4>6, <4>7, <4>8, LineIsDelivered
    <3> QED
      BY <2>1, <3>1, RestMoves
  <2> QED
    BY <2>2, <2>3
<1>7. ASSUME NEW t \in Streams, ReadEnd(t)
      PROVE  StreamIsKept(s)'
  BY <1>7, RestStays DEF ReadEnd, ReadsStopped, LinesOf, processVars, toolVars, CmdTypeOK
<1>8. CASE Flush
  <2>1. PICK t \in Streams : flush(t, lines[t]) /\ lines' = [lines EXCEPT ![t] = <<>>]
    BY <1>8 DEF Flush, Unflushed
  <2>2. /\ event = NoEvent /\ event' = <<t, lines[t]>> /\ LinesOf(s, event) = <<>>
        /\ held'[s] # "call"
        /\ UNCHANGED <<child, written, pipe, channel, output>>
    BY <1>8, <2>1, EventsAreTyped
    DEF Flush, flush, ReaderInv, ReadsStopped, processVars, toolVars, CmdTypeOK
  <2>3. lines[t] \in Seq(Nat) /\ lines[s] \in Seq(Nat) /\ Len(lines[s]) \in Nat
    BY LenIsNat DEF CmdTypeOK
  <2>4. CASE s # t
    <3>1. LinesOf(s, event)' = <<>> /\ lines'[s] = lines[s]
      BY <2>1, <2>2, <2>3, <2>4, EventsAreTyped DEF LinesOf, CmdTypeOK
    <3> QED
      BY <2>2, <3>1, RestStays
  <2>5. CASE s = t
    <3>1. LinesOf(s, event)' = lines[s] /\ lines'[s] = <<>>
      BY <2>1, <2>2, <2>3, <2>5, EventsAreTyped DEF LinesOf, CmdTypeOK
    <3>2. ASSUME NEW passed_on \in Nat, RestFollowsOn(s, passed_on)
          PROVE  RestFollowsOn(s, passed_on)'
      <4>1. /\ Len(<<>>) = 0 /\ passed_on + 0 + Len(lines[s]) = passed_on + Len(lines[s]) + 0
            /\ passed_on + 0 = passed_on
        BY <2>3
      <4>2. FollowsOn(written[s], <<>>, passed_on + Len(lines[s]))
        BY <4>1 DEF FollowsOn
      <4> QED
        BY <2>2, <3>1, <3>2, <4>1, <4>2 DEF RestFollowsOn
    <3> QED
      BY <2>2, <3>2, RestMoves
  <2> QED
    BY <2>4, <2>5
<1>9. CASE Send
  BY <1>9, EventIsSent
<1>10. CASE child_wait
  <2>1. event = NoEvent /\ event' = Exited
    BY <1>10 DEF child_wait, ReaderInv
  <2>2. LinesOf(s, event) = <<>> /\ LinesOf(s, event)' = <<>>
    BY <2>1, EventsAreTyped DEF LinesOf
  <2> QED
    BY <1>10, <2>2, RestStays DEF child_wait, processVars, toolVars
<1>11. CASE TakeEvent
  BY <1>11, EventIsTaken
<1>12. CASE UserStopsCommand \/ ToolSeesCancel \/ TimesOut \/ proc_wait
  <2>1. /\ UNCHANGED <<channel, output, written, event, lines, pipe, held>>
        /\ child # "running" => child' # "running"
    BY <1>12
    DEF UserStopsCommand, ToolSeesCancel, TimesOut, proc_wait, kill_child, kill_process_group,
        processVars, readerVars, toolVars
  <2> QED
    BY <2>1, RestStays DEF LinesOf
<1> QED
  BY <1>1, <1>2, <1>3, <1>4, <1>5, <1>6, <1>7, <1>8, <1>9, <1>10, <1>11, <1>12
  DEF CommandNext

LEMMA PartOfAll ==
  \A part, a, b, c, n, passed_on \in Nat :
     part <= passed_on /\ passed_on + a + b + c \in {n, n + 1} => part <= n + 1
OBVIOUS

\* Items up to the last line, and with the text behind it.
LEMMA LinesAreFirst ==
  ASSUME NEW n \in Nat, NEW text \in Seq(Nat), FollowsOn(n, text, 0), Len(text) <= n
  PROVE  text = FirstLines(Len(text))
<1>1. Len(text) \in Nat /\ DOMAIN text = 1..Len(text)
  BY LenProperties
<1>2. \A k \in 1..Len(text) : text[k] = k
  BY <1>1 DEF FollowsOn, Item
<1> QED
  BY <1>1, <1>2, LenProperties DEF FirstLines

LEMMA LinesAndTail ==
  ASSUME NEW n \in Nat, NEW text \in Seq(Nat), FollowsOn(n, text, 0), Len(text) = n + 1
  PROVE  text = Append(FirstLines(n), NoNewline)
<1>1. /\ FirstLines(n) \in Seq(Nat) /\ Len(FirstLines(n)) = n
      /\ \A k \in 1..n : FirstLines(n)[k] = k
  BY DEF FirstLines
<1>2. NoNewline \in Nat
  BY DEF NoNewline
<1>3. PICK all \in Seq(Nat) : all = Append(FirstLines(n), NoNewline)
  BY <1>1, <1>2, AppendProperties
<1>4. /\ Len(all) = n + 1 /\ all[n + 1] = NoNewline
      /\ \A k \in 1..n : all[k] = k
  <2> DEFINE given == FirstLines(n)
             rest == NoNewline
  <2>1. /\ given \in Seq(Nat) /\ Len(given) = n /\ rest \in Nat
        /\ \A k \in 1..n : given[k] = k
    BY <1>1, <1>2
  <2>2. all = Append(given, rest)
    BY <1>3
  <2> HIDE DEF given, rest
  <2>3. /\ Len(all) = n + 1 /\ all[n + 1] = rest
        /\ \A k \in 1..n : all[k] = given[k]
    BY <2>1, <2>2, AppendProperties
  <2> QED
    BY <2>1, <2>3 DEF rest
<1>5. ASSUME NEW k \in 1..Len(text)
      PROVE  text[k] = all[k]
  <2>1. text[k] = Item(n, k)
    BY DEF FollowsOn
  <2> QED
    BY <2>1, <1>4 DEF Item
<1> QED
  BY <1>3, <1>4, <1>5, SeqEqual

LEMMA ReaderIsKept ==
  ASSUME CmdTypeOK, ReaderInv, CommandNext
  PROVE  CmdTypeOK' /\ ReaderInv'
<1> USE DEF CmdTypeOK
<1>1. ASSUME NEW t \in Streams, ChildWrites(t)
      PROVE  CmdTypeOK' /\ ReaderInv'
  <2>1. Append(pipe[t], written[t] + 1) \in Seq(Nat)
    BY AppendProperties
  <2>2. CmdTypeOK'
    BY <1>1, <2>1 DEF ChildWrites, readerVars, toolVars
  <2>3. closed = {} /\ event # Exited /\ task # "done"
    BY <1>1 DEF ChildWrites, ReaderInv
  <2> QED
    BY <1>1, <2>2, <2>3 DEF ChildWrites, ReaderInv, readerVars, toolVars
<1>2. CASE ChildExits
  <2>1. \A t \in Streams : Append(pipe[t], NoNewline) \in Seq(Nat)
    BY AppendProperties DEF NoNewline
  <2>2. CmdTypeOK'
    BY <1>2, <2>1 DEF ChildExits, readerVars, toolVars
  <2>3. closed = {} /\ event # Exited /\ task # "done" /\ child' # "running"
    BY <1>2 DEF ChildExits, ReaderInv
  <2> QED
    BY <1>2, <2>2, <2>3 DEF ChildExits, ReaderInv, readerVars, toolVars
<1>3. ASSUME NEW t \in Streams, ChildPrompts(t)
      PROVE  CmdTypeOK' /\ ReaderInv'
  BY <1>3 DEF ChildPrompts, ReaderInv, toolVars
<1>4. CASE SeesKill
  <2>1. CmdTypeOK'
    BY <1>4 DEF SeesKill, kill_process_group, ReadsStopped, toolVars
  <2> QED
    BY <1>4, <2>1 DEF SeesKill, kill_process_group, ReaderInv, toolVars
<1>5. ASSUME NEW t \in Streams, NEW l \in Nat, Deliver(t, l), task = "select", t \notin closed,
             pipe' \in [Streams -> Seq(Nat)], \A s \in closed : pipe'[s] = pipe[s]
      PROVE  CmdTypeOK' /\ ReaderInv'
  <2>1. /\ Append(lines[t], l) \in Seq(Nat) /\ <<l>> \in Seq(Nat)
        /\ <<t, <<l>>>> \in CmdEvents
    <3>1. lines[t] \in Seq(Nat) /\ <<l>> \in Seq(Nat)
      OBVIOUS
    <3> QED
      BY <3>1, AppendProperties, EventsAreTyped
  <2>2. CmdTypeOK'
    BY <1>5, <2>1 DEF Deliver, flush, ReadsStopped, processVars, toolVars
  <2>3. <<t, <<l>>>> # Exited /\ <<t, <<l>>>> # NoEvent
    BY DEF Exited, NoEvent
  <2> QED
    BY <1>5, <2>2, <2>3 DEF Deliver, flush, ReaderInv, processVars, toolVars
<1>6. ASSUME NEW t \in Streams, ReadLine(t)
      PROVE  CmdTypeOK' /\ ReaderInv'
  <2>1. Head(pipe[t]) \in Nat /\ Tail(pipe[t]) \in Seq(Nat)
    BY <1>6, HeadTailProperties DEF ReadLine
  <2> QED
    BY <1>5, <1>6, <2>1 DEF ReadLine
<1>7. ASSUME NEW t \in Streams, ReadLastLine(t)
      PROVE  CmdTypeOK' /\ ReaderInv'
  <2>1. NoNewline \in Nat /\ <<>> \in Seq(Nat)
    BY EmptySeq DEF NoNewline
  <2> QED
    BY <1>5, <1>7, <2>1 DEF ReadLastLine
<1>8. ASSUME NEW t \in Streams, ReadEnd(t)
      PROVE  CmdTypeOK' /\ ReaderInv'
  <2>1. CmdTypeOK'
    BY <1>8 DEF ReadEnd, ReadsStopped, processVars, toolVars
  <2>2. event = NoEvent /\ task = "select" /\ NoEvent # Exited
    BY <1>8, EventsAreTyped DEF ReadEnd, ReaderInv
  <2> QED
    BY <1>8, <2>1, <2>2 DEF ReadEnd, AtEnd, ReaderInv, processVars, toolVars
<1>9. CASE Flush
  <2>1. PICK t \in Streams : flush(t, lines[t]) /\ lines' = [lines EXCEPT ![t] = <<>>]
    BY <1>9 DEF Flush, Unflushed
  <2>2. /\ <<t, lines[t]>> \in CmdEvents /\ <<>> \in Seq(Nat)
        /\ <<t, lines[t]>> # Exited /\ <<t, lines[t]>> # NoEvent
    BY EventsAreTyped, EmptySeq DEF Exited, NoEvent
  <2>3. CmdTypeOK'
    BY <1>9, <2>1, <2>2 DEF Flush, flush, ReadsStopped, processVars, toolVars
  <2> QED
    BY <1>9, <2>1, <2>2, <2>3 DEF Flush, flush, ReaderInv, processVars, toolVars
<1>10. CASE Send
  <2>1. /\ event \in CmdEvents /\ channel' = Append(channel, event) /\ event' = NoEvent
        /\ task = "sending" /\ task' = (IF event = Exited THEN "done" ELSE "select")
        /\ UNCHANGED <<child, offspring, written, pipe, held, closed, lines, batched,
                       killing, token, tool, output>>
    BY <1>10 DEF Send, ReaderInv, processVars, toolVars
  <2>2. /\ Len(channel) \in Nat /\ channel' \in Seq(CmdEvents)
        /\ Len(channel') = Len(channel) + 1 /\ channel'[Len(channel) + 1] = event
        /\ \A i \in 1..Len(channel) : channel'[i] = channel[i]
    BY <2>1, AppendProperties, LenProperties
  <2>3. CmdTypeOK'
    BY <2>1, <2>2
  <2>4. \A i \in 1..Len(channel) : channel[i] # Exited
    BY <2>1 DEF ReaderInv
  <2>5. ASSUME NEW i \in 1..Len(channel'), channel'[i] = Exited
        PROVE  task' \in {"done", "aborted"} /\ i = Len(channel')
    <3>1. i \in 1..Len(channel) \/ i = Len(channel) + 1
      BY <2>2
    <3>2. i = Len(channel) + 1
      BY <2>2, <2>4, <2>5, <3>1
    <3> QED
      BY <2>1, <2>2, <2>5, <3>2
  <2>6. tool # "ended" /\ tool # "cancelled, ended" /\ NoEvent # Exited
    BY <2>1, EventsAreTyped DEF ReaderInv
  <2> QED
    BY <2>1, <2>3, <2>5, <2>6 DEF ReaderInv
<1>11. CASE child_wait
  <2>1. Exited \in CmdEvents /\ Exited # NoEvent
    BY EventsAreTyped DEF CmdEvents
  <2>2. \A s \in Streams : lines[s] = <<>>
    BY <1>11 DEF child_wait, Unflushed
  <2> QED
    BY <1>11, <2>1, <2>2
    DEF child_wait, BothStreamsEnded, ReaderInv, processVars, toolVars
<1>12. CASE UserStopsCommand
  BY <1>12 DEF UserStopsCommand, ReaderInv, processVars, readerVars, toolVars
<1>13. CASE TakeEvent
  <2>1. /\ channel # <<>> /\ channel' = Tail(channel) /\ tool = "reading"
        /\ UNCHANGED <<child, offspring, written, pipe, held, closed, lines, task, event,
                       killing, batched, token>>
    BY <1>13 DEF TakeEvent, processVars, readerVars
  <2>2. /\ channel' \in Seq(CmdEvents) /\ Len(channel') = Len(channel) - 1
        /\ Head(channel) \in CmdEvents /\ Head(channel) = channel[1]
        /\ Len(channel) \in Nat \ {0}
        /\ \A i \in 1..Len(channel') : channel'[i] = channel[i + 1]
    BY <2>1, HeadTailProperties, EmptySeq
  <2>3. ASSUME NEW i \in 1..Len(channel'), channel'[i] = Exited
        PROVE  task' \in {"done", "aborted"} /\ i = Len(channel')
    <3>1. i + 1 \in 1..Len(channel) /\ channel[i + 1] = Exited
      BY <2>2, <2>3
    <3>2. task \in {"done", "aborted"} /\ i + 1 = Len(channel)
      BY <3>1 DEF ReaderInv
    <3>3. PICK len \in Nat : len = Len(channel)
      BY <2>2
    <3>4. i = len - 1
      BY <3>2, <3>3
    <3> QED
      BY <2>1, <2>2, <3>2, <3>3, <3>4
  <2>4. CASE Head(channel) = Exited
    <3>1. tool' = "ended" /\ output' = output
      BY <1>13, <2>4 DEF TakeEvent
    <3>2. 1 \in 1..Len(channel) /\ channel[1] = Exited
      BY <2>2, <2>4
    <3>3. task = "done" /\ Len(channel) = 1
      BY <2>1, <3>2 DEF ReaderInv
    <3>4. channel' = <<>>
      BY <2>2, <3>3, EmptySeq
    <3> QED
      BY <2>1, <2>2, <2>3, <3>1, <3>3, <3>4 DEF ReaderInv
  <2>5. CASE Head(channel) # Exited
    <3>1. /\ tool' = tool
          /\ output' = [output EXCEPT ![Head(channel)[1]] = @ \o Head(channel)[2]]
      BY <1>13, <2>5 DEF TakeEvent
    <3>2. PICK t \in Streams, text \in Seq(Nat) : Head(channel) = <<t, text>>
      BY <2>2, <2>5, SMTT(30) DEF CmdEvents, Texts
    <3>3. output[t] \o text \in Seq(Nat)
      BY ConcatProperties
    <3>4. output' \in [Streams -> Seq(Nat)]
      BY <3>1, <3>2, <3>3
    <3> QED
      BY <2>1, <2>2, <2>3, <3>1, <3>4 DEF ReaderInv
  <2> QED
    BY <2>4, <2>5
<1>14. CASE ToolSeesCancel
  BY <1>14 DEF ToolSeesCancel, ReaderInv, processVars
<1>15. CASE TimesOut
  <2>1. /\ task' = "aborted" /\ tool' = "timed_out"
        /\ child' \in {"exited", "killed", child} /\ (child # "running" => child' # "running")
        /\ child' # "running" /\ offspring' \in {offspring, FALSE}
        /\ UNCHANGED <<written, pipe, held, closed, lines, batched, event, channel, killing,
                       token, output>>
    BY <1>15 DEF TimesOut, kill_child, kill_process_group
  <2>2. CmdTypeOK'
    BY <2>1
  <2>3. \A i \in 1..Len(channel') :
           channel'[i] = Exited => task' \in {"done", "aborted"} /\ i = Len(channel')
    BY <2>1 DEF ReaderInv
  <2>4. /\ event' = Exited => /\ child' # "running" /\ closed' = Streams
                             /\ \A s \in Streams : lines'[s] = <<>>
        /\ \A s \in closed' : child' # "running" /\ pipe'[s] = <<>>
        /\ ~batched' => \A s \in Streams : lines'[s] = <<>>
    BY <2>1 DEF ReaderInv
  <2>5. killing' = "seen" => ~offspring'
    <3>1. killing' = "seen" => offspring = FALSE
      BY <2>1 DEF ReaderInv
    <3> QED
      BY <2>1, <3>1
  <2> QED
    BY <2>1, <2>2, <2>3, <2>4, <2>5 DEF ReaderInv
<1>16. CASE proc_wait
  BY <1>16 DEF proc_wait, ReaderInv, processVars, readerVars
<1> QED
  BY <1>1, <1>2, <1>3, <1>4, <1>6, <1>7, <1>8, <1>9, <1>10, <1>11, <1>12, <1>13, <1>14, <1>15,
     <1>16
  DEF CommandNext

\* For any capacity of the channel and any number of lines and streams: the output of a
\* command is the first of the lines it wrote, all of them if it ended, and a cancelled
\* command that has ended leaves no process of its group (ExecCommand::spawn_chunked,
\* run_bash_chunked_raw).
THEOREM CommandCorrect == CommandSpec => []CommandIsOver
<1>1. CommandInit => CommandInv
  <2> SUFFICES ASSUME CommandInit PROVE CommandInv
    OBVIOUS
  <2>1. CmdTypeOK
    BY EmptySeq DEF CommandInit, CmdTypeOK
  <2>2. Len(channel) = 0 /\ channel = <<>> /\ NoEvent # Exited
    BY EventsAreTyped DEF CommandInit
  <2>3. ReaderInv
    BY <2>2 DEF CommandInit, ReaderInv
  <2>4. ASSUME NEW s \in Streams
        PROVE  StreamIsKept(s)
    <3> DEFINE from == [i \in 1..1 |-> 0]
    <3>1. from \in [1..Len(channel) + 1 -> Nat] /\ from[1] = 0
      BY <2>2
    <3>2. /\ output[s] = <<>> /\ lines[s] = <<>> /\ pipe[s] = <<>> /\ written[s] = 0
          /\ Len(<<>>) = 0 /\ LinesOf(s, event) = <<>>
      BY EventsAreTyped DEF CommandInit
    <3>3. FollowsOn(0, <<>>, 0)
      BY <3>2 DEF FollowsOn
    <3> HIDE DEF from
    <3>4. ChannelFollowsOn(s, from)
      BY <2>2, <3>1, <3>2, <3>3 DEF ChannelFollowsOn
    <3>5. RestFollowsOn(s, from[Len(channel) + 1])
      BY <2>2, <3>1, <3>2, <3>3 DEF RestFollowsOn
    <3> QED
      BY <3>1, <3>4, <3>5 DEF StreamIsKept
  <2> QED
    BY <2>1, <2>3, <2>4 DEF CommandInv
<1>2. CommandInv /\ [CommandNext]_commandVars => CommandInv'
  <2> SUFFICES ASSUME CommandInv, [CommandNext]_commandVars PROVE CommandInv'
    OBVIOUS
  <2>1. CASE CommandNext
    BY <2>1, StreamsAreKept, ReaderIsKept DEF CommandInv
  <2>2. CASE UNCHANGED commandVars
    <3>1. CmdTypeOK' /\ ReaderInv'
      BY <2>2 DEF CommandInv, commandVars, CmdTypeOK, ReaderInv
    <3>2. \A s \in Streams : StreamIsKept(s)'
      BY <2>2, RestStays DEF CommandInv, commandVars, LinesOf
    <3> QED
      BY <3>1, <3>2 DEF CommandInv
  <2> QED
    BY <2>1, <2>2
<1>3. CommandInv => CommandIsOver
  <2> SUFFICES ASSUME CommandInv PROVE CommandIsOver
    OBVIOUS
  <2>1. CancelledGroupIsGone
    BY DEF CommandInv, ReaderInv, CancelledGroupIsGone
  <2>2. ASSUME NEW s \in Streams
        PROVE  /\ \E n \in 0..written[s] : IsLines(s, n)
               /\ tool = "ended" => IsLines(s, written[s])
    <3>1. PICK from \in [1..Len(channel) + 1 -> Nat] :
             ChannelFollowsOn(s, from) /\ RestFollowsOn(s, from[Len(channel) + 1])
      BY <2>2 DEF CommandInv, StreamIsKept
    <3>2. /\ output[s] \in Seq(Nat) /\ written[s] \in Nat /\ lines[s] \in Seq(Nat)
          /\ pipe[s] \in Seq(Nat) /\ LinesOf(s, event) \in Seq(Nat)
      BY EventsAreTyped DEF CommandInv, CmdTypeOK
    <3>3. Len(channel) \in Nat
      BY LenProperties DEF CommandInv, CmdTypeOK
    <3>4. PICK passed_on \in Nat : passed_on = from[Len(channel) + 1]
      BY <3>3
    <3>5. Len(output[s]) <= passed_on
      <4>1. 1 \in 1..Len(channel) + 1
        BY <3>3
      <4> QED
        BY <3>1, <3>4, <4>1 DEF ChannelFollowsOn
    <3>6. /\ Len(output[s]) \in Nat /\ Len(lines[s]) \in Nat /\ Len(pipe[s]) \in Nat
          /\ Len(LinesOf(s, event)) \in Nat
      BY <3>2, LenIsNat
    <3>7. passed_on + Len(LinesOf(s, event)) + Len(lines[s]) + Len(pipe[s])
             \in {written[s], written[s] + 1}
      BY <3>1, <3>4 DEF RestFollowsOn
    <3>8. Len(output[s]) <= written[s] + 1
      BY <3>2, <3>5, <3>6, <3>7, PartOfAll
    <3>9. FollowsOn(written[s], output[s], 0)
      BY <3>1 DEF ChannelFollowsOn
    <3>10. Len(output[s]) <= written[s] => IsLines(s, Len(output[s]))
      BY <3>2, <3>6, <3>9, LinesAreFirst DEF IsLines
    <3>11. Len(output[s]) = written[s] + 1 => IsLines(s, written[s])
      BY <3>2, <3>9, LinesAndTail DEF IsLines
    <3>12. tool = "ended" => Len(output[s]) \in {written[s], written[s] + 1}
      <4> SUFFICES ASSUME tool = "ended"
                   PROVE  Len(output[s]) \in {written[s], written[s] + 1}
        OBVIOUS
      <4>1. /\ channel = <<>> /\ event = NoEvent /\ lines[s] = <<>> /\ pipe[s] = <<>>
            /\ LinesOf(s, event) = <<>>
        BY EventsAreTyped DEF CommandInv, ReaderInv
      <4>2. Len(<<>>) = 0 /\ from[1] = Len(output[s])
        BY <3>1 DEF ChannelFollowsOn
      <4>3. passed_on = Len(output[s])
        BY <3>4, <4>1, <4>2
      <4> QED
        BY <3>4, <3>7, <4>1, <4>2, <4>3
    <3> QED
      BY <3>2, <3>6, <3>8, <3>10, <3>11, <3>12
  <2> QED
    BY <2>1, <2>2 DEF CommandIsOver, OutputIsWhatWasWritten
<1> QED
  BY <1>1, <1>2, <1>3, PTL DEF CommandSpec

-----------------------------------------------------------------------------
(* The rules of commands (CommandRules): the invariant *)

RuleTypeOK ==
    /\ layers \in Seq(RuleLayers) /\ command \in Seq(RuleWords)
    /\ index \in Nat /\ positional_index \in Nat

\* What is before a place, after the words of the rule, has been checked.
CheckedUpTo(r, end) ==
    \A n \in DOMAIN command : n > Len(r.chain) /\ n < end => IsChecked(n)

\* The options have ended after a "--" the walk has passed.
EndedBefore(end) ==
    \E m \in DOMAIN command : m > Len(rule.chain) /\ m < end /\ command[m] = DashDash

OptionsEnded == options_ended => rule # NoRule /\ EndedBefore(index)

\* The rule is one of the most specific, and one that denies arguments has none to walk over.
\* What the walk has passed is as it should be, if that rule is to see to it.
IsRight(r, end) ==
    r # NoRule =>
       /\ end > Len(r.chain)
       /\ r.mode = "deny" => Len(command) <= Len(r.chain)
       /\ \E e \in MostSpecific :
             r = build_safe_command_rule(e) /\ (ConfinesPaths(e) => CheckedUpTo(r, end))

RuleInv ==
    /\ RuleTypeOK /\ IsRight(rule, index) /\ OptionsEnded
    /\ verdict = "allowed" => rule # NoRule /\ index > Len(command)

-----------------------------------------------------------------------------
(* The rules of commands: the layers *)

NextLayer(ls, made, n) ==
    IF n = 0 THEN <<>> ELSE apply_safe_command_layer(made[n - 1], ls[n])

\* The entry is of a layer that no later one overrides, of the first k.
IsOfLayer(ls, k, e) ==
    \E n \in 1..k : (\A m \in (n + 1)..k : ls[m].mode = "append") /\ Has(ls[n].entries, e)

LEMMA LayerIs ==
    ASSUME NEW l \in RuleLayers, NEW s \in Seq(RuleEntries)
    PROVE  /\ apply_safe_command_layer(s, l) \in Seq(RuleEntries)
           /\ l.entries \in Seq(RuleEntries)
           /\ \A e : Has(apply_safe_command_layer(s, l), e)
                     <=> Has(l.entries, e) \/ (l.mode = "append" /\ Has(s, e))
<1>1. l.entries \in Seq(RuleEntries)
  BY DEF RuleLayers
<1>2. CASE l.mode = "append"
  <2> DEFINE t == l.entries
  <2>1. apply_safe_command_layer(s, l) = s \o t
    BY <1>2 DEF apply_safe_command_layer
  <2> HIDE DEF t
  <2>2. t \in Seq(RuleEntries)
    BY <1>1 DEF t
  <2>3. s \o t \in Seq(RuleEntries) /\ \A e : Has(s \o t, e) <=> Has(s, e) \/ Has(t, e)
    BY <2>2, ConcatHas
  <2> QED
    BY <1>1, <1>2, <2>1, <2>3, Zenon DEF t
<1>3. CASE l.mode # "append"
  <2>1. apply_safe_command_layer(s, l) = l.entries
    BY <1>3 DEF apply_safe_command_layer
  <2> QED
    BY <1>1, <1>3, <2>1, Zenon
<1> QED
  BY <1>2, <1>3

LEMMA LayersMade ==
    ASSUME NEW ls \in Seq(RuleLayers)
    PROVE  \E made \in [0..Len(ls) -> Seq(RuleEntries)] :
              made = [n \in 0..Len(ls) |-> NextLayer(ls, made, n)]
<1> DEFINE N == Len(ls)
           T == Seq(RuleEntries)
           step == [p \in (1..N) \X T |-> apply_safe_command_layer(p[2], ls[p[1]])]
<1>1. N \in Nat /\ <<>> \in T
  OBVIOUS
<1>2. \A i \in 1..N, t \in T : apply_safe_command_layer(t, ls[i]) \in T
  <2> TAKE i \in 1..N, t \in T
  <2>1. ls[i] \in RuleLayers
    OBVIOUS
  <2> QED
    BY <2>1, LayerIs
<1> HIDE DEF N, T
<1>3. step \in [(1..N) \X T -> T]
  BY <1>2
<1>4. \A i \in 1..N, t \in T : step[i, t] = apply_safe_command_layer(t, ls[i])
  OBVIOUS
<1> HIDE DEF step
<1>5. PICK made \in [0..N -> T] : IsMadeBy(step, <<>>, N, made)
  <2> DEFINE none == <<>>
  <2>1. none \in T
    BY <1>1
  <2> HIDE DEF none
  <2>2. \E made \in [0..N -> T] : IsMadeBy(step, none, N, made)
    BY <1>1, <1>3, <2>1, RecursionExists
  <2> QED
    BY <2>2 DEF none
<1>6. ASSUME NEW n \in 0..N
      PROVE  made[n] = NextLayer(ls, made, n)
  <2>1. made[n] = IF n = 0 THEN <<>> ELSE step[n, made[n - 1]]
    BY <1>5 DEF IsMadeBy
  <2>2. n # 0 => n \in 1..N /\ n - 1 \in 0..N
    BY <1>1
  <2>3. n # 0 => made[n - 1] \in T
    BY <2>2
  <2> QED
    BY <1>4, <2>1, <2>2, <2>3 DEF NextLayer
<1>7. made = [n \in 0..N |-> NextLayer(ls, made, n)]
  BY <1>6
<1> QED
  BY <1>7 DEF N, T

LEMMA LayersHave ==
    ASSUME NEW ls \in Seq(RuleLayers), NEW made,
           made = [n \in 0..Len(ls) |-> NextLayer(ls, made, n)]
    PROVE  /\ made[Len(ls)] \in Seq(RuleEntries)
           /\ \A e : Has(made[Len(ls)], e) <=> IsOfLayer(ls, Len(ls), e)
<1> DEFINE N == Len(ls)
           Good(k) == made[k] \in Seq(RuleEntries) /\ \A e : Has(made[k], e) <=> IsOfLayer(ls, k, e)
           G == {k \in 0..N : Good(k)}
<1>0. N \in Nat
  OBVIOUS
<1>1. made[0] = <<>> /\ \A n \in 1..N : made[n] = apply_safe_command_layer(made[n - 1], ls[n])
  <2>1. \A n \in 0..N : made[n] = NextLayer(ls, made, n)
    OBVIOUS
  <2>2. 0 \in 0..N /\ \A n \in 1..N : n \in 0..N /\ n # 0
    BY <1>0
  <2> QED
    BY <2>1, <2>2 DEF NextLayer
<1>2. 0 \in G
  <2>1. \A e : ~Has(<<>>, e)
    BY NoneHas
  <2>2. \A e : ~IsOfLayer(ls, 0, e)
    BY DEF IsOfLayer
  <2>3. 0 \in 0..N /\ made[0] \in Seq(RuleEntries)
    BY <1>0, <1>1
  <2>4. \A e : Has(made[0], e) <=> IsOfLayer(ls, 0, e)
    BY <1>1, <2>1, <2>2, Zenon
  <2> QED
    BY <2>3, <2>4, Zenon
<1>3. ASSUME NEW k \in 1..N, k - 1 \in G
      PROVE  k \in G
  <2>1. ls[k] \in RuleLayers /\ Good(k - 1) /\ k \in 0..N
    BY <1>0, <1>3
  <2>2. /\ made[k] \in Seq(RuleEntries)
        /\ \A e : Has(made[k], e)
                  <=> Has(ls[k].entries, e) \/ (ls[k].mode = "append" /\ Has(made[k - 1], e))
    BY <1>1, <2>1, LayerIs
  <2>3. ASSUME NEW e
        PROVE  IsOfLayer(ls, k, e)
               <=> Has(ls[k].entries, e) \/ (ls[k].mode = "append" /\ IsOfLayer(ls, k - 1, e))
    <3>1. ASSUME IsOfLayer(ls, k, e), ~Has(ls[k].entries, e)
          PROVE  ls[k].mode = "append" /\ IsOfLayer(ls, k - 1, e)
      <4>1. PICK n \in 1..k : /\ \A m \in (n + 1)..k : ls[m].mode = "append"
                              /\ Has(ls[n].entries, e)
        BY <3>1 DEF IsOfLayer
      <4>2. n # k
        BY <3>1, <4>1
      <4>3. n \in 1..(k - 1) /\ k \in (n + 1)..k
            /\ \A m \in (n + 1)..(k - 1) : m \in (n + 1)..k
        BY <1>0, <4>2
      <4> QED
        BY <4>1, <4>3 DEF IsOfLayer
    <3>2. ASSUME Has(ls[k].entries, e)
          PROVE  IsOfLayer(ls, k, e)
      <4>1. k \in 1..k /\ \A m \in (k + 1)..k : FALSE
        BY <1>0
      <4> QED
        BY <3>2, <4>1 DEF IsOfLayer
    <3>3. ASSUME ls[k].mode = "append", IsOfLayer(ls, k - 1, e)
          PROVE  IsOfLayer(ls, k, e)
      <4>1. PICK n \in 1..(k - 1) : /\ \A m \in (n + 1)..(k - 1) : ls[m].mode = "append"
                                    /\ Has(ls[n].entries, e)
        BY <3>3 DEF IsOfLayer
      <4>2. n \in 1..k /\ \A m \in (n + 1)..k : m = k \/ m \in (n + 1)..(k - 1)
        BY <1>0
      <4> QED
        BY <3>3, <4>1, <4>2 DEF IsOfLayer
    <3> QED
      BY <3>1, <3>2, <3>3
  <2>4. \A e : Has(made[k], e) <=> IsOfLayer(ls, k, e)
    BY <2>1, <2>2, <2>3, Zenon
  <2> QED
    BY <2>1, <2>2, <2>4
<1>4. N \in G
  <2> HIDE DEF G
  <2>1. \A k \in 0..N : k \in G
    BY <1>0, <1>2, <1>3, AllUpTo
  <2> QED
    BY <1>0, <2>1
<1> QED
  BY <1>4

LayerEntries == UNION {Range(layers[n].entries) : n \in Configured}

LEMMA EntriesConfigured ==
    ASSUME layers \in Seq(RuleLayers)
    PROVE  /\ configured_entries \in Seq(RuleEntries)
           /\ \A e : e \in LayerEntries <=> Has(configured_entries, e)
<1> DEFINE Made(f) == f = [n \in 0..Len(layers) |-> NextLayer(layers, f, n)]
           made == CHOOSE f : Made(f)
<1>1. Made(made)
  <2>1. \E f : Made(f)
    BY LayersMade
  <2> QED
    BY <2>1
<1>2. configured_entries = made[Len(layers)]
  BY DEF configured_entries, NextLayer
<1> HIDE DEF made
<1>3. /\ made[Len(layers)] \in Seq(RuleEntries)
      /\ \A e : Has(made[Len(layers)], e) <=> IsOfLayer(layers, Len(layers), e)
  BY <1>1, LayersHave
<1>4. ASSUME NEW e
      PROVE  e \in LayerEntries <=> IsOfLayer(layers, Len(layers), e)
  <2>1. DOMAIN layers = 1..Len(layers) /\ Len(layers) \in Nat
    OBVIOUS
  <2>2. \A n \in 1..Len(layers) :
           n \in Configured <=> \A m \in (n + 1)..Len(layers) : layers[m].mode = "append"
    BY <2>1 DEF Configured
  <2>3. Configured \subseteq 1..Len(layers)
    BY <2>1 DEF Configured
  <2>4. \A n : e \in Range(layers[n].entries) <=> Has(layers[n].entries, e)
    BY DEF Range, Has
  <2>5. e \in LayerEntries <=> \E n \in Configured : e \in Range(layers[n].entries)
    BY DEF LayerEntries
  <2> QED
    BY <2>2, <2>3, <2>4, <2>5, Zenon DEF IsOfLayer
<1> QED
  BY <1>2, <1>3, <1>4

-----------------------------------------------------------------------------
(* The rules of commands: the rule that fits *)

LEMMA BuiltIs ==
    ASSUME NEW e \in RuleEntries
    PROVE  LET r == build_safe_command_rule(e) IN
           /\ r.chain = e.chain /\ e.chain \in Seq(RuleWords)
           /\ r.flags = e.flags /\ r.positional_path_from = e.positional_path_from
           /\ r.mode # "none" /\ r # NoRule
           /\ ConfinesPaths(e) => r.mode \in {"deny", "allow_list"}
<1> DEFINE r == build_safe_command_rule(e)
           positional == e.allow_positional \/ e.allow_any
           mode == IF e.flags = {} /\ ~positional /\ ~e.allow_dash THEN "deny"
                   ELSE IF e.allow_any THEN "allow_any" ELSE "allow_list"
<1>1. r = [chain |-> e.chain, mode |-> mode, flags |-> e.flags,
           allow_positional |-> positional,
           positional_path_from |-> e.positional_path_from, allow_dash |-> e.allow_dash]
  BY Zenon DEF build_safe_command_rule
<1>2. mode \in {"deny", "allow_any", "allow_list"}
      /\ (~e.allow_any => mode \in {"deny", "allow_list"})
  BY Zenon
<1> HIDE DEF r, positional, mode
<1>3. /\ r.chain = e.chain /\ r.flags = e.flags /\ r.mode = mode
      /\ r.positional_path_from = e.positional_path_from
  BY <1>1
<1>4. r.mode # "none"
  BY <1>2, <1>3
<1>5. r # NoRule
  BY <1>4 DEF NoRule
<1>6. e.chain \in Seq(RuleWords)
  BY Zenon DEF RuleEntries
<1>7. ConfinesPaths(e) => r.mode \in {"deny", "allow_list"}
  BY <1>2, <1>3, Zenon DEF ConfinesPaths
<1> QED
  BY <1>3, <1>4, <1>5, <1>6, <1>7 DEF r

\* There is a longest, and a first of the longest.
LEMMA LongestIs ==
    ASSUME NEW I \in SUBSET Nat, I # {}, NEW most \in Nat, NEW size \in [I -> 0..most]
    PROVE  \E r \in I : \A q \in I : size[q] < size[r] \/ (size[q] = size[r] /\ r <= q)
<1> DEFINE missing == {most - size[q] : q \in I}
<1>1. missing \in SUBSET Nat /\ missing # {}
  <2>1. \A q \in I : most - size[q] \in Nat
    <3> TAKE q \in I
    <3>1. size[q] \in 0..most
      OBVIOUS
    <3> QED
      BY <3>1
  <2> QED
    BY <2>1
<1>2. PICK x \in missing : \A y \in missing : x <= y
  <2> HIDE DEF missing
  <2> QED
    BY <1>1, LeastOf
<1>3. PICK p \in I : x = most - size[p]
  BY <1>2
<1>4. \A q \in I : size[q] <= size[p] /\ size[q] \in Nat
  <2> TAKE q \in I
  <2>1. size[q] \in 0..most /\ size[p] \in 0..most /\ x <= most - size[q]
    BY <1>2
  <2> QED
    BY <1>3, <2>1
<1> DEFINE longest == {q \in I : size[q] = size[p]}
<1>5. PICK r \in longest : \A q \in longest : r <= q
  <2>1. longest \in SUBSET Nat /\ longest # {}
    OBVIOUS
  <2> HIDE DEF longest
  <2> QED
    BY <2>1, LeastOf
<1>6. ASSUME NEW q \in I
      PROVE  size[q] < size[r] \/ (size[q] = size[r] /\ r <= q)
  <2>1. size[r] = size[p] /\ size[p] \in Nat /\ size[q] \in Nat /\ size[q] <= size[p]
    BY <1>4, <1>5
  <2>2. size[q] = size[p] => r <= q
    BY <1>5
  <2> QED
    BY <2>1, <2>2
<1> QED
  BY <1>5, <1>6

LEMMA SameChain ==
    ASSUME NEW a, NEW b, a.chain = b.chain
    PROVE  match_command_chain(a) <=> match_command_chain(b)
BY DEF match_command_chain

LEMMA BestIs ==
    ASSUME layers \in Seq(RuleLayers), command \in Seq(RuleWords),
           Matching(configure_safe_commands) # {}
    PROVE  \E e \in MostSpecific :
              /\ e \in RuleEntries /\ match_command_chain(e)
              /\ find_best_rule(configure_safe_commands) = build_safe_command_rule(e)
<1> DEFINE entries == configured_entries
           rules   == configure_safe_commands
           I       == Matching(rules)
           size    == [n \in I |-> Len(rules[n].chain)]
           best(r) == \A q \in I : \/ Len(rules[q].chain) < Len(rules[r].chain)
                                   \/ Len(rules[q].chain) = Len(rules[r].chain) /\ r <= q
           r       == CHOOSE n \in I : best(n)
<1>1. entries \in Seq(RuleEntries) /\ \A e : e \in LayerEntries <=> Has(entries, e)
  BY EntriesConfigured
<1>2. DOMAIN rules = DOMAIN entries
      /\ \A n \in DOMAIN entries : rules[n] = build_safe_command_rule(entries[n])
  BY DEF configure_safe_commands
<1> HIDE DEF entries, rules
<1>3. \A n \in DOMAIN entries : /\ entries[n] \in RuleEntries /\ rules[n].chain = entries[n].chain
                                /\ rules[n].chain \in Seq(RuleWords)
  <2> TAKE n \in DOMAIN entries
  <2>1. entries[n] \in RuleEntries
    BY <1>1
  <2> QED
    BY <1>2, <2>1, BuiltIs
<1>4. I = {n \in DOMAIN entries : match_command_chain(entries[n])}
  <2>1. \A n \in DOMAIN entries :
           match_command_chain(rules[n]) <=> match_command_chain(entries[n])
    BY <1>3, SameChain
  <2> QED
    BY <1>2, <2>1 DEF Matching
<1>5. I \in SUBSET Nat /\ I # {}
  BY <1>1, <1>4 DEF rules
<1>6. \A n \in I : Len(rules[n].chain) \in 0..Len(command)
  <2> TAKE n \in I
  <2>1. match_command_chain(rules[n]) /\ rules[n].chain \in Seq(RuleWords)
    BY <1>2, <1>3, <1>4 DEF Matching
  <2> QED
    BY <2>1 DEF match_command_chain
<1> HIDE DEF I
<1>7. \E n \in I : best(n)
  <2>1. size \in [I -> 0..Len(command)] /\ Len(command) \in Nat
    BY <1>6
  <2>2. \A n \in I : size[n] = Len(rules[n].chain)
    OBVIOUS
  <2> HIDE DEF size
  <2>3. PICK n \in I : \A q \in I : size[q] < size[n] \/ (size[q] = size[n] /\ n <= q)
    BY <1>5, <2>1, LongestIs
  <2> QED
    BY <2>2, <2>3
<1>8. r \in I /\ best(r)
  BY <1>7
<1>9. find_best_rule(rules) = rules[r]
  BY DEF find_best_rule, I
<1> HIDE DEF r
<1> DEFINE e == entries[r]
<1>10. r \in DOMAIN entries /\ match_command_chain(e) /\ e \in RuleEntries /\ e \in LayerEntries
  <2>1. r \in DOMAIN entries /\ match_command_chain(e) /\ e \in RuleEntries
    BY <1>3, <1>4, <1>8
  <2>2. Has(entries, e)
    BY <2>1 DEF Has
  <2> QED
    BY <1>1, <2>1, <2>2
<1>11. ASSUME NEW o \in LayerEntries, match_command_chain(o)
       PROVE  Len(o.chain) <= Len(e.chain)
  <2>1. PICK q \in DOMAIN entries : entries[q] = o
    BY <1>1 DEF Has
  <2>2. q \in I
    BY <1>4, <1>11, <2>1
  <2>3. Len(rules[q].chain) = Len(o.chain) /\ Len(rules[r].chain) = Len(e.chain)
    BY <1>3, <1>10, <2>1
  <2>4. Len(rules[q].chain) \in Nat /\ Len(rules[r].chain) \in Nat
    BY <1>6, <1>8, <2>2
  <2> QED
    BY <1>8, <2>2, <2>3, <2>4
<1>12. e \in MostSpecific
  BY <1>10, <1>11, Zenon DEF MostSpecific, LayerEntries
<1> QED
  BY <1>2, <1>9, <1>10, <1>12 DEF rules

-----------------------------------------------------------------------------
(* The rules of commands: the walk *)

\* An option takes the word after it only after looking at it, if the flag is for a path,
\* and only if it has no value in its own word, which is looked at as well.
TakesRightly(taken, flags, following, mode, w, value) ==
    /\ taken \in 0..2
    /\ taken = 2 /\ (\A f \in flags : f.path) => is_relative_path_arg(following[1])
    /\ taken = 2 => value = NoValue
    /\ taken # 0 /\ mode # "allow_any" /\ (\A f \in flags : f.path)
          => value = NoValue \/ is_relative_path_value(w, value)

LEMMA FlagTakes ==
    ASSUME NEW flags, NEW flag \in flags, NEW value, NEW w, NEW following, NEW mode
    PROVE  TakesRightly(check_option_with_flag(flag, value, w, following, mode), flags,
                        following, mode, w, value)
<1> DEFINE required == flag.arg = "required"
           taken == /\ following # <<>>
                    /\ is_flag_like(following[1]) => required /\ mode = "allow_list"
           c == check_option_with_flag(flag, value, w, following, mode)
           any == mode = "allow_any"
           given == value # NoValue
           single == ~given \/ (any /\ PathOk(flag, is_relative_path_value(w, value)))
           good == value # <<>> /\ PathOk(flag, is_relative_path_value(w, value))
           right == PathOk(flag, is_relative_path_arg(following[1]))
           must == required /\ mode = "allow_list"
           none == flag.arg = "none"
           paths == \A f \in flags : f.path
           fits == is_relative_path_value(w, value)
<1>1. c = IF none THEN (IF single THEN 1 ELSE 0)
          ELSE IF given THEN (IF good THEN 1 ELSE 0)
          ELSE IF taken THEN (IF right THEN 2 ELSE 0)
          ELSE IF must THEN 0 ELSE 1
  BY Zenon DEF check_option_with_flag
<1>2. right /\ paths => is_relative_path_arg(following[1])
  BY Zenon DEF PathOk
<1>3. (good /\ paths => fits) /\ (single => ~given \/ any)
  BY Zenon DEF PathOk
<1> HIDE DEF c, none, single, given, good, taken, must, right, paths, fits, any
<1>4. /\ c \in 0..2
      /\ c = 2 => right /\ ~given
      /\ c # 0 /\ ~any => ~given \/ good
  BY <1>1, <1>3
<1>5. /\ c = 2 /\ paths => is_relative_path_arg(following[1])
      /\ c # 0 /\ ~any /\ paths => ~given \/ fits
  BY <1>2, <1>3, <1>4
<1> QED
  BY <1>4, <1>5, Zenon DEF TakesRightly, c, given, any, paths, fits

LEMMA FlagIs ==
    ASSUME NEW flags, NEW key, HasFlag(flags, key)
    PROVE  Flag(flags, key) \in flags
BY DEF HasFlag, Flag

LEMMA FewTakeRightly ==
    ASSUME NEW flags, NEW following, NEW mode, NEW w, NEW value
    PROVE  /\ TakesRightly(0, flags, following, mode, w, value)
           /\ mode = "allow_any" \/ value = NoValue
                 => TakesRightly(1, flags, following, mode, w, value)
BY DEF TakesRightly

LEMMA NameTakes ==
    ASSUME NEW w, NEW following, NEW flags, NEW mode
    PROVE  TakesRightly(check_option_with_name(w, following, flags, mode), flags,
                        following, mode, w, split_value(w.body))
<1> DEFINE key == <<w.dashes, split_name(w.body)>>
           value == split_value(w.body)
           any == mode = "allow_any"
           c == check_option_with_name(w, following, flags, mode)
<1>1. c = IF HasFlag(flags, key)
          THEN check_option_with_flag(Flag(flags, key), value, w, following, mode)
          ELSE IF any THEN 1 ELSE 0
  BY Zenon DEF check_option_with_name
<1> HIDE DEF key, value, any, c
<1>2. CASE HasFlag(flags, key)
  <2>1. Flag(flags, key) \in flags
    BY <1>2, FlagIs
  <2>2. c = check_option_with_flag(Flag(flags, key), value, w, following, mode)
    BY <1>1, <1>2, Zenon
  <2>3. TakesRightly(c, flags, following, mode, w, value)
    BY <2>1, <2>2, FlagTakes, Zenon
  <2> QED
    BY <2>3, Zenon DEF c, value
<1>3. CASE ~HasFlag(flags, key)
  <2>1. (c = 1 /\ any) \/ c = 0
    BY <1>1, <1>3, Zenon
  <2>2. TakesRightly(c, flags, following, mode, w, value)
    BY <2>1, FewTakeRightly, Zenon DEF any
  <2> QED
    BY <2>2, Zenon DEF c, value
<1> QED
  BY <1>2, <1>3

\* The value in the word of a short option
ShortValue(w, flags, mode) ==
    IF Stops(w, flags, mode) = {} THEN NoValue ELSE letter_value(w, StopOf(w, flags, mode))

LEMMA ShortTakes ==
    ASSUME NEW w, NEW following, NEW flags, NEW mode
    PROVE  TakesRightly(check_short_options(w, following, flags, mode), flags,
                        following, mode, w, ShortValue(w, flags, mode))
<1> DEFINE n     == StopOf(w, flags, mode)
           key   == <<1, <<w.body[n]>>>>
           value == letter_value(w, n)
           done  == Stops(w, flags, mode) = {}
           any   == mode = "allow_any"
           c     == check_short_options(w, following, flags, mode)
           short == ShortValue(w, flags, mode)
<1>1. c = IF done THEN 1
          ELSE IF HasFlag(flags, key)
          THEN check_option_with_flag(Flag(flags, key), value, w, following, mode)
          ELSE IF any THEN 1 ELSE 0
  BY Zenon DEF check_short_options
<1>2. short = IF done THEN NoValue ELSE value
  BY Zenon DEF ShortValue
<1> HIDE DEF c, key, value, any, done, n, short
<1>3. CASE done
  <2>1. c = 1 /\ short = NoValue
    BY <1>1, <1>2, <1>3, Zenon
  <2>2. TakesRightly(c, flags, following, mode, w, short)
    BY <2>1, FewTakeRightly, Zenon
  <2> QED
    BY <2>2, Zenon DEF c, short
<1>4. CASE ~done /\ HasFlag(flags, key)
  <2>1. c = check_option_with_flag(Flag(flags, key), value, w, following, mode)
        /\ short = value
    BY <1>1, <1>2, <1>4, Zenon
  <2>2. Flag(flags, key) \in flags
    BY <1>4, FlagIs
  <2>3. TakesRightly(c, flags, following, mode, w, short)
    BY <2>1, <2>2, FlagTakes, Zenon
  <2> QED
    BY <2>3, Zenon DEF c, short
<1>5. CASE ~done /\ ~HasFlag(flags, key)
  <2>1. (c = 1 /\ any) \/ c = 0
    BY <1>1, <1>5, Zenon
  <2>2. TakesRightly(c, flags, following, mode, w, short)
    BY <2>1, FewTakeRightly, Zenon DEF any
  <2> QED
    BY <2>2, Zenon DEF c, short
<1> QED
  BY <1>3, <1>4, <1>5

\* The value in the word of an option
ValueIn(w, flags, mode) ==
    IF IsNamed(w, flags) THEN split_value(w.body) ELSE ShortValue(w, flags, mode)

LEMMA AttachedIs ==
    ASSUME NEW w
    PROVE  AttachedTo(w) = ValueIn(w, rule.flags, rule.mode)
BY Zenon DEF AttachedTo, ValueIn, ShortValue

LEMMA OptionTakes ==
    ASSUME NEW w, NEW following, NEW flags, NEW mode
    PROVE  TakesRightly(check_option(w, following, flags, mode), flags, following, mode, w,
                        ValueIn(w, flags, mode))
<1>1. CASE IsNamed(w, flags)
  <2>1. /\ check_option(w, following, flags, mode)
             = check_option_with_name(w, following, flags, mode)
        /\ ValueIn(w, flags, mode) = split_value(w.body)
    BY <1>1, Zenon DEF check_option, ValueIn
  <2> QED
    BY <2>1, NameTakes
<1>2. CASE ~IsNamed(w, flags)
  <2>1. /\ check_option(w, following, flags, mode)
             = check_short_options(w, following, flags, mode)
        /\ ValueIn(w, flags, mode) = ShortValue(w, flags, mode)
    BY <1>2, Zenon DEF check_option, ValueIn
  <2> QED
    BY <2>1, ShortTakes
<1> QED
  BY <1>1, <1>2

\* A dash and two dashes have no value.
LEMMA DashesHaveNone ==
    AttachedTo(Dash) = NoValue /\ AttachedTo(DashDash) = NoValue
<1>1. Equals(<<>>) = {} /\ DOMAIN Dash.body = {} /\ Dash.body = <<>> /\ DashDash.body = <<>>
      /\ Dash.dashes = 1 /\ DashDash.dashes = 2
  BY DEF Equals, Dash, DashDash
<1>2. split_value(<<>>) = NoValue /\ split_name(<<>>) = <<>>
  BY <1>1, Zenon DEF split_value, split_name
<1>3. ~match_single_dash_long_option(Dash, rule.flags)
  BY <1>1, <1>2 DEF match_single_dash_long_option
<1>4. Stops(Dash, rule.flags, rule.mode) = {}
  BY <1>1, Zenon DEF Stops
<1>5. IsNamed(DashDash, rule.flags) /\ ~IsNamed(Dash, rule.flags)
  BY <1>1, <1>3 DEF IsNamed
<1> QED
  BY <1>1, <1>2, <1>4, <1>5, Zenon DEF AttachedTo

\* The rule is built from an entry, so that its chain is a sequence.
LEMMA RuleIsOf ==
    ASSUME RuleTypeOK, NEW e \in MostSpecific, rule = build_safe_command_rule(e)
    PROVE  /\ e \in RuleEntries /\ Len(rule.chain) \in Nat
           /\ rule.flags = e.flags /\ rule.positional_path_from = e.positional_path_from
           /\ ConfinesPaths(e) => /\ rule.mode \in {"deny", "allow_list"}
                                  /\ \A f \in rule.flags : f.path
                                  /\ rule.positional_path_from = 0
<1>1. e \in RuleEntries
  <2>1. e \in LayerEntries /\ layers \in Seq(RuleLayers)
    BY DEF MostSpecific, LayerEntries, RuleTypeOK
  <2>2. Has(configured_entries, e) /\ configured_entries \in Seq(RuleEntries)
    BY <2>1, EntriesConfigured
  <2> QED
    BY <2>2 DEF Has
<1>2. /\ rule.chain \in Seq(RuleWords) /\ rule.flags = e.flags
      /\ rule.positional_path_from = e.positional_path_from
      /\ ConfinesPaths(e) => rule.mode \in {"deny", "allow_list"}
  BY <1>1, BuiltIs
<1>3. Len(rule.chain) \in Nat
  BY <1>2
<1>4. ConfinesPaths(e) => e.positional_path_from = 0 /\ \A f \in e.flags : f.path
  BY Zenon DEF ConfinesPaths
<1> QED
  BY <1>1, <1>2, <1>3, <1>4

LEMMA WalkGoesOn ==
    ASSUME RuleInv, rule # NoRule, NEW t \in 1..2,
           \A e \in MostSpecific : rule = build_safe_command_rule(e) /\ ConfinesPaths(e) =>
              \A n \in DOMAIN command : n \in index..(index + t - 1) => IsChecked(n)
    PROVE  IsRight(rule, index + t)
<1>1. /\ index > Len(rule.chain) /\ (rule.mode = "deny" => Len(command) <= Len(rule.chain))
      /\ index \in Nat /\ command \in Seq(RuleWords)
  BY DEF RuleInv, IsRight, RuleTypeOK
<1>2. PICK e \in MostSpecific :
         rule = build_safe_command_rule(e) /\ (ConfinesPaths(e) => CheckedUpTo(rule, index))
  BY DEF RuleInv, IsRight
<1>3. ASSUME ConfinesPaths(e)
      PROVE  CheckedUpTo(rule, index + t)
  <2> SUFFICES ASSUME NEW n \in DOMAIN command, n > Len(rule.chain), n < index + t
               PROVE  IsChecked(n)
    BY DEF CheckedUpTo
  <2>1. n \in Nat
    BY <1>1
  <2>2. n < index \/ n \in index..(index + t - 1)
    BY <1>1, <2>1
  <2>3. CASE n < index
    BY <1>2, <1>3, <2>3 DEF CheckedUpTo
  <2>4. CASE n \in index..(index + t - 1)
    BY <1>2, <1>3, <2>4
  <2> QED
    BY <2>2, <2>3, <2>4
<1>4. index + t > Len(rule.chain)
  <2>1. Len(rule.chain) \in Nat
    BY <1>2, RuleIsOf DEF RuleInv
  <2> QED
    BY <1>1, <2>1
<1> QED
  BY <1>1, <1>2, <1>3, <1>4 DEF IsRight

\* The words, the rules and the rule found do not change, so that what is said of them and a
\* place in the words is said after the step.
LEMMA RightAfter ==
    ASSUME UNCHANGED <<layers, command, rule>>, RuleTypeOK,
           index' \in Nat, positional_index' \in Nat, IsRight(rule, index'),
           options_ended' => rule # NoRule /\ EndedBefore(index'),
           verdict' = "allowed" => rule # NoRule /\ index' > Len(command)
    PROVE  RuleInv'
<1>1. MostSpecific' = MostSpecific
  BY DEF MostSpecific, Configured, match_command_chain, command_chain_token_matches
<1>2. \A n : IsChecked(n)' <=> IsChecked(n)
  <2>1. \A w : AttachedTo(w)' = AttachedTo(w)
    BY DEF AttachedTo
  <2>2. \A n : MayBeNoOption(n)' <=> MayBeNoOption(n)
    BY <2>1 DEF MayBeNoOption
  <2> QED
    BY <2>1, <2>2 DEF IsChecked
<1>3. CheckedUpTo(rule, index)' <=> CheckedUpTo(rule, index')
  BY <1>2 DEF CheckedUpTo
<1>4. IsRight(rule, index)'
  BY <1>1, <1>3 DEF IsRight
<1>5. RuleTypeOK' /\ OptionsEnded'
  BY DEF RuleTypeOK, OptionsEnded, EndedBefore
<1> QED
  BY <1>4, <1>5 DEF RuleInv

\* The walk ends there, or has ended.
LEMMA VerdictStep ==
    ASSUME RuleInv, UNCHANGED <<layers, command, rule, index, positional_index, options_ended>>,
           verdict' = "allowed" => rule # NoRule /\ index > Len(command)
    PROVE  RuleInv'
<1>1. RuleTypeOK /\ index \in Nat /\ positional_index \in Nat
      /\ IsRight(rule, index) /\ OptionsEnded
  BY DEF RuleInv, RuleTypeOK
<1>2. IsRight(rule, index') /\ (options_ended' => rule # NoRule /\ EndedBefore(index'))
  BY <1>1 DEF OptionsEnded
<1> QED
  BY <1>1, <1>2, RightAfter

LEMMA WalkSteps ==
    ASSUME RuleInv, EndOfOptions \/ Option \/ Positional, UNCHANGED <<layers, command>>
    PROVE  RuleInv'
<1>0. /\ RuleTypeOK /\ index \in Nat /\ positional_index \in Nat /\ command \in Seq(RuleWords)
      /\ IsRight(rule, index) /\ OptionsEnded
  BY DEF RuleInv, RuleTypeOK
<1>1. rule # NoRule /\ verdict = "none" /\ index <= Len(command)
  BY DEF EndOfOptions, Option, Positional, Walking
<1>2. index > Len(rule.chain) /\ index \in DOMAIN command
      /\ (rule.mode = "deny" => Len(command) <= Len(rule.chain))
  <2>1. index > Len(rule.chain) /\ (rule.mode = "deny" => Len(command) <= Len(rule.chain))
    BY <1>0, <1>1 DEF IsRight
  <2>2. Len(rule.chain) \in Nat
    BY <1>0, <1>1, RuleIsOf DEF IsRight
  <2> QED
    BY <1>0, <1>1, <2>1, <2>2
<1>3. rule.mode # "deny"
  <2>1. Len(rule.chain) \in Nat /\ Len(command) \in Nat
    BY <1>0, <1>1, RuleIsOf DEF IsRight
  <2> QED
    BY <1>0, <1>1, <1>2, <2>1
<1>4. ASSUME Verdict("refused")
      PROVE  RuleInv'
  BY <1>4, VerdictStep DEF Verdict
<1>5. ASSUME NEW t \in 1..2, index' = index + t, positional_index' \in Nat,
             UNCHANGED <<verdict, rule>>,
             options_ended' => options_ended \/ word = DashDash,
             \A e \in MostSpecific : rule = build_safe_command_rule(e) /\ ConfinesPaths(e) =>
                \A n \in DOMAIN command : n \in index..(index + t - 1) => IsChecked(n)
      PROVE  RuleInv'
  <2>1. IsRight(rule, index + t)
    BY <1>1, <1>5, WalkGoesOn
  <2>2. IsRight(rule, index')
    BY <1>5, <2>1
  <2>3. index' \in Nat /\ verdict' # "allowed"
    BY <1>0, <1>1, <1>5
  <2>4. options_ended' => EndedBefore(index')
    <3>1. index < index'
      BY <1>0, <1>5
    <3>2. CASE word = DashDash
      BY <1>2, <3>1, <3>2 DEF EndedBefore, word
    <3>3. CASE options_ended
      <4>1. PICK m \in DOMAIN command :
               m > Len(rule.chain) /\ m < index /\ command[m] = DashDash
        BY <1>0, <3>3 DEF OptionsEnded, EndedBefore
      <4>2. m < index'
        <5>1. m \in Nat
          BY <1>0
        <5> QED
          BY <1>0, <1>5, <4>1, <5>1
      <4> QED
        BY <4>1, <4>2 DEF EndedBefore
    <3> QED
      BY <1>5, <3>2, <3>3
  <2> QED
    BY <1>0, <1>1, <1>5, <2>2, <2>3, <2>4, RightAfter
<1>6. ASSUME index' = index + 1, positional_index' \in Nat, UNCHANGED <<verdict, rule>>,
             options_ended' => options_ended \/ word = DashDash,
             \A e \in MostSpecific : rule = build_safe_command_rule(e) /\ ConfinesPaths(e) =>
                IsChecked(index)
      PROVE  RuleInv'
  <2>1. \A n : n \in index..(index + 1 - 1) => n = index
    BY <1>0
  <2>2. \A e \in MostSpecific : rule = build_safe_command_rule(e) /\ ConfinesPaths(e) =>
           \A n \in DOMAIN command : n \in index..(index + 1 - 1) => IsChecked(n)
    BY <1>6, <2>1, Zenon
  <2> QED
    BY <1>5, <1>6, <2>2
<1>7. word = Dash \/ word = DashDash => IsChecked(index)
  <2>1. Dash.dashes # 0 /\ DashDash.dashes # 0
    BY DEF Dash, DashDash
  <2> QED
    BY <2>1, DashesHaveNone, Zenon DEF IsChecked, word
<1>8. CASE EndOfOptions
  <2>1. CASE rule.allow_positional
    <3>1. index' = index + 1 /\ UNCHANGED <<verdict, rule, positional_index>> /\ word = DashDash
      BY <1>8, <2>1 DEF EndOfOptions
    <3> QED
      BY <1>0, <1>6, <1>7, <3>1
  <2>2. CASE ~rule.allow_positional
    BY <1>4, <1>8, <2>2 DEF EndOfOptions
  <2> QED
    BY <2>1, <2>2
<1>9. CASE Option
  <2> DEFINE taken == check_option(word, next, rule.flags, rule.mode)
             value == AttachedTo(word)
             paths == \A f \in rule.flags : f.path
  <2>1. is_flag_like(word) /\ word.dashes > 0
    BY <1>9 DEF Option, IsOption, is_flag_like
  <2>2. /\ taken \in 0..2
        /\ taken = 2 /\ paths => is_relative_path_arg(next[1])
        /\ taken = 2 => value = NoValue
        /\ taken # 0 /\ rule.mode # "allow_any" /\ paths
              => value = NoValue \/ is_relative_path_value(word, value)
    <3>1. TakesRightly(taken, rule.flags, next, rule.mode, word,
                       ValueIn(word, rule.flags, rule.mode))
      BY OptionTakes
    <3>2. value = ValueIn(word, rule.flags, rule.mode)
      BY AttachedIs
    <3> HIDE DEF taken, value
    <3>3. TakesRightly(taken, rule.flags, next, rule.mode, word, value)
      BY <3>1, <3>2
    <3> QED
      BY <3>3 DEF TakesRightly
  <2>3. IF taken = 0 THEN Verdict("refused")
        ELSE index' = index + taken /\ UNCHANGED <<verdict, rule, positional_index, options_ended>>
    BY <1>9, Zenon DEF Option
  <2> HIDE DEF taken
  <2>4. CASE taken = 0
    BY <1>4, <2>3, <2>4
  <2>5. CASE taken # 0
    <3>1. /\ taken \in 1..2 /\ index' = index + taken
          /\ UNCHANGED <<verdict, rule, positional_index, options_ended>>
      BY <2>2, <2>3, <2>5
    <3>2. ASSUME NEW e \in MostSpecific, rule = build_safe_command_rule(e), ConfinesPaths(e),
                 NEW n \in DOMAIN command, n \in index..(index + taken - 1)
          PROVE  IsChecked(n)
      <4>1. paths /\ rule.mode # "allow_any"
        <5>1. rule.mode \in {"deny", "allow_list"} /\ paths
          BY <1>0, <3>2, RuleIsOf
        <5> QED
          BY <5>1
      <4>2. n = index \/ (n = index + 1 /\ taken = 2)
        BY <1>0, <3>1, <3>2
      <4>3. CASE n = index
        <5>1. value = NoValue \/ is_relative_path_value(word, value)
          BY <2>2, <2>5, <4>1
        <5>2. command[n] = word
          BY <4>3 DEF word
        <5>3. word.dashes # 0
          BY <2>1
        <5> QED
          BY <5>1, <5>2, <5>3, Zenon DEF IsChecked
      <4>4. CASE n = index + 1 /\ taken = 2
        <5>1. next = <<command[n]>>
          <6>1. index < Len(command)
            BY <1>0, <4>4
          <6> QED
            BY <4>4, <6>1 DEF next
        <5>2. is_relative_path_arg(command[n])
          <6>1. next[1] = command[n]
            BY <5>1
          <6> QED
            BY <2>2, <4>1, <4>4, <6>1, Zenon
        <5>3. MayBeNoOption(n)
          <6>1. index = n - 1 /\ AttachedTo(command[index]) = NoValue
                /\ is_flag_like(command[index])
            <7>1. index = n - 1
              BY <1>0, <4>4
            <7>2. value = NoValue
              BY <2>2, <4>4
            <7> QED
              BY <2>1, <7>1, <7>2 DEF word
          <6> QED
            BY <1>2, <6>1, Zenon DEF MayBeNoOption
        <5> QED
          BY <5>2, <5>3, Zenon DEF IsChecked
      <4> QED
        BY <4>2, <4>3, <4>4
    <3> QED
      BY <1>0, <1>5, <3>1, <3>2
  <2> QED
    BY <2>4, <2>5
<1>10. CASE Positional
  <2> DEFINE dash == word = Dash /\ rule.allow_dash
             leaves == /\ positional_index >= rule.positional_path_from
                       /\ ~is_relative_path_arg(word)
  <2>1. IF ~rule.allow_positional
        THEN IF dash
             THEN index' = index + 1
                  /\ UNCHANGED <<verdict, rule, positional_index, options_ended>>
             ELSE Verdict("refused")
        ELSE IF leaves THEN Verdict("refused")
        ELSE /\ index' = index + 1 /\ positional_index' = positional_index + 1
             /\ UNCHANGED <<verdict, rule, options_ended>>
    BY <1>10, Zenon DEF Positional
  <2>2. CASE Verdict("refused")
    BY <1>4, <2>2
  <2>3. CASE /\ dash /\ index' = index + 1
             /\ UNCHANGED <<verdict, rule, positional_index, options_ended>>
    BY <1>0, <1>6, <1>7, <2>3
  <2>4. CASE /\ ~leaves /\ index' = index + 1 /\ positional_index' = positional_index + 1
             /\ UNCHANGED <<verdict, rule, options_ended>>
    <3>1. ASSUME NEW e \in MostSpecific, rule = build_safe_command_rule(e), ConfinesPaths(e)
          PROVE  IsChecked(index)
      <4>1. is_relative_path_arg(word)
        <5>1. rule.positional_path_from = 0
          BY <1>0, <3>1, RuleIsOf
        <5>2. positional_index >= rule.positional_path_from
          BY <1>0, <5>1
        <5> QED
          BY <2>4, <5>2, Zenon
      <4>2. options_ended \/ word.dashes = 0 \/ word = Dash
        <5>1. word.dashes \in Nat
          <6>1. word \in RuleWords
            BY <1>0, <1>2 DEF word
          <6> QED
            BY <6>1 DEF RuleWords
        <5>2. options_ended \/ ~is_flag_like(word)
          BY <1>10, Zenon DEF Positional, IsOption
        <5> QED
          BY <5>1, <5>2 DEF is_flag_like
      <4>3. CASE options_ended
        <5>1. MayBeNoOption(index)
          BY <1>0, <4>3, Zenon DEF OptionsEnded, EndedBefore, MayBeNoOption
        <5> QED
          BY <4>1, <5>1, Zenon DEF IsChecked, word
      <4>4. CASE word.dashes = 0
        BY <4>1, <4>4, Zenon DEF IsChecked, word
      <4> QED
        BY <1>7, <4>2, <4>3, <4>4
    <3>2. positional_index' \in Nat
      BY <1>0, <2>4
    <3> QED
      BY <1>6, <2>4, <3>1, <3>2
  <2> QED
    BY <2>1, <2>2, <2>3, <2>4, Zenon
<1> QED
  BY <1>8, <1>9, <1>10

LEMMA RuleSteps ==
    ASSUME RuleInv, [RuleNext]_ruleVars
    PROVE  RuleInv'
<1>0. /\ RuleTypeOK /\ index \in Nat /\ positional_index \in Nat /\ command \in Seq(RuleWords)
      /\ layers \in Seq(RuleLayers) /\ OptionsEnded
      /\ verdict = "allowed" => rule # NoRule /\ index > Len(command)
  BY DEF RuleInv, RuleTypeOK
<1>1. CASE UNCHANGED ruleVars
  BY <1>0, <1>1, VerdictStep DEF ruleVars
<1>2. ASSUME Verdict("refused"), UNCHANGED <<layers, command>>
      PROVE  RuleInv'
  BY <1>2, VerdictStep DEF Verdict
<1>3. CASE LineIsRefused /\ UNCHANGED <<layers, command>>
  BY <1>2, <1>3 DEF LineIsRefused
<1>4. CASE FindRule /\ UNCHANGED <<layers, command>>
  <2> DEFINE rules == configure_safe_commands
             best == find_best_rule(rules)
             some == Matching(rules) # {}
             denied == best.mode = "deny" /\ Len(command) > Len(best.chain)
  <2>1. \/ Verdict("refused")
        \/ /\ some /\ ~denied /\ rule' = best /\ index' = Len(best.chain) + 1
           /\ UNCHANGED <<verdict, positional_index, options_ended>>
    BY <1>4, Zenon DEF FindRule
  <2>2. CASE Verdict("refused")
    BY <1>2, <1>4, <2>2
  <2>3. CASE /\ some /\ ~denied /\ rule' = best /\ index' = Len(best.chain) + 1
             /\ UNCHANGED <<verdict, positional_index, options_ended>>
    <3>1. PICK e \in MostSpecific :
             /\ e \in RuleEntries /\ match_command_chain(e)
             /\ best = build_safe_command_rule(e)
      BY <1>0, <2>3, BestIs
    <3> HIDE DEF best
    <3>2. best.chain = e.chain /\ e.chain \in Seq(RuleWords) /\ Len(e.chain) \in Nat
      BY <3>1, BuiltIs
    <3>3. index' \in Nat /\ index' > Len(best.chain) /\ Len(best.chain) \in Nat
      BY <2>3, <3>2
    <3>4. CheckedUpTo(rule, index)'
      <4>1. \A n \in DOMAIN command : ~(n > Len(best.chain) /\ n < Len(best.chain) + 1)
        BY <1>0, <3>3
      <4> QED
        BY <1>4, <2>3, <4>1 DEF CheckedUpTo
    <3>5. best.mode = "deny" => Len(command) <= Len(best.chain)
      <4>1. Len(command) \in Nat
        BY <1>0
      <4> QED
        BY <2>3, <3>3, <4>1
    <3>6. e \in MostSpecific'
      <4>1. MostSpecific' = MostSpecific
        BY <1>4 DEF MostSpecific, Configured, match_command_chain, command_chain_token_matches
      <4> QED
        BY <3>1, <4>1
    <3>7. IsRight(rule, index)'
      BY <1>4, <2>3, <3>1, <3>3, <3>4, <3>5, <3>6 DEF IsRight
    <3>8. verdict' # "allowed" /\ ~options_ended'
      BY <1>0, <1>4, <2>3 DEF FindRule, OptionsEnded
    <3>9. RuleTypeOK' /\ OptionsEnded'
      BY <1>0, <1>4, <2>3, <3>3, <3>8 DEF RuleTypeOK, OptionsEnded
    <3> QED
      BY <3>7, <3>8, <3>9 DEF RuleInv
  <2> QED
    BY <2>1, <2>2, <2>3
<1>5. CASE AllChecked /\ UNCHANGED <<layers, command>>
  BY <1>5, VerdictStep DEF AllChecked, Walking, Verdict
<1>6. CASE (EndOfOptions \/ Option \/ Positional) /\ UNCHANGED <<layers, command>>
  BY <1>6, WalkSteps
<1> QED
  BY <1>1, <1>3, <1>4, <1>5, <1>6 DEF RuleNext

\* Whatever the layers say and whatever the command is: one that runs without a question went by
\* its most specific rules, and when these ask for relative paths everywhere, no word slipped
\* past the test of the code, neither an argument, nor the word after an option, nor the value in
\* an option's own word (find_best_rule, unsafe_args_with_mode, check_option_with_flag).  It is a
\* theorem about the layers, the longest rule and the walk; where a path leads it does not say.
THEOREM RulesCorrect == RuleSpec => []NoPathIsUnchecked
<1>1. RuleInit => RuleInv
  <2> SUFFICES ASSUME RuleInit PROVE RuleInv
    OBVIOUS
  <2>1. layers \in Seq(RuleLayers)
    BY RuleAssumption DEF RuleInit
  <2>2. command \in Seq(RuleWords)
    <3>1. PICK n \in 0..MaxWords : command \in [1..n -> Words]
      BY DEF RuleInit
    <3>2. n \in Nat /\ command \in [1..n -> RuleWords]
      BY <3>1, RuleAssumption
    <3> QED
      BY <3>2
  <2> QED
    BY <2>1, <2>2 DEF RuleInit, RuleInv, RuleTypeOK, IsRight, OptionsEnded
<1>2. RuleInv /\ [RuleNext]_ruleVars => RuleInv'
  BY RuleSteps
<1>3. RuleInv => NoPathIsUnchecked
  <2> SUFFICES ASSUME RuleInv, verdict = "allowed", \A e \in MostSpecific : ConfinesPaths(e),
                      NEW n \in DOMAIN command, n > Len(rule.chain)
               PROVE  IsChecked(n)
    BY DEF NoPathIsUnchecked
  <2>1. IsRight(rule, index) /\ rule # NoRule /\ index > Len(command)
        /\ command \in Seq(RuleWords) /\ index \in Nat
    BY DEF RuleInv, RuleTypeOK
  <2>2. CheckedUpTo(rule, index)
    BY <2>1 DEF IsRight
  <2>3. n < index
    BY <2>1
  <2> QED
    BY <2>2, <2>3 DEF CheckedUpTo
<1> QED
  BY <1>1, <1>2, <1>3, PTL DEF RuleSpec

-----------------------------------------------------------------------------
(* Streamed requests: what the accumulator makes of a sequence of events *)

\* The accumulator after each of the events
Steps(a, events, whole, f) ==
    f = [n \in 0..Len(events) |->
           IF n = 0 THEN a ELSE handle_event(f[n - 1], events[n], whole)]

LEMMA StepsExist ==
    ASSUME NEW a, NEW S, NEW events \in Seq(S), NEW whole
    PROVE  \E f : Steps(a, events, whole, f)
<1> DEFINE Upto(m, f) ==
        f = [n \in 0..m |-> IF n = 0 THEN a ELSE handle_event(f[n - 1], events[n], whole)]
           G == {m \in 0..Len(events) : \E f : Upto(m, f)}
<1>1. Len(events) \in Nat
  OBVIOUS
<1>2. 0 \in G
  <2> DEFINE f == [n \in 0..0 |-> a]
  <2>1. Upto(0, f)
    <3>1. f = [n \in 0..0 |-> f[n]] /\ \A n \in 0..0 : f[n] = a /\ n = 0
      OBVIOUS
    <3> HIDE DEF f
    <3> QED
      BY <3>1
  <2> HIDE DEF f, Upto
  <2> QED
    BY <1>1, <2>1
<1>3. ASSUME NEW m \in 1..Len(events), m - 1 \in G
      PROVE  m \in G
  <2>1. PICK g : Upto(m - 1, g)
    BY <1>3
  <2> DEFINE last == handle_event(g[m - 1], events[m], whole)
             f == [n \in 0..m |-> IF n = m THEN last ELSE g[n]]
  <2>2. ASSUME NEW n \in 0..m
        PROVE  f[n] = IF n = 0 THEN a ELSE handle_event(f[n - 1], events[n], whole)
    <3>1. CASE n = m
      <4>1. n # 0 /\ m - 1 \in 0..m /\ m - 1 # m
        BY <3>1
      <4>2. f[n] = last /\ f[m - 1] = g[m - 1]
        <5> HIDE DEF last
        <5> QED
          BY <3>1, <4>1
      <4> HIDE DEF f
      <4> QED
        BY <3>1, <4>1, <4>2
    <3>2. CASE n # m
      <4>1. n \in 0..(m - 1) /\ (n # 0 => n - 1 \in 0..m /\ n - 1 # m)
        BY <3>2
      <4>2. f[n] = g[n] /\ (n # 0 => f[n - 1] = g[n - 1])
        <5> HIDE DEF last
        <5> QED
          BY <3>2, <4>1
      <4>3. g[n] = IF n = 0 THEN a ELSE handle_event(g[n - 1], events[n], whole)
        BY <2>1, <4>1
      <4> HIDE DEF f
      <4> QED
        BY <4>2, <4>3
    <3> QED
      BY <3>1, <3>2
  <2>3. Upto(m, f)
    <3>1. f = [n \in 0..m |-> f[n]]
      OBVIOUS
    <3> HIDE DEF f
    <3> QED
      BY <2>2, <3>1
  <2>4. m \in 0..Len(events)
    BY <1>1
  <2> HIDE DEF f, Upto
  <2> QED
    BY <2>3, <2>4
<1>4. Len(events) \in G
  <2> HIDE DEF G
  <2>1. \A m \in 0..Len(events) : m \in G
    BY <1>1, <1>2, <1>3, AllUpTo
  <2> QED
    BY <1>1, <2>1
<1>5. PICK f : Upto(Len(events), f)
  BY <1>4
<1>6. Steps(a, events, whole, f)
  BY <1>5 DEF Steps
<1> QED
  BY <1>6

Accumulates(a, events, whole, f) ==
    /\ Accumulated(a, events, whole) = f[Len(events)] /\ f[0] = a
    /\ \A n \in 1..Len(events) : f[n] = handle_event(f[n - 1], events[n], whole)

LEMMA AccumulatedMade ==
    ASSUME NEW a, NEW S, NEW events \in Seq(S), NEW whole
    PROVE  \E f : Accumulates(a, events, whole, f)
<1> DEFINE f == CHOOSE f : Steps(a, events, whole, f)
<1>1. Steps(a, events, whole, f)
  <2> \E g : Steps(a, events, whole, g)
    BY StepsExist
  <2> QED
    BY Zenon
<1>2. Accumulated(a, events, whole) = f[Len(events)]
  BY DEF Accumulated, Steps
<1> HIDE DEF f
<1>3. Len(events) \in Nat
  OBVIOUS
<1>4. f[0] = a
  <2>1. 0 \in 0..Len(events)
    BY <1>3
  <2> QED
    BY <1>1, <2>1 DEF Steps
<1>5. ASSUME NEW n \in 1..Len(events)
      PROVE  f[n] = handle_event(f[n - 1], events[n], whole)
  <2>1. n \in 0..Len(events) /\ n # 0
    BY <1>3
  <2> QED
    BY <1>1, <2>1 DEF Steps
<1>6. Accumulates(a, events, whole, f)
  BY <1>2, <1>4, <1>5 DEF Accumulates
<1> QED
  BY <1>6

LEMMA AccumulatedNone ==
    ASSUME NEW a, NEW whole
    PROVE  Accumulated(a, <<>>, whole) = a
<1> DEFINE none == <<>>
<1>1. none \in Seq({}) /\ Len(none) = 0
  OBVIOUS
<1> HIDE DEF none
<1>2. PICK f : Accumulates(a, none, whole, f)
  <2>1. none \in Seq({})
    BY <1>1
  <2> QED
    BY <2>1, AccumulatedMade
<1>3. Accumulated(a, none, whole) = a
  BY <1>1, <1>2 DEF Accumulates
<1> QED
  BY <1>3 DEF none

LEMMA AccumulatedAppend ==
    ASSUME NEW a, NEW S, NEW events \in Seq(S), NEW e \in S, NEW whole
    PROVE  Accumulated(a, Append(events, e), whole)
             = handle_event(Accumulated(a, events, whole), e, whole)
<1> DEFINE all == Append(events, e)
<1>1. /\ all \in Seq(S) /\ Len(events) \in Nat /\ Len(all) = Len(events) + 1
      /\ all[Len(events) + 1] = e /\ \A i \in 1..Len(events) : all[i] = events[i]
  BY AppendProperties
<1> HIDE DEF all
<1>2. PICK f : Accumulates(a, events, whole, f)
  BY AccumulatedMade
<1>3. PICK g : Accumulates(a, all, whole, g)
  <2>1. all \in Seq(S)
    BY <1>1
  <2> QED
    BY <2>1, AccumulatedMade
<1> DEFINE G == {n \in 0..Len(events) : f[n] = g[n]}
<1>4. 0 \in G
  BY <1>1, <1>2, <1>3 DEF Accumulates
<1>5. ASSUME NEW n \in 1..Len(events), n - 1 \in G
      PROVE  n \in G
  <2>1. n \in 0..Len(events) /\ n \in 1..Len(all) /\ all[n] = events[n] /\ f[n - 1] = g[n - 1]
    BY <1>1, <1>5
  <2> QED
    BY <1>2, <1>3, <2>1 DEF Accumulates
<1>6. f[Len(events)] = g[Len(events)]
  <2> HIDE DEF G
  <2>1. \A n \in 0..Len(events) : n \in G
    BY <1>1, <1>4, <1>5, AllUpTo
  <2> QED
    BY <1>1, <2>1 DEF G
<1>7. Len(events) + 1 \in 1..Len(all) /\ (Len(events) + 1) - 1 = Len(events)
  BY <1>1
<1>8. g[Len(events) + 1] = handle_event(g[Len(events)], e, whole)
  BY <1>1, <1>3, <1>7 DEF Accumulates
<1> QED
  BY <1>1, <1>2, <1>3, <1>6, <1>8 DEF all, Accumulates

AccumulatesNext(a, events, e, whole) ==
    Accumulated(a, Append(events, e), whole)
       = handle_event(Accumulated(a, events, whole), e, whole)

LEMMA AccumulatedNext ==
    ASSUME NEW a, NEW S, NEW events \in Seq(S), NEW e \in S, NEW whole
    PROVE  AccumulatesNext(a, events, e, whole)
BY AccumulatedAppend DEF AccumulatesNext

LEMMA AccumulatedConcat ==
    ASSUME NEW a, NEW S, NEW first \in Seq(S), NEW second \in Seq(S), NEW whole
    PROVE  Accumulated(a, first \o second, whole)
             = Accumulated(Accumulated(a, first, whole), second, whole)
<1> DEFINE b == Accumulated(a, first, whole)
           G == {t \in Seq(S) :
                   Accumulated(a, first \o t, whole) = Accumulated(b, t, whole)}
<1>1. <<>> \in G
  <2>1. first \o <<>> = first /\ <<>> \in Seq(S)
    BY ConcatEmptySeq
  <2> QED
    BY <2>1, AccumulatedNone
<1>2. ASSUME NEW t \in Seq(S), NEW e \in S, t \in G
      PROVE  Append(t, e) \in G
  <2>1. /\ first \o Append(t, e) = Append(first \o t, e) /\ first \o t \in Seq(S)
        /\ Append(t, e) \in Seq(S)
    BY ConcatAppend, ConcatProperties, AppendProperties
  <2>2. Accumulated(a, first \o Append(t, e), whole)
          = handle_event(Accumulated(a, first \o t, whole), e, whole)
    <3> DEFINE all == first \o t
    <3>1. all \in Seq(S)
      BY <2>1
    <3> HIDE DEF all
    <3>2. AccumulatesNext(a, all, e, whole)
      BY <3>1, AccumulatedNext
    <3>3. Accumulated(a, Append(all, e), whole) = handle_event(Accumulated(a, all, whole), e, whole)
      BY <3>2 DEF AccumulatesNext
    <3> QED
      BY <2>1, <3>3 DEF all
  <2>3. Accumulated(b, Append(t, e), whole) = handle_event(Accumulated(b, t, whole), e, whole)
    <3> HIDE DEF b
    <3>1. AccumulatesNext(b, t, e, whole)
      BY AccumulatedNext
    <3> QED
      BY <3>1 DEF AccumulatesNext
  <2> HIDE DEF b
  <2> QED
    BY <1>2, <2>1, <2>2, <2>3
<1>3. second \in G
  <2> HIDE DEF G
  <2>1. \A t \in Seq(S) : t \in G
    BY <1>1, <1>2, ByAppending
  <2> QED
    BY <2>1
<1> QED
  BY <1>3

-----------------------------------------------------------------------------
(* One event: the block it begins, grows or closes *)

Block == [kind : {"thinking", "text", "tool"}, n : Nat]

\* An accumulator that has not failed
Unfailed == FALSE
LEMMA UnfailedIs == Unfailed = FALSE /\ ~Unfailed
BY DEF Unfailed

Holding(blocks, inputs, updates) ==
    [blocks |-> blocks, inputs |-> inputs, updates |-> updates, failed |-> Unfailed]

\* A block, and the update of it, as terms of their own
Told(k, n)   == [kind |-> k, n |-> n]
Update(i, k) == [index |-> i, kind |-> k]

LEMMA SlotThere ==
    ASSUME NEW blocks \in Seq(Block), NEW i \in Nat, Len(blocks) > i
    PROVE  ensure_block_slot(blocks, i) = blocks
<1> DEFINE more == [n \in 1..0 |-> Told("text", 0)]
<1>1. more = <<>>
  BY EmptySeq DEF Told
<1>2. ensure_block_slot(blocks, i) = blocks \o more
  BY DEF ensure_block_slot, Told
<1>3. blocks \o <<>> = blocks
  BY ConcatEmptySeq
<1> HIDE DEF more
<1> QED
  BY <1>1, <1>2, <1>3

LEMMA SlotNext ==
    ASSUME NEW blocks \in Seq(Block), NEW i \in Nat, Len(blocks) = i
    PROVE  ensure_block_slot(blocks, i) = Append(blocks, Told("text", 0))
<1> DEFINE empty == Told("text", 0)
           more == [n \in 1..1 |-> empty]
<1>1. (i + 1) - Len(blocks) = 1 /\ ~(Len(blocks) > i)
  OBVIOUS
<1>2. ensure_block_slot(blocks, i) = blocks \o more
  BY <1>1 DEF ensure_block_slot, Told
<1>3. empty \in Block
  BY DEF Told, Block
<1> HIDE DEF empty
<1>4. more = <<empty>>
  OBVIOUS
<1>5. Append(blocks, empty) = blocks \o <<empty>>
  BY <1>3, AppendIsConcat
<1> HIDE DEF more
<1> QED
  BY <1>2, <1>4, <1>5 DEF empty

LEMMA LastChanged ==
    ASSUME NEW S, NEW s \in Seq(S), NEW x \in S, NEW y \in S
    PROVE  [Append(s, x) EXCEPT ![Len(s) + 1] = y] = Append(s, y)
<1> DEFINE a == Append(s, x)
           b == [a EXCEPT ![Len(s) + 1] = y]
           c == Append(s, y)
<1>1. /\ a \in Seq(S) /\ c \in Seq(S) /\ Len(a) = Len(s) + 1 /\ Len(c) = Len(s) + 1
      /\ c[Len(s) + 1] = y /\ Len(s) \in Nat
      /\ \A i \in 1..Len(s) : a[i] = s[i] /\ c[i] = s[i]
  BY AppendProperties
<1> HIDE DEF a, c
<1>2. DOMAIN b = 1..(Len(s) + 1) /\ DOMAIN c = 1..(Len(s) + 1)
  BY <1>1
<1>3. ASSUME NEW i \in 1..(Len(s) + 1)
      PROVE  b[i] = c[i]
  BY <1>1, <1>3
<1>4. b = [i \in 1..(Len(s) + 1) |-> b[i]] /\ c = [i \in 1..(Len(s) + 1) |-> c[i]]
  <2>1. c = [i \in 1..(Len(s) + 1) |-> c[i]]
    BY <1>1
  <2>2. b = [i \in DOMAIN a |-> b[i]]
    OBVIOUS
  <2>3. DOMAIN a = 1..(Len(s) + 1)
    BY <1>1
  <2> QED
    BY <2>1, <2>2, <2>3
<1>5. b = c
  <2> HIDE DEF b
  <2> QED
    BY <1>3, <1>4
<1> QED
  BY <1>5 DEF a, c

LEMMA BlocksChanged ==
    ASSUME NEW blocks, NEW inputs, NEW updates, NEW others
    PROVE  [Holding(blocks, inputs, updates) EXCEPT !.blocks = others]
             = Holding(others, inputs, updates)
BY DEF Holding

WithBoth(a, blocks, updates) == [a EXCEPT !.blocks = blocks, !.updates = updates]

LEMMA UpdatesChanged ==
    ASSUME NEW blocks, NEW inputs, NEW updates, NEW others, NEW more
    PROVE  WithBoth(Holding(blocks, inputs, updates), others, more)
             = Holding(others, inputs, more)
<1> DEFINE fields == {"blocks", "inputs", "updates", "failed"}
           r == WithBoth(Holding(blocks, inputs, updates), others, more)
<1>1. /\ r.blocks = others /\ r.inputs = inputs /\ r.updates = more /\ r.failed = Unfailed
      /\ r = [f \in fields |-> r[f]]
  BY DEF Holding, WithBoth
<1> HIDE DEF r
<1>2. r = [blocks |-> r.blocks, inputs |-> r.inputs, updates |-> r.updates,
           failed |-> r.failed]
  BY <1>1
<1> QED
  BY <1>1, <1>2 DEF Holding, r

\* A new block is the next one.
BlockStarts(blocks, inputs, updates, whole, k, i) ==
    handle_event(Holding(blocks, inputs, updates), Start(i, k), whole)
      = Holding(Append(blocks, Told(k, 0)), inputs, updates)

LEMMA StartIsHandled ==
    ASSUME NEW blocks \in Seq(Block), NEW inputs, NEW updates, NEW whole,
           NEW k \in {"thinking", "text", "tool"}, NEW i, i = Len(blocks)
    PROVE  BlockStarts(blocks, inputs, updates, whole, k, i)
<1> DEFINE e == Start(i, k)
           empty == Told("text", 0)
           full == Told(k, 0)
<1>1. i \in Nat /\ empty \in Block /\ full \in Block
  BY DEF Told, Block
<1>2. e.type = "start" /\ e.index = i /\ e.kind = k
  BY DEF Start
<1>3. ensure_block_slot(blocks, i) = Append(blocks, empty)
  BY <1>1, SlotNext
<1>4. [Append(blocks, empty) EXCEPT ![i + 1] = full] = Append(blocks, full)
  <2> HIDE DEF empty, full
  <2> QED
    BY <1>1, LastChanged
<1>5. full = [kind |-> k, n |-> 0]
  BY DEF Told
<1> DEFINE made == [ensure_block_slot(blocks, i) EXCEPT ![i + 1] = full]
<1>6. made = Append(blocks, full)
  BY <1>3, <1>4
<1> HIDE DEF e, empty, full
<1>7. handle_event(Holding(blocks, inputs, updates), e, whole)
        = [Holding(blocks, inputs, updates) EXCEPT !.blocks = made]
  BY <1>2, <1>5, UnfailedIs DEF handle_event, Holding
<1> HIDE DEF made
<1>8. [Holding(blocks, inputs, updates) EXCEPT !.blocks = made]
        = Holding(made, inputs, updates)
  BY BlocksChanged
<1> QED
  BY <1>6, <1>7, <1>8 DEF BlockStarts, e, full

\* A delta of the last block, which is of its kind
SpeechGoesOn(blocks, inputs, updates, whole, k, n, m, i) ==
    handle_event(Holding(Append(blocks, Told(k, n)), inputs, updates), Delta(i, k), whole)
      = Holding(Append(blocks, Told(k, m)), inputs, Append(updates, Update(i, k)))

LEMMA SpeechIsHandled ==
    ASSUME NEW blocks \in Seq(Block), NEW inputs, NEW updates, NEW whole,
           NEW k \in {"thinking", "text"}, NEW n \in Nat, NEW m, m = n + 1,
           NEW i, i = Len(blocks)
    PROVE  SpeechGoesOn(blocks, inputs, updates, whole, k, n, m, i)
<1> DEFINE e == Delta(i, k)
           old == Told(k, n)
           new == Told(k, m)
           all == Append(blocks, old)
           u == Update(i, k)
<1>1. i \in Nat /\ old \in Block /\ new \in Block
  BY DEF Block, Told
<1>2. e.type = "delta" /\ e.index = i /\ e.kind = k /\ k # "tool"
  BY DEF Delta
<1>3. all \in Seq(Block) /\ Len(all) = i + 1 /\ all[i + 1] = old
  <2> HIDE DEF old
  <2> QED
    BY <1>1, AppendProperties
<1>4. ensure_block_slot(all, i) = all
  <2>1. Len(all) > i
    BY <1>1, <1>3
  <2> HIDE DEF all
  <2> QED
    BY <1>1, <1>3, <2>1, SlotThere
<1>5. [all EXCEPT ![i + 1] = new] = Append(blocks, new)
  <2> HIDE DEF old, new
  <2> QED
    BY <1>1, LastChanged
<1> HIDE DEF e, old, new, all, u
<1>7. handle_event(Holding(all, inputs, updates), e, whole)
        = apply_delta(Holding(all, inputs, updates), i, k)
  BY <1>2, UnfailedIs DEF handle_event, Holding
<1> DEFINE more == Append(updates, u)
           told == [kind |-> k, n |-> (IF all[i + 1].kind = k THEN all[i + 1].n ELSE 0) + 1]
           Written(b) == [b EXCEPT ![i + 1] =
                            [kind |-> k, n |-> (IF @.kind = k THEN @.n ELSE 0) + 1]]
           filled == Written(ensure_block_slot(all, i))
<1>8. Written(all) = [all EXCEPT ![i + 1] = told]
  OBVIOUS
<1>9. told = new
  BY <1>3 DEF old, new, Told
<1>10. apply_delta(Holding(all, inputs, updates), i, k)
         = WithBoth(Holding(all, inputs, updates), filled, more)
  BY <1>2 DEF apply_delta, Holding, u, WithBoth, Update
<1>11. filled = Append(blocks, new)
  <2> HIDE DEF told, Written
  <2>1. filled = Written(all)
    BY <1>4
  <2> QED
    BY <1>5, <1>8, <1>9, <2>1
<1> HIDE DEF filled, more
<1>12. WithBoth(Holding(all, inputs, updates), filled, more) = Holding(filled, inputs, more)
  BY UpdatesChanged
<1> QED
  BY <1>7, <1>10, <1>11, <1>12 DEF SpeechGoesOn, WithBoth, e, old, new, all, u, more

\* A fragment of a tool's input
LEMMA FragmentIsHandled ==
    ASSUME NEW blocks \in Seq(Block), NEW inputs, NEW updates, NEW whole,
           NEW i \in Nat, Len(blocks) > i
    PROVE  handle_event(Holding(blocks, inputs, updates), Delta(i, "tool"), whole)
             = Holding(blocks, SetInput(inputs, i, InputOf(inputs, i) + 1), updates)
<1> DEFINE e == Delta(i, "tool")
<1>1. e.type = "delta" /\ e.index = i /\ e.kind = "tool"
  BY DEF Delta
<1>2. ensure_block_slot(blocks, i) = blocks
  BY SlotThere
<1> HIDE DEF e
<1>3. handle_event(Holding(blocks, inputs, updates), e, whole)
        = apply_delta(Holding(blocks, inputs, updates), i, "tool")
  BY <1>1, UnfailedIs DEF handle_event, Holding
<1>4. @ = Holding(blocks, SetInput(inputs, i, InputOf(inputs, i) + 1), updates)
  BY <1>2 DEF apply_delta, Holding
<1> QED
  BY <1>3, <1>4 DEF e

\* The end of a block that is not a tool's
LEMMA StopIsHandled ==
    ASSUME NEW blocks, NEW inputs, NEW updates, NEW whole, NEW i \in Nat, i \notin DOMAIN inputs
    PROVE  handle_event(Holding(blocks, inputs, updates), Stop(i), whole)
             = Holding(blocks, inputs, updates)
BY UnfailedIs DEF handle_event, Holding, Stop, finalize_tool_input

\* The end of a tool's block, when its input is whole
InputIsTaken(blocks, inputs, updates, i) ==
    handle_event(Holding(blocks, inputs, updates), Stop(i), TRUE)
      = Holding([blocks EXCEPT ![i + 1].n = inputs[i]],
                [j \in DOMAIN inputs \ {i} |-> inputs[j]], updates)

LEMMA InputIsHandled ==
    ASSUME NEW blocks \in Seq(Block), NEW inputs, NEW updates, NEW i \in DOMAIN inputs,
           i + 1 \in DOMAIN blocks, blocks[i + 1].kind = "tool"
    PROVE  InputIsTaken(blocks, inputs, updates, i)
BY UnfailedIs DEF InputIsTaken, handle_event, Holding, Stop, finalize_tool_input

\* Otherwise it fails, and stays so.
LEMMA CutInputFails ==
    ASSUME NEW blocks, NEW inputs, NEW updates, NEW i \in DOMAIN inputs
    PROVE  handle_event(Holding(blocks, inputs, updates), Stop(i), FALSE).failed = TRUE
BY UnfailedIs DEF handle_event, Holding, Stop, finalize_tool_input

Events == [type : {"start", "delta", "stop"}, index : Nat, kind : {"thinking", "text", "tool"}]

LEMMA EventsAre ==
    ASSUME NEW i \in Nat, NEW k \in {"thinking", "text", "tool"}
    PROVE  Start(i, k) \in Events /\ Delta(i, k) \in Events /\ Stop(i) \in Events
BY DEF Start, Delta, Stop, Events

LEMMA AccumulatedOne ==
    ASSUME NEW a, NEW S, NEW e \in S, NEW whole
    PROVE  Accumulated(a, <<e>>, whole) = handle_event(a, e, whole)
<1>1. <<>> \in Seq(S) /\ Append(<<>>, e) = <<e>>
  OBVIOUS
<1>2. Accumulated(a, Append(<<>>, e), whole)
        = handle_event(Accumulated(a, <<>>, whole), e, whole)
  BY <1>1, AccumulatedAppend
<1>3. Accumulated(a, <<>>, whole) = a
  BY AccumulatedNone
<1> QED
  BY <1>1, <1>2, <1>3

\* What was said of a kind, as the block that has it
LEMMA SentIs ==
    ASSUME NEW blocks \in Seq(Block), NEW k \in {"thinking", "text"}, NEW n \in Nat
    PROVE  /\ n = 0 => blocks \o Sent(k, n) = blocks /\ Sent(k, n) = <<>>
           /\ Sent(k, n) \in Seq(Block) /\ Len(Sent(k, n)) = IF n = 0 THEN 0 ELSE 1
<1> DEFINE b == Told(k, n)
<1>1. b \in Block
  BY DEF Block, Told
<1>2. Sent(k, n) = IF n > 0 THEN <<b>> ELSE <<>>
  BY DEF Sent, OnlyIf, Told
<1> HIDE DEF b
<1>3. <<b>> \in Seq(Block) /\ Len(<<b>>) = 1 /\ <<>> \in Seq(Block)
  BY <1>1
<1>4. blocks \o <<>> = blocks /\ blocks \o <<b>> = Append(blocks, b)
  BY <1>1, ConcatEmptySeq, AppendIsConcat
<1>5. CASE n = 0
  <2>1. Sent(k, n) = <<>> /\ ~(n > 0)
    BY <1>2, <1>5
  <2> DEFINE none == <<>>
  <2>2. none \in Seq(Block) /\ Len(none) = 0 /\ blocks \o none = blocks
    BY <1>4
  <2>3. Sent(k, n) = none
    BY <2>1
  <2> HIDE DEF none
  <2>4. /\ blocks \o Sent(k, n) = blocks /\ Sent(k, n) \in Seq(Block)
        /\ Len(Sent(k, n)) = 0
    BY <2>2, <2>3
  <2> QED
    BY <1>5, <2>1, <2>4
<1>6. CASE n # 0
  <2>1. n > 0 /\ Sent(k, n) = <<b>>
    BY <1>2, <1>6
  <2> QED
    BY <1>3, <1>4, <1>6, <2>1
<1> QED
  BY <1>5, <1>6

LEMMA SentSome ==
    ASSUME NEW blocks \in Seq(Block), NEW k \in {"thinking", "text"}, NEW n \in Nat, n > 0
    PROVE  blocks \o Sent(k, n) = Append(blocks, Told(k, n))
<1> DEFINE b == Told(k, n)
<1>1. b \in Block
  BY DEF Block, Told
<1>2. Sent(k, n) = <<b>>
  BY DEF Sent, OnlyIf, Told
<1> HIDE DEF b
<1>3. blocks \o <<b>> = Append(blocks, b)
  BY <1>1, AppendIsConcat
<1> QED
  BY <1>2, <1>3 DEF b

-----------------------------------------------------------------------------
(* The events of a chunk: thinking and text, then each tool call *)

\* The events of a block: its start with the first of it, or only a delta
FirstEvents(i, k) == Append(<<Start(i, k)>>, Delta(i, k))
NextEvents(i, k)  == <<Delta(i, k)>>

IsSpeech(events, i, k, n) ==
    /\ events \in Seq(Events)
    /\ n = 0 => events = FirstEvents(i, k)
    /\ n # 0 => events = NextEvents(i, k)

LEMMA BlockEventsAre ==
    ASSUME NEW i \in Nat, NEW k \in {"thinking", "text", "tool"}, NEW first
    PROVE  /\ FirstEvents(i, k) \in Seq(Events) /\ NextEvents(i, k) \in Seq(Events)
           /\ first => BlockEvents(i, k, first) = FirstEvents(i, k)
           /\ ~first => BlockEvents(i, k, first) = NextEvents(i, k)
<1> DEFINE start == Start(i, k)
           delta == Delta(i, k)
           one == <<start>>
           last == <<delta>>
           none == <<>>
<1>1. start \in Events /\ delta \in Events
  BY EventsAre
<1>2. BlockEvents(i, k, first) = (IF first THEN one ELSE none) \o last
  BY DEF BlockEvents, OnlyIf
<1> HIDE DEF start, delta
<1>3. one \in Seq(Events) /\ last \in Seq(Events) /\ none \o last = last
  BY <1>1, ConcatEmptySeq
<1>4. one \o last = Append(one, delta) /\ Append(one, delta) \in Seq(Events)
  BY <1>1, AppendIsConcat, AppendProperties
<1>5. FirstEvents(i, k) = Append(one, delta) /\ NextEvents(i, k) = last
  BY DEF start, delta, FirstEvents, NextEvents
<1>6. first => BlockEvents(i, k, first) = FirstEvents(i, k)
  BY <1>2, <1>4, <1>5
<1>7. ~first => BlockEvents(i, k, first) = NextEvents(i, k)
  BY <1>2, <1>3, <1>5
<1> QED
  BY <1>3, <1>4, <1>5, <1>6, <1>7

SpeechIsAdded(blocks, inputs, updates, whole, k, n, m, i, events) ==
    Accumulated(Holding(blocks \o Sent(k, n), inputs, updates), events, whole)
      = Holding(blocks \o Sent(k, m), inputs, Append(updates, Update(i, k)))

LEMMA SpeechAccumulated ==
    ASSUME NEW blocks \in Seq(Block), NEW inputs, NEW updates, NEW whole,
           NEW k \in {"thinking", "text"}, NEW n \in Nat, NEW m, m = n + 1,
           NEW i, i = Len(blocks), NEW events, IsSpeech(events, i, k, n)
    PROVE  SpeechIsAdded(blocks, inputs, updates, whole, k, n, m, i, events)
<1> DEFINE start == Start(i, k)
           delta == Delta(i, k)
           before == Holding(blocks \o Sent(k, n), inputs, updates)
           more == Append(updates, Update(i, k))
           after == Holding(blocks \o Sent(k, m), inputs, more)
           one == Told(k, m)
<1>1. start \in Events /\ delta \in Events
  <2>1. i \in Nat
    OBVIOUS
  <2> QED
    BY <2>1, EventsAre
<1>2. blocks \o Sent(k, m) = Append(blocks, one)
  <2>1. m \in Nat /\ m > 0
    OBVIOUS
  <2> QED
    BY <2>1, SentSome
<1> DEFINE old == Told(k, n)
<1>0. handle_event(Holding(Append(blocks, old), inputs, updates), delta, whole)
        = Holding(Append(blocks, one), inputs, more)
  <2>1. SpeechGoesOn(blocks, inputs, updates, whole, k, n, m, i)
    BY SpeechIsHandled
  <2> QED
    BY <2>1 DEF SpeechGoesOn
<1>3. CASE n = 0
  <2> DEFINE middle == Holding(Append(blocks, Told(k, 0)), inputs, updates)
  <2>1. before = Holding(blocks, inputs, updates)
    BY <1>3, SentIs
  <2>2. handle_event(before, start, whole) = middle
    <3>1. BlockStarts(blocks, inputs, updates, whole, k, i)
      BY StartIsHandled
    <3> QED
      BY <2>1, <3>1 DEF BlockStarts
  <2>3. Told(k, 0) = old
    BY <1>3
  <2>4. handle_event(middle, delta, whole) = Holding(Append(blocks, one), inputs, more)
    <3>1. middle = Holding(Append(blocks, old), inputs, updates)
      BY <2>3
    <3> HIDE DEF middle, old, delta
    <3> QED
      BY <1>0, <3>1
  <2> HIDE DEF start, delta, before, middle, after, more
  <2>5. events = Append(<<start>>, delta)
    BY <1>3 DEF start, delta, FirstEvents, IsSpeech
  <2>6. Accumulated(before, Append(<<start>>, delta), whole)
          = handle_event(Accumulated(before, <<start>>, whole), delta, whole)
    <3> DEFINE first == <<start>>
    <3>1. first \in Seq(Events)
      BY <1>1
    <3> HIDE DEF first
    <3>2. Accumulated(before, Append(first, delta), whole)
            = handle_event(Accumulated(before, first, whole), delta, whole)
      BY <1>1, <3>1, AccumulatedAppend
    <3> QED
      BY <3>2 DEF first
  <2>7. Accumulated(before, <<start>>, whole) = middle
    BY <1>1, <2>2, AccumulatedOne
  <2> QED
    BY <1>2, <2>4, <2>5, <2>6, <2>7 DEF SpeechIsAdded, start, delta, before, after,
                                             more
<1>4. CASE n # 0
  <2>1. before = Holding(Append(blocks, old), inputs, updates)
    <3>1. n > 0
      BY <1>4
    <3> QED
      BY <3>1, SentSome
  <2>2. handle_event(before, delta, whole) = Holding(Append(blocks, one), inputs, more)
    BY <1>0, <2>1
  <2> HIDE DEF SpeechIsAdded, start, delta, before, after,
                                             more
  <2>3. events = <<delta>>
    BY <1>4 DEF start, delta, NextEvents, IsSpeech
  <2>4. Accumulated(before, <<delta>>, whole) = handle_event(before, delta, whole)
    BY <1>1, AccumulatedOne
  <2> QED
    BY <1>2, <2>2, <2>3, <2>4 DEF SpeechIsAdded, start, delta, before, after,
                                             more
<1> QED
  BY <1>3, <1>4

\* Blocks of tools whose inputs are still buffered; n calls of them have grown by a fragment.
ToolsSoFar(k) == [m \in 1..k |-> Told("tool", 0)]

Fragments(counts, called, n, i) == counts[i] + (IF i \in called /\ i < n THEN 1 ELSE 0)

Buffered(b, counts, called, n, k) ==
    [j \in b..(b + k - 1) |-> Fragments(counts, called, n, j - b)]

\* The tools that were begun are the first k.
Begun(counts, called, n, k) ==
    \A i \in Tools : i < k <=> (counts[i] > 0 \/ (i \in called /\ i < n))

CallsOf(blocks, updates, b, counts, called, n, k) ==
    Holding(blocks \o ToolsSoFar(k), Buffered(b, counts, called, n, k), updates)

LEMMA ToolsSoFarNext ==
    ASSUME NEW blocks \in Seq(Block), NEW k \in Nat
    PROVE  /\ blocks \o ToolsSoFar(k) \in Seq(Block)
           /\ Len(blocks \o ToolsSoFar(k)) = Len(blocks) + k
           /\ Append(blocks \o ToolsSoFar(k), Told("tool", 0)) = blocks \o ToolsSoFar(k + 1)
<1> DEFINE t == Told("tool", 0)
           some == [m \in 1..k |-> t]
           more == [m \in 1..(k + 1) |-> t]
<1>1. t \in Block
  BY DEF Told, Block
<1> HIDE DEF t
<1>2. some \in Seq(Block) /\ more \in Seq(Block) /\ Len(some) = k /\ Len(more) = k + 1
  BY <1>1
<1>3. Append(some, t) = more
  <2>1. /\ Append(some, t) \in Seq(Block) /\ Len(Append(some, t)) = k + 1
        /\ \A i \in 1..k : Append(some, t)[i] = t
        /\ Append(some, t)[k + 1] = t
    BY <1>1, <1>2, AppendProperties
  <2>2. \A i \in 1..(k + 1) : Append(some, t)[i] = more[i]
    <3>1. \A i \in 1..(k + 1) : i \in 1..k \/ i = k + 1
      OBVIOUS
    <3>2. \A i \in 1..(k + 1) : more[i] = t
      OBVIOUS
    <3> HIDE DEF some, more
    <3> QED
      BY <2>1, <3>1, <3>2
  <2> HIDE DEF some, more
  <2> QED
    BY <1>2, <2>1, <2>2, SeqEqual
<1>4. ToolsSoFar(k) = some /\ ToolsSoFar(k + 1) = more
  BY DEF ToolsSoFar, t
<1> HIDE DEF some, more
<1>5. blocks \o some \in Seq(Block) /\ Len(blocks \o some) = Len(blocks) + k
  BY <1>2, ConcatProperties
<1>6. blocks \o Append(some, t) = Append(blocks \o some, t)
  BY <1>1, <1>2, ConcatAppend
<1> QED
  BY <1>3, <1>4, <1>5, <1>6 DEF t

\* A fragment of a tool that was begun before
LEMMA BufferedGrows ==
    ASSUME NEW b \in Nat, NEW counts \in [Tools -> Nat], NEW called \in SUBSET Tools,
           NEW n \in Tools, NEW k \in Nat, k <= MaxTools, n < k, n \in called
    PROVE  SetInput(Buffered(b, counts, called, n, k), b + n,
                    InputOf(Buffered(b, counts, called, n, k), b + n) + 1)
             = Buffered(b, counts, called, n + 1, k)
<1> DEFINE old == Buffered(b, counts, called, n, k)
           new == Buffered(b, counts, called, n + 1, k)
<1>0. n \in Nat /\ \A j \in b..(b + k - 1) : j - b \in Tools /\ j - b \in Nat
  BY StreamAssumption DEF Tools
<1>1. DOMAIN old = b..(b + k - 1) /\ b + n \in b..(b + k - 1) /\ (b + n) - b = n
  BY <1>0 DEF Buffered
<1>2. \A j \in b..(b + k - 1) : /\ old[j] = Fragments(counts, called, n, j - b)
                                /\ new[j] = Fragments(counts, called, n + 1, j - b)
  BY DEF Buffered
<1>3. new = [j \in b..(b + k - 1) |-> new[j]]
  BY DEF Buffered
<1> HIDE DEF old, new
<1>4. InputOf(old, b + n) = counts[n] /\ new[b + n] = counts[n] + 1
  <2>1. /\ Fragments(counts, called, n, n) = counts[n]
        /\ Fragments(counts, called, n + 1, n) = counts[n] + 1
    BY <1>0 DEF Fragments
  <2> QED
    BY <1>1, <1>2, <2>1 DEF InputOf
<1>5. ASSUME NEW j \in b..(b + k - 1), j # b + n
      PROVE  old[j] = new[j]
  <2>1. j - b # n /\ j - b \in Nat
    BY <1>0, <1>5
  <2>2. j - b < n <=> j - b < n + 1
    BY <1>0, <2>1
  <2> QED
    BY <1>2, <2>2 DEF Fragments
<1>6. b..(b + k - 1) \cup {b + n} = b..(b + k - 1)
  BY <1>1
<1>7. SetInput(old, b + n, InputOf(old, b + n) + 1)
        = [j \in b..(b + k - 1) |-> IF j = b + n THEN InputOf(old, b + n) + 1 ELSE old[j]]
  BY <1>1, <1>6 DEF SetInput
<1>8. \A j \in b..(b + k - 1) :
         new[j] = IF j = b + n THEN InputOf(old, b + n) + 1 ELSE old[j]
  BY <1>4, <1>5
<1> QED
  BY <1>3, <1>7, <1>8 DEF old, new

\* The first fragment of the next tool
LEMMA BufferedBegins ==
    ASSUME NEW b \in Nat, NEW counts \in [Tools -> Nat], NEW called \in SUBSET Tools,
           NEW n \in Tools, n \in called, counts[n] = 0
    PROVE  SetInput(Buffered(b, counts, called, n, n), b + n,
                    InputOf(Buffered(b, counts, called, n, n), b + n) + 1)
             = Buffered(b, counts, called, n + 1, n + 1)
<1> DEFINE old == Buffered(b, counts, called, n, n)
           new == Buffered(b, counts, called, n + 1, n + 1)
<1>0. n \in Nat /\ (b + n) - b = n
  BY StreamAssumption DEF Tools
<1>1. DOMAIN old = b..(b + n - 1) /\ b + n \notin b..(b + n - 1)
  BY <1>0 DEF Buffered
<1>2. /\ \A j \in b..(b + n - 1) : old[j] = Fragments(counts, called, n, j - b)
      /\ \A j \in b..(b + n) : new[j] = Fragments(counts, called, n + 1, j - b)
  BY <1>0 DEF Buffered
<1>3. new = [j \in b..(b + n) |-> new[j]]
  <2>1. b + (n + 1) - 1 = b + n
    BY <1>0
  <2> QED
    BY <2>1 DEF Buffered
<1> HIDE DEF old, new
<1>4. InputOf(old, b + n) = 0 /\ new[b + n] = 1
  <2>1. Fragments(counts, called, n + 1, n) = 1
    BY <1>0 DEF Fragments
  <2> QED
    BY <1>0, <1>1, <1>2, <2>1 DEF InputOf
<1>5. ASSUME NEW j \in b..(b + n), j # b + n
      PROVE  old[j] = new[j]
  <2>1. j - b # n /\ j - b \in Nat /\ j \in b..(b + n - 1)
    BY <1>0, <1>5
  <2>2. j - b < n <=> j - b < n + 1
    BY <1>0, <2>1
  <2> QED
    BY <1>2, <2>1, <2>2 DEF Fragments
<1>6. b..(b + n - 1) \cup {b + n} = b..(b + n)
  BY <1>0
<1>7. SetInput(old, b + n, InputOf(old, b + n) + 1)
        = [j \in b..(b + n) |-> IF j = b + n THEN InputOf(old, b + n) + 1 ELSE old[j]]
  BY <1>1, <1>6 DEF SetInput
<1>8. \A j \in b..(b + n) :
         new[j] = IF j = b + n THEN InputOf(old, b + n) + 1 ELSE old[j]
  BY <1>4, <1>5
<1> QED
  BY <1>3, <1>7, <1>8 DEF old, new

\* The events of a chunk's tool calls, for a source whose first k tools were begun
ToolsAreOpen(s, c, b, counts, k) ==
    /\ started(s) = b /\ c.tools \in SUBSET Tools
    /\ s.tools = {b + i : i \in 0..(k - 1)}
    /\ \A i \in Tools : i < k <=> counts[i] > 0
    /\ \A j \in c.tools : \A i \in Tools : i < j => i \in c.tools \/ counts[i] > 0

\* What a chunk has for a tool is the begin of its block, or goes on with it.
ToolHas(s, c, i, slot) ==
    /\ ToolEvents(s, c, i) \in Seq(Events)
    /\ i \notin c.tools => ToolEvents(s, c, i) = <<>>
    /\ i \in c.tools /\ slot \in s.tools => ToolEvents(s, c, i) = NextEvents(slot, "tool")
    /\ i \in c.tools /\ slot \notin s.tools => ToolEvents(s, c, i) = FirstEvents(slot, "tool")

LEMMA ToolEventsAre ==
    ASSUME NEW s, NEW c, NEW i \in Nat, tool_base_index(s) \in Nat
    PROVE  ToolHas(s, c, i, tool_base_index(s) + i)
<1> DEFINE slot == tool_base_index(s) + i
           first == FirstEvents(slot, "tool")
           upcoming == NextEvents(slot, "tool")
<1>1. /\ first \in Seq(Events) /\ upcoming \in Seq(Events)
      /\ slot \notin s.tools => BlockEvents(slot, "tool", slot \notin s.tools) = first
      /\ slot \in s.tools => BlockEvents(slot, "tool", slot \notin s.tools) = upcoming
  <2>1. slot \in Nat
    OBVIOUS
  <2> QED
    BY <2>1, BlockEventsAre
<1>2. /\ i \in c.tools => ToolEvents(s, c, i) = BlockEvents(slot, "tool", slot \notin s.tools)
      /\ i \notin c.tools => ToolEvents(s, c, i) = <<>>
  BY DEF ToolEvents, OnlyIf
<1>3. <<>> \in Seq(Events)
  OBVIOUS
<1> HIDE DEF slot, first, upcoming
<1>4. ToolHas(s, c, i, slot)
  <2>1. ToolEvents(s, c, i) \in Seq(Events)
    BY <1>1, <1>2, <1>3
  <2>2. i \in c.tools /\ slot \in s.tools => ToolEvents(s, c, i) = upcoming
    BY <1>1, <1>2
  <2>3. i \in c.tools /\ slot \notin s.tools => ToolEvents(s, c, i) = first
    BY <1>1, <1>2
  <2> QED
    BY <1>2, <2>1, <2>2, <2>3 DEF ToolHas, first, upcoming
<1> QED
  BY <1>4 DEF slot

\* One tool call's events
OneCall(s, c, blocks, updates, whole, counts, n, k, m) ==
    /\ Begun(counts, c.tools, n + 1, m)
    /\ Accumulated(CallsOf(blocks, updates, Len(blocks), counts, c.tools, n, k),
                   ToolEvents(s, c, n), whole)
         = CallsOf(blocks, updates, Len(blocks), counts, c.tools, n + 1, m)

LEMMA ToolAccumulated ==
    ASSUME NEW s, NEW c, NEW blocks \in Seq(Block), NEW updates, NEW whole,
           NEW counts \in [Tools -> Nat], NEW open \in 0..MaxTools, NEW k \in 0..MaxTools,
           NEW n \in Tools, ToolsAreOpen(s, c, Len(blocks), counts, open),
           Begun(counts, c.tools, n, k)
    PROVE  \E m \in 0..MaxTools : OneCall(s, c, blocks, updates, whole, counts, n, k, m)
<1> DEFINE b == Len(blocks)
           called == c.tools
           all == blocks \o ToolsSoFar(k)
           inputs == Buffered(b, counts, called, n, k)
           before == CallsOf(blocks, updates, b, counts, called, n, k)
           start == Start(b + n, "tool")
           delta == Delta(b + n, "tool")
<1>0. ToolHas(s, c, n, b + n)
  <2>1. n \in Nat /\ b \in Nat /\ tool_base_index(s) = b
    BY StreamAssumption DEF ToolsAreOpen, Tools, tool_base_index
  <2>2. ToolHas(s, c, n, tool_base_index(s) + n)
    <3> HIDE DEF b
    <3> QED
      BY <2>1, ToolEventsAre
  <2> QED
    BY <2>1, <2>2
<1>1. /\ b \in Nat /\ n \in Nat /\ n < MaxTools /\ k \in Nat /\ called \in SUBSET Tools
      /\ tool_base_index(s) = b /\ b + n \in Nat
  BY StreamAssumption DEF ToolsAreOpen, Tools, tool_base_index
<1>2. before = Holding(all, inputs, updates) /\ all \in Seq(Block) /\ Len(all) = b + k
  BY <1>1, ToolsSoFarNext DEF CallsOf
<1>3. start \in Events /\ delta \in Events
  BY <1>1, EventsAre
<1>4. b + n \in s.tools <=> counts[n] > 0
  BY <1>1 DEF ToolsAreOpen
<1>5. \A i \in Tools : i \in Nat /\ (i < n + 1 <=> i < n \/ i = n)
  BY <1>1, StreamAssumption DEF Tools
<1>6. CASE n \notin called
  <2>1. ToolEvents(s, c, n) = <<>>
    BY <1>0, <1>6 DEF ToolHas
  <2>2. Begun(counts, called, n + 1, k)
    BY <1>5, <1>6 DEF Begun
  <2>3. Buffered(b, counts, called, n + 1, k) = inputs
    <3>1. ASSUME NEW j \in b..(b + k - 1)
          PROVE  Fragments(counts, called, n + 1, j - b) = Fragments(counts, called, n, j - b)
      <4>1. j - b \in Nat
        BY <1>1
      <4>2. j - b \in called => (j - b < n + 1 <=> j - b < n)
        BY <1>1, <1>6, <4>1
      <4> QED
        BY <4>2 DEF Fragments
    <3> QED
      BY <3>1 DEF Buffered
  <2>4. CallsOf(blocks, updates, b, counts, called, n + 1, k) = before
    BY <2>3 DEF CallsOf
  <2>5. Accumulated(before, <<>>, whole) = before
    BY AccumulatedNone
  <2> QED
    BY <2>1, <2>2, <2>4, <2>5 DEF OneCall
<1>7. CASE n \in called /\ n < k
  <2>1. counts[n] > 0
    BY <1>1, <1>7 DEF Begun
  <2>2. ToolEvents(s, c, n) = <<delta>>
    <3>1. ToolEvents(s, c, n) = NextEvents(b + n, "tool")
      BY <1>0, <1>4, <1>7, <2>1 DEF ToolHas
    <3> QED
      BY <3>1 DEF NextEvents
  <2>3. Begun(counts, called, n + 1, k)
    BY <1>5, <2>1 DEF Begun
  <2>4. SetInput(inputs, b + n, InputOf(inputs, b + n) + 1)
          = Buffered(b, counts, called, n + 1, k)
    BY <1>1, <1>7, BufferedGrows
  <2>5. Len(all) > b + n
    BY <1>1, <1>2, <1>7
  <2>6. handle_event(before, delta, whole)
          = Holding(all, Buffered(b, counts, called, n + 1, k), updates)
    <3> HIDE DEF all, inputs, before
    <3>1. handle_event(before, delta, whole)
            = Holding(all, SetInput(inputs, b + n, InputOf(inputs, b + n) + 1), updates)
      BY <1>1, <1>2, <2>5, FragmentIsHandled
    <3> QED
      BY <2>4, <3>1
  <2>7. Accumulated(before, <<delta>>, whole) = handle_event(before, delta, whole)
    <3> HIDE DEF before, delta
    <3> QED
      BY <1>3, AccumulatedOne
  <2>8. Accumulated(before, ToolEvents(s, c, n), whole)
          = CallsOf(blocks, updates, b, counts, called, n + 1, k)
    BY <2>2, <2>6, <2>7 DEF CallsOf
  <2> QED
    BY <2>3, <2>8 DEF OneCall
<1>8. CASE n \in called /\ ~(n < k)
  <2>1. counts[n] = 0
    <3>1. ~(counts[n] > 0) /\ counts[n] \in Nat
      BY <1>8 DEF Begun
    <3> QED
      BY <3>1
  <2>2. k = n
    <3>1. ASSUME k < n
          PROVE  FALSE
      <4>1. k \in Tools
        BY <1>1, <3>1, StreamAssumption DEF Tools
      <4>2. k \in called \/ counts[k] > 0
        BY <1>8, <3>1, <4>1 DEF ToolsAreOpen
      <4>3. k < k
        BY <3>1, <4>1, <4>2 DEF Begun
      <4> QED
        BY <1>1, <4>3
    <3> QED
      BY <1>1, <1>8, <3>1
  <2>3. ToolEvents(s, c, n) = FirstEvents(b + n, "tool")
    <3>1. n \in c.tools /\ b + n \notin s.tools
      BY <1>4, <1>8, <2>1
    <3> QED
      BY <1>0, <3>1 DEF ToolHas
  <2>4. Begun(counts, called, n + 1, n + 1) /\ n + 1 \in 0..MaxTools
    <3>1. ASSUME NEW i \in Tools
          PROVE  i < n + 1 <=> counts[i] > 0 \/ (i \in called /\ i < n + 1)
      <4>1. i < n <=> counts[i] > 0 \/ (i \in called /\ i < n)
        BY <2>2 DEF Begun
      <4> QED
        BY <1>5, <1>8, <2>1, <4>1
    <3>2. n + 1 \in 0..MaxTools
      BY <1>1, StreamAssumption
    <3> QED
      BY <3>1, <3>2 DEF Begun
  <2> DEFINE upcoming == blocks \o ToolsSoFar(n + 1)
             middle == Holding(upcoming, inputs, updates)
             after == Holding(upcoming, Buffered(b, counts, called, n + 1, n + 1), updates)
  <2>5. upcoming = Append(all, Told("tool", 0)) /\ upcoming \in Seq(Block) /\ Len(upcoming) > b + n
    <3>1. n + 1 \in Nat /\ b + (n + 1) > b + n
      BY <1>1
    <3> QED
      BY <1>1, <2>2, <3>1, ToolsSoFarNext
  <2>6. handle_event(before, start, whole) = middle
    <3>1. b + n = Len(all)
      BY <1>2, <2>2
    <3>2. start = Start(Len(all), "tool")
      BY <3>1
    <3>3. all \in Seq(Block)
      BY <1>2
    <3> HIDE DEF start, all, upcoming, inputs, before
    <3>4. handle_event(Holding(all, inputs, updates), Start(Len(all), "tool"), whole)
            = Holding(Append(all, Told("tool", 0)), inputs, updates)
      <4> DEFINE slot == Len(all)
      <4> HIDE DEF slot
      <4>1. BlockStarts(all, inputs, updates, whole, "tool", slot)
        BY <3>3, StartIsHandled DEF slot
      <4> QED
        BY <4>1 DEF slot, BlockStarts
    <3> QED
      BY <1>2, <2>5, <3>2, <3>4
  <2>7. SetInput(inputs, b + n, InputOf(inputs, b + n) + 1)
          = Buffered(b, counts, called, n + 1, n + 1)
    BY <1>1, <1>8, <2>1, <2>2, BufferedBegins
  <2>8. handle_event(middle, delta, whole) = after
    <3> DEFINE slot == b + n
    <3>1. upcoming \in Seq(Block) /\ slot \in Nat /\ Len(upcoming) > slot
      BY <1>1, <2>5
    <3> HIDE DEF upcoming, inputs, slot
    <3>2. handle_event(Holding(upcoming, inputs, updates), Delta(slot, "tool"), whole)
            = Holding(upcoming, SetInput(inputs, slot, InputOf(inputs, slot) + 1), updates)
      BY <3>1, FragmentIsHandled
    <3> QED
      BY <2>7, <3>2 DEF slot
  <2>9. Accumulated(before, Append(<<start>>, delta), whole) = after
    <3> DEFINE first == <<start>>
    <3> HIDE DEF before, middle, after, start, delta
    <3>1. first \in Seq(Events) /\ Accumulated(before, first, whole) = middle
      BY <1>3, <2>6, AccumulatedOne
    <3> HIDE DEF first
    <3>2. Accumulated(before, Append(first, delta), whole)
            = handle_event(Accumulated(before, first, whole), delta, whole)
      BY <1>3, <3>1, AccumulatedAppend
    <3>3. Accumulated(before, Append(first, delta), whole) = after
      BY <2>8, <3>1, <3>2
    <3> QED
      BY <3>3 DEF first
  <2>10. Accumulated(before, ToolEvents(s, c, n), whole)
           = CallsOf(blocks, updates, b, counts, called, n + 1, n + 1)
    BY <2>3, <2>9 DEF CallsOf, FirstEvents
  <2> QED
    BY <2>4, <2>10 DEF OneCall
<1> QED
  BY <1>6, <1>7, <1>8

\* A sequence by its function, one longer
LEMMA OneMore ==
    ASSUME NEW S, NEW n \in Nat, NEW f \in [1..(n + 1) -> S]
    PROVE  /\ [m \in 1..n |-> f[m]] \in Seq(S)
           /\ [m \in 1..(n + 1) |-> f[m]] = Append([m \in 1..n |-> f[m]], f[n + 1])
<1> DEFINE some == [m \in 1..n |-> f[m]]
           more == [m \in 1..(n + 1) |-> f[m]]
<1>1. some \in Seq(S) /\ more \in Seq(S) /\ Len(some) = n /\ Len(more) = n + 1 /\ f[n + 1] \in S
  OBVIOUS
<1>2. /\ Append(some, f[n + 1]) \in Seq(S) /\ Len(Append(some, f[n + 1])) = n + 1
      /\ \A i \in 1..n : Append(some, f[n + 1])[i] = some[i]
      /\ Append(some, f[n + 1])[n + 1] = f[n + 1]
  <2> HIDE DEF some
  <2> QED
    BY <1>1, AppendProperties
<1>3. \A i \in 1..(n + 1) : Append(some, f[n + 1])[i] = more[i]
  <2>1. \A i \in 1..(n + 1) : i \in 1..n \/ i = n + 1
    OBVIOUS
  <2>2. \A i \in 1..(n + 1) : more[i] = f[i]
    OBVIOUS
  <2>3. \A i \in 1..n : some[i] = f[i]
    OBVIOUS
  <2> HIDE DEF some, more
  <2> QED
    BY <1>2, <2>1, <2>2, <2>3
<1>4. more = Append(some, f[n + 1])
  <2> HIDE DEF some, more
  <2> QED
    BY <1>1, <1>2, <1>3, SeqEqual
<1> QED
  BY <1>1, <1>4

\* The fold over the concatenation of several sequences of events
FlatUpTo(f, n) == FlattenSeq([m \in 1..n |-> f[m]])

FlatAccumulates(a, whole, n, f) ==
    /\ FlatUpTo(f, n) \in Seq(Events) /\ FlatUpTo(f, n + 1) \in Seq(Events)
    /\ Accumulated(a, FlatUpTo(f, n + 1), whole)
         = Accumulated(Accumulated(a, FlatUpTo(f, n), whole), f[n + 1], whole)

LEMMA AccumulatedFlat ==
    ASSUME NEW a, NEW whole, NEW n \in Nat, NEW f \in [1..(n + 1) -> Seq(Events)]
    PROVE  FlatAccumulates(a, whole, n, f)
<1> DEFINE some == [m \in 1..n |-> f[m]]
           more == [m \in 1..(n + 1) |-> f[m]]
<1>1. some \in Seq(Seq(Events)) /\ more = Append(some, f[n + 1])
  BY OneMore
<1>2. f[n + 1] \in Seq(Events)
  OBVIOUS
<1> HIDE DEF some, more
<1>3. FlattenSeq(more) = FlattenSeq(some) \o f[n + 1]
  BY <1>1, <1>2, FlattenAppend
<1>4. FlattenSeq(some) \in Seq(Events)
  BY <1>1, FlattenHas
<1>5. Accumulated(a, FlattenSeq(more), whole)
        = Accumulated(Accumulated(a, FlattenSeq(some), whole), f[n + 1], whole)
  BY <1>2, <1>3, <1>4, AccumulatedConcat
<1>6. FlattenSeq(more) \in Seq(Events)
  BY <1>2, <1>3, <1>4, ConcatProperties
<1> QED
  BY <1>4, <1>5, <1>6 DEF some, more, FlatUpTo, FlatAccumulates

\* The events of all the tool calls of a chunk
CallsAreAdded(s, c, blocks, updates, whole, counts, open, k) ==
    /\ Begun(counts, c.tools, MaxTools, k)
    /\ Accumulated(CallsOf(blocks, updates, Len(blocks), counts, c.tools, 0, open),
                   ToolCallEvents(s, c), whole)
         = CallsOf(blocks, updates, Len(blocks), counts, c.tools, MaxTools, k)

LEMMA ToolCallsAccumulated ==
    ASSUME NEW s, NEW c, NEW blocks \in Seq(Block), NEW updates, NEW whole,
           NEW counts \in [Tools -> Nat], NEW open \in 0..MaxTools,
           ToolsAreOpen(s, c, Len(blocks), counts, open)
    PROVE  /\ ToolCallEvents(s, c) \in Seq(Events)
           /\ \E k \in 0..MaxTools :
                 CallsAreAdded(s, c, blocks, updates, whole, counts, open, k)
<1> DEFINE b == Len(blocks)
           a == CallsOf(blocks, updates, b, counts, c.tools, 0, open)
           Result(n, k) == CallsOf(blocks, updates, b, counts, c.tools, n, k)
           f == [m \in Nat |-> ToolEvents(s, c, m - 1)]
           upto(n) == FlattenSeq([m \in 1..n |-> ToolEvents(s, c, m - 1)])
           G == {n \in 0..MaxTools :
                   /\ upto(n) \in Seq(Events)
                   /\ \E k \in 0..MaxTools : /\ Begun(counts, c.tools, n, k)
                                             /\ Accumulated(a, upto(n), whole) = Result(n, k)}
<1>1. MaxTools \in Nat /\ b \in Nat /\ tool_base_index(s) = b
  BY StreamAssumption DEF ToolsAreOpen, tool_base_index
<1>2. 0 \in G
  <2>1. upto(0) = <<>>
    <3> DEFINE empty == [m \in 1..0 |-> ToolEvents(s, c, m - 1)]
    <3>1. empty = <<>>
      OBVIOUS
    <3> HIDE DEF empty
    <3>2. FlattenSeq(empty) = <<>>
      BY <3>1, FlattenNone
    <3> QED
      BY <3>2 DEF empty
  <2>2. Begun(counts, c.tools, 0, open)
    <3>1. \A i \in Tools : ~(i < 0)
      BY <1>1 DEF Tools
    <3> QED
      BY <3>1 DEF Begun, ToolsAreOpen
  <2>3. Accumulated(a, <<>>, whole) = Result(0, open)
    BY AccumulatedNone
  <2>4. <<>> \in Seq(Events)
    OBVIOUS
  <2> HIDE DEF a, Result, upto
  <2>5. upto(0) \in Seq(Events) /\ Accumulated(a, upto(0), whole) = Result(0, open)
    BY <2>1, <2>3, <2>4
  <2> QED
    BY <1>1, <2>2, <2>5
<1>3. ASSUME NEW m \in 1..MaxTools, m - 1 \in G
      PROVE  m \in G
  <2> DEFINE n == m - 1
             g == [i \in 1..(n + 1) |-> ToolEvents(s, c, i - 1)]
  <2>1. n \in Nat /\ n \in Tools /\ n + 1 = m
    BY <1>1 DEF Tools
  <2>2. PICK k \in 0..MaxTools : /\ Begun(counts, c.tools, n, k)
                                 /\ Accumulated(a, upto(n), whole) = Result(n, k)
    <3> HIDE DEF a, upto, Result
    <3> QED
      BY <1>3
  <2>3. PICK l \in 0..MaxTools :
           /\ Begun(counts, c.tools, n + 1, l)
           /\ Accumulated(Result(n, k), ToolEvents(s, c, n), whole) = Result(n + 1, l)
    <3> HIDE DEF n
    <3>1. \E l \in 0..MaxTools : OneCall(s, c, blocks, updates, whole, counts, n, k, l)
      BY <2>1, <2>2, ToolAccumulated
    <3> QED
      BY <3>1 DEF OneCall
  <2>4. g \in [1..(n + 1) -> Seq(Events)]
    <3>1. ASSUME NEW i \in 1..(n + 1)
          PROVE  ToolEvents(s, c, i - 1) \in Seq(Events)
      <4>1. i - 1 \in Nat
        OBVIOUS
      <4> QED
        BY <1>1, <4>1, ToolEventsAre DEF ToolHas
    <3> QED
      BY <3>1
  <2>5. FlatUpTo(g, n + 1) = upto(n + 1) /\ FlatUpTo(g, n) = upto(n)
        /\ g[n + 1] = ToolEvents(s, c, n)
    <3>1. [i \in 1..(n + 1) |-> g[i]] = [i \in 1..(n + 1) |-> ToolEvents(s, c, i - 1)]
      OBVIOUS
    <3>2. [i \in 1..n |-> g[i]] = [i \in 1..n |-> ToolEvents(s, c, i - 1)]
      BY <2>1
    <3>3. g[n + 1] = ToolEvents(s, c, n)
      <4>1. n + 1 \in 1..(n + 1) /\ (n + 1) - 1 = n
        BY <2>1
      <4> HIDE DEF n
      <4> QED
        BY <4>1
    <3> HIDE DEF g, n
    <3> QED
      BY <3>1, <3>2, <3>3 DEF FlatUpTo
  <2>6. /\ Accumulated(a, upto(n + 1), whole)
             = Accumulated(Accumulated(a, upto(n), whole), ToolEvents(s, c, n), whole)
        /\ upto(n + 1) \in Seq(Events)
    <3> HIDE DEF a, g, n, upto
    <3>1. FlatAccumulates(a, whole, n, g)
      BY <2>1, <2>4, AccumulatedFlat
    <3> QED
      BY <2>5, <3>1 DEF FlatAccumulates
  <2>8. upto(m) \in Seq(Events) /\ Begun(counts, c.tools, m, l)
        /\ Accumulated(a, upto(m), whole) = Result(m, l)
    <3> HIDE DEF a, upto, Result, n
    <3> QED
      BY <2>1, <2>2, <2>3, <2>6
  <2> HIDE DEF a, upto, Result, n
  <2> QED
    BY <2>8
<1>4. MaxTools \in G
  <2> HIDE DEF G
  <2>1. \A n \in 0..MaxTools : n \in G
    BY <1>1, <1>2, <1>3, AllUpTo
  <2> QED
    BY <1>1, <2>1
<1>5. ToolCallEvents(s, c) = upto(MaxTools)
  BY DEF ToolCallEvents
<1> HIDE DEF a, upto, Result
<1>6. /\ upto(MaxTools) \in Seq(Events)
      /\ \E k \in 0..MaxTools : /\ Begun(counts, c.tools, MaxTools, k)
                                /\ Accumulated(a, upto(MaxTools), whole) = Result(MaxTools, k)
  BY <1>4
<1> QED
  BY <1>5, <1>6 DEF a, Result, CallsAreAdded

\* What was said, before the tools
Speech(t, x) == Sent("thinking", t) \o Sent("text", x)

MoreBy(n, more) == n + (IF more THEN 1 ELSE 0)
Heard(updates, more, u) == IF more THEN Append(updates, u) ELSE updates

Sources == [thinking : {"no", "open", "closed"}, text : {"no", "open"}, tools : SUBSET Nat]

\* The source has begun what was said, and closed the thinking when the text began.
HasSaid(s, t, x) ==
    /\ s \in Sources
    /\ s.thinking = "no" <=> t = 0
    /\ s.text = "no" <=> x = 0
    /\ s.text = "open" => s.thinking # "open"

LEMMA SpeechIs ==
    ASSUME NEW t \in Nat, NEW x \in Nat
    PROVE  /\ Speech(t, x) \in Seq(Block) /\ Sent("thinking", t) \in Seq(Block)
           /\ Len(Speech(t, x)) = (IF t = 0 THEN 0 ELSE 1) + (IF x = 0 THEN 0 ELSE 1)
           /\ Len(Sent("thinking", t)) = IF t = 0 THEN 0 ELSE 1
           /\ x = 0 => Speech(t, x) = <<>> \o Sent("thinking", t)
<1> DEFINE none == <<>>
           thinking == Sent("thinking", t)
           text == Sent("text", x)
<1>1. none \in Seq(Block)
  OBVIOUS
<1>2. thinking \in Seq(Block) /\ Len(thinking) = IF t = 0 THEN 0 ELSE 1
  BY <1>1, SentIs
<1>3. text \in Seq(Block) /\ Len(text) = IF x = 0 THEN 0 ELSE 1
  BY <1>1, SentIs
<1>4. x = 0 => text = none
  BY <1>1, SentIs
<1>5. none \o thinking = thinking /\ thinking \o none = thinking
  BY <1>2, ConcatEmptySeq
<1> HIDE DEF none, thinking, text
<1>6. thinking \o text \in Seq(Block) /\ Len(thinking \o text) = Len(thinking) + Len(text)
  BY <1>2, <1>3, ConcatProperties
<1>7. x = 0 => thinking \o text = none \o thinking
  BY <1>4, <1>5
<1> QED
  BY <1>2, <1>3, <1>6, <1>7 DEF Speech, none, thinking, text

LEMMA NoToolsSoFar ==
    ASSUME NEW blocks \in Seq(Block)
    PROVE  blocks \o ToolsSoFar(0) = blocks
<1>1. ToolsSoFar(0) = <<>>
  BY EmptySeq DEF ToolsSoFar
<1> QED
  BY <1>1, ConcatEmptySeq

\* The thinking of a chunk
LEMMA ThinkingAccumulated ==
    ASSUME NEW s, NEW c, NEW t \in Nat, NEW x \in Nat, NEW k \in Nat, HasSaid(s, t, x),
           c.thinking \in BOOLEAN, c.thinking => x = 0 /\ k = 0,
           NEW inputs, NEW updates, NEW whole
    PROVE  /\ ThinkingEvents(s, c) \in Seq(Events)
           /\ HasSaid(AfterThinking(s, c), MoreBy(t, c.thinking), x)
           /\ Accumulated(Holding(Speech(t, x) \o ToolsSoFar(k), inputs, updates),
                          ThinkingEvents(s, c), whole)
                = Holding(Speech(MoreBy(t, c.thinking), x) \o ToolsSoFar(k), inputs,
                          Heard(updates, c.thinking, Update(0, "thinking")))
<1>1. HasSaid(AfterThinking(s, c), MoreBy(t, c.thinking), x)
  BY DEF HasSaid, AfterThinking, MoreBy, Sources
<1>2. CASE ~c.thinking
  <2>1. ThinkingEvents(s, c) = <<>> /\ MoreBy(t, c.thinking) = t
        /\ Heard(updates, c.thinking, Update(0, "thinking")) = updates
    BY <1>2 DEF ThinkingEvents, OnlyIf, MoreBy, Heard
  <2>2. <<>> \in Seq(Events)
    OBVIOUS
  <2> QED
    BY <1>1, <2>1, <2>2, AccumulatedNone
<1>3. CASE c.thinking
  <2> DEFINE none == <<>>
             events == ThinkingEvents(s, c)
  <2>1. x = 0 /\ k = 0 /\ t + 1 \in Nat
    BY <1>3
  <2>2. none \in Seq(Block) /\ Len(none) = 0
    OBVIOUS
  <2>3. events = BlockEvents(0, "thinking", s.thinking = "no")
    BY <1>3 DEF ThinkingEvents, OnlyIf
  <2>4. IsSpeech(events, 0, "thinking", t)
    <3> DEFINE first == s.thinking = "no"
    <3>1. /\ FirstEvents(0, "thinking") \in Seq(Events)
          /\ NextEvents(0, "thinking") \in Seq(Events)
          /\ first => BlockEvents(0, "thinking", first) = FirstEvents(0, "thinking")
          /\ ~first => BlockEvents(0, "thinking", first) = NextEvents(0, "thinking")
      <4> HIDE DEF first
      <4> QED
        BY BlockEventsAre
    <3> HIDE DEF events
    <3> QED
      BY <2>3, <3>1 DEF HasSaid, IsSpeech
  <2>5. ASSUME NEW n \in Nat
        PROVE  Speech(n, x) \o ToolsSoFar(k) = none \o Sent("thinking", n)
    <3>1. Speech(n, x) \o ToolsSoFar(k) = Speech(n, x)
      BY <2>1, SpeechIs, NoToolsSoFar
    <3>2. Speech(n, x) = none \o Sent("thinking", n)
      BY <2>1, SpeechIs
    <3> QED
      BY <3>1, <3>2
  <2>6. MoreBy(t, c.thinking) = t + 1
        /\ Heard(updates, c.thinking, Update(0, "thinking"))
             = Append(updates, Update(0, "thinking"))
    BY <1>3 DEF MoreBy, Heard
  <2>7. Accumulated(Holding(none \o Sent("thinking", t), inputs, updates), events, whole)
          = Holding(none \o Sent("thinking", t + 1), inputs,
                    Append(updates, Update(0, "thinking")))
    <3> HIDE DEF none, events
    <3>1. SpeechIsAdded(none, inputs, updates, whole, "thinking", t, t + 1, 0, events)
      BY <2>1, <2>2, <2>4, SpeechAccumulated
    <3> QED
      BY <3>1 DEF SpeechIsAdded
  <2>8. /\ Speech(t, x) \o ToolsSoFar(k) = none \o Sent("thinking", t)
        /\ Speech(t + 1, x) \o ToolsSoFar(k) = none \o Sent("thinking", t + 1)
    BY <2>1, <2>5
  <2>9. events \in Seq(Events)
    BY <2>4 DEF IsSpeech
  <2> HIDE DEF none
  <2> QED
    BY <1>1, <2>9, <2>6, <2>7, <2>8
<1> QED
  BY <1>2, <1>3

\* The end of the thinking changes nothing.
LEMMA ThinkingCloses ==
    ASSUME NEW s, NEW blocks, NEW inputs, NEW updates, NEW whole, 0 \notin DOMAIN inputs
    PROVE  /\ close_thinking_block(s) \in Seq(Events)
           /\ Accumulated(Holding(blocks, inputs, updates), close_thinking_block(s), whole)
                = Holding(blocks, inputs, updates)
<1> DEFINE a == Holding(blocks, inputs, updates)
           stop == Stop(0)
<1>1. stop \in Events
  BY EventsAre
<1>2. handle_event(a, stop, whole) = a
  BY StopIsHandled
<1> HIDE DEF a, stop
<1>3. Accumulated(a, <<stop>>, whole) = a /\ Accumulated(a, <<>>, whole) = a
  BY <1>1, <1>2, AccumulatedOne, AccumulatedNone
<1>4. <<stop>> \in Seq(Events) /\ <<>> \in Seq(Events)
  BY <1>1
<1>5. CASE s.thinking = "open"
  <2>1. close_thinking_block(s) = <<stop>>
    BY <1>5 DEF close_thinking_block, OnlyIf, stop
  <2> QED
    BY <1>3, <1>4, <2>1 DEF a
<1>6. CASE s.thinking # "open"
  <2>1. close_thinking_block(s) = <<>>
    BY <1>6 DEF close_thinking_block, OnlyIf
  <2> QED
    BY <1>3, <1>4, <2>1 DEF a
<1> QED
  BY <1>5, <1>6

\* The text of a chunk
LEMMA TextAccumulated ==
    ASSUME NEW s, NEW c, NEW t \in Nat, NEW x \in Nat, NEW k \in Nat, HasSaid(s, t, x),
           NEW inputs, NEW updates, NEW whole,
           c.text \in BOOLEAN, c.text => k = 0 /\ 0 \notin DOMAIN inputs
    PROVE  /\ TextEvents(s, c) \in Seq(Events)
           /\ HasSaid(AfterText(s, c), t, MoreBy(x, c.text))
           /\ Accumulated(Holding(Speech(t, x) \o ToolsSoFar(k), inputs, updates),
                          TextEvents(s, c), whole)
                = Holding(Speech(t, MoreBy(x, c.text)) \o ToolsSoFar(k), inputs,
                          Heard(updates, c.text, Update(text_index(s), "text")))
<1>1. HasSaid(AfterText(s, c), t, MoreBy(x, c.text))
  <2> DEFINE n == AfterText(s, c)
  <2>1. CASE ~c.text
    BY <2>1 DEF HasSaid, AfterText, MoreBy
  <2>2. CASE c.text
    <3>1. s \in Sources
      BY DEF HasSaid
    <3>2. /\ n.text = "open" /\ n.tools = s.tools
          /\ n.thinking = IF s.thinking = "open" THEN "closed" ELSE s.thinking
      BY <2>2, <3>1 DEF AfterText, Sources
    <3>3. n \in Sources
      BY <2>2, <3>1 DEF AfterText, Sources
    <3>4. MoreBy(x, c.text) = x + 1
      BY <2>2 DEF MoreBy
    <3> HIDE DEF n
    <3>5. HasSaid(n, t, x + 1)
      BY <3>1, <3>2, <3>3 DEF HasSaid, Sources
    <3> QED
      BY <3>4, <3>5 DEF n
  <2> QED
    BY <2>1, <2>2
<1>2. CASE ~c.text
  <2>1. TextEvents(s, c) = <<>> /\ MoreBy(x, c.text) = x
        /\ Heard(updates, c.text, Update(text_index(s), "text")) = updates
    BY <1>2 DEF TextEvents, OnlyIf, MoreBy, Heard
  <2>2. <<>> \in Seq(Events)
    OBVIOUS
  <2> QED
    BY <1>1, <2>1, <2>2, AccumulatedNone
<1>3. CASE c.text
  <2> DEFINE thinking == Sent("thinking", t)
             i == text_index(s)
             events == BlockEvents(i, "text", s.text = "no")
             before == Holding(thinking \o Sent("text", x), inputs, updates)
             after == Holding(thinking \o Sent("text", x + 1), inputs,
                              Append(updates, Update(i, "text")))
  <2>1. k = 0 /\ x + 1 \in Nat /\ 0 \notin DOMAIN inputs
    BY <1>3
  <2>2. thinking \in Seq(Block) /\ i = Len(thinking) /\ i \in Nat
    <3>1. thinking \in Seq(Block) /\ Len(thinking) = IF t = 0 THEN 0 ELSE 1
      BY SpeechIs
    <3>2. i = IF t = 0 THEN 0 ELSE 1
      BY DEF text_index, HasSaid
    <3> HIDE DEF thinking, i
    <3> QED
      BY <3>1, <3>2
  <2>3. TextEvents(s, c) = close_thinking_block(s) \o events
    BY <1>3 DEF TextEvents, OnlyIf
  <2>4. IsSpeech(events, i, "text", x)
    <3> DEFINE first == s.text = "no"
    <3>1. /\ FirstEvents(i, "text") \in Seq(Events) /\ NextEvents(i, "text") \in Seq(Events)
          /\ first => BlockEvents(i, "text", first) = FirstEvents(i, "text")
          /\ ~first => BlockEvents(i, "text", first) = NextEvents(i, "text")
      <4> HIDE DEF first, i
      <4> QED
        BY <2>2, BlockEventsAre
    <3> HIDE DEF i
    <3> QED
      BY <3>1 DEF HasSaid, IsSpeech
  <2>5. events \in Seq(Events)
    <3> HIDE DEF events
    <3> QED
      BY <2>4 DEF IsSpeech
  <2>6. Accumulated(before, events, whole) = after
    <3> HIDE DEF thinking, events, i
    <3>1. SpeechIsAdded(thinking, inputs, updates, whole, "text", x, x + 1, i, events)
      BY <2>2, <2>4, SpeechAccumulated
    <3> QED
      BY <3>1 DEF SpeechIsAdded
  <2>7. /\ close_thinking_block(s) \in Seq(Events)
        /\ Accumulated(before, close_thinking_block(s), whole) = before
    <3> HIDE DEF thinking
    <3> QED
      BY <2>1, ThinkingCloses
  <2>8. TextEvents(s, c) \in Seq(Events) /\ Accumulated(before, TextEvents(s, c), whole) = after
    <3> HIDE DEF before, after, events
    <3>1. close_thinking_block(s) \o events \in Seq(Events)
      BY <2>5, <2>7, ConcatProperties
    <3>2. Accumulated(before, close_thinking_block(s) \o events, whole)
            = Accumulated(Accumulated(before, close_thinking_block(s), whole), events, whole)
      BY <2>5, <2>7, AccumulatedConcat
    <3> QED
      BY <2>3, <2>6, <2>7, <3>1, <3>2
  <2>9. /\ Speech(t, x) \o ToolsSoFar(k) = thinking \o Sent("text", x)
        /\ Speech(t, x + 1) \o ToolsSoFar(k) = thinking \o Sent("text", x + 1)
    <3>1. /\ Speech(t, x) \in Seq(Block)
          /\ Speech(t, x + 1) \in Seq(Block)
      BY <2>1, SpeechIs
    <3>2. /\ Speech(t, x) = thinking \o Sent("text", x)
          /\ Speech(t, x + 1) = thinking \o Sent("text", x + 1)
      BY DEF Speech
    <3> HIDE DEF thinking
    <3> QED
      BY <2>1, <3>1, <3>2, NoToolsSoFar
  <2>10. /\ MoreBy(x, c.text) = x + 1
         /\ Heard(updates, c.text, Update(i, "text")) = Append(updates, Update(i, "text"))
    BY <1>3 DEF MoreBy, Heard
  <2>11. Accumulated(Holding(Speech(t, x) \o ToolsSoFar(k), inputs, updates),
                     TextEvents(s, c), whole)
           = Holding(Speech(t, x + 1) \o ToolsSoFar(k), inputs,
                     Append(updates, Update(i, "text")))
    <3> HIDE DEF thinking, i
    <3> QED
      BY <2>8, <2>9
  <2> HIDE DEF i
  <2> QED
    BY <1>1, <2>8, <2>10, <2>11 DEF i
<1> QED
  BY <1>2, <1>3

-----------------------------------------------------------------------------
(* A chunk adds what it holds, whatever was gathered before *)

Inputs(b, counts, k) == [j \in b..(b + k - 1) |-> counts[j - b]]

\* The source, what was sent, and the first k tools begun, agree.
Tracks(s, t, x, counts, k) ==
    /\ HasSaid(s, t, x)
    /\ \A i \in Tools : i < k <=> counts[i] > 0
    /\ s.tools = {started(s) + i : i \in 0..(k - 1)}

\* What the accumulator has of it
Gathered(s, t, x, counts, k, updates) ==
    Holding(Speech(t, x) \o ToolsSoFar(k), Inputs(started(s), counts, k), updates)

CountsAfter(counts, c) == [i \in Tools |-> MoreBy(counts[i], i \in c.tools)]

\* The order in which providers send, for a source and what was sent
Ordered(c, x, counts, k) ==
    /\ c.thinking => x = 0 /\ k = 0
    /\ c.text => k = 0
    /\ \A j \in c.tools : \A i \in Tools : i < j => i \in c.tools \/ counts[i] > 0

LEMMA InputsAre ==
    ASSUME NEW b \in Nat, NEW counts \in [Tools -> Nat], NEW c, c.tools \in SUBSET Tools,
           NEW k \in 0..MaxTools
    PROVE  /\ Buffered(b, counts, c.tools, 0, k) = Inputs(b, counts, k)
           /\ Buffered(b, counts, c.tools, MaxTools, k) = Inputs(b, CountsAfter(counts, c), k)
<1>1. \A j \in b..(b + k - 1) : j - b \in Tools /\ ~(j - b < 0) /\ j - b < MaxTools
  BY StreamAssumption DEF Tools
<1>2. ASSUME NEW j \in b..(b + k - 1)
      PROVE  /\ Fragments(counts, c.tools, 0, j - b) = counts[j - b]
             /\ Fragments(counts, c.tools, MaxTools, j - b) = CountsAfter(counts, c)[j - b]
  <2>1. /\ counts[j - b] \in Nat
        /\ CountsAfter(counts, c)[j - b] = MoreBy(counts[j - b], j - b \in c.tools)
    BY <1>1 DEF CountsAfter
  <2> QED
    BY <1>1, <2>1 DEF Fragments, MoreBy
<1> QED
  BY <1>2 DEF Buffered, Inputs

LEMMA NoInputs ==
    ASSUME NEW b \in Nat, NEW d \in Nat, NEW counts
    PROVE  /\ Inputs(b, counts, 0) = Inputs(d, counts, 0) /\ DOMAIN Inputs(b, counts, 0) = {}
           /\ Inputs(b, counts, 0) = <<>>
<1>1. b..(b + 0 - 1) = {} /\ d..(d + 0 - 1) = {}
  OBVIOUS
<1>2. Inputs(b, counts, 0) = [j \in {} |-> counts[j - b]]
  BY <1>1 DEF Inputs
<1>3. Inputs(d, counts, 0) = [j \in {} |-> counts[j - d]]
  BY <1>1 DEF Inputs
<1>4. [j \in {} |-> counts[j - b]] = [j \in {} |-> counts[j - d]]
  OBVIOUS
<1>5. [j \in {} |-> counts[j - b]] = <<>>
  <2> DEFINE f == [j \in 1..0 |-> counts[j - b]]
  <2>1. f = <<>>
    OBVIOUS
  <2>2. 1..0 = {}
    OBVIOUS
  <2> QED
    BY <2>1, <2>2
<1> QED
  BY <1>2, <1>3, <1>4, <1>5

LEMMA StartedIs ==
    ASSUME NEW s, NEW t \in Nat, NEW x \in Nat, HasSaid(s, t, x)
    PROVE  started(s) = Len(Speech(t, x)) /\ started(s) \in Nat /\ Speech(t, x) \in Seq(Block)
<1>1. Len(Speech(t, x)) = (IF t = 0 THEN 0 ELSE 1) + (IF x = 0 THEN 0 ELSE 1)
      /\ Speech(t, x) \in Seq(Block)
  BY SpeechIs
<1>2. started(s) = (IF t = 0 THEN 0 ELSE 1) + (IF x = 0 THEN 0 ELSE 1)
  BY DEF started, HasSaid
<1> QED
  BY <1>1, <1>2

\* The source after the thinking and the text of a chunk

\* The tools' part of the source follows.
LEMMA ToolsTracked ==
    ASSUME NEW s, NEW c, NEW t \in Nat, NEW x \in Nat, NEW counts \in [Tools -> Nat],
           NEW k \in 0..MaxTools, NEW m \in 0..MaxTools, HasSaid(s, t, x),
           ToolsAreOpen(s, c, started(s), counts, k), Begun(counts, c.tools, MaxTools, m)
    PROVE  /\ Tracks(AfterTools(s, c), t, x, CountsAfter(counts, c), m)
           /\ started(AfterTools(s, c)) = started(s)
<1> DEFINE b == started(s)
           new == AfterTools(s, c)
<1>1. /\ s \in Sources /\ b \in Nat /\ c.tools \in SUBSET Tools /\ MaxTools \in Nat
      /\ \A i \in Tools : i \in Nat /\ i < MaxTools
      /\ \A i \in 0..(m - 1) : i \in Tools
      /\ \A i \in 0..(k - 1) : i \in Tools
  BY StreamAssumption DEF HasSaid, ToolsAreOpen, Tools, started
<1>2. /\ new.thinking = s.thinking /\ new.text = s.text
      /\ new.tools = s.tools \cup ToolIndexes(s, c)
      /\ new = [thinking |-> new.thinking, text |-> new.text, tools |-> new.tools]
  BY <1>1 DEF AfterTools, Sources
<1>3. started(new) = b
  <2> HIDE DEF new
  <2> QED
    BY <1>2 DEF started
<1>4. ToolIndexes(s, c) = {b + i : i \in c.tools}
  BY DEF ToolIndexes, tool_base_index
<1>5. \A i \in Tools : i < m <=> i < k \/ i \in c.tools
  BY <1>1 DEF Begun, ToolsAreOpen
<1>6. 0..(m - 1) = 0..(k - 1) \cup c.tools
  <2>1. ASSUME NEW i \in 0..(m - 1)
        PROVE  i \in 0..(k - 1) \cup c.tools
    <3>1. i \in Tools /\ i < m /\ i \in Nat
      BY <1>1
    <3> QED
      BY <1>5, <3>1
  <2>2. ASSUME NEW i \in 0..(k - 1) \cup c.tools
        PROVE  i \in 0..(m - 1)
    <3>1. i \in Tools /\ (i < k \/ i \in c.tools) /\ i \in Nat
      BY <1>1
    <3>2. i < m
      BY <1>5, <3>1
    <3> QED
      BY <3>1, <3>2
  <2> QED
    BY <2>1, <2>2
<1>7. new.tools = {b + i : i \in 0..(m - 1)}
  <2>1. s.tools = {b + i : i \in 0..(k - 1)}
    BY DEF ToolsAreOpen
  <2> HIDE DEF new, b
  <2> QED
    BY <1>2, <1>4, <1>6, <2>1
<1>8. \A i \in Tools : i < m <=> CountsAfter(counts, c)[i] > 0
  <2>1. ASSUME NEW i \in Tools
        PROVE  CountsAfter(counts, c)[i] > 0 <=> counts[i] > 0 \/ i \in c.tools
    BY DEF CountsAfter, MoreBy
  <2> QED
    BY <1>5, <2>1 DEF ToolsAreOpen
<1>9. HasSaid(new, t, x)
  <2>1. new.tools \in SUBSET Nat
    <3> HIDE DEF new
    <3>1. \A i \in 0..(m - 1) : b + i \in Nat
      BY <1>1
    <3> QED
      BY <1>7, <3>1
  <2> HIDE DEF new
  <2>2. new \in Sources
    BY <1>1, <1>2, <2>1 DEF Sources
  <2> QED
    BY <1>2, <2>2 DEF HasSaid
<1> QED
  BY <1>3, <1>7, <1>8, <1>9 DEF Tracks

\* What a chunk brings
ChunkIsGathered(s, c, t, x, counts, k, m, whole) ==
    /\ Tracks(AfterChunk(s, c), MoreBy(t, c.thinking), MoreBy(x, c.text), CountsAfter(counts, c), m)
    /\ Accumulated(Gathered(s, t, x, counts, k, <<>>), ChunkEvents(s, c), whole)
         = Gathered(AfterChunk(s, c), MoreBy(t, c.thinking), MoreBy(x, c.text),
                    CountsAfter(counts, c), m,
                    Heard(Heard(<<>>, c.thinking, Update(0, "thinking")), c.text,
                          Update(text_index(AfterThinking(s, c)), "text")))

LEMMA ChunkAccumulated ==
    ASSUME NEW s, NEW c \in Chunk, NEW t \in Nat, NEW x \in Nat, NEW counts \in [Tools -> Nat],
           NEW k \in 0..MaxTools, Tracks(s, t, x, counts, k), Ordered(c, x, counts, k), NEW whole
    PROVE  \E m \in 0..MaxTools : ChunkIsGathered(s, c, t, x, counts, k, m, whole)
<1> DEFINE s1 == AfterThinking(s, c)
           s2 == AfterText(s1, c)
           t2 == MoreBy(t, c.thinking)
           x2 == MoreBy(x, c.text)
           none == <<>>
           heard1 == Heard(none, c.thinking, Update(0, "thinking"))
           heard2 == Heard(heard1, c.text, Update(text_index(s1), "text"))
           b == started(s)
           b2 == started(s2)
           inputs == Inputs(b, counts, k)
           first == ThinkingEvents(s, c)
           second == TextEvents(s1, c)
           third == ToolCallEvents(s2, c)
           a0 == Gathered(s, t, x, counts, k, none)
           a1 == Holding(Speech(t2, x) \o ToolsSoFar(k), inputs, heard1)
           a2 == Holding(Speech(t2, x2) \o ToolsSoFar(k), inputs, heard2)
<1>1. /\ c.thinking \in BOOLEAN /\ c.text \in BOOLEAN /\ c.tools \in SUBSET Tools
      /\ HasSaid(s, t, x) /\ t2 \in Nat /\ x2 \in Nat
      /\ c.thinking => x = 0 /\ k = 0
      /\ c.text => k = 0
  BY DEF Chunk, Tracks, Ordered, MoreBy
<1>2. b \in Nat
  BY <1>1, StartedIs
<1>3. /\ first \in Seq(Events) /\ HasSaid(s1, t2, x) /\ Accumulated(a0, first, whole) = a1
  <2>1. k \in Nat
    OBVIOUS
  <2> HIDE DEF inputs, none
  <2>2. a0 = Holding(Speech(t, x) \o ToolsSoFar(k), inputs, none)
    BY DEF Gathered, inputs
  <2>3. /\ ThinkingEvents(s, c) \in Seq(Events)
        /\ HasSaid(AfterThinking(s, c), MoreBy(t, c.thinking), x)
        /\ Accumulated(Holding(Speech(t, x) \o ToolsSoFar(k), inputs, none),
                       ThinkingEvents(s, c), whole)
             = Holding(Speech(MoreBy(t, c.thinking), x) \o ToolsSoFar(k), inputs,
                       Heard(none, c.thinking, Update(0, "thinking")))
    BY <1>1, <2>1, ThinkingAccumulated
  <2> HIDE DEF a0
  <2> QED
    BY <2>2, <2>3
<1>4. c.text => k = 0 /\ 0 \notin DOMAIN inputs
  <2>1. ASSUME k = 0
        PROVE  DOMAIN inputs = {}
    BY <1>2, <2>1, NoInputs
  <2> HIDE DEF inputs
  <2> QED
    BY <1>1, <2>1
<1>5. /\ second \in Seq(Events) /\ HasSaid(s2, t2, x2) /\ Accumulated(a1, second, whole) = a2
  <2>1. k \in Nat
    OBVIOUS
  <2> HIDE DEF inputs, heard1, s1, t2
  <2> QED
    BY <1>1, <1>3, <1>4, <2>1, TextAccumulated
<1>6. b2 = Len(Speech(t2, x2)) /\ b2 \in Nat /\ Speech(t2, x2) \in Seq(Block)
  <2> HIDE DEF s2, t2, x2
  <2> QED
    BY <1>1, <1>5, StartedIs
<1>7. s2.tools = s.tools /\ (k > 0 => s2 = s)
  <2>1. s.tools = s1.tools /\ s1.tools = s2.tools
    BY <1>1 DEF AfterThinking, AfterText, HasSaid, Sources
  <2>2. ASSUME k > 0
        PROVE  s2 = s
    <3>1. ~c.thinking /\ ~c.text
      BY <1>1, <2>2
    <3> QED
      BY <3>1 DEF AfterThinking, AfterText
  <2> QED
    BY <2>1, <2>2
<1>8. Inputs(b2, counts, k) = inputs
  <2>1. CASE k = 0
    <3> HIDE DEF b, b2
    <3>1. Inputs(b2, counts, 0) = Inputs(b, counts, 0)
      BY <1>2, <1>6, NoInputs
    <3> QED
      BY <2>1, <3>1
  <2>2. CASE k # 0
    <3>1. s2 = s
      BY <1>7, <2>2
    <3>2. b2 = b
      BY <3>1
    <3> HIDE DEF b, b2
    <3> QED
      BY <3>2
  <2> QED
    BY <2>1, <2>2
<1>9. ToolsAreOpen(s2, c, b2, counts, k)
  <2>1. s2.tools = {b2 + i : i \in 0..(k - 1)}
    <3>1. CASE k = 0
      <4>1. 0..(k - 1) = {}
        BY <3>1
      <4>2. s.tools = {b + i : i \in 0..(k - 1)}
        BY DEF Tracks
      <4> HIDE DEF b, b2, s2
      <4> QED
        BY <1>7, <4>1, <4>2
    <3>2. CASE k # 0
      <4>1. s2 = s
        BY <1>7, <3>2
      <4>2. s.tools = {started(s) + i : i \in 0..(k - 1)}
        BY DEF Tracks
      <4> HIDE DEF s2
      <4> QED
        BY <4>1, <4>2
    <3> QED
      BY <3>1, <3>2
  <2> HIDE DEF s2
  <2>2. /\ \A i \in Tools : i < k <=> counts[i] > 0
        /\ \A j \in c.tools : \A i \in Tools : i < j => i \in c.tools \/ counts[i] > 0
    BY DEF Tracks, Ordered
  <2> QED
    BY <1>1, <2>1, <2>2 DEF ToolsAreOpen
<1> DEFINE blocks == Speech(t2, x2)
           a3(m) == CallsOf(blocks, heard2, b2, counts, c.tools, MaxTools, m)
<1>10. /\ third \in Seq(Events)
       /\ \E m \in 0..MaxTools :
             /\ Begun(counts, c.tools, MaxTools, m)
             /\ Accumulated(CallsOf(blocks, heard2, b2, counts, c.tools, 0, k), third, whole)
                  = a3(m)
  <2>1. ToolsAreOpen(s2, c, Len(blocks), counts, k) /\ blocks \in Seq(Block)
    <3> HIDE DEF b2, blocks, s2
    <3> QED
      BY <1>6, <1>9 DEF blocks
  <2>2. Len(blocks) = b2
    BY <1>6
  <2> HIDE DEF s2, blocks, heard2, b2
  <2>3. /\ ToolCallEvents(s2, c) \in Seq(Events)
        /\ \E m \in 0..MaxTools :
              CallsAreAdded(s2, c, blocks, heard2, whole, counts, k, m)
    BY <2>1, ToolCallsAccumulated
  <2> QED
    BY <2>2, <2>3 DEF CallsAreAdded
<1>11. PICK m \in 0..MaxTools :
          /\ Begun(counts, c.tools, MaxTools, m)
          /\ Accumulated(CallsOf(blocks, heard2, b2, counts, c.tools, 0, k), third, whole)
               = a3(m)
  BY <1>10
<1>12. CallsOf(blocks, heard2, b2, counts, c.tools, 0, k) = a2
  <2>1. Buffered(b2, counts, c.tools, 0, k) = Inputs(b2, counts, k)
    <3> HIDE DEF b2
    <3> QED
      BY <1>1, <1>6, InputsAre
  <2> HIDE DEF inputs, b2, heard2, t2, x2
  <2> QED
    BY <1>8, <2>1 DEF CallsOf
<1> DEFINE new == AfterChunk(s, c)
           counts2 == CountsAfter(counts, c)
<1>13. new = AfterTools(s2, c)
  BY DEF AfterChunk
<1>14. Tracks(new, t2, x2, counts2, m) /\ started(new) = b2
  <2> HIDE DEF s2, t2, x2, new
  <2> QED
    BY <1>1, <1>5, <1>9, <1>11, <1>13, ToolsTracked
<1>15. a3(m) = Gathered(new, t2, x2, counts2, m, heard2)
  <2>1. Buffered(b2, counts, c.tools, MaxTools, m) = Inputs(b2, counts2, m)
    <3> HIDE DEF b2
    <3> QED
      BY <1>1, <1>6, InputsAre
  <2> HIDE DEF b2, heard2, t2, x2, new, counts2
  <2> QED
    BY <1>14, <2>1 DEF CallsOf, Gathered
<1>16. Accumulated(a0, ChunkEvents(s, c), whole) = a3(m)
  <2>1. ChunkEvents(s, c) = (first \o second) \o third
    BY DEF ChunkEvents
  <2>2. Accumulated(a2, third, whole) = a3(m)
    BY <1>11, <1>12
  <2> HIDE DEF first, second, third, a0, a1, a2, a3
  <2>3. first \o second \in Seq(Events)
    BY <1>3, <1>5, ConcatProperties
  <2>4. Accumulated(a0, first \o second, whole) = a2
    <3>1. Accumulated(a0, first \o second, whole)
            = Accumulated(Accumulated(a0, first, whole), second, whole)
      BY <1>3, <1>5, AccumulatedConcat
    <3> QED
      BY <1>3, <1>5, <3>1
  <2>0. third \in Seq(Events)
    BY <1>10
  <2> DEFINE both == first \o second
  <2>5. Accumulated(a0, both \o third, whole)
          = Accumulated(Accumulated(a0, both, whole), third, whole)
    <3>1. both \in Seq(Events)
      BY <2>3
    <3> HIDE DEF both
    <3> QED
      BY <2>0, <3>1, AccumulatedConcat
  <2> QED
    BY <2>1, <2>2, <2>4, <2>5
<1>17. ChunkIsGathered(s, c, t, x, counts, k, m, whole)
  <2>1. Accumulated(a0, ChunkEvents(s, c), whole)
          = Gathered(new, t2, x2, counts2, m, heard2)
    BY <1>15, <1>16
  <2> QED
    BY <1>14, <2>1 DEF ChunkIsGathered
<1> QED
  BY <1>17

\* The end of a block that holds no input changes nothing.
LEMMA StopKeeps ==
    ASSUME NEW there, NEW i \in Nat, NEW blocks, NEW inputs, NEW updates, NEW whole,
           there => i \notin DOMAIN inputs
    PROVE  /\ OnlyIf(there, <<Stop(i)>>) \in Seq(Events)
           /\ Accumulated(Holding(blocks, inputs, updates), OnlyIf(there, <<Stop(i)>>), whole)
                = Holding(blocks, inputs, updates)
<1> DEFINE a == Holding(blocks, inputs, updates)
           stop == Stop(i)
           none == <<>>
           one == <<stop>>
<1>1. stop \in Events
  BY EventsAre
<1>2. there => handle_event(a, stop, whole) = a
  BY StopIsHandled
<1> HIDE DEF a, stop
<1>3. one \in Seq(Events) /\ none \in Seq(Events)
  BY <1>1
<1>4. there => Accumulated(a, one, whole) = a
  BY <1>1, <1>2, AccumulatedOne
<1>5. Accumulated(a, none, whole) = a
  BY AccumulatedNone
<1>6. OnlyIf(there, one) = IF there THEN one ELSE none
  BY DEF OnlyIf
<1> HIDE DEF one, none
<1>7. OnlyIf(there, one) \in Seq(Events) /\ Accumulated(a, OnlyIf(there, one), whole) = a
  <2>1. CASE there
    <3>1. OnlyIf(there, one) = one
      BY <1>6, <2>1
    <3> QED
      BY <1>3, <1>4, <2>1, <3>1
  <2>2. CASE ~there
    <3>1. OnlyIf(there, one) = none
      BY <1>6, <2>2
    <3> QED
      BY <1>3, <1>5, <2>2, <3>1
  <2> QED
    BY <2>1, <2>2
<1> QED
  BY <1>7 DEF a, stop, one

-----------------------------------------------------------------------------
(* At the end every block is closed: the inputs are taken, or the answer fails *)

\* The tools' blocks and inputs when the blocks before the n-th were closed
EndedTools(b, counts, n, k) ==
    [y \in 1..k |-> Told("tool", IF b + y - 1 < n THEN counts[y - 1] ELSE 0)]
Unclosed(b, counts, n, k) ==
    [j \in {i \in b..(b + k - 1) : ~(i < n)} |-> counts[j - b]]

ClosedAre(b, counts, n, k, blocks) ==
    /\ blocks \o EndedTools(b, counts, n, k) \in Seq(Block)
    /\ Len(blocks \o EndedTools(b, counts, n, k)) = b + k
    /\ \A i \in 1..(b + k) :
          (blocks \o EndedTools(b, counts, n, k))[i]
            = IF i <= b THEN blocks[i]
              ELSE Told("tool", IF i - 1 < n THEN counts[i - 1 - b] ELSE 0)

LEMMA ClosedIs ==
    ASSUME NEW b \in Nat, NEW counts \in [Tools -> Nat], NEW n \in Nat, NEW k \in 0..MaxTools,
           NEW blocks \in Seq(Block), Len(blocks) = b
    PROVE  ClosedAre(b, counts, n, k, blocks)
<1> DEFINE ended == EndedTools(b, counts, n, k)
           Value(y) == IF b + y - 1 < n THEN counts[y - 1] ELSE 0
<1>0. MaxTools \in Nat /\ k \in Nat
  BY StreamAssumption
<1>1. \A y \in 1..k : Value(y) \in Nat
  <2>1. \A y \in 1..k : y - 1 \in Tools
    BY <1>0 DEF Tools
  <2> QED
    BY <2>1
<1>2. \A y \in 1..k : Told("tool", Value(y)) \in Block
  <2> HIDE DEF Value
  <2> QED
    BY <1>1 DEF Told, Block
<1>3. ended = [y \in 1..k |-> Told("tool", Value(y))]
  BY DEF EndedTools
<1>4. ended \in Seq(Block) /\ Len(ended) = k
      /\ \A y \in 1..k : ended[y] = Told("tool", Value(y))
  <2> HIDE DEF ended, Value
  <2> QED
    BY <1>0, <1>2, <1>3
<1> HIDE DEF ended
<1>5. /\ blocks \o ended \in Seq(Block)
      /\ Len(blocks \o ended) = Len(blocks) + Len(ended)
      /\ \A i \in 1..(Len(blocks) + Len(ended)) :
            (blocks \o ended)[i]
              = IF i <= Len(blocks) THEN blocks[i] ELSE ended[i - Len(blocks)]
  <2>1. ended \in Seq(Block)
    BY <1>4
  <2> QED
    BY <2>1, ConcatProperties
<1> DEFINE both == blocks \o ended
<1> HIDE DEF both
<1>6. both \in Seq(Block) /\ Len(both) = b + k
      /\ \A i \in 1..(b + k) : both[i] = IF i <= b THEN blocks[i] ELSE ended[i - b]
  BY <1>4, <1>5 DEF both
<1>7. ASSUME NEW i \in 1..(b + k), ~(i <= b)
      PROVE  both[i] = Told("tool", IF i - 1 < n THEN counts[i - 1 - b] ELSE 0)
  <2>1. i - b \in 1..k /\ b + (i - b) - 1 = i - 1 /\ (i - b) - 1 = i - 1 - b
    BY <1>0, <1>7
  <2>2. both[i] = Told("tool", Value(i - b))
    BY <1>4, <1>6, <1>7, <2>1
  <2>3. Value(i - b) = IF i - 1 < n THEN counts[i - 1 - b] ELSE 0
    BY <2>1
  <2> HIDE DEF Value
  <2> QED
    BY <2>2, <2>3
<1> QED
  BY <1>6, <1>7 DEF both, ended, ClosedAre

\* One tool's block is closed, its input written to it.
LEMMA ToldAgain ==
    ASSUME NEW k, NEW n, NEW m
    PROVE  [Told(k, n) EXCEPT !.n = m] = Told(k, m)
BY DEF Told

ClosesNext(b, counts, n, k, blocks) ==
    /\ n + 1 \in DOMAIN (blocks \o EndedTools(b, counts, n, k))
    /\ (blocks \o EndedTools(b, counts, n, k))[n + 1].kind = "tool"
    /\ [blocks \o EndedTools(b, counts, n, k) EXCEPT ![n + 1].n = counts[n - b]]
         = blocks \o EndedTools(b, counts, n + 1, k)

LEMMA ClosedNext ==
    ASSUME NEW b \in Nat, NEW counts \in [Tools -> Nat], NEW k \in 0..MaxTools,
           NEW n \in b..(b + k - 1), NEW blocks \in Seq(Block), Len(blocks) = b
    PROVE  ClosesNext(b, counts, n, k, blocks)
<1> DEFINE old == blocks \o EndedTools(b, counts, n, k)
           new == blocks \o EndedTools(b, counts, n + 1, k)
           v == counts[n - b]
           made == [old EXCEPT ![n + 1].n = v]
<1>0. k \in Nat /\ n \in Nat /\ n + 1 \in Nat /\ n + 1 \in 1..(b + k) /\ ~(n + 1 <= b)
      /\ (n + 1) - 1 = n
  BY StreamAssumption
<1>1. /\ old \in Seq(Block) /\ Len(old) = b + k
      /\ \A i \in 1..(b + k) :
            old[i] = IF i <= b THEN blocks[i]
                     ELSE Told("tool", IF i - 1 < n THEN counts[i - 1 - b] ELSE 0)
  <2>1. ClosedAre(b, counts, n, k, blocks)
    BY <1>0, ClosedIs
  <2> QED
    BY <2>1 DEF ClosedAre
<1>2. /\ new \in Seq(Block) /\ Len(new) = b + k
      /\ \A i \in 1..(b + k) :
            new[i] = IF i <= b THEN blocks[i]
                     ELSE Told("tool", IF i - 1 < n + 1 THEN counts[i - 1 - b] ELSE 0)
  <2>1. ClosedAre(b, counts, n + 1, k, blocks)
    BY <1>0, ClosedIs
  <2> QED
    BY <2>1 DEF ClosedAre
<1> HIDE DEF old, new
<1>3. old[n + 1] = Told("tool", 0) /\ new[n + 1] = Told("tool", v)
  BY <1>0, <1>1, <1>2
<1>4. [old[n + 1] EXCEPT !.n = v] = new[n + 1]
  BY <1>3, ToldAgain
<1>5. made = [old EXCEPT ![n + 1] = [old[n + 1] EXCEPT !.n = v]]
  OBVIOUS
<1>6. DOMAIN old = 1..(b + k) /\ DOMAIN new = 1..(b + k)
  BY <1>1, <1>2
<1>7. ASSUME NEW i \in 1..(b + k), i # n + 1
      PROVE  old[i] = new[i]
  <2>1. i - 1 < n <=> i - 1 < n + 1
    BY <1>0, <1>7
  <2> QED
    BY <1>1, <1>2, <2>1
<1> DEFINE changed == [old EXCEPT ![n + 1] = new[n + 1]]
<1>8. changed = new
  <2>1. changed = [i \in 1..(b + k) |-> IF i = n + 1 THEN new[n + 1] ELSE old[i]]
    BY <1>6
  <2>2. new = [i \in 1..(b + k) |-> new[i]]
    BY <1>2, <1>6
  <2>3. \A i \in 1..(b + k) : new[i] = IF i = n + 1 THEN new[n + 1] ELSE old[i]
    BY <1>7
  <2> QED
    BY <2>1, <2>2, <2>3
<1>9. made = new
  <2> HIDE DEF made
  <2> QED
    BY <1>4, <1>5, <1>8
<1>10. old[n + 1].kind = "tool"
  BY <1>3 DEF Told
<1>11. n + 1 \in DOMAIN old
  BY <1>0, <1>6
<1> QED
  BY <1>9, <1>10, <1>11 DEF old, new, ClosesNext

InputLeaves(b, counts, n, k) ==
    /\ n \in DOMAIN Unclosed(b, counts, n, k)
    /\ Unclosed(b, counts, n, k)[n] = counts[n - b]
    /\ [j \in DOMAIN Unclosed(b, counts, n, k) \ {n} |-> Unclosed(b, counts, n, k)[j]]
         = Unclosed(b, counts, n + 1, k)

LEMMA UnclosedIs ==
    ASSUME NEW b \in Nat, NEW counts \in [Tools -> Nat], NEW k \in 0..MaxTools, NEW n \in Nat
    PROVE  /\ n \in b..(b + k - 1) => InputLeaves(b, counts, n, k)
           /\ n \notin b..(b + k - 1) =>
                Unclosed(b, counts, n, k) = Unclosed(b, counts, n + 1, k)
<1> DEFINE old == Unclosed(b, counts, n, k)
           new == Unclosed(b, counts, n + 1, k)
           D(m) == {i \in b..(b + k - 1) : ~(i < m)}
<1>0. \A i \in b..(b + k - 1) : i \in Nat /\ (~(i < n + 1) <=> ~(i < n) /\ i # n)
  OBVIOUS
<1>1. D(n + 1) = D(n) \ {n} /\ (n \in D(n) <=> n \in b..(b + k - 1))
  BY <1>0
<1>2. old = [j \in D(n) |-> counts[j - b]] /\ new = [j \in D(n + 1) |-> counts[j - b]]
  BY DEF Unclosed
<1> HIDE DEF D, old, new
<1>3. DOMAIN old = D(n) /\ \A j \in D(n) : old[j] = counts[j - b]
  BY <1>2
<1>4. [j \in DOMAIN old \ {n} |-> old[j]] = new
  BY <1>1, <1>2, <1>3
<1>5. n \notin b..(b + k - 1) => old = new
  <2>1. n \notin b..(b + k - 1) => D(n + 1) = D(n)
    BY <1>1
  <2> QED
    BY <1>2, <2>1
<1> QED
  BY <1>1, <1>3, <1>4, <1>5 DEF old, new, InputLeaves

\* While the tools' blocks are closed: it failed, or the first n are closed.
IsEnding(a, blocks, updates, b, counts, n, k) ==
    \/ a.failed = TRUE
    \/ a = Holding(blocks \o EndedTools(b, counts, n, k), Unclosed(b, counts, n, k), updates)

Closing(s, n) == OnlyIf(n \in s.tools, <<Stop(n)>>)

LEMMA FailedStays ==
    ASSUME NEW a, NEW e, NEW whole, a.failed = TRUE
    PROVE  handle_event(a, e, whole).failed = TRUE
<1>1. a.failed
  BY Zenon
<1>2. handle_event(a, e, whole) = a
  BY <1>1, Zenon DEF handle_event
<1> QED
  BY <1>2

LEMMA ClosesOne ==
    ASSUME NEW s, NEW b \in Nat, NEW counts \in [Tools -> Nat], NEW k \in 0..MaxTools,
           NEW n \in Nat, NEW blocks \in Seq(Block), Len(blocks) = b, NEW updates,
           s.tools = {b + i : i \in 0..(k - 1)}, NEW whole \in BOOLEAN,
           NEW a, IsEnding(a, blocks, updates, b, counts, n, k)
    PROVE  /\ Closing(s, n) \in Seq(Events)
           /\ IsEnding(Accumulated(a, Closing(s, n), whole), blocks, updates, b, counts, n + 1, k)
<1> DEFINE stop == Stop(n)
           all == blocks \o EndedTools(b, counts, n, k)
           inputs == Unclosed(b, counts, n, k)
           settled == Holding(blocks \o EndedTools(b, counts, n + 1, k),
                              Unclosed(b, counts, n + 1, k), updates)
           Next(x) == x.failed = TRUE \/ x = settled
<1>1. stop \in Events
  BY EventsAre
<1>2. /\ n \in s.tools => Closing(s, n) = <<stop>>
      /\ n \notin s.tools => Closing(s, n) = <<>>
  BY DEF Closing, OnlyIf
<1>3. n \in s.tools <=> n \in b..(b + k - 1)
  <2>1. ASSUME n \in b..(b + k - 1)
        PROVE  n \in s.tools
    <3>1. n - b \in 0..(k - 1) /\ n = b + (n - b)
      BY <2>1
    <3> QED
      BY <3>1
  <2> QED
    BY <2>1
<1>4. Closing(s, n) \in Seq(Events)
  <2>1. <<stop>> \in Seq(Events) /\ <<>> \in Seq(Events)
    <3> HIDE DEF stop
    <3> QED
      BY <1>1
  <2> HIDE DEF stop
  <2> QED
    BY <1>2, <2>1
<1>5. Accumulated(a, <<stop>>, whole) = handle_event(a, stop, whole)
  <2> HIDE DEF stop
  <2> QED
    BY <1>1, AccumulatedOne
<1>6. Accumulated(a, <<>>, whole) = a
  BY AccumulatedNone
<1>7. CASE a.failed = TRUE
  <2>1. handle_event(a, stop, whole).failed = TRUE
    BY <1>7, FailedStays
  <2>2. Accumulated(a, Closing(s, n), whole).failed = TRUE
    <3> HIDE DEF stop
    <3> QED
      BY <1>2, <1>5, <1>6, <1>7, <2>1
  <2> QED
    BY <1>4, <2>2 DEF IsEnding
<1>8. CASE a = Holding(all, inputs, updates) /\ n \in b..(b + k - 1)
  <2>1. Accumulated(a, Closing(s, n), whole) = handle_event(a, stop, whole)
    <3> HIDE DEF stop, all, inputs
    <3> QED
      BY <1>2, <1>3, <1>5, <1>8
  <2>2. n \in DOMAIN inputs /\ inputs[n] = counts[n - b]
        /\ [j \in DOMAIN inputs \ {n} |-> inputs[j]] = Unclosed(b, counts, n + 1, k)
    <3>1. InputLeaves(b, counts, n, k)
      BY <1>8, UnclosedIs
    <3> QED
      BY <3>1 DEF InputLeaves
  <2>3. /\ n + 1 \in DOMAIN all /\ all[n + 1].kind = "tool"
        /\ [all EXCEPT ![n + 1].n = counts[n - b]] = blocks \o EndedTools(b, counts, n + 1, k)
    <3>1. ClosesNext(b, counts, n, k, blocks)
      BY <1>8, ClosedNext
    <3> QED
      BY <3>1 DEF ClosesNext
  <2>4. CASE whole = TRUE
    <3>1. all \in Seq(Block)
      <4>1. ClosedAre(b, counts, n, k, blocks)
        BY ClosedIs
      <4> QED
        BY <4>1 DEF ClosedAre
    <3> HIDE DEF all, inputs
    <3>2. handle_event(Holding(all, inputs, updates), Stop(n), TRUE)
            = Holding([all EXCEPT ![n + 1].n = inputs[n]],
                      [j \in DOMAIN inputs \ {n} |-> inputs[j]], updates)
      <4>1. InputIsTaken(all, inputs, updates, n)
        BY <2>2, <2>3, <3>1, InputIsHandled
      <4> QED
        BY <4>1 DEF InputIsTaken
    <3>3. handle_event(a, stop, whole) = settled
      BY <1>8, <2>2, <2>3, <2>4, <3>2
    <3> QED
      BY <1>4, <2>1, <3>3 DEF IsEnding
  <2>5. CASE whole = FALSE
    <3> HIDE DEF all, inputs
    <3>1. handle_event(Holding(all, inputs, updates), Stop(n), FALSE).failed = TRUE
      BY <2>2, CutInputFails
    <3>2. handle_event(a, stop, whole).failed = TRUE
      BY <1>8, <2>5, <3>1
    <3> QED
      BY <1>4, <2>1, <3>2 DEF IsEnding
  <2> QED
    BY <2>4, <2>5
<1>9. CASE a = Holding(all, inputs, updates) /\ n \notin b..(b + k - 1)
  <2>1. Accumulated(a, Closing(s, n), whole) = a
    <3> HIDE DEF stop, all, inputs
    <3> QED
      BY <1>2, <1>3, <1>6, <1>9
  <2>2. inputs = Unclosed(b, counts, n + 1, k)
    BY <1>9, UnclosedIs
  <2>3. EndedTools(b, counts, n, k) = EndedTools(b, counts, n + 1, k)
    <3>1. ASSUME NEW y \in 1..k
          PROVE  b + y - 1 < n <=> b + y - 1 < n + 1
      <4>1. b + y - 1 \in b..(b + k - 1) /\ b + y - 1 \in Nat
        OBVIOUS
      <4>2. b + y - 1 # n
        BY <1>9, <4>1
      <4> QED
        BY <4>1, <4>2
    <3>2. ASSUME NEW y \in 1..k
          PROVE  Told("tool", IF b + y - 1 < n THEN counts[y - 1] ELSE 0)
                   = Told("tool", IF b + y - 1 < n + 1 THEN counts[y - 1] ELSE 0)
      BY <3>1
    <3> QED
      BY <3>2 DEF EndedTools
  <2>4. a = settled
    BY <1>9, <2>2, <2>3
  <2> QED
    BY <1>4, <2>1, <2>4 DEF IsEnding
<1> QED
  BY <1>7, <1>8, <1>9 DEF IsEnding

ClosingEvents(s, n) == FlattenSeq([m \in 1..n |-> Closing(s, m - 1)])

LEMMA ToolsClose ==
    ASSUME NEW s, NEW b \in Nat, NEW counts \in [Tools -> Nat], NEW k \in 0..MaxTools,
           NEW last \in Nat, NEW blocks \in Seq(Block), Len(blocks) = b, NEW updates,
           s.tools = {b + i : i \in 0..(k - 1)}, NEW whole \in BOOLEAN,
           NEW a, IsEnding(a, blocks, updates, b, counts, 0, k)
    PROVE  /\ ClosingEvents(s, last) \in Seq(Events)
           /\ IsEnding(Accumulated(a, ClosingEvents(s, last), whole), blocks, updates, b,
                        counts, last, k)
<1> DEFINE Done(n) == /\ ClosingEvents(s, n) \in Seq(Events)
                      /\ IsEnding(Accumulated(a, ClosingEvents(s, n), whole), blocks, updates,
                                   b, counts, n, k)
           G == {n \in 0..last : Done(n)}
<1>1. 0 \in G
  <2> DEFINE empty == [m \in 1..0 |-> Closing(s, m - 1)]
  <2>1. empty = <<>>
    OBVIOUS
  <2> HIDE DEF empty
  <2>2. FlattenSeq(empty) = <<>>
    BY <2>1, FlattenNone
  <2>3. ClosingEvents(s, 0) = <<>>
    BY <2>2 DEF empty, ClosingEvents
  <2>4. Accumulated(a, <<>>, whole) = a /\ <<>> \in Seq(Events)
    BY AccumulatedNone
  <2>5. Done(0)
    BY <2>3, <2>4
  <2>6. 0 \in 0..last
    OBVIOUS
  <2> HIDE DEF Done
  <2> QED
    BY <2>5, <2>6
<1>2. ASSUME NEW m \in 1..last, m - 1 \in G
      PROVE  m \in G
  <2> DEFINE n == m - 1
             g == [i \in 1..(n + 1) |-> Closing(s, i - 1)]
             before == Accumulated(a, ClosingEvents(s, n), whole)
  <2>1. n \in Nat /\ n + 1 = m
    OBVIOUS
  <2>2. Done(n)
    BY <1>2
  <2>3. /\ Closing(s, n) \in Seq(Events)
        /\ IsEnding(Accumulated(before, Closing(s, n), whole), blocks, updates, b, counts,
                     n + 1, k)
    <3> HIDE DEF n, before
    <3>1. IsEnding(before, blocks, updates, b, counts, n, k)
      BY <2>2 DEF before
    <3> QED
      BY <2>1, <3>1, ClosesOne
  <2>4. g \in [1..(n + 1) -> Seq(Events)]
    <3>1. ASSUME NEW i \in 1..(n + 1)
          PROVE  Closing(s, i - 1) \in Seq(Events)
      <4>1. i - 1 \in Nat
        OBVIOUS
      <4> DEFINE stop == Stop(i - 1)
      <4>2. stop \in Events
        BY <4>1, EventsAre
      <4> HIDE DEF stop
      <4>3. <<stop>> \in Seq(Events) /\ <<>> \in Seq(Events)
        BY <4>2
      <4> QED
        BY <4>3 DEF Closing, OnlyIf, stop
    <3> QED
      BY <3>1
  <2>5. FlatUpTo(g, n + 1) = ClosingEvents(s, n + 1) /\ FlatUpTo(g, n) = ClosingEvents(s, n)
        /\ g[n + 1] = Closing(s, n)
    <3>1. [i \in 1..(n + 1) |-> g[i]] = [i \in 1..(n + 1) |-> Closing(s, i - 1)]
      OBVIOUS
    <3>2. [i \in 1..n |-> g[i]] = [i \in 1..n |-> Closing(s, i - 1)]
      BY <2>1
    <3>3. g[n + 1] = Closing(s, n)
      <4>1. n + 1 \in 1..(n + 1) /\ (n + 1) - 1 = n
        BY <2>1
      <4> HIDE DEF n
      <4> QED
        BY <4>1
    <3> HIDE DEF g, n
    <3> QED
      BY <3>1, <3>2, <3>3 DEF FlatUpTo, ClosingEvents
  <2>6. /\ Accumulated(a, ClosingEvents(s, n + 1), whole)
             = Accumulated(before, Closing(s, n), whole)
        /\ ClosingEvents(s, n + 1) \in Seq(Events)
    <3> HIDE DEF g, n
    <3>1. FlatAccumulates(a, whole, n, g)
      BY <2>1, <2>4, AccumulatedFlat
    <3> QED
      BY <2>5, <3>1 DEF FlatAccumulates
  <2>7. Done(m)
    <3> HIDE DEF n, before
    <3> QED
      BY <2>1, <2>3, <2>6
  <2> HIDE DEF Done, n
  <2> QED
    BY <2>7
<1>3. last \in G
  <2> HIDE DEF G
  <2>1. \A n \in 0..last : n \in G
    BY <1>1, <1>2, AllUpTo
  <2> QED
    BY <2>1
<1> HIDE DEF Done
<1>4. Done(last)
  BY <1>3
<1> QED
  BY <1>4 DEF Done

\* The tool calls of an answer, as the blocks they become
Calls(counts, k) == [y \in 1..k |-> Told("tool", counts[y - 1])]

\* What a stream leaves when it ended
IsAnswer(a, t, x, counts, k) ==
    \/ a.failed = TRUE
    \/ a.failed = Unfailed /\ a.blocks = Speech(t, x) \o Calls(counts, k)

LEMMA CloseAccumulated ==
    ASSUME NEW s, NEW t \in Nat, NEW x \in Nat, NEW counts \in [Tools -> Nat],
           NEW k \in 0..MaxTools, Tracks(s, t, x, counts, k), NEW updates,
           NEW whole \in BOOLEAN
    PROVE  IsAnswer(Accumulated(Gathered(s, t, x, counts, k, updates), close_all_blocks(s), whole),
                    t, x, counts, k)
<1> DEFINE b == started(s)
           blocks == Speech(t, x)
           inputs == Inputs(b, counts, k)
           a == Gathered(s, t, x, counts, k, updates)
           last == MaxTools + 2
           first == close_thinking_block(s)
           second == OnlyIf(s.text = "open", <<Stop(text_index(s))>>)
           third == ClosingEvents(s, last)
           end == Accumulated(a, third, whole)
<1>0. MaxTools \in Nat /\ last \in Nat /\ k \in Nat
  BY StreamAssumption
<1>1. HasSaid(s, t, x) /\ s.tools = {b + i : i \in 0..(k - 1)}
  BY DEF Tracks
<1>2. b = Len(blocks) /\ b \in Nat /\ blocks \in Seq(Block)
  BY <1>1, StartedIs
<1>3. /\ b <= 2 /\ text_index(s) \in Nat
      /\ s.thinking = "open" => 0 < b
      /\ s.text = "open" => text_index(s) < b
  BY <1>1 DEF started, text_index, HasSaid, Sources
<1>4. DOMAIN inputs = b..(b + k - 1)
  BY DEF Inputs
<1>5. a = Holding(blocks \o ToolsSoFar(k), inputs, updates)
  BY DEF Gathered
<1>6. first \in Seq(Events) /\ Accumulated(a, first, whole) = a
  <2> DEFINE there == s.thinking = "open"
             c == blocks \o ToolsSoFar(k)
  <2>1. there => 0 \notin DOMAIN inputs
    BY <1>2, <1>3, <1>4
  <2> HIDE DEF there, inputs, c
  <2>2. /\ OnlyIf(there, <<Stop(0)>>) \in Seq(Events)
        /\ Accumulated(Holding(c, inputs, updates), OnlyIf(there, <<Stop(0)>>), whole)
             = Holding(c, inputs, updates)
    BY <2>1, StopKeeps
  <2>3. first = OnlyIf(there, <<Stop(0)>>)
    BY DEF close_thinking_block, there
  <2> HIDE DEF a
  <2> QED
    BY <1>5, <2>2, <2>3 DEF c
<1>7. second \in Seq(Events) /\ Accumulated(a, second, whole) = a
  <2> DEFINE there == s.text = "open"
             i == text_index(s)
             c == blocks \o ToolsSoFar(k)
  <2>1. there => i \notin DOMAIN inputs
    BY <1>2, <1>3, <1>4
  <2>0. i \in Nat
    BY <1>3
  <2> HIDE DEF there, inputs, i, c
  <2>2. /\ OnlyIf(there, <<Stop(i)>>) \in Seq(Events)
        /\ Accumulated(Holding(c, inputs, updates), OnlyIf(there, <<Stop(i)>>), whole)
             = Holding(c, inputs, updates)
    BY <2>0, <2>1, StopKeeps
  <2>3. second = OnlyIf(there, <<Stop(i)>>)
    BY DEF there, i
  <2> HIDE DEF a
  <2> QED
    BY <1>5, <2>2, <2>3 DEF c
<1>8. IsEnding(a, blocks, updates, b, counts, 0, k)
  <2>1. ASSUME NEW y \in 1..k
        PROVE  ~(b + y - 1 < 0)
    BY <1>2
  <2>2. EndedTools(b, counts, 0, k) = ToolsSoFar(k)
    BY <2>1 DEF EndedTools, ToolsSoFar
  <2>3. {i \in b..(b + k - 1) : ~(i < 0)} = b..(b + k - 1)
    BY <1>2
  <2>4. Unclosed(b, counts, 0, k) = inputs
    BY <2>3 DEF Unclosed, Inputs
  <2> HIDE DEF a, inputs, blocks, b
  <2> QED
    BY <1>5, <2>2, <2>4 DEF IsEnding
<1>9. third \in Seq(Events) /\ IsEnding(end, blocks, updates, b, counts, last, k)
  <2> HIDE DEF a, blocks, b, last
  <2> QED
    BY <1>0, <1>1, <1>2, <1>8, ToolsClose
<1>10. EndedTools(b, counts, last, k) = Calls(counts, k)
  <2>1. ASSUME NEW y \in 1..k
        PROVE  b + y - 1 < last
    BY <1>0, <1>2, <1>3
  <2> HIDE DEF b, last
  <2> QED
    BY <2>1 DEF EndedTools, Calls
<1>11. IsAnswer(end, t, x, counts, k)
  <2>1. CASE end.failed = TRUE
    BY <2>1 DEF IsAnswer
  <2>2. CASE end = Holding(blocks \o EndedTools(b, counts, last, k), Unclosed(b, counts, last, k),
                           updates)
    <3> HIDE DEF end
    <3>1. end.failed = Unfailed /\ end.blocks = blocks \o EndedTools(b, counts, last, k)
      BY <2>2 DEF Holding
    <3> QED
      BY <1>10, <3>1 DEF IsAnswer
  <2> HIDE DEF end
  <2> QED
    BY <1>9, <2>1, <2>2 DEF IsEnding
<1>12. Accumulated(a, close_all_blocks(s), whole) = end
  <2>1. close_all_blocks(s) = (first \o second) \o third
    BY DEF close_all_blocks, ClosingEvents, Closing
  <2> DEFINE both == first \o second
  <2> HIDE DEF first, second, third, a
  <2>2. both \in Seq(Events)
    BY <1>6, <1>7, ConcatProperties
  <2>3. Accumulated(a, both, whole) = Accumulated(Accumulated(a, first, whole), second, whole)
    BY <1>6, <1>7, AccumulatedConcat
  <2>4. Accumulated(a, both, whole) = a
    BY <1>6, <1>7, <2>3
  <2>0. third \in Seq(Events)
    BY <1>9
  <2> HIDE DEF both
  <2>5. Accumulated(a, both \o third, whole)
          = Accumulated(Accumulated(a, both, whole), third, whole)
    BY <2>0, <2>2, AccumulatedConcat
  <2> QED
    BY <2>1, <2>4, <2>5 DEF both
<1> HIDE DEF a, end
<1> QED
  BY <1>11, <1>12 DEF a

LEMMA CallsNext ==
    ASSUME NEW counts \in [Tools -> Nat], NEW n \in Tools
    PROVE  /\ Calls(counts, n) \in Seq(Block) /\ Calls(counts, n + 1) \in Seq(Block)
           /\ Calls(counts, n + 1) = Append(Calls(counts, n), Told("tool", counts[n]))
<1> DEFINE f == [y \in 1..(n + 1) |-> Told("tool", counts[y - 1])]
           some == [m \in 1..n |-> f[m]]
           more == [m \in 1..(n + 1) |-> f[m]]
           last == Told("tool", counts[n])
<1>1. n \in Nat /\ n < MaxTools
  BY StreamAssumption DEF Tools
<1>2. ASSUME NEW y \in 1..(n + 1)
      PROVE  Told("tool", counts[y - 1]) \in Block
  <2>1. y - 1 \in Tools
    BY <1>1, StreamAssumption DEF Tools
  <2>2. counts[y - 1] \in Nat
    BY <2>1
  <2> QED
    BY <2>2 DEF Told, Block
<1>3. f \in [1..(n + 1) -> Block]
  BY <1>2
<1>4. f[n + 1] = last
  <2>1. n + 1 \in 1..(n + 1) /\ (n + 1) - 1 = n
    BY <1>1
  <2> QED
    BY <2>1
<1>5. some = Calls(counts, n) /\ more = Calls(counts, n + 1)
  <2>1. \A m \in 1..n : m \in 1..(n + 1)
    BY <1>1
  <2> QED
    BY <2>1 DEF Calls
<1> HIDE DEF f, last
<1>6. some \in Seq(Block) /\ more = Append(some, f[n + 1])
  BY <1>1, <1>3, OneMore
<1> HIDE DEF some, more
<1>7. Append(some, last) \in Seq(Block)
  <2>1. last \in Block
    <3>1. n + 1 \in 1..(n + 1)
      BY <1>1
    <3> QED
      BY <1>3, <1>4, <3>1
  <2> QED
    BY <1>6, <2>1, AppendProperties
<1> QED
  BY <1>4, <1>5, <1>6, <1>7 DEF last

\* The blocks that the tool calls become are those that were sent.
LEMMA CallsAreSent ==
    ASSUME NEW counts \in [Tools -> Nat], NEW k \in 0..MaxTools,
           \A i \in Tools : i < k <=> counts[i] > 0
    PROVE  /\ FlattenSeq([n \in 1..MaxTools |-> Sent("tool", counts[n - 1])]) = Calls(counts, k)
           /\ Calls(counts, k) \in Seq(Block)
<1> DEFINE flat(n) == FlattenSeq([m \in 1..n |-> Sent("tool", counts[m - 1])])
           Upto(n) == IF n < k THEN n ELSE k
           Good(n) == flat(n) = Calls(counts, Upto(n)) /\ flat(n) \in Seq(Block)
           G == {n \in 0..MaxTools : Good(n)}
<1>1. MaxTools \in Nat /\ k \in Nat
  BY StreamAssumption
<1>2. 0 \in G
  <2> DEFINE empty == [m \in 1..0 |-> Sent("tool", counts[m - 1])]
             noCalls == [y \in 1..0 |-> Told("tool", counts[y - 1])]
  <2>1. empty = <<>> /\ noCalls = <<>>
    OBVIOUS
  <2> HIDE DEF empty, noCalls
  <2>2. FlattenSeq(empty) = <<>>
    BY <2>1, FlattenNone
  <2>3. flat(0) = <<>>
    BY <2>2 DEF empty
  <2>4. Calls(counts, 0) = <<>>
    BY <2>1 DEF Calls, noCalls
  <2>5. Upto(0) = 0 /\ 0 \in 0..MaxTools /\ <<>> \in Seq(Block)
    BY <1>1
  <2> HIDE DEF flat, Upto
  <2>6. Good(0)
    BY <2>3, <2>4, <2>5
  <2> HIDE DEF Good
  <2> QED
    BY <2>5, <2>6
<1>3. ASSUME NEW m \in 1..MaxTools, m - 1 \in G
      PROVE  m \in G
  <2> DEFINE n == m - 1
             f == [i \in 1..(n + 1) |-> Sent("tool", counts[i - 1])]
             some == [i \in 1..n |-> f[i]]
             more == [i \in 1..(n + 1) |-> f[i]]
             last == Told("tool", counts[n])
             sent1 == Sent("tool", counts[n])
  <2>1. n \in Nat /\ n \in Tools /\ n + 1 = m
    BY <1>1 DEF Tools
  <2>2. Good(n)
    BY <1>3
  <2>3. ASSUME NEW i \in Tools
        PROVE  Sent("tool", counts[i]) \in Seq(Block)
    <3> DEFINE one == Told("tool", counts[i])
    <3>1. one \in Block
      BY DEF Told, Block
    <3>2. Sent("tool", counts[i]) = IF counts[i] > 0 THEN <<one>> ELSE <<>>
      BY DEF Sent, OnlyIf, Told
    <3> HIDE DEF one
    <3>3. <<one>> \in Seq(Block) /\ <<>> \in Seq(Block)
      BY <3>1
    <3> QED
      BY <3>2, <3>3
  <2>4. f \in [1..(n + 1) -> Seq(Block)]
    <3>1. ASSUME NEW i \in 1..(n + 1)
          PROVE  Sent("tool", counts[i - 1]) \in Seq(Block)
      <4>1. i - 1 \in Tools
        BY <1>1 DEF Tools
      <4> QED
        BY <2>3, <4>1
    <3> QED
      BY <3>1
  <2>5. FlattenSeq(some) = flat(n) /\ FlattenSeq(more) = flat(n + 1) /\ f[n + 1] = sent1
    <3>1. some = [i \in 1..n |-> Sent("tool", counts[i - 1])]
          /\ more = [i \in 1..(n + 1) |-> Sent("tool", counts[i - 1])]
      <4>1. \A i \in 1..n : i \in 1..(n + 1)
        BY <2>1
      <4> QED
        BY <4>1
    <3>2. f[n + 1] = sent1
      <4>1. n + 1 \in 1..(n + 1) /\ (n + 1) - 1 = n
        BY <2>1
      <4> HIDE DEF n
      <4> QED
        BY <4>1
    <3> HIDE DEF f, some, more, n, sent1
    <3> QED
      BY <3>1, <3>2
  <2>6. flat(n + 1) = flat(n) \o sent1 /\ sent1 \in Seq(Block)
    <3>1. sent1 \in Seq(Block)
      BY <2>1, <2>3
    <3> HIDE DEF f, n, flat, sent1
    <3>2. some \in Seq(Seq(Block)) /\ more = Append(some, f[n + 1])
      BY <2>1, <2>4, OneMore
    <3> HIDE DEF some, more
    <3>3. FlattenSeq(Append(some, sent1)) = FlattenSeq(some) \o sent1
      BY <3>1, <3>2, FlattenAppend
    <3> QED
      BY <2>5, <3>1, <3>2, <3>3
  <2>7. flat(n + 1) \in Seq(Block)
    <3> HIDE DEF flat, n, sent1
    <3> QED
      BY <2>2, <2>6, ConcatProperties
  <2>8. CASE n < k
    <3>1. Upto(n) = n /\ Upto(n + 1) = n + 1
      BY <1>1, <2>1, <2>8
    <3>2. sent1 = <<last>>
      <4>1. counts[n] > 0
        BY <2>1, <2>8
      <4> QED
        BY <4>1 DEF Sent, OnlyIf, Told
    <3>3. Calls(counts, n + 1) = Append(Calls(counts, n), last) /\ Calls(counts, n) \in Seq(Block)
      <4> HIDE DEF n
      <4> QED
        BY <2>1, CallsNext
    <3>4. last \in Block
      <4>1. counts[n] \in Nat
        BY <2>1
      <4> QED
        BY <4>1 DEF Told, Block
    <3> HIDE DEF last, sent1, flat, n, Upto
    <3>5. Append(Calls(counts, n), last) = Calls(counts, n) \o <<last>>
      BY <3>3, <3>4, AppendIsConcat
    <3>6. flat(n + 1) = Calls(counts, Upto(n + 1))
      BY <2>2, <2>6, <3>1, <3>2, <3>3, <3>5
    <3> QED
      BY <2>1, <2>7, <3>6
  <2>9. CASE ~(n < k)
    <3>1. Upto(n) = k /\ Upto(n + 1) = k
      BY <1>1, <2>1, <2>9
    <3>2. sent1 = <<>>
      <4>1. ~(counts[n] > 0)
        BY <2>1, <2>9
      <4> QED
        BY <4>1 DEF Sent, OnlyIf
    <3> HIDE DEF sent1, flat, n, Upto
    <3>3. flat(n) \o <<>> = flat(n)
      BY <2>2, ConcatEmptySeq
    <3>4. flat(n + 1) = Calls(counts, Upto(n + 1))
      BY <2>2, <2>6, <3>1, <3>2, <3>3
    <3> QED
      BY <2>1, <2>7, <3>4
  <2> QED
    BY <2>8, <2>9
<1>4. MaxTools \in G
  <2> HIDE DEF G
  <2>1. \A n \in 0..MaxTools : n \in G
    BY <1>1, <1>2, <1>3, AllUpTo
  <2> QED
    BY <1>1, <2>1
<1>5. Upto(MaxTools) = k
  BY <1>1
<1> HIDE DEF Upto
<1>6. flat(MaxTools) = Calls(counts, k) /\ flat(MaxTools) \in Seq(Block)
  <2> HIDE DEF flat
  <2> QED
    BY <1>4, <1>5
<1> QED
  BY <1>6

-----------------------------------------------------------------------------
(* What the chat shows of the thinking and the text *)

\* The view after the updates of one chunk: there are two at most.
After(view, more, u) == IF more THEN append_stream_text(view, u) ELSE view

LEMMA UpdatesShown ==
    ASSUME NEW view, NEW updates, NEW n \in 0..2, Len(updates) = n
    PROVE  WithUpdates(view, updates)
             = After(After(view, n > 0, updates[1]), n > 1, updates[2])
<1> DEFINE one == append_stream_text(view, updates[1])
           two == append_stream_text(one, updates[2])
           Made(f) == f = [i \in 0..n |->
                             IF i = 0 THEN view ELSE append_stream_text(f[i - 1], updates[i])]
           g == [i \in 0..n |-> IF i = 0 THEN view ELSE IF i = 1 THEN one ELSE two]
           made == CHOOSE f : Made(f)
<1>1. ASSUME NEW i \in 0..n
      PROVE  g[i] = IF i = 0 THEN view ELSE append_stream_text(g[i - 1], updates[i])
  <2>1. i = 0 \/ i = 1 \/ i = 2
    OBVIOUS
  <2>2. CASE i = 0
    <3> HIDE DEF one, two
    <3> QED
      BY <2>2
  <2>3. CASE i = 1
    <3>1. 0 \in 0..n /\ 1 \in 0..n /\ i - 1 = 0
      BY <2>3
    <3>2. g[1] = one /\ g[0] = view
      <4> HIDE DEF one, two
      <4> QED
        BY <3>1
    <3> HIDE DEF g
    <3> QED
      BY <2>3, <3>1, <3>2
  <2>4. CASE i = 2
    <3>1. 1 \in 0..n /\ 2 \in 0..n /\ i - 1 = 1
      BY <2>4
    <3>2. g[2] = two /\ g[1] = one
      <4> HIDE DEF one, two
      <4> QED
        BY <3>1
    <3> HIDE DEF g, one
    <3> QED
      BY <2>4, <3>1, <3>2
  <2> QED
    BY <2>1, <2>2, <2>3, <2>4
<1>2. Made(g)
  <2>1. g = [i \in 0..n |-> g[i]]
    OBVIOUS
  <2> HIDE DEF g
  <2> QED
    BY <1>1, <2>1
<1>3. Made(made)
  <2> HIDE DEF Made, g
  <2> QED
    BY <1>2, Zenon
<1>4. WithUpdates(view, updates) = made[n]
  BY DEF WithUpdates
<1> HIDE DEF made
<1>5. \A i \in 0..n : made[i] = IF i = 0 THEN view
                                ELSE append_stream_text(made[i - 1], updates[i])
  BY <1>3
<1>6. made[0] = view
  BY <1>5
<1>7. n > 0 => made[1] = one
  <2>1. n > 0 => 1 \in 0..n /\ 1 - 1 = 0
    OBVIOUS
  <2> QED
    BY <1>5, <1>6, <2>1
<1>8. n > 1 => made[2] = two
  <2>1. n > 1 => n > 0 /\ 2 \in 0..n /\ 2 - 1 = 1
    OBVIOUS
  <2> HIDE DEF one
  <2> QED
    BY <1>5, <1>7, <2>1
<1>9. CASE n = 0
  BY <1>4, <1>6, <1>9 DEF After
<1>10. CASE n = 1
  BY <1>4, <1>7, <1>10 DEF After
<1>11. CASE n = 2
  BY <1>4, <1>8, <1>11 DEF After
<1> QED
  BY <1>9, <1>10, <1>11

\* What is heard in a chunk: its thinking, then its text
HeardIs(view, a, b, u, v) ==
    WithUpdates(view, Heard(Heard(<<>>, a, u), b, v)) = After(After(view, a, u), b, v)

LEMMA HeardIsShown ==
    ASSUME NEW view, NEW a \in BOOLEAN, NEW b \in BOOLEAN, NEW u, NEW v
    PROVE  HeardIs(view, a, b, u, v)
<1> DEFINE h == Heard(Heard(<<>>, a, u), b, v)
<1>1. CASE a /\ b
  <2>1. h = Append(<<u>>, v)
    BY <1>1 DEF Heard
  <2>2. Len(Append(<<u>>, v)) = 2 /\ Append(<<u>>, v)[1] = u /\ Append(<<u>>, v)[2] = v
    OBVIOUS
  <2> HIDE DEF h
  <2>3. Len(h) = 2 /\ h[1] = u /\ h[2] = v
    BY <2>1, <2>2
  <2>4. WithUpdates(view, h) = After(After(view, 2 > 0, h[1]), 2 > 1, h[2])
    <3>1. 2 \in 0..2
      OBVIOUS
    <3> QED
      BY <2>3, <3>1, UpdatesShown
  <2> QED
    <3>1. 2 > 0 /\ 2 > 1
      OBVIOUS
    <3>2. WithUpdates(view, h) = append_stream_text(append_stream_text(view, u), v)
      BY <2>3, <2>4, <3>1 DEF After
    <3>3. After(After(view, a, u), b, v) = append_stream_text(append_stream_text(view, u), v)
      BY <1>1, Zenon DEF After
    <3> QED
      BY <3>2, <3>3 DEF HeardIs, h
<1>2. CASE a /\ ~b
  <2>1. h = <<u>>
    BY <1>2 DEF Heard
  <2> HIDE DEF h
  <2>3. Len(h) = 1 /\ h[1] = u
    BY <2>1
  <2>4. WithUpdates(view, h) = After(After(view, 1 > 0, h[1]), 1 > 1, h[2])
    <3>1. 1 \in 0..2
      OBVIOUS
    <3> QED
      BY <2>3, <3>1, UpdatesShown
  <2> QED
    <3>1. 1 > 0 /\ ~(1 > 1)
      OBVIOUS
    <3>2. WithUpdates(view, h) = append_stream_text(view, u)
      BY <2>3, <2>4, <3>1 DEF After
    <3>3. After(After(view, a, u), b, v) = append_stream_text(view, u)
      BY <1>2, Zenon DEF After
    <3> QED
      BY <3>2, <3>3 DEF HeardIs, h
<1>3. CASE ~a /\ b
  <2>1. h = <<v>>
    BY <1>3 DEF Heard
  <2> HIDE DEF h
  <2>3. Len(h) = 1 /\ h[1] = v
    BY <2>1
  <2>4. WithUpdates(view, h) = After(After(view, 1 > 0, h[1]), 1 > 1, h[2])
    <3>1. 1 \in 0..2
      OBVIOUS
    <3> QED
      BY <2>3, <3>1, UpdatesShown
  <2> QED
    <3>1. 1 > 0 /\ ~(1 > 1)
      OBVIOUS
    <3>2. WithUpdates(view, h) = append_stream_text(view, v)
      BY <2>3, <2>4, <3>1 DEF After
    <3>3. After(After(view, a, u), b, v) = append_stream_text(view, v)
      BY <1>3, Zenon DEF After
    <3> QED
      BY <3>2, <3>3 DEF HeardIs, h
<1>4. CASE ~a /\ ~b
  <2>1. h = <<>>
    BY <1>4 DEF Heard
  <2> HIDE DEF h
  <2>3. Len(h) = 0
    BY <2>1
  <2>4. WithUpdates(view, h) = After(After(view, 0 > 0, h[1]), 0 > 1, h[2])
    <3>1. 0 \in 0..2
      OBVIOUS
    <3> QED
      BY <2>3, <3>1, UpdatesShown
  <2> QED
    BY <1>4, <2>4 DEF HeardIs, h, After
<1> QED
  BY <1>1, <1>2, <1>3, <1>4

\* A message of the bot
Said(k, n, now) == [kind |-> k, n |-> n, attempt |-> now]
SaidMessages(now) == [kind : {"thinking", "text"}, n : Nat, attempt : 0..now]

LEMMA SaidMore ==
    ASSUME NEW k, NEW n, NEW now
    PROVE  Lengthened(Said(k, n, now), k) = Said(k, n + 1, now)
BY DEF Lengthened, Said

LEMMA SaidIs ==
    ASSUME NEW k \in {"thinking", "text"}, NEW n \in Nat, NEW now \in Nat
    PROVE  /\ Said(k, n, now) \in SaidMessages(now)
           /\ Said(k, n, now).kind = k /\ Said(k, n, now).n = n /\ Said(k, n, now).attempt = now
BY DEF SaidMessages, Said

\* An update for a block that has no message yet
IsPushed(view, i, k, now) ==
    append_stream_text(view, Update(i, k))
      = [list |-> Append(view.list, Said(k, 1, now)),
         map |-> SetInput(view.map, i, Len(view.list) + 1)]

LEMMA Pushed ==
    ASSUME NEW view, NEW now \in Nat, now = attempt, view.list \in Seq(SaidMessages(now)),
           NEW i, i \notin DOMAIN view.map, NEW k \in {"thinking", "text"}
    PROVE  IsPushed(view, i, k, now)
<1> DEFINE list == view.list
           map == view.map
           u == Update(i, k)
           none == Said(k, 0, now)
           one == Said(k, 1, now)
           all == Append(list, none)
           known == SetInput(map, i, Len(all))
           longer == [list |-> [all EXCEPT ![known[u.index]] = Lengthened(@, u.kind)],
                      map |-> known]
<1>1. u.index = i /\ u.kind = k
  BY DEF Update
<1>2. none \in SaidMessages(now) /\ one \in SaidMessages(now) /\ Lengthened(none, k) = one
  <2>1. 0 + 1 = 1
    OBVIOUS
  <2>2. Lengthened(Said(k, 0, now), k) = Said(k, 0 + 1, now)
    BY SaidMore
  <2> QED
    BY <2>1, <2>2, SaidIs
<1>3. append_stream_text(view, u) = longer
  <2>1. u.index \notin DOMAIN view.map
    BY <1>1
  <2>2. [kind |-> u.kind, n |-> 0, attempt |-> attempt] = none
    BY <1>1 DEF Said
  <2> HIDE DEF u, none
  <2> QED
    BY <1>1, <2>1, <2>2 DEF append_stream_text
<1>4. Len(all) = Len(list) + 1 /\ all[Len(list) + 1] = none /\ all \in Seq(SaidMessages(now))
  <2> HIDE DEF none
  <2> QED
    BY <1>2, AppendProperties
<1>5. known[i] = Len(list) + 1 /\ known = SetInput(map, i, Len(list) + 1)
  BY <1>4 DEF SetInput
<1>6. [all EXCEPT ![Len(list) + 1] = one] = Append(list, one)
  <2>1. list \in Seq(SaidMessages(now))
    OBVIOUS
  <2> HIDE DEF list, none, one
  <2> QED
    BY <1>2, <2>1, LastChanged
<1>7. [all EXCEPT ![known[u.index]] = Lengthened(@, u.kind)]
        = [all EXCEPT ![Len(list) + 1] = Lengthened(@, k)]
  <2> HIDE DEF all, u, known
  <2> QED
    BY <1>1, <1>5
<1>8. [all EXCEPT ![Len(list) + 1] = Lengthened(@, k)] = [all EXCEPT ![Len(list) + 1] = one]
  <2> HIDE DEF all, none, one
  <2> QED
    BY <1>2, <1>4
<1> HIDE DEF u, none, one, all, known
<1>9. append_stream_text(view, u)
        = [list |-> Append(list, one), map |-> SetInput(map, i, Len(list) + 1)]
  BY <1>3, <1>5, <1>6, <1>7, <1>8
<1> QED
  BY <1>9 DEF IsPushed, u, one

\* An update for a block whose message is of its kind
IsWritten(view, i, k, n, now) ==
    append_stream_text(view, Update(i, k))
      = [list |-> [view.list EXCEPT ![view.map[i]] = Said(k, n + 1, now)], map |-> view.map]

LEMMA Written ==
    ASSUME NEW view, NEW now, NEW i \in DOMAIN view.map, NEW k, NEW n,
           view.map[i] \in DOMAIN view.list, view.list[view.map[i]] = Said(k, n, now)
    PROVE  IsWritten(view, i, k, n, now)
<1> DEFINE list == view.list
           map == view.map
           u == Update(i, k)
           m == map[i]
<1>1. u.index = i /\ u.kind = k
  BY DEF Update
<1>2. Lengthened(list[m], k) = Said(k, n + 1, now)
  BY SaidMore
<1>3. append_stream_text(view, u)
        = [list |-> [list EXCEPT ![map[u.index]] = Lengthened(@, u.kind)], map |-> map]
  <2>1. u.index \in DOMAIN view.map
    BY <1>1
  <2> HIDE DEF u
  <2> QED
    BY <2>1 DEF append_stream_text
<1>4. [list EXCEPT ![map[u.index]] = Lengthened(@, u.kind)]
        = [list EXCEPT ![m] = Said(k, n + 1, now)]
  <2> HIDE DEF u
  <2> QED
    BY <1>1, <1>2
<1> HIDE DEF u
<1>5. append_stream_text(view, u)
        = [list |-> [list EXCEPT ![m] = Said(k, n + 1, now)], map |-> map]
  BY <1>3, <1>4
<1> QED
  BY <1>5 DEF IsWritten, u

\* The messages of the last attempt are those that the map knows, for c blocks.
MapsTo(view, now, c) ==
    /\ view.list \in Seq(SaidMessages(now))
    /\ DOMAIN view.map = 0..(c - 1)
    /\ \A j \in 0..(c - 1) : view.map[j] \in DOMAIN view.list
    /\ \A n \in DOMAIN view.list :
          view.list[n].attempt = now => \E j \in 0..(c - 1) : view.map[j] = n

PushedTo(view, new, k, now, c) ==
    /\ MapsTo(new, now, c + 1)
    /\ new.list[new.map[c]] = Said(k, 1, now)
    /\ \A j \in 0..(c - 1) : new.list[new.map[j]] = view.list[view.map[j]]

LEMMA PushKeepsMap ==
    ASSUME NEW view, NEW now \in Nat, now = attempt, NEW c \in Nat, MapsTo(view, now, c),
           NEW k \in {"thinking", "text"}
    PROVE  PushedTo(view, append_stream_text(view, Update(c, k)), k, now, c)
<1> DEFINE new == append_stream_text(view, Update(c, k))
           list == view.list
           map == view.map
           one == Said(k, 1, now)
           L == Len(list)
<1>1. /\ list \in Seq(SaidMessages(now)) /\ DOMAIN map = 0..(c - 1)
      /\ \A j \in 0..(c - 1) : map[j] \in DOMAIN list
      /\ \A n \in DOMAIN list : list[n].attempt = now => \E j \in 0..(c - 1) : map[j] = n
  BY DEF MapsTo
<1>2. c \notin DOMAIN map /\ 0..(c - 1) \cup {c} = 0..c
  BY <1>1
<1>3. new.list = Append(list, one) /\ new.map = SetInput(map, c, L + 1)
  <2>1. IsPushed(view, c, k, now)
    <3>1. view.list \in Seq(SaidMessages(now))
      BY <1>1
    <3>2. c \notin DOMAIN view.map
      BY <1>2
    <3>3. now = attempt
      OBVIOUS
    <3> QED
      BY <3>1, <3>2, <3>3, Pushed
  <2> HIDE DEF list, map
  <2>2. new = [list |-> Append(list, one), map |-> SetInput(map, c, L + 1)]
    BY <2>1 DEF IsPushed, list, map
  <2> HIDE DEF new, one, L
  <2> QED
    BY <2>2
<1> HIDE DEF new
<1>4. one \in SaidMessages(now) /\ one.attempt = now
  BY SaidIs
<1> HIDE DEF list, map, one
<1>5. /\ new.list \in Seq(SaidMessages(now)) /\ L \in Nat /\ Len(new.list) = L + 1
      /\ new.list[L + 1] = one /\ \A n \in 1..L : new.list[n] = list[n]
  BY <1>1, <1>3, <1>4, AppendProperties
<1>6. DOMAIN list = 1..L /\ DOMAIN new.list = 1..(L + 1)
  BY <1>1, <1>5
<1>7. new.map = [j \in 0..c |-> IF j = c THEN L + 1 ELSE map[j]]
  BY <1>1, <1>2, <1>3 DEF SetInput
<1>8. \A j \in 0..(c - 1) : j \in 0..c /\ j # c
  OBVIOUS
<1>9. /\ DOMAIN new.map = 0..c /\ new.map[c] = L + 1
      /\ \A j \in 0..(c - 1) : new.map[j] = map[j]
  BY <1>7, <1>8
<1>10. \A j \in 0..c : j = c \/ j \in 0..(c - 1)
  OBVIOUS
<1>11. \A j \in 0..c : new.map[j] \in DOMAIN new.list
  BY <1>1, <1>5, <1>6, <1>9, <1>10
<1>12. ASSUME NEW n \in DOMAIN new.list, new.list[n].attempt = now
       PROVE  \E j \in 0..c : new.map[j] = n
  <2>1. CASE n = L + 1
    BY <1>9, <2>1
  <2>2. CASE n # L + 1
    <3>1. n \in DOMAIN list /\ list[n] = new.list[n]
      BY <1>5, <1>6, <2>2
    <3>2. PICK j \in 0..(c - 1) : map[j] = n
      BY <1>1, <1>12, <3>1
    <3> QED
      BY <1>8, <1>9, <3>2
  <2> QED
    BY <2>1, <2>2
<1>13. (c + 1) - 1 = c
  OBVIOUS
<1>14. MapsTo(new, now, c + 1)
  BY <1>5, <1>9, <1>11, <1>12, <1>13 DEF MapsTo
<1>15. \A j \in 0..(c - 1) : new.list[new.map[j]] = list[map[j]]
  BY <1>1, <1>5, <1>6, <1>9
<1> QED
  BY <1>5, <1>9, <1>14, <1>15 DEF PushedTo, new, list, map, one

WrittenTo(view, new, i, k, n, now, c) ==
    /\ MapsTo(new, now, c)
    /\ new.list[new.map[i]] = Said(k, n + 1, now)
    /\ \A j \in 0..(c - 1) : view.list[view.map[j]] # view.list[view.map[i]] =>
          new.list[new.map[j]] = view.list[view.map[j]]

LEMMA WriteKeepsMap ==
    ASSUME NEW view, NEW now \in Nat, NEW c \in Nat, MapsTo(view, now, c), NEW i \in 0..(c - 1),
           NEW k \in {"thinking", "text"}, NEW n \in Nat,
           view.list[view.map[i]] = Said(k, n, now)
    PROVE  WrittenTo(view, append_stream_text(view, Update(i, k)), i, k, n, now, c)
<1> DEFINE new == append_stream_text(view, Update(i, k))
           list == view.list
           map == view.map
           m == map[i]
           old == Said(k, n, now)
           one == Said(k, n + 1, now)
<1>1. /\ list \in Seq(SaidMessages(now)) /\ DOMAIN map = 0..(c - 1)
      /\ \A j \in 0..(c - 1) : map[j] \in DOMAIN list
      /\ \A p \in DOMAIN list : list[p].attempt = now => \E j \in 0..(c - 1) : map[j] = p
  BY DEF MapsTo
<1>2. m \in DOMAIN list /\ i \in DOMAIN map /\ list[m] = old
  BY <1>1
<1>3. new.list = [list EXCEPT ![m] = one] /\ new.map = map
  <2>1. IsWritten(view, i, k, n, now)
    BY <1>2, Written
  <2> HIDE DEF list, map
  <2>2. new = [list |-> [list EXCEPT ![m] = one], map |-> map]
    BY <2>1 DEF IsWritten, list, map
  <2> HIDE DEF new, one, m
  <2> QED
    BY <2>2
<1>4. one \in SaidMessages(now) /\ one.attempt = now /\ old.attempt = now
  <2>1. n + 1 \in Nat
    OBVIOUS
  <2> QED
    BY <2>1, SaidIs
<1> HIDE DEF new, list, map, one, old, m
<1>5. /\ new.list \in Seq(SaidMessages(now)) /\ DOMAIN new.list = DOMAIN list
      /\ new.list[m] = one /\ \A p \in DOMAIN list : p # m => new.list[p] = list[p]
  BY <1>1, <1>2, <1>3, <1>4
<1>6. \A p \in DOMAIN list : new.list[p].attempt = now => list[p].attempt = now
  BY <1>2, <1>4, <1>5
<1>7. MapsTo(new, now, c)
  BY <1>1, <1>3, <1>5, <1>6 DEF MapsTo
<1>8. new.list[new.map[i]] = one
  BY <1>3, <1>5 DEF m
<1>9. ASSUME NEW j \in 0..(c - 1), list[map[j]] # list[map[i]]
      PROVE  new.list[new.map[j]] = list[map[j]]
  <2>1. map[j] \in DOMAIN list /\ map[j] # m
    BY <1>1, <1>9 DEF m
  <2> QED
    BY <1>3, <1>5, <2>1
<1> QED
  BY <1>7, <1>8, <1>9 DEF WrittenTo, new, list, map, one

Index(t) == IF t = 0 THEN 0 ELSE 1
Count(t, x) == Index(t) + Index(x)

\* The chat shows what was said in this attempt, and each in a message of its own.
Views(view, t, x, now) ==
    /\ MapsTo(view, now, Count(t, x))
    /\ t > 0 => view.list[view.map[0]] = Said("thinking", t, now)
    /\ x > 0 => view.list[view.map[Index(t)]] = Said("text", x, now)

LEMMA ThinkingShown ==
    ASSUME NEW view, NEW now \in Nat, now = attempt, NEW t \in Nat, Views(view, t, 0, now)
    PROVE  Views(append_stream_text(view, Update(0, "thinking")), t + 1, 0, now)
<1> DEFINE new == append_stream_text(view, Update(0, "thinking"))
<1>0. Count(t + 1, 0) = 1 /\ t + 1 > 0 /\ ~(0 > 0) /\ now = attempt
  BY DEF Count, Index
<1>1. CASE t = 0
  <2>1. Count(t, 0) = 0
    BY <1>1 DEF Count, Index
  <2>2. MapsTo(view, now, 0)
    BY <2>1 DEF Views
  <2>3. PushedTo(view, new, "thinking", now, 0)
    BY <1>0, <2>2, PushKeepsMap
  <2>4. Said("thinking", 1, now) = Said("thinking", t + 1, now) /\ 0 + 1 = 1
    BY <1>1
  <2> HIDE DEF new
  <2>5. MapsTo(new, now, 1) /\ new.list[new.map[0]] = Said("thinking", t + 1, now)
    BY <2>3, <2>4 DEF PushedTo
  <2> QED
    BY <1>0, <2>5 DEF Views, new
<1>2. CASE t # 0
  <2>1. Count(t, 0) = 1 /\ t > 0
    BY <1>2 DEF Count, Index
  <2>2. MapsTo(view, now, 1) /\ view.list[view.map[0]] = Said("thinking", t, now)
    BY <2>1 DEF Views
  <2>3. WrittenTo(view, new, 0, "thinking", t, now, 1)
    <3>1. 0 \in 0..(1 - 1) /\ 1 \in Nat
      OBVIOUS
    <3> QED
      BY <2>2, <3>1, WriteKeepsMap
  <2> HIDE DEF new
  <2> QED
    BY <1>0, <2>3 DEF Views, WrittenTo, new
<1> QED
  BY <1>1, <1>2

LEMMA TextShown ==
    ASSUME NEW view, NEW now \in Nat, now = attempt, NEW t \in Nat, NEW x \in Nat,
           Views(view, t, x, now)
    PROVE  Views(append_stream_text(view, Update(Index(t), "text")), t, x + 1, now)
<1> DEFINE c == Index(t)
           new == append_stream_text(view, Update(c, "text"))
<1>0. /\ Count(t, x + 1) = c + 1 /\ x + 1 > 0 /\ c \in Nat /\ now = attempt
      /\ t > 0 => 0 \in 0..(c - 1) /\ c = 1
  BY DEF Count, Index
<1>1. CASE x = 0
  <2>1. Count(t, x) = c
    BY <1>1 DEF Count, Index
  <2>2. MapsTo(view, now, c)
    BY <2>1 DEF Views
  <2>3. PushedTo(view, new, "text", now, c)
    <3> HIDE DEF c
    <3> QED
      BY <1>0, <2>2, PushKeepsMap
  <2>4. Said("text", 1, now) = Said("text", x + 1, now)
    BY <1>1
  <2> HIDE DEF new, c
  <2>5. MapsTo(new, now, c + 1) /\ new.list[new.map[c]] = Said("text", x + 1, now)
    BY <2>3, <2>4 DEF PushedTo
  <2>6. t > 0 => new.list[new.map[0]] = Said("thinking", t, now)
    BY <1>0, <2>3 DEF PushedTo, Views
  <2> QED
    BY <1>0, <2>5, <2>6 DEF Views, new, c
<1>2. CASE x # 0
  <2>1. Count(t, x) = c + 1 /\ x > 0
    BY <1>2 DEF Count, Index
  <2>2. MapsTo(view, now, c + 1) /\ view.list[view.map[c]] = Said("text", x, now)
    BY <2>1 DEF Views
  <2>3. WrittenTo(view, new, c, "text", x, now, c + 1)
    <3>1. c \in 0..((c + 1) - 1) /\ c + 1 \in Nat
      BY <1>0
    <3> HIDE DEF c
    <3> QED
      BY <2>2, <3>1, WriteKeepsMap
  <2>4. Said("thinking", t, now) # Said("text", x, now)
    BY DEF Said
  <2>5. t > 0 => 0 \in 0..((c + 1) - 1)
    BY <1>0
  <2> HIDE DEF new, c
  <2>6. t > 0 => new.list[new.map[0]] = Said("thinking", t, now)
    BY <2>2, <2>3, <2>4, <2>5 DEF WrittenTo, Views
  <2>7. MapsTo(new, now, c + 1) /\ new.list[new.map[c]] = Said("text", x + 1, now)
    BY <2>3 DEF WrittenTo
  <2> QED
    BY <1>0, <2>6, <2>7 DEF Views, new, c
<1> QED
  BY <1>1, <1>2

\* There is one of a kind, with what was said of it, or none.
Exactly(S, s, n) == IF n > 0 THEN \E i : S = {i} /\ s[i].n = n ELSE S = {}

SameOf(S, s, T, u) ==
    Cardinality(S) = Cardinality(T) /\ {s[i].n : i \in S} = {u[i].n : i \in T}

LEMMA Agree ==
    ASSUME NEW S, NEW s, NEW T, NEW u, NEW n, Exactly(S, s, n), Exactly(T, u, n)
    PROVE  SameOf(S, s, T, u)
<1>1. CASE n > 0
  <2>1. PICK i : S = {i} /\ s[i].n = n
    BY <1>1 DEF Exactly
  <2>2. PICK j : T = {j} /\ u[j].n = n
    BY <1>1 DEF Exactly
  <2>3. Cardinality({i}) = 1 /\ Cardinality({j}) = 1
    BY FS_Singleton
  <2>4. {s[p].n : p \in S} = {n} /\ {u[p].n : p \in T} = {n}
    BY <2>1, <2>2
  <2> QED
    BY <2>1, <2>2, <2>3, <2>4 DEF SameOf
<1>2. CASE ~(n > 0)
  BY <1>2 DEF Exactly, SameOf
<1> QED
  BY <1>1, <1>2

ShownOf(list, k, now) == {n \in DOMAIN list : list[n].attempt = now /\ list[n].kind = k}

LEMMA ShownAre ==
    ASSUME NEW view, NEW now \in Nat, NEW t \in Nat, NEW x \in Nat, Views(view, t, x, now)
    PROVE  /\ Exactly(ShownOf(view.list, "thinking", now), view.list, t)
           /\ Exactly(ShownOf(view.list, "text", now), view.list, x)
<1> DEFINE list == view.list
           map == view.map
           c == Count(t, x)
           i == Index(t)
<1>1. /\ \A j \in 0..(c - 1) : map[j] \in DOMAIN list
      /\ \A n \in DOMAIN list : list[n].attempt = now => \E j \in 0..(c - 1) : map[j] = n
  BY DEF Views, MapsTo
<1>2. /\ t > 0 => 0 \in 0..(c - 1) /\ i = 1
      /\ x > 0 => i \in 0..(c - 1)
      /\ \A j \in 0..(c - 1) : (j = 0 /\ t > 0) \/ (j = i /\ x > 0)
  BY DEF Count, Index
<1>3. t > 0 => /\ list[map[0]].kind = "thinking" /\ list[map[0]].n = t
               /\ list[map[0]].attempt = now
  BY SaidIs DEF Views
<1>4. x > 0 => /\ list[map[i]].kind = "text" /\ list[map[i]].n = x
               /\ list[map[i]].attempt = now
  BY SaidIs DEF Views
<1> HIDE DEF list, map, c, i
<1>5. \A n \in DOMAIN list : list[n].attempt = now =>
         \/ t > 0 /\ n = map[0] /\ list[n].kind = "thinking"
         \/ x > 0 /\ n = map[i] /\ list[n].kind = "text"
  BY <1>1, <1>2, <1>3, <1>4
<1>6. Exactly(ShownOf(list, "thinking", now), list, t)
  <2>1. CASE t > 0
    <3>1. ShownOf(list, "thinking", now) = {map[0]}
      BY <1>1, <1>2, <1>3, <1>5, <2>1 DEF ShownOf
    <3> QED
      BY <1>3, <2>1, <3>1 DEF Exactly
  <2>2. CASE ~(t > 0)
    <3>1. ShownOf(list, "thinking", now) = {}
      BY <1>5, <2>2 DEF ShownOf
    <3> QED
      BY <2>2, <3>1 DEF Exactly
  <2> QED
    BY <2>1, <2>2
<1>7. Exactly(ShownOf(list, "text", now), list, x)
  <2>1. CASE x > 0
    <3>1. ShownOf(list, "text", now) = {map[i]}
      BY <1>1, <1>2, <1>4, <1>5, <2>1 DEF ShownOf
    <3> QED
      BY <1>4, <2>1, <3>1 DEF Exactly
  <2>2. CASE ~(x > 0)
    <3>1. ShownOf(list, "text", now) = {}
      BY <1>5, <2>2 DEF ShownOf
    <3> QED
      BY <2>2, <3>1 DEF Exactly
  <2> QED
    BY <2>1, <2>2
<1> QED
  BY <1>6, <1>7 DEF list

KindsOf(blocks, k) == {n \in DOMAIN blocks : blocks[n].kind = k}

LEMMA SentHas ==
    ASSUME NEW k \in {"thinking", "text"}, NEW n \in Nat
    PROVE  /\ Sent(k, n) \in Seq(Block) /\ Len(Sent(k, n)) = Index(n)
           /\ n > 0 => Sent(k, n)[1] = Told(k, n)
<1> DEFINE none == <<>>
           one == Told(k, n)
<1>1. none \in Seq(Block)
  OBVIOUS
<1>2. Sent(k, n) \in Seq(Block) /\ Len(Sent(k, n)) = IF n = 0 THEN 0 ELSE 1
  BY <1>1, SentIs
<1>3. n > 0 => Sent(k, n) = <<one>>
  BY DEF Sent, OnlyIf, Told
<1> HIDE DEF one
<1>4. n > 0 => Sent(k, n)[1] = one
  BY <1>3
<1> QED
  BY <1>2, <1>4 DEF Index, one

LEMMA SpeechHas ==
    ASSUME NEW t \in Nat, NEW x \in Nat
    PROVE  /\ Speech(t, x) \in Seq(Block) /\ Len(Speech(t, x)) = Count(t, x)
           /\ t > 0 => Speech(t, x)[1] = Told("thinking", t)
           /\ x > 0 => Speech(t, x)[Index(t) + 1] = Told("text", x)
<1> DEFINE first == Sent("thinking", t)
           second == Sent("text", x)
           both == first \o second
<1>1. first \in Seq(Block) /\ Len(first) = Index(t) /\ (t > 0 => first[1] = Told("thinking", t))
  BY SentHas
<1>2. second \in Seq(Block) /\ Len(second) = Index(x) /\ (x > 0 => second[1] = Told("text", x))
  BY SentHas
<1> HIDE DEF first, second
<1>3. /\ both \in Seq(Block) /\ Len(both) = Len(first) + Len(second)
      /\ \A i \in 1..(Len(first) + Len(second)) :
            both[i] = IF i <= Len(first) THEN first[i] ELSE second[i - Len(first)]
  BY <1>1, <1>2, ConcatProperties
<1>4. Speech(t, x) = both
  BY DEF Speech, first, second
<1> HIDE DEF both
<1>5. t > 0 => both[1] = first[1]
  BY <1>1, <1>2, <1>3 DEF Index
<1>6. x > 0 => both[Index(t) + 1] = second[1]
  BY <1>1, <1>2, <1>3 DEF Index
<1> QED
  BY <1>1, <1>2, <1>3, <1>4, <1>5, <1>6 DEF Count

\* The blocks of an answer: one of thinking and one of text, where there is any
LEMMA AnswerHas ==
    ASSUME NEW t \in Nat, NEW x \in Nat, NEW counts \in [Tools -> Nat], NEW k \in 0..MaxTools,
           Calls(counts, k) \in Seq(Block)
    PROVE  /\ Exactly(KindsOf(Speech(t, x) \o Calls(counts, k), "thinking"),
                      Speech(t, x) \o Calls(counts, k), t)
           /\ Exactly(KindsOf(Speech(t, x) \o Calls(counts, k), "text"),
                      Speech(t, x) \o Calls(counts, k), x)
<1> DEFINE speech == Speech(t, x)
           calls == Calls(counts, k)
           all == speech \o calls
           c == Count(t, x)
           i == Index(t)
<1>0. k \in Nat
  BY StreamAssumption
<1>1. /\ speech \in Seq(Block) /\ Len(speech) = c
      /\ t > 0 => speech[1] = Told("thinking", t)
      /\ x > 0 => speech[i + 1] = Told("text", x)
  BY SpeechHas
<1>2. /\ calls \in Seq(Block) /\ DOMAIN calls = 1..k /\ Len(calls) = k
      /\ \A n \in 1..k : calls[n].kind = "tool"
  BY <1>0 DEF Calls, Told
<1> HIDE DEF speech, calls
<1>3. /\ all \in Seq(Block) /\ Len(all) = Len(speech) + Len(calls)
      /\ \A n \in 1..(Len(speech) + Len(calls)) :
            all[n] = IF n <= Len(speech) THEN speech[n] ELSE calls[n - Len(speech)]
  BY <1>1, <1>2, ConcatProperties
<1> HIDE DEF all
<1>4. c \in Nat /\ DOMAIN all = 1..(c + k)
      /\ \A n \in 1..(c + k) : all[n] = IF n <= c THEN speech[n] ELSE calls[n - c]
  BY <1>0, <1>1, <1>2, <1>3 DEF Count, Index
<1>5. /\ t > 0 => 1 \in 1..c /\ i = 1
      /\ x > 0 => i + 1 \in 1..c
      /\ \A n \in 1..c : (n = 1 /\ t > 0) \/ (n = i + 1 /\ x > 0)
  BY DEF Count, Index
<1>6. t > 0 => all[1].kind = "thinking" /\ all[1].n = t /\ 1 \in DOMAIN all
  BY <1>0, <1>1, <1>4, <1>5 DEF Told
<1>7. x > 0 => all[i + 1].kind = "text" /\ all[i + 1].n = x /\ i + 1 \in DOMAIN all
  <2>1. x > 0 => i + 1 \in 1..(c + k) /\ i + 1 <= c
    BY <1>0, <1>4, <1>5
  <2> HIDE DEF c, i
  <2> QED
    BY <1>1, <1>4, <2>1 DEF Told
<1>8. ASSUME NEW n \in DOMAIN all
      PROVE  \/ t > 0 /\ n = 1 /\ all[n].kind = "thinking"
             \/ x > 0 /\ n = i + 1 /\ all[n].kind = "text"
             \/ all[n].kind = "tool"
  <2>1. CASE n <= c
    <3>1. n \in 1..c
      BY <1>4, <2>1
    <3> QED
      BY <1>5, <1>6, <1>7, <3>1
  <2>2. CASE ~(n <= c)
    <3>1. n - c \in 1..k
      BY <1>0, <1>4, <2>2
    <3> QED
      BY <1>2, <1>4, <2>2, <3>1
  <2> QED
    BY <2>1, <2>2
<1> HIDE DEF c, i
<1>9. Exactly(KindsOf(all, "thinking"), all, t)
  <2>1. CASE t > 0
    <3>1. KindsOf(all, "thinking") = {1}
      BY <1>6, <1>8, <2>1 DEF KindsOf
    <3> QED
      BY <1>6, <2>1, <3>1 DEF Exactly
  <2>2. CASE ~(t > 0)
    <3>1. KindsOf(all, "thinking") = {}
      BY <1>8, <2>2 DEF KindsOf
    <3> QED
      BY <2>2, <3>1 DEF Exactly
  <2> QED
    BY <2>1, <2>2
<1>10. Exactly(KindsOf(all, "text"), all, x)
  <2>1. CASE x > 0
    <3>1. KindsOf(all, "text") = {i + 1}
      BY <1>7, <1>8, <2>1 DEF KindsOf
    <3> QED
      BY <1>7, <2>1, <3>1 DEF Exactly
  <2>2. CASE ~(x > 0)
    <3>1. KindsOf(all, "text") = {}
      BY <1>8, <2>2 DEF KindsOf
    <3> QED
      BY <2>2, <3>1 DEF Exactly
  <2> QED
    BY <2>1, <2>2
<1> QED
  BY <1>9, <1>10 DEF all, speech, calls

-----------------------------------------------------------------------------
(* The invariant: each step of a request keeps it *)

View == [list |-> shown, map |-> stream_map]

Counted == sent.thinking \in Nat /\ sent.text \in Nat /\ sent.tool \in [Tools -> Nat]

\* The source and the accumulator have what was sent, the first k tools' inputs buffered.
Built(k) ==
    /\ Tracks(source, sent.thinking, sent.text, sent.tool, k)
    /\ acc = Gathered(source, sent.thinking, sent.text, sent.tool, k, acc.updates)

StreamInv ==
    /\ attempt \in Nat /\ Counted
    /\ phase \in {"requesting", "reading", "waiting", "done"}
    /\ phase = "reading" => /\ \E k \in 0..MaxTools : Built(k)
                            /\ Views(View, sent.thinking, sent.text, attempt)
    /\ phase \in {"requesting", "waiting"} => Views(View, 0, 0, attempt)
    /\ outcome = "ok" => phase = "done" /\ AnswerIsWhatWasSent

\* Only the list and the map of a view count.
LEMMA ViewsOf ==
    ASSUME NEW view, NEW t, NEW x, NEW now, Views(view, t, x, now),
           NEW list, NEW map, list = view.list, map = view.map
    PROVE  Views([list |-> list, map |-> map], t, x, now)
BY DEF Views, MapsTo

LEMMA FreshViews ==
    ASSUME NEW list, NEW now \in Nat, list \in Seq(SaidMessages(now)),
           \A n \in DOMAIN list : list[n].attempt # now
    PROVE  Views([list |-> list, map |-> <<>>], 0, 0, now)
<1>1. Count(0, 0) = 0 /\ ~(0 > 0) /\ 0..(0 - 1) = {}
  BY DEF Count, Index
<1> DEFINE none == <<>>
<1>2. DOMAIN none = {}
  OBVIOUS
<1> HIDE DEF none
<1>3. MapsTo([list |-> list, map |-> none], now, 0)
  BY <1>1, <1>2 DEF MapsTo
<1>4. Views([list |-> list, map |-> none], 0, 0, now)
  BY <1>1, <1>3 DEF Views
<1> QED
  BY <1>4 DEF none

\* A new attempt's messages are not those of the last.
LEMMA ViewsNext ==
    ASSUME NEW list, NEW map, NEW t, NEW x, NEW now \in Nat,
           Views([list |-> list, map |-> map], t, x, now)
    PROVE  Views([list |-> list, map |-> <<>>], 0, 0, now + 1)
<1>1. list \in Seq(SaidMessages(now))
  BY DEF Views, MapsTo
<1>2. \A m \in SaidMessages(now) : m \in SaidMessages(now + 1) /\ m.attempt # now + 1
  BY DEF SaidMessages
<1>3. /\ Len(list) \in Nat /\ DOMAIN list = 1..Len(list)
      /\ \A n \in 1..Len(list) : list[n] \in SaidMessages(now)
      /\ list = [n \in 1..Len(list) |-> list[n]]
  BY <1>1
<1>4. list \in Seq(SaidMessages(now + 1)) /\ \A n \in DOMAIN list : list[n].attempt # now + 1
  <2>1. \A n \in 1..Len(list) : list[n] \in SaidMessages(now + 1)
    BY <1>2, <1>3
  <2>2. list \in Seq(SaidMessages(now + 1))
    <3> DEFINE L == Len(list)
    <3>1. L \in Nat /\ list \in [1..L -> SaidMessages(now + 1)]
      BY <1>3, <2>1
    <3> HIDE DEF L
    <3> QED
      BY <3>1, SeqDef
  <2> QED
    BY <1>2, <1>3, <2>2
<1> QED
  BY <1>4, FreshViews

\* The state in which a stream is opened
LEMMA NothingGathered ==
    /\ Tracks(NoSource, 0, 0, NoSent.tool, 0)
    /\ NoAcc = Gathered(NoSource, 0, 0, NoSent.tool, 0, <<>>)
    /\ NoSent.tool \in [Tools -> Nat] /\ NoSent.thinking = 0 /\ NoSent.text = 0
<1> DEFINE zeros == [i \in Tools |-> 0]
           none == <<>>
<1>1. NoSent.tool = zeros /\ NoSent.thinking = 0 /\ NoSent.text = 0 /\ zeros \in [Tools -> Nat]
  BY DEF NoSent
<1>2. Tools \subseteq Nat
  BY StreamAssumption DEF Tools
<1>3. HasSaid(NoSource, 0, 0)
  BY DEF NoSource, HasSaid, Sources
<1>4. Tracks(NoSource, 0, 0, zeros, 0)
  <2>1. \A i \in Tools : i < 0 <=> zeros[i] > 0
    BY <1>2
  <2>2. NoSource.tools = {started(NoSource) + i : i \in 0..(0 - 1)}
    <3>1. 0..(0 - 1) = {}
      OBVIOUS
    <3> QED
      BY <3>1 DEF NoSource
  <2> QED
    BY <1>3, <2>1, <2>2 DEF Tracks
<1>5. Speech(0, 0) \o ToolsSoFar(0) = none
  <2>1. Speech(0, 0) = none \o Sent("thinking", 0) /\ Speech(0, 0) \in Seq(Block)
    BY SpeechIs
  <2>2. Sent("thinking", 0) = none
    BY DEF Sent, OnlyIf
  <2>3. none \o none = none
    OBVIOUS
  <2>4. Speech(0, 0) \o ToolsSoFar(0) = Speech(0, 0)
    BY <2>1, NoToolsSoFar
  <2> HIDE DEF none
  <2> QED
    BY <2>1, <2>2, <2>3, <2>4
<1>6. Inputs(started(NoSource), zeros, 0) = none
  <2>1. started(NoSource) \in Nat
    BY DEF started, NoSource
  <2> HIDE DEF zeros
  <2> QED
    BY <2>1, NoInputs
<1>7. NoAcc = Gathered(NoSource, 0, 0, zeros, 0, none)
  <2>1. NoAcc = Holding(none, none, none)
    BY UnfailedIs DEF NoAcc, Holding
  <2> HIDE DEF zeros, none
  <2> QED
    BY <1>5, <1>6, <2>1 DEF Gathered
<1> HIDE DEF zeros
<1> QED
  BY <1>1, <1>4, <1>7

LEMMA StreamBegins ==
    ASSUME StreamInit
    PROVE  StreamInv
<1>1. attempt \in Nat /\ phase = "requesting" /\ outcome = "none" /\ sent = NoSent
      /\ shown = <<>> /\ stream_map = <<>>
  BY DEF StreamInit
<1>2. Counted
  BY <1>1, NothingGathered DEF Counted
<1>3. Views(View, 0, 0, attempt)
  <2> DEFINE list == <<>>
  <2>1. list \in Seq(SaidMessages(attempt)) /\ \A n \in DOMAIN list : list[n].attempt # attempt
    OBVIOUS
  <2> HIDE DEF list
  <2>2. Views([list |-> list, map |-> <<>>], 0, 0, attempt)
    BY <1>1, <2>1, FreshViews
  <2> QED
    BY <1>1, <2>2 DEF View, list
<1> QED
  BY <1>1, <1>2, <1>3 DEF StreamInv

LEMMA RequestEndKeeps ==
    ASSUME StreamInv, NEW opened \in BOOLEAN, RequestEnds(opened)
    PROVE  StreamInv'
<1>1. /\ phase = "requesting" /\ outcome # "ok" /\ Views(View, 0, 0, attempt) /\ attempt \in Nat
      /\ sent' = NoSent /\ source' = NoSource /\ acc' = NoAcc
      /\ attempt' = attempt /\ shown' = shown /\ stream_map' = stream_map
      /\ \/ phase' = "reading" /\ outcome' = outcome
         \/ phase' = "done" /\ outcome' = "failed"
  BY DEF StreamInv, RequestEnds, StreamIsOver
<1>2. Counted' /\ sent'.thinking = 0 /\ sent'.text = 0
  BY <1>1, NothingGathered DEF Counted
<1>3. View' = View
  BY <1>1 DEF View
<1>4. Views(View', sent'.thinking, sent'.text, attempt')
  BY <1>1, <1>2, <1>3
<1>5. \E k \in 0..MaxTools : Built(k)'
  <2>1. Tracks(source', sent'.thinking, sent'.text, sent'.tool, 0)
    BY <1>1, <1>2, NothingGathered
  <2>2. acc'.updates = <<>>
    BY <1>1 DEF NoAcc
  <2>3. acc' = Gathered(source', sent'.thinking, sent'.text, sent'.tool, 0, acc'.updates)
    <3> DEFINE none == <<>>
    <3>1. NoAcc = Gathered(NoSource, 0, 0, NoSent.tool, 0, none)
      BY NothingGathered
    <3>2. acc'.updates = none
      BY <2>2
    <3> HIDE DEF none
    <3> QED
      BY <1>1, <1>2, <3>1, <3>2
  <2>4. 0 \in 0..MaxTools
    BY StreamAssumption
  <2> QED
    BY <2>1, <2>3, <2>4 DEF Built
<1> QED
  BY <1>1, <1>2, <1>4, <1>5 DEF StreamInv

\* The actions that leave what was sent and shown alone
LEMMA QuietStepKeeps ==
    ASSUME StreamInv, outcome # "ok", outcome' # "ok",
           UNCHANGED <<attempt, sent, source, acc, shown, stream_map>>,
           \/ phase' = phase
           \/ phase = "waiting" /\ phase' = "requesting"
           \/ phase' = "done"
    PROVE  StreamInv'
<1>1. View' = View
  BY DEF View
<1>2. phase = "reading" => \E k \in 0..MaxTools : Built(k)'
  BY DEF StreamInv, Built
<1> QED
  BY <1>1, <1>2 DEF StreamInv, Counted

LEMMA BreakKeeps ==
    ASSUME StreamInv, StreamBreaks
    PROVE  StreamInv'
<1>1. phase = "reading" /\ outcome # "ok" /\ attempt \in Nat
  BY DEF StreamInv, StreamBreaks
<1>2. CASE attempt < RetryMaxAttempts
  <2>1. /\ attempt' = attempt + 1 /\ phase' = "waiting" /\ outcome' = outcome
        /\ sent' = sent /\ shown' = shown /\ stream_map' = <<>>
    BY <1>2 DEF StreamBreaks, reset_stream
  <2>2. Views([list |-> shown, map |-> stream_map], sent.thinking, sent.text, attempt)
    BY <1>1 DEF StreamInv, View
  <2>3. Views([list |-> shown, map |-> <<>>], 0, 0, attempt + 1)
    BY <1>1, <2>2, ViewsNext
  <2>4. Views(View', 0, 0, attempt')
    BY <2>1, <2>3 DEF View
  <2>5. Counted' /\ attempt' \in Nat
    BY <1>1, <2>1 DEF StreamInv, Counted
  <2> QED
    BY <1>1, <2>1, <2>4, <2>5 DEF StreamInv
<1>3. CASE ~(attempt < RetryMaxAttempts)
  <2>1. /\ phase' = "done" /\ outcome' = "failed"
        /\ UNCHANGED <<attempt, sent, source, acc, shown, stream_map>>
    BY <1>3 DEF StreamBreaks, StreamIsOver
  <2> QED
    BY <1>1, <2>1, QuietStepKeeps
<1> QED
  BY <1>2, <1>3

\* Where the text goes, after the thinking of a chunk
LEMMA TextIndexIs ==
    ASSUME NEW s, NEW c, NEW t \in Nat, NEW x \in Nat, HasSaid(s, t, x), c.thinking \in BOOLEAN
    PROVE  text_index(AfterThinking(s, c)) = Index(MoreBy(t, c.thinking))
BY DEF HasSaid, Sources, AfterThinking, text_index, Index, MoreBy

LEMMA UpdatesForgotten ==
    ASSUME NEW blocks, NEW inputs, NEW updates, NEW none
    PROVE  [Holding(blocks, inputs, updates) EXCEPT !.updates = none]
             = Holding(blocks, inputs, none)
BY DEF Holding

\* Begin the fold over a chunk from what was gathered before.
LEMMA AccumulateIs ==
    ASSUME NEW k, Built(k), NEW events, NEW whole
    PROVE  Accumulate(events, whole)
             = Accumulated(Gathered(source, sent.thinking, sent.text, sent.tool, k, <<>>),
                           events, whole)
<1> DEFINE blocks == Speech(sent.thinking, sent.text) \o ToolsSoFar(k)
           inputs == Inputs(started(source), sent.tool, k)
           none == <<>>
<1>1. acc = Holding(blocks, inputs, acc.updates)
  BY DEF Built, Gathered
<1> HIDE DEF blocks, inputs, none
<1>2. [acc EXCEPT !.updates = none] = Holding(blocks, inputs, none)
  <2> DEFINE old == acc.updates
  <2>1. [Holding(blocks, inputs, old) EXCEPT !.updates = none] = Holding(blocks, inputs, none)
    BY UpdatesForgotten
  <2> HIDE DEF old
  <2>2. acc = Holding(blocks, inputs, old)
    BY <1>1 DEF old
  <2> QED
    BY <2>1, <2>2
<1>3. Accumulate(events, whole) = Accumulated([acc EXCEPT !.updates = none], events, whole)
  BY DEF Accumulate, none
<1> QED
  BY <1>2, <1>3 DEF blocks, inputs, none, Gathered

\* The chat's view after a chunk has what the chunk said.
LEMMA ChunkIsShown ==
    ASSUME NEW view, NEW t \in Nat, NEW x \in Nat, attempt \in Nat, Views(view, t, x, attempt),
           NEW a \in BOOLEAN, NEW b \in BOOLEAN, a => x = 0, NEW u, u = Update(0, "thinking"),
           NEW v, v = Update(Index(MoreBy(t, a)), "text")
    PROVE  Views(WithUpdates(view, Heard(Heard(<<>>, a, u), b, v)), MoreBy(t, a), MoreBy(x, b),
                 attempt)
<1> DEFINE middle == After(view, a, u)
           now == attempt
<1>1. Views(middle, MoreBy(t, a), x, now)
  <2>1. CASE a
    <3>1. x = 0 /\ MoreBy(t, a) = t + 1 /\ middle = append_stream_text(view, u)
      BY <2>1 DEF MoreBy, After
    <3>2. Views(append_stream_text(view, Update(0, "thinking")), t + 1, 0, now)
      BY <3>1, ThinkingShown
    <3> QED
      BY <3>1, <3>2
  <2>2. CASE ~a
    BY <2>2 DEF MoreBy, After
  <2> QED
    BY <2>1, <2>2
<1>2. MoreBy(t, a) \in Nat
  BY DEF MoreBy
<1> HIDE DEF middle
<1>3. Views(After(middle, b, v), MoreBy(t, a), MoreBy(x, b), now)
  <2>1. CASE b
    <3>1. MoreBy(x, b) = x + 1 /\ After(middle, b, v) = append_stream_text(middle, v)
      BY <2>1 DEF MoreBy, After
    <3> DEFINE t2 == MoreBy(t, a)
    <3>2. t2 \in Nat /\ Views(middle, t2, x, now)
      BY <1>1, <1>2
    <3> HIDE DEF t2
    <3>3. Views(append_stream_text(middle, Update(Index(t2), "text")), t2, x + 1, now)
      BY <3>2, TextShown
    <3> QED
      BY <3>1, <3>3 DEF t2
  <2>2. CASE ~b
    BY <1>1, <2>2 DEF MoreBy, After
  <2> QED
    BY <2>1, <2>2
<1>4. WithUpdates(view, Heard(Heard(<<>>, a, u), b, v)) = After(middle, b, v)
  <2>1. HeardIs(view, a, b, u, v)
    BY HeardIsShown
  <2> QED
    BY <2>1 DEF HeardIs, middle
<1> QED
  BY <1>3, <1>4

LEMMA ChunkKeeps ==
    ASSUME OrderedKinds, StreamInv, NEW c \in Chunk, ChunkArrives(c)
    PROVE  StreamInv'
<1> DEFINE t == sent.thinking
           x == sent.text
           counts == sent.tool
           t2 == MoreBy(t, c.thinking)
           x2 == MoreBy(x, c.text)
           counts2 == CountsAfter(counts, c)
           u == Update(0, "thinking")
           v == Update(text_index(AfterThinking(source, c)), "text")
           heard == Heard(Heard(<<>>, c.thinking, u), c.text, v)
           new == AfterChunk(source, c)
<1>1. /\ attempt \in Nat /\ t \in Nat /\ x \in Nat /\ counts \in [Tools -> Nat]
      /\ phase = "reading" /\ outcome # "ok" /\ Views(View, t, x, attempt)
      /\ c.thinking \in BOOLEAN /\ c.text \in BOOLEAN /\ c.tools \in SUBSET Tools
  BY DEF StreamInv, Counted, ChunkArrives, Chunk
<1>2. PICK k \in 0..MaxTools : Built(k)
  BY <1>1 DEF StreamInv
<1>3. /\ InOrder(c) /\ source' = new
      /\ acc' = Accumulate(ChunkEvents(source, c), FALSE)
      /\ Show(acc'.updates)
      /\ phase' = phase /\ attempt' = attempt /\ outcome' = outcome
      /\ sent' = [thinking |-> t + (IF c.thinking THEN 1 ELSE 0),
                  text |-> x + (IF c.text THEN 1 ELSE 0),
                  tool |-> [i \in Tools |-> counts[i] + (IF i \in c.tools THEN 1 ELSE 0)]]
  BY DEF ChunkArrives
<1>4. /\ sent'.thinking = t2 /\ sent'.text = x2 /\ sent'.tool = counts2
      /\ t2 \in Nat /\ x2 \in Nat /\ counts2 \in [Tools -> Nat]
  <2>1. sent'.thinking = t2 /\ sent'.text = x2 /\ sent'.tool = counts2
    BY <1>3 DEF MoreBy, CountsAfter
  <2>2. \A i \in Tools : MoreBy(counts[i], i \in c.tools) \in Nat
    BY <1>1 DEF MoreBy
  <2>3. counts2 \in [Tools -> Nat]
    BY <2>2 DEF CountsAfter
  <2>4. t2 \in Nat /\ x2 \in Nat
    BY <1>1 DEF MoreBy
  <2> QED
    BY <2>1, <2>3, <2>4
<1>5. Tracks(source, t, x, counts, k) /\ HasSaid(source, t, x)
  BY <1>2 DEF Built, Tracks
<1>6. Ordered(c, x, counts, k)
  <2>1. c.thinking => source.text = "no" /\ source.tools = {}
    BY <1>3 DEF InOrder
  <2>2. c.text => source.tools = {}
    BY <1>3 DEF InOrder
  <2>3. source.tools = {} => k = 0
    <3>1. k # 0 => 0 \in 0..(k - 1)
      BY StreamAssumption
    <3>2. source.tools = {started(source) + i : i \in 0..(k - 1)}
      BY <1>5 DEF Tracks
    <3> QED
      BY <3>1, <3>2
  <2>4. source.text = "no" => x = 0
    BY <1>5 DEF HasSaid
  <2>5. \A j \in c.tools : \A i \in Tools : i < j => i \in c.tools \/ counts[i] > 0
    BY <1>3 DEF InOrder
  <2> QED
    BY <2>1, <2>2, <2>3, <2>4, <2>5 DEF Ordered
<1>7. PICK m \in 0..MaxTools : ChunkIsGathered(source, c, t, x, counts, k, m, FALSE)
  <2> DEFINE s == source
  <2> HIDE DEF t, x, counts, s
  <2>1. Tracks(s, t, x, counts, k)
    BY <1>5 DEF s
  <2>2. \E m \in 0..MaxTools : ChunkIsGathered(s, c, t, x, counts, k, m, FALSE)
    BY <1>1, <1>6, <2>1, ChunkAccumulated
  <2> QED
    BY <2>2 DEF s
<1>8. acc' = Gathered(new, t2, x2, counts2, m, heard) /\ Tracks(new, t2, x2, counts2, m)
  <2> DEFINE events == ChunkEvents(source, c)
             a0 == Gathered(source, t, x, counts, k, <<>>)
  <2>1. acc' = Accumulated(a0, events, FALSE)
    <3> HIDE DEF events
    <3>1. Accumulate(events, FALSE) = Accumulated(a0, events, FALSE)
      BY <1>2, AccumulateIs
    <3>2. acc' = Accumulate(events, FALSE)
      BY <1>3 DEF events
    <3> HIDE DEF a0
    <3> QED
      BY <3>1, <3>2
  <2>2. /\ Accumulated(a0, events, FALSE) = Gathered(new, t2, x2, counts2, m, heard)
        /\ Tracks(new, t2, x2, counts2, m)
    BY <1>7 DEF ChunkIsGathered
  <2> HIDE DEF a0, events, new, t2, x2, counts2, heard
  <2> QED
    BY <2>1, <2>2
<1>9. acc'.updates = heard
  <2> HIDE DEF new, t2, x2, counts2, heard
  <2> QED
    BY <1>8 DEF Gathered, Holding
<1>10. Views(WithUpdates(View, heard), t2, x2, attempt)
  <2>1. v = Update(Index(t2), "text")
    <3>1. text_index(AfterThinking(source, c)) = Index(t2)
      <4> HIDE DEF t, x
      <4> QED
        BY <1>1, <1>5, TextIndexIs
    <3> HIDE DEF t2
    <3> QED
      BY <3>1
  <2>2. c.thinking => x = 0
    BY <1>6 DEF Ordered
  <2>3. u = Update(0, "thinking")
    OBVIOUS
  <2> HIDE DEF u, v, t, x
  <2> QED
    BY <1>1, <2>1, <2>2, <2>3, ChunkIsShown
<1>11. Views(View', sent'.thinking, sent'.text, attempt')
  <2> DEFINE view == WithUpdates(View, heard)
  <2>1. shown' = view.list /\ stream_map' = view.map
    <3>1. shown' = WithUpdates(View, acc'.updates).list
          /\ stream_map' = WithUpdates(View, acc'.updates).map
      BY <1>3 DEF Show, View
    <3> HIDE DEF heard
    <3> QED
      BY <1>9, <3>1
  <2> HIDE DEF view, t2, x2
  <2>2. Views([list |-> shown', map |-> stream_map'], t2, x2, attempt)
    BY <1>10, <2>1, ViewsOf DEF view
  <2> QED
    BY <1>3, <1>4, <2>2 DEF View
<1>12. Built(m)'
  <2> HIDE DEF new, t2, x2, counts2, heard
  <2> QED
    BY <1>3, <1>4, <1>8, <1>9 DEF Built
<1>13. Counted' /\ attempt' \in Nat
  BY <1>1, <1>3, <1>4 DEF Counted
<1> QED
  BY <1>1, <1>3, <1>11, <1>12, <1>13 DEF StreamInv

\* What is stored when the stream ended is what was sent, and what is shown.
RightAnswer(blocks, t, x, counts, list, now) ==
    /\ blocks = Sent("thinking", t) \o Sent("text", x)
                \o FlattenSeq([n \in 1..MaxTools |-> Sent("tool", counts[n - 1])])
    /\ \A kind \in {"thinking", "text"} :
          /\ Cardinality(ShownOf(list, kind, now)) = Cardinality(KindsOf(blocks, kind))
          /\ {list[n].n : n \in ShownOf(list, kind, now)}
               = {blocks[n].n : n \in KindsOf(blocks, kind)}

LEMMA AnswerIsRight ==
    ASSUME NEW t \in Nat, NEW x \in Nat, NEW counts \in [Tools -> Nat], NEW now \in Nat,
           NEW k \in 0..MaxTools, \A i \in Tools : i < k <=> counts[i] > 0,
           NEW view, Views(view, t, x, now), NEW list, list = view.list,
           NEW blocks, blocks = Speech(t, x) \o Calls(counts, k)
    PROVE  RightAnswer(blocks, t, x, counts, list, now)
<1>1. /\ FlattenSeq([n \in 1..MaxTools |-> Sent("tool", counts[n - 1])]) = Calls(counts, k)
      /\ Calls(counts, k) \in Seq(Block)
  BY CallsAreSent
<1>2. blocks = Sent("thinking", t) \o Sent("text", x)
                 \o FlattenSeq([n \in 1..MaxTools |-> Sent("tool", counts[n - 1])])
  BY <1>1 DEF Speech
<1>3. /\ Exactly(ShownOf(list, "thinking", now), list, t)
      /\ Exactly(ShownOf(list, "text", now), list, x)
  BY ShownAre
<1>4. /\ Exactly(KindsOf(blocks, "thinking"), blocks, t)
      /\ Exactly(KindsOf(blocks, "text"), blocks, x)
  BY <1>1, AnswerHas
<1>5. ASSUME NEW kind \in {"thinking", "text"}
      PROVE  /\ Cardinality(ShownOf(list, kind, now)) = Cardinality(KindsOf(blocks, kind))
             /\ {list[n].n : n \in ShownOf(list, kind, now)}
                  = {blocks[n].n : n \in KindsOf(blocks, kind)}
  <2> DEFINE S == ShownOf(list, kind, now)
             T == KindsOf(blocks, kind)
  <2>1. \E n : Exactly(S, list, n) /\ Exactly(T, blocks, n)
    BY <1>3, <1>4
  <2> HIDE DEF S, T
  <2>2. PICK n : Exactly(S, list, n) /\ Exactly(T, blocks, n)
    BY <2>1
  <2>3. Cardinality(S) = Cardinality(T) /\ {list[i].n : i \in S} = {blocks[i].n : i \in T}
    <3>1. SameOf(S, list, T, blocks)
      BY <2>2, Agree
    <3> QED
      BY <3>1 DEF SameOf
  <2> QED
    BY <2>3 DEF S, T
<1> QED
  BY <1>2, <1>5 DEF RightAnswer

LEMMA EndKeeps ==
    ASSUME StreamInv, NEW finished \in BOOLEAN, StreamEnds(finished)
    PROVE  StreamInv'
<1> DEFINE t == sent.thinking
           x == sent.text
           counts == sent.tool
<1>1. PICK whole \in {TRUE, finished} :
         /\ phase = "reading"
         /\ acc' = Accumulate(close_all_blocks(source), whole)
         /\ IF acc'.failed
            THEN StreamIsOver("failed") /\ UNCHANGED stored
            ELSE StreamIsOver("ok") /\ stored' = acc'.blocks
         /\ UNCHANGED <<attempt, tries, retried, cancelled, source, chunks, sent, seen, shown,
                        stream_map>>
  BY DEF StreamEnds
<1>2. /\ attempt \in Nat /\ t \in Nat /\ x \in Nat /\ counts \in [Tools -> Nat]
      /\ Counted /\ Views(View, t, x, attempt) /\ whole \in BOOLEAN
  BY <1>1 DEF StreamInv, Counted
<1>3. PICK k \in 0..MaxTools : Built(k)
  BY <1>1 DEF StreamInv
<1>4. Tracks(source, t, x, counts, k)
  BY <1>3 DEF Built
<1>5. IsAnswer(acc', t, x, counts, k)
  <2> DEFINE events == close_all_blocks(source)
             none == <<>>
             a0 == Gathered(source, t, x, counts, k, none)
             s == source
  <2>1. Accumulate(events, whole) = Accumulated(a0, events, whole)
    <3> HIDE DEF events
    <3> QED
      BY <1>3, AccumulateIs
  <2>2. IsAnswer(Accumulated(a0, events, whole), t, x, counts, k)
    <3> HIDE DEF t, x, counts, none, s
    <3>1. Tracks(s, t, x, counts, k)
      BY <1>4 DEF s
    <3>2. IsAnswer(Accumulated(Gathered(s, t, x, counts, k, none), close_all_blocks(s), whole),
                   t, x, counts, k)
      BY <1>2, <3>1, CloseAccumulated
    <3> QED
      BY <3>2 DEF s
  <2> HIDE DEF a0, t, x, counts
  <2> QED
    BY <1>1, <2>1, <2>2
<1>6. Counted' /\ attempt' \in Nat
  BY <1>1, <1>2 DEF Counted
<1>7. CASE acc'.failed = TRUE
  <2>1. acc'.failed
    BY <1>7, Zenon
  <2>2. phase' = "done" /\ outcome' = "failed"
    BY <1>1, <2>1 DEF StreamIsOver
  <2> QED
    BY <1>6, <2>2 DEF StreamInv
<1>8. CASE acc'.failed = Unfailed /\ acc'.blocks = Speech(t, x) \o Calls(counts, k)
  <2>1. ~acc'.failed
    BY <1>8, UnfailedIs, Zenon
  <2>2. phase' = "done" /\ outcome' = "ok" /\ stored' = acc'.blocks
    BY <1>1, <2>1 DEF StreamIsOver
  <2>3. \A i \in Tools : i < k <=> counts[i] > 0
    BY <1>4 DEF Tracks
  <2>4. RightAnswer(stored', t, x, counts, shown', attempt')
    <3> DEFINE view == View
               now == attempt
               blocks == stored'
               list == shown
    <3>1. list = view.list /\ now \in Nat /\ Views(view, t, x, now)
      BY <1>2 DEF View
    <3>2. blocks = Speech(t, x) \o Calls(counts, k)
      BY <1>8, <2>2
    <3> HIDE DEF view, now, blocks, list, t, x, counts
    <3>3. RightAnswer(blocks, t, x, counts, list, now)
      BY <1>2, <2>3, <3>1, <3>2, AnswerIsRight
    <3> QED
      BY <1>1, <3>3 DEF now, blocks, list
  <2>5. AnswerIsWhatWasSent'
    BY <1>1, <2>4 DEF RightAnswer, AnswerIsWhatWasSent, StoredIsWhatWasSent, ShownIsStored,
                      ShownInLastAttempt, BlocksOf, ShownOf, KindsOf
  <2> QED
    BY <1>6, <2>2, <2>5 DEF StreamInv
<1> QED
  BY <1>5, <1>7, <1>8 DEF IsAnswer

LEMMA StreamStep ==
    ASSUME OrderedKinds, StreamInv, [StreamNext]_streamVars
    PROVE  StreamInv'
<1>1. CASE RequestRetries
  <2>1. outcome # "ok"
    BY <1>1 DEF RequestRetries, StreamInv
  <2> QED
    BY <1>1, <2>1, QuietStepKeeps DEF RequestRetries
<1>2. CASE \E opened \in BOOLEAN : RequestEnds(opened)
  BY <1>2, RequestEndKeeps
<1>3. CASE \E c \in Chunk : ChunkArrives(c)
  BY <1>3, ChunkKeeps
<1>4. CASE \E finished \in BOOLEAN : StreamEnds(finished)
  BY <1>4, EndKeeps
<1>5. CASE StreamBreaks
  BY <1>5, BreakKeeps
<1>6. CASE WaitEnds
  <2>1. outcome # "ok"
    BY <1>6 DEF WaitEnds, StreamInv
  <2> QED
    BY <1>6, <2>1, QuietStepKeeps DEF WaitEnds
<1>7. CASE UserCancels
  <2>1. outcome # "ok"
    BY <1>7 DEF UserCancels, StreamInv
  <2> QED
    BY <1>7, <2>1, QuietStepKeeps DEF UserCancels
<1>8. CASE CancelIsSeen
  <2>1. outcome # "ok"
    BY <1>8 DEF CancelIsSeen, StreamInv
  <2> QED
    BY <1>8, <2>1, QuietStepKeeps DEF CancelIsSeen, StreamIsOver
<1>9. CASE UNCHANGED streamVars
  <2>1. StreamInv' = StreamInv
    BY <1>9 DEF streamVars, StreamInv, Counted, View, Built, AnswerIsWhatWasSent,
                StoredIsWhatWasSent, ShownIsStored, ShownInLastAttempt, BlocksOf
  <2> QED
    BY <2>1
<1> QED
  BY <1>1, <1>2, <1>3, <1>4, <1>5, <1>6, <1>7, <1>8, <1>9 DEF StreamNext

\* For a provider that sends thinking before text before tool calls, however many of them in
\* however many chunks, and however often the stream breaks: what is stored of an answer is
\* what the model sent in the last attempt, and what the chat shows of that attempt
\* (OpenAIStream::poll_next, StreamAccumulator::handle_event, append_stream_text).
THEOREM StreamCorrect == OrderedKinds => (StreamSpec => []AnswerIsWhatWasSent)
<1> SUFFICES ASSUME OrderedKinds
             PROVE  StreamSpec => []AnswerIsWhatWasSent
  OBVIOUS
<1>1. StreamInit => StreamInv
  BY StreamBegins
<1>2. StreamInv /\ [StreamNext]_streamVars => StreamInv'
  BY StreamStep
<1>3. StreamInv => AnswerIsWhatWasSent
  BY DEF StreamInv, AnswerIsWhatWasSent, StoredIsWhatWasSent, ShownIsStored
<1> QED
  BY <1>1, <1>2, <1>3, PTL DEF StreamSpec

=============================================================================
