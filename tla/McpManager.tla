------------------------------ MODULE McpManager ------------------------------
(****************************************************************************)
(* The manager of MCP servers behind its socket (src/mcp.rs): every         *)
(* connection handles one request after another; a request borrows the      *)
(* running service of its server, spawns one if there is none, and drops    *)
(* the lock on the table while it does; services nobody used for a while    *)
(* are cancelled by whoever comes next.                                     *)
(****************************************************************************)
EXTENDS Naturals, FiniteSets

CONSTANTS
    Connections, Servers,
    Services,           \* identities of spawned services
    IdleTtl,            \* idle_ttl_ms, in ticks; 0 disables the clean-up
    RequestTimeout,     \* request_timeout_ms or the request's own, in ticks; 0 for none
    MaxTicks,           \* bound: ticks of the clock
    MaxRequests,        \* bound: requests of a connection
    None                \* no server, no service

ASSUME McpAssumption ==
    /\ IdleTtl \in Nat /\ RequestTimeout \in Nat /\ MaxTicks \in Nat /\ MaxRequests \in Nat
    /\ None \notin Servers /\ None \notin Services
    /\ IsFiniteSet(Services)

VARIABLES
    clients,            \* server to its entry: service and ticks since its last use
    alive,              \* services spawned and not cancelled; one that died is still here
    of_server,          \* the server a service was spawned for (history)
    conn,               \* the request a connection handles, and how far it got
    requests,           \* requests a connection has sent
    ticks

mcpVars == <<clients, alive, of_server, conn, requests, ticks>>

NoEntry == [service |-> None, idle |-> 0]
Idle    == [at |-> "idle", server |-> None, close |-> {}, service |-> None, own |-> None,
            waited |-> 0]

McpInit ==
    /\ clients = [s \in Servers |-> NoEntry]
    /\ alive = {} /\ of_server = [v \in Services |-> None]
    /\ conn = [c \in Connections |-> Idle]
    /\ requests = [c \in Connections |-> 0] /\ ticks = 0

has_client(s) == clients[s].service # None

\* Mutant of expired: also what was used within the time allowed.
expired_too_early(s) == has_client(s) /\ clients[s].idle >= 1
expired(s)           == IdleTtl > 0 /\ has_client(s) /\ clients[s].idle > IdleTtl

\* A request for a server that is configured; the others are answered at once.
Request(c, s) ==
    /\ conn[c].at = "idle" /\ requests[c] < MaxRequests
    /\ requests' = [requests EXCEPT ![c] = @ + 1]
    /\ conn' = [conn EXCEPT ![c] = [Idle EXCEPT !.at = "cleanup", !.server = s]]
    /\ UNCHANGED <<clients, alive, of_server, ticks>>

\* cleanup_idle takes what is expired out of the table under the lock, ...
cleanup_idle(c) ==
    LET gone == {s \in Servers : expired(s)} IN
    /\ conn[c].at = "cleanup"
    /\ clients' = [s \in Servers |-> IF s \in gone THEN NoEntry ELSE clients[s]]
    /\ conn' = [conn EXCEPT ![c].at = "closing", ![c].close = {clients[s].service : s \in gone}]
    /\ UNCHANGED <<alive, of_server, requests, ticks>>

\* ... and cancels the services one after another when it has released it.
CloseOne(c) ==
    \E v \in conn[c].close :
       /\ alive' = alive \ {v}
       /\ conn' = [conn EXCEPT ![c].close = @ \ {v}]
       /\ UNCHANGED <<clients, of_server, requests, ticks>>

Call(c, v) == conn' = [conn EXCEPT ![c].at = "calling", ![c].service = v, ![c].own = None]

touch(s) == clients' = [clients EXCEPT ![s].idle = 0]

get_peer(c) ==
    /\ conn[c].at = "closing" /\ conn[c].close = {}
    /\ IF has_client(conn[c].server)
       THEN touch(conn[c].server) /\ Call(c, clients[conn[c].server].service)
       ELSE conn' = [conn EXCEPT ![c].at = "spawning"] /\ UNCHANGED clients
    /\ UNCHANGED <<alive, of_server, requests, ticks>>

SpawnFails(c) ==
    /\ conn[c].at = "spawning"
    /\ conn' = [conn EXCEPT ![c] = Idle]
    /\ UNCHANGED <<clients, alive, of_server, requests, ticks>>

spawn_service(c) ==
    /\ conn[c].at = "spawning"
    /\ \E v \in Services :
          /\ of_server[v] = None
          /\ of_server' = [of_server EXCEPT ![v] = conn[c].server]
          /\ alive' = alive \cup {v}
          /\ conn' = [conn EXCEPT ![c].at = "spawned", ![c].own = v]
    /\ UNCHANGED <<clients, requests, ticks>>

\* Mutant of UseOrInsert: the table is not looked at again.
InsertWithoutLooking(c) ==
    /\ clients' = [clients EXCEPT ![conn[c].server] = [service |-> conn[c].own, idle |-> 0]]
    /\ Call(c, conn[c].own)

\* Another connection may have been faster: then its service is used, and the own one
\* cancelled once the lock is released.
UseOrInsert(c) ==
    IF has_client(conn[c].server)
    THEN /\ touch(conn[c].server)
         /\ conn' = [conn EXCEPT ![c].at = "discarding",
                                 ![c].service = clients[conn[c].server].service]
    ELSE InsertWithoutLooking(c)

LookAgain(c) ==
    /\ conn[c].at = "spawned" /\ UseOrInsert(c)
    /\ UNCHANGED <<alive, of_server, requests, ticks>>

Discard(c) ==
    /\ conn[c].at = "discarding"
    /\ alive' = alive \ {conn[c].own} /\ Call(c, conn[c].service)
    /\ UNCHANGED <<clients, of_server, requests, ticks>>

\* The service answers, with a result or an error.
Answer(c) ==
    /\ conn[c].at = "calling"
    /\ conn' = [conn EXCEPT ![c] = Idle]
    /\ UNCHANGED <<clients, alive, of_server, requests, ticks>>

\* A request at its timeout is answered before more time passes.
Overdue(c) == conn[c].at = "calling" /\ RequestTimeout > 0 /\ conn[c].waited >= RequestTimeout

\* Cancelling the service just spawned takes less than a tick.
Tick ==
    /\ ticks < MaxTicks
    /\ \A c \in Connections : ~Overdue(c) /\ conn[c].at # "discarding"
    /\ ticks' = ticks + 1
    /\ clients' = [s \in Servers |-> IF has_client(s) THEN [clients[s] EXCEPT !.idle = @ + 1]
                                     ELSE clients[s]]
    /\ conn' = [c \in Connections |-> IF conn[c].at = "calling"
                                      THEN [conn[c] EXCEPT !.waited = @ + 1] ELSE conn[c]]
    /\ UNCHANGED <<alive, of_server, requests>>

McpNext ==
    \/ \E c \in Connections :
          \/ \E s \in Servers : Request(c, s)
          \/ cleanup_idle(c) \/ CloseOne(c) \/ get_peer(c) \/ spawn_service(c) \/ SpawnFails(c)
          \/ LookAgain(c) \/ Discard(c) \/ Answer(c)
    \/ Tick

McpSpec == McpInit /\ [][McpNext]_mcpVars

-----------------------------------------------------------------------------
(* Properties *)

\* No connection cancels a service another one is waiting for, as long as a request
\* may not last longer than the time after which a service counts as idle
\* (McpManager::cleanup_idle, with_timeout).
CallsKeepTheirService ==
    RequestTimeout \in 1..IdleTtl =>
       \A c \in Connections : conn[c].at \in {"calling", "discarding"} => conn[c].service \in alive

Owners(v) == Cardinality({s \in Servers : clients[s].service = v})
             + Cardinality({c \in Connections : conn[c].own = v})
             + Cardinality({c \in Connections : v \in conn[c].close})

\* Each running service has one owner that will cancel it or keep it in the table: when
\* two requests spawn a service for one server, none is left running unseen, and none is
\* cancelled twice (McpManager::get_peer).
ServicesHaveOneOwner == \A v \in Services : Owners(v) = IF v \in alive THEN 1 ELSE 0

\* Both: a call finds the service it asked for, and every service its owner.
ServicesAreKept == CallsKeepTheirService /\ ServicesHaveOneOwner
=============================================================================
