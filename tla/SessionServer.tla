---------------------------- MODULE SessionServer ----------------------------
(****************************************************************************)
(* The session server of a combo run: the `coco` client processes, the      *)
(* connection task each of them gets, the state the tasks share and the     *)
(* server task that accepts and drains them (src/combo/starter.rs,          *)
(* src/combo/session.rs, src/cmd/*.rs).                                     *)
(*                                                                          *)
(* A client is one process and one connection.  A message is its kind; the  *)
(* payload is left out.  A socket is the pair of queues inbox / response.   *)
(****************************************************************************)
EXTENDS Naturals, Sequences, FiniteSets

CONSTANTS
    Clients,    \* the coco processes that may connect during the run
    Kind,       \* Kind[c]: which coco subcommand c is
    None,       \* "no value"; not a client and not an answer
    Discovery,  \* TRUE when the starter only collects metadata
    EventCap    \* capacity of the StarterEvent channel (16 in the code)

Asks  == {"ask", "iask"}                \* iask: coco ask --interactive
Tells == {"tell", "feedback"}           \* feedback: a tell sent by the UI
Kinds == Asks \cup Tells \cup {"metadata", "record", "reply"}

Values == Clients \cup {"model", "error"}   \* what may resolve an ask
Responses == {"allow", "metadata", "response", "valid", "invalid", "interrupt"}

ASSUME KindAssumption == Kind \in [Clients -> Kinds]
ASSUME NoneAssumption == None \notin Values /\ None \notin Nat /\ None \notin Responses
ASSUME NoClientIsAWord == Clients \cap {"model", "error"} = {}
ASSUME DiscoveryAssumption == Discovery \in BOOLEAN
ASSUME EventCapAssumption == EventCap \in Nat \ {0}

VARIABLES
    client,                     \* the client processes
    inbox, response,            \* bytes written by the client / by the server
    conn,                       \* handle_session_connection, by its await
    tool_use_id,                \* id of the record a connection announced
    reply_schemas,              \* the ask whose schemas a reply was checked on
    metadata, event_index,      \* SessionState ...
    pending_reply_schemas,      \*   the ask whose schemas are registered
    pending_reply_responder,    \*   the ask whose responder is registered
    answer,                     \* the one-shot behind each PromptResponseSender
    server, server_signal,      \* run_session_server; shutdown or abort asked
    error_tx, fatal_error,      \* an error was reported; it ended the accepts
    cancel_token,               \* tells the connections to stop reading
    events                      \* mpsc channel of StarterEvent

clientVars == <<client, inbox, response>>
slotVars   == <<pending_reply_schemas, pending_reply_responder, answer>>
stateVars  == <<metadata, event_index>>
connVars   == <<conn, tool_use_id, reply_schemas>>
taskVars   == <<server, server_signal, error_tx, fatal_error, cancel_token>>
sessionVars == <<clientVars, slotVars, stateVars, connVars, taskVars, events>>

-----------------------------------------------------------------------------
(* Helpers *)

Over     == {"done", "failed", "killed"}
Ended(c) == client[c] \in Over
Alive(c) == client[c] \notin Over \cup {"idle"}

\* Mutant of Emit: an unbounded channel.
EmitUnbounded(type, c) == events' = Append(events, [type |-> type, from |-> c])

Emit(type, c) ==
    /\ Len(events) < EventCap
    /\ events' = Append(events, [type |-> type, from |-> c])

\* The next message of c is m and its connection task reads it.
Reads(c, m) ==
    /\ conn[c] = "read"
    /\ inbox[c] # <<>>
    /\ Head(inbox[c]) = m
    /\ inbox' = [inbox EXCEPT ![c] = Tail(@)]

Goto(c, pc) == conn' = [conn EXCEPT ![c] = pc]

\* The task ends with an error, which run_session_server may or may not read.
Fail(c) == Goto(c, "closed") /\ error_tx' = TRUE

\* A write to a client that is gone fails.
BestEffort(c, m) ==
    response' = IF Alive(c) THEN [response EXCEPT ![c] = m] ELSE response

SendOrFail(c, m) ==
    /\ BestEffort(c, m)
    /\ IF Alive(c) THEN Goto(c, "read") /\ UNCHANGED error_tx ELSE Fail(c)

clear_pending_reply ==
    /\ pending_reply_schemas' = None
    /\ pending_reply_responder' = None

\* Mutants of Resolved: the last value wins; an error is only logged.
ResolvedLast(ans, c, v) == [ans EXCEPT ![c] = v]
ResolvedIfOk(ans, c, v) ==
    IF v # "error" /\ ans[c] = None THEN [ans EXCEPT ![c] = v] ELSE ans

\* PromptResponseSender.send: the first value wins, later ones are refused.
Resolved(ans, c, v) == IF ans[c] = None THEN [ans EXCEPT ![c] = v] ELSE ans

-----------------------------------------------------------------------------
(* The coco processes *)

FirstMessage(c) ==
    CASE Kind[c] = "metadata" -> "metadata"
      [] Kind[c] = "record"   -> "start"
      [] Kind[c] = "reply"    -> "reply"
      [] OTHER                -> "prompt"

\* A tell writes its prompt and exits; every other subcommand waits.
AfterSend(c) == IF Kind[c] \in Tells THEN "done" ELSE "waiting"

\* The kernel queues the connection as long as the listener exists, whether or
\* not the server still accepts.
Connect(c) ==
    /\ client[c] = "idle"
    /\ IF server \in {"listening", "draining"}
       THEN /\ client' = [client EXCEPT ![c] = AfterSend(c)]
            /\ inbox' = [inbox EXCEPT ![c] = <<FirstMessage(c)>>]
            /\ Goto(c, "backlog")
       ELSE /\ client' = [client EXCEPT ![c] = "failed"]
            /\ UNCHANGED <<inbox, conn>>
    /\ UNCHANGED <<response, tool_use_id, reply_schemas, slotVars, stateVars,
                   taskVars, events>>

\* What a client does next with the response it waited for.
Outcome(m) ==
    CASE m = "allow"                          -> "command"
      [] m = "metadata" /\ Discovery          -> "failed"
      [] m \in {"invalid", "interrupt"}       -> "failed"
      [] OTHER                                -> "done"

ClientReceives(c) ==
    /\ client[c] = "waiting"
    /\ response[c] # None
    /\ client' = [client EXCEPT ![c] = Outcome(response[c])]
    /\ response' = [response EXCEPT ![c] = None]
    /\ UNCHANGED <<inbox, connVars, slotVars, stateVars, taskVars, events>>

\* listen_for_interrupt is spawned before wait_for_allow and reads the same
\* socket: it may take the Allow, which it ignores.
ListenerTakesAllow(c) ==
    /\ client[c] = "waiting"
    /\ response[c] = "allow"
    /\ response' = [response EXCEPT ![c] = None]
    /\ UNCHANGED <<client, inbox, connVars, slotVars, stateVars, taskVars,
                   events>>

\* EOF instead of the response.
ReceiveFails(c) ==
    /\ client[c] = "waiting"
    /\ response[c] = None
    /\ conn[c] = "closed"
    /\ client' = [client EXCEPT ![c] = "failed"]
    /\ UNCHANGED <<inbox, response, connVars, slotVars, stateVars, taskVars,
                   events>>

\* The recorded command prints (once is enough) or ends; writing to a closed
\* connection ends the client with an error.
RecordWrites(c, m, next) ==
    /\ IF conn[c] = "closed"
       THEN client' = [client EXCEPT ![c] = "failed"] /\ UNCHANGED inbox
       ELSE /\ client' = [client EXCEPT ![c] = next]
            /\ inbox' = [inbox EXCEPT ![c] = Append(@, m)]
    /\ UNCHANGED <<response, connVars, slotVars, stateVars, taskVars, events>>

RecordSendsChunk(c) ==
    client[c] = "command" /\ RecordWrites(c, "chunk", "chunked")

RecordFinishes(c) ==
    client[c] \in {"command", "chunked"} /\ RecordWrites(c, "end", "done")

-----------------------------------------------------------------------------
(* handle_session_connection, one action per stretch between two awaits that
   other tasks can tell apart *)

MetadataAllowed == ~metadata

HandleMetadata(c) ==
    /\ Reads(c, "metadata")
    /\ IF MetadataAllowed
       THEN metadata' = TRUE /\ SendOrFail(c, "metadata")
       ELSE BestEffort(c, "interrupt") /\ Fail(c) /\ UNCHANGED metadata
    /\ UNCHANGED <<client, tool_use_id, reply_schemas, slotVars, event_index,
                   server, server_signal, fatal_error, cancel_token, events>>

\* Mutant of next_event_index: the index is read but not advanced.
same_event_index == UNCHANGED event_index

next_event_index == event_index' = event_index + 1

\* Mutant of RecordAllowed: discovery is not looked at.
RecordAfterMetadata == metadata

RecordAllowed == metadata /\ ~Discovery

HandleRecordStart(c) ==
    /\ Reads(c, "start")
    /\ IF RecordAllowed
       THEN /\ tool_use_id' = [tool_use_id EXCEPT ![c] = event_index]
            /\ next_event_index
            /\ BestEffort(c, "allow")
            /\ Goto(c, "RecordStart")
            /\ UNCHANGED error_tx
       ELSE /\ BestEffort(c, "interrupt")
            /\ Fail(c)
            /\ UNCHANGED <<tool_use_id, event_index>>
    /\ UNCHANGED <<client, reply_schemas, slotVars, metadata, server,
                   server_signal, fatal_error, cancel_token, events>>

\* A chunk or an end reaches a connection only after its start was allowed.
HandleRecordData(c, m, type) ==
    /\ Reads(c, m)
    /\ Goto(c, type)
    /\ UNCHANGED <<client, response, tool_use_id, reply_schemas, slotVars,
                   stateVars, taskVars, events>>

HandleRecordChunk(c) == HandleRecordData(c, "chunk", "RecordOutput")
HandleRecordEnd(c)   == HandleRecordData(c, "end", "RecordEnd")

\* event_tx.send(...).await of a record event or of a tell's prompt
SendEvent(c) ==
    /\ conn[c] \in {"RecordStart", "RecordOutput", "RecordEnd", "Prompt"}
    /\ Emit(conn[c], c)
    /\ Goto(c, "read")
    /\ event_index' = event_index + (IF conn[c] = "Prompt" THEN 1 ELSE 0)
    /\ UNCHANGED <<clientVars, tool_use_id, reply_schemas, slotVars, metadata,
                   taskVars>>

HandleTell(c) ==
    /\ Kind[c] \in Tells
    /\ Reads(c, "prompt")
    /\ IF metadata
       THEN /\ Goto(c, IF Discovery THEN "read" ELSE "Prompt")
            /\ UNCHANGED error_tx
       ELSE Fail(c)
    /\ UNCHANGED <<client, response, tool_use_id, reply_schemas, slotVars,
                   stateVars, server, server_signal, fatal_error, cancel_token,
                   events>>

\* Mutant of AskAllowed: a second ask replaces the first.
AskOverwrites == metadata /\ ~Discovery

AskAllowed == metadata /\ ~Discovery /\ pending_reply_schemas = None

HandleAsk(c) ==
    /\ Kind[c] \in Asks
    /\ Reads(c, "prompt")
    /\ IF AskAllowed
       THEN /\ pending_reply_schemas' = c
            /\ pending_reply_responder' = c
            /\ Goto(c, "PromptRequest")
            /\ UNCHANGED error_tx
       ELSE Fail(c) /\ UNCHANGED <<pending_reply_schemas,
                                   pending_reply_responder>>
    /\ UNCHANGED <<client, response, tool_use_id, reply_schemas, answer,
                   stateVars, server, server_signal, fatal_error, cancel_token,
                   events>>

SendAsk(c) ==
    /\ conn[c] = "PromptRequest"
    /\ Emit("PromptRequest", c)
    /\ Goto(c, "response")
    /\ next_event_index
    /\ UNCHANGED <<clientVars, tool_use_id, reply_schemas, slotVars, metadata,
                   taskVars>>

\* Mutant of ResponseReady: an answer that comes after the session stopped
\* accepting is not looked at.
ResponseReadyInSession(c) == answer[c] # None /\ ~cancel_token

\* response_rx.await returns; neither the cancel token nor the loss of the
\* client ends the wait.
ResponseReady(c) == answer[c] # None

AskResolved(c) ==
    /\ conn[c] = "response"
    /\ ResponseReady(c)
    /\ clear_pending_reply
    /\ IF answer[c] = "error"
       THEN Fail(c) /\ UNCHANGED response
       ELSE SendOrFail(c, "response")
    /\ UNCHANGED <<client, inbox, tool_use_id, reply_schemas, answer, stateVars,
                   server, server_signal, fatal_error, cancel_token, events>>

ReplyExpected == ~Discovery /\ pending_reply_schemas # None

\* No ask is open, or the fields do not fit its schemas.
HandleReplyRejected(c) ==
    /\ Reads(c, "reply")
    /\ BestEffort(c, "invalid")
    /\ UNCHANGED <<client, connVars, slotVars, stateVars, taskVars, events>>

\* The fields fit the schemas cloned from the state; the lock is released.
HandleReply(c) ==
    /\ ReplyExpected
    /\ Reads(c, "reply")
    /\ reply_schemas' = [reply_schemas EXCEPT ![c] = pending_reply_schemas]
    /\ Goto(c, "responder")
    /\ UNCHANGED <<client, response, tool_use_id, slotVars, stateVars, taskVars,
                   events>>

\* Mutant of TakeResponder: the answer is parsed and reported, but not sent.
TakeResponderSilently(c) ==
    /\ conn[c] = "responder"
    /\ pending_reply_responder' = None
    /\ SendOrFail(c, "valid")
    /\ UNCHANGED <<client, inbox, answer, tool_use_id, reply_schemas,
                   pending_reply_schemas, stateVars, server, server_signal,
                   fatal_error, cancel_token, events>>

\* The lock is taken again for the responder; the reply is reported valid
\* whether or not there was one and whether or not its answer was the first.
TakeResponder(c) ==
    /\ conn[c] = "responder"
    /\ pending_reply_responder' = None
    /\ answer' = IF pending_reply_responder = None
                 THEN answer
                 ELSE Resolved(answer, pending_reply_responder, c)
    /\ SendOrFail(c, "valid")
    /\ UNCHANGED <<client, inbox, tool_use_id, reply_schemas,
                   pending_reply_schemas, stateVars, server, server_signal,
                   fatal_error, cancel_token, events>>

\* Mutant of ConnEnds: a connection is closed by its client only.
ConnEndsAtEof(c) ==
    /\ conn[c] = "read"
    /\ Ended(c) /\ inbox[c] = <<>>
    /\ Goto(c, "closed")
    /\ UNCHANGED <<clientVars, tool_use_id, reply_schemas, slotVars, stateVars,
                   server, server_signal, error_tx, fatal_error, cancel_token,
                   events>>

\* select! either finds the token cancelled, whatever is still buffered, or
\* reads EOF; a client that died with its response unread may reset the
\* connection instead, an error that is not EOF.
ConnEnds(c) ==
    /\ conn[c] = "read"
    /\ \/ (cancel_token \/ (Ended(c) /\ inbox[c] = <<>>))
          /\ Goto(c, "closed") /\ UNCHANGED error_tx
       \/ Ended(c) /\ inbox[c] = <<>> /\ response[c] # None /\ Fail(c)
    /\ UNCHANGED <<clientVars, tool_use_id, reply_schemas, slotVars, stateVars,
                   server, server_signal, fatal_error, cancel_token, events>>

Handle(c) ==
    \/ HandleMetadata(c)
    \/ HandleRecordStart(c) \/ HandleRecordChunk(c) \/ HandleRecordEnd(c)
    \/ SendEvent(c)
    \/ HandleTell(c)
    \/ HandleAsk(c) \/ SendAsk(c) \/ AskResolved(c)
    \/ HandleReplyRejected(c) \/ HandleReply(c) \/ TakeResponder(c)
    \/ ConnEnds(c)

-----------------------------------------------------------------------------
(* run_session_server: select! over the shutdown signal, the error channel and
   the listener, then the drain *)

Accept(c) ==
    /\ server = "listening"
    /\ conn[c] = "backlog"
    /\ Goto(c, "read")
    /\ UNCHANGED <<clientVars, tool_use_id, reply_schemas, slotVars, stateVars,
                   taskVars, events>>

StopAccepting(fatal) ==
    /\ server = "listening"
    /\ server' = "draining"
    /\ fatal_error' = fatal
    /\ cancel_token' = TRUE
    /\ UNCHANGED <<clientVars, connVars, slotVars, stateVars, server_signal,
                   error_tx, events>>

ServerShutdown == server_signal = "shutdown" /\ StopAccepting(FALSE)
ServerFatal    == error_tx /\ StopAccepting(TRUE)

\* The listener goes away with the task: what it had not accepted sees EOF.
DropListener(next) ==
    /\ server' = next
    /\ conn' = [c \in Clients |->
                   IF conn[c] = "backlog" THEN "closed" ELSE conn[c]]
    /\ UNCHANGED <<clientVars, tool_use_id, reply_schemas, slotVars, stateVars,
                   server_signal, error_tx, fatal_error, cancel_token, events>>

Drained == \A c \in Clients : conn[c] \in {"none", "backlog", "closed"}

ServerFinish  == server = "draining" /\ Drained /\ DropListener("done")

\* The connection tasks are detached and live on.
ServerAborted ==
    /\ server \in {"listening", "draining"}
    /\ server_signal = "abort"
    /\ DropListener("aborted")

\* Mutant of ServerOk: the error that ended the accepts is dropped.
ServerHasMetadata == metadata

\* The Ok(state) that run_session_server returns.
ServerOk == ~fatal_error /\ metadata

-----------------------------------------------------------------------------
SessionInit ==
    /\ client = [c \in Clients |-> "idle"]
    /\ inbox = [c \in Clients |-> <<>>]
    /\ response = [c \in Clients |-> None]
    /\ conn = [c \in Clients |-> "none"]
    /\ tool_use_id = [c \in Clients |-> None]
    /\ reply_schemas = [c \in Clients |-> None]
    /\ metadata = FALSE
    /\ event_index = 0
    /\ pending_reply_schemas = None
    /\ pending_reply_responder = None
    /\ answer = [c \in Clients |-> None]
    /\ server = "listening"
    /\ server_signal = "none"
    /\ error_tx = FALSE
    /\ fatal_error = FALSE
    /\ cancel_token = FALSE
    /\ events = <<>>

ServerTask == ServerShutdown \/ ServerFatal \/ ServerFinish \/ ServerAborted

SessionStep ==
    \/ \E c \in Clients :
          \/ ClientReceives(c) \/ ListenerTakesAllow(c) \/ ReceiveFails(c)
          \/ RecordSendsChunk(c) \/ RecordFinishes(c)
          \/ Handle(c)
          \/ Accept(c)
    \/ ServerTask

-----------------------------------------------------------------------------
(* Types *)

Messages  == {"metadata", "start", "chunk", "end", "prompt", "reply"}

RecordEvents  == {"RecordStart", "RecordOutput", "RecordEnd"}
ClientEvents  == RecordEvents \cup {"Prompt", "PromptRequest"}
StarterEvents == {"Started", "Output", "Finished", "Cancelled", "Failed"}

\* An event is about the client it comes from, or about the script.
Events == [type : ClientEvents, from : Clients]
          \cup [type : StarterEvents, from : {None}]

ClientTypeOK ==
    /\ client \in [Clients -> Over \cup {"idle", "waiting", "command",
                                         "chunked"}]
    /\ inbox \in [Clients -> Seq(Messages)]
    /\ response \in [Clients -> Responses \cup {None}]

ConnTypeOK ==
    /\ conn \in [Clients -> ClientEvents \cup {"none", "backlog", "read",
                                "response", "responder", "closed"}]
    /\ tool_use_id \in [Clients -> Nat \cup {None}]
    /\ reply_schemas \in [Clients -> Clients \cup {None}]

StateTypeOK ==
    /\ metadata \in BOOLEAN
    /\ event_index \in Nat

SlotTypeOK ==
    /\ pending_reply_schemas \in Clients \cup {None}
    /\ pending_reply_responder \in Clients \cup {None}
    /\ answer \in [Clients -> Values \cup {None}]

TaskTypeOK ==
    /\ server \in {"listening", "draining", "done", "aborted"}
    /\ server_signal \in {"none", "shutdown", "abort"}
    /\ error_tx \in BOOLEAN
    /\ fatal_error \in BOOLEAN
    /\ cancel_token \in BOOLEAN

EventTypeOK ==
    /\ events \in Seq(Events)
    /\ Len(events) <= EventCap

SessionTypeOK ==
    /\ ClientTypeOK /\ ConnTypeOK /\ StateTypeOK /\ SlotTypeOK /\ TaskTypeOK
    /\ EventTypeOK
=============================================================================
