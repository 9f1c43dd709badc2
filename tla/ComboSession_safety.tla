------------------------- MODULE ComboSession_safety -------------------------
(****************************************************************************)
(* Further theorems about ComboSession: what a cancel, an outcome and the   *)
(* history of a run can be relied on for.                                   *)
(****************************************************************************)
EXTENDS ComboSession_proofs

-----------------------------------------------------------------------------
(* The invariants *)

\* A cancel passes from the user's token to cancel_tx, the starter's flag, the
\* kill and the Cancelled event, and each of them remembers where it came from.
CancelInv ==
    /\ cancel_tx => user_cancel
    /\ cancelled => cancel_tx
    /\ kill => cancelled
    /\ combo = "cancelled" => cancelled
    /\ \A i \in DOMAIN events : events[i].type = "Cancelled" => cancelled
    /\ run_cancelled => user_cancel
    /\ CancelIsTheUsers

\* The starter is ahead of nothing: what it passed in its course stays so.
ScriptInv ==
    /\ starter = "spawn" => script = "none"
    /\ script = "none" => \A c \in ScriptClients : client[c] = "idle"
    /\ pipes_closed => OutputClosed
    /\ starter \in {"reaped", "awaitServer"} => OutputClosed /\ script # "running"
    /\ starter \in {"sendFailed", "done"} => script # "running" /\ ~Held

\* Only a kill leaves something killed, or a recorded command to itself.
KillInv ==
    /\ script = "killed" => kill
    /\ \A c \in ScriptClients : client[c] = "killed" => kill
    /\ left # {} => kill
    /\ offload_reply # None => Kind[offload_reply] = "reply"

\* The combo the starter returned, and what run_combo made of it
ComboInv ==
    /\ starter \in {"spawn", "awaitServer", "sendFailed"} => ~cancelled
    /\ starter = "done" => combo # "none" /\ (cancelled => combo = "cancelled")
    /\ combo = "ok" =>
          /\ starter = "done" /\ ~cancelled /\ OutputClosed /\ script # "running"
          /\ ~Discovery => server = "done" /\ ServerOk
    /\ outcome = "success" => runner = "done" /\ combo = "ok" /\ exit_code # 1
    /\ runner = "done" =>
          /\ starter = "done" /\ server \in {"done", "aborted"}
          /\ \A c \in Clients : conn[c] \in {"none", "closed"}
          /\ combo = "cancelled" => outcome = "cancelled"

RunInv == ScriptInv /\ KillInv /\ ComboInv

\* A record that was not announced yet ...
NotStarted(c) ==
    client[c] = "idle" \/ (inbox[c] # <<>> /\ Head(inbox[c]) = "start")

\* ... has none of what only the Allow of its start brings about.
RecordOf(c, i) == events[i].from = c /\ events[i].type \in RecordEvents

Follows(c) ==
    \/ client[c] \in {"command", "chunked"}
    \/ response[c] = "allow"
    \/ \E i \in DOMAIN inbox[c] : inbox[c][i] \in {"chunk", "end"}
    \/ conn[c] \in RecordEvents
    \/ \E i \in DOMAIN events : RecordOf(c, i)

StartsOnce ==
    \A c \in Clients :
        /\ \A i \in 2..Len(inbox[c]) : inbox[c][i] # "start"
        /\ NotStarted(c) => tool_use_id[c] = None /\ ~Follows(c)

\* Ids come from a counter that only grows.
IdsAreBelow ==
    /\ \A c \in Clients : tool_use_id[c] # None => tool_use_id[c] < event_index
    /\ \A c, d \in Clients :
          c # d /\ tool_use_id[c] # None => tool_use_id[c] # tool_use_id[d]

\* The start of c was seen by the runner or is among the first n events.
Announced(c, n) ==
    \/ tool_use_id[c] \in tool_uses
    \/ \E i \in DOMAIN events :
          i <= n /\ events[i] = [type |-> "RecordStart", from |-> c]

StartComesFirst ==
    \A c \in Clients :
        /\ Follows(c) /\ conn[c] # "RecordStart" => Announced(c, Len(events))
        /\ \A j \in DOMAIN events :
              events[j] = [type |-> "RecordEnd", from |-> c]
                  => Announced(c, j)

HistoryInv ==
    /\ StartsOnce /\ IdsAreBelow /\ StartComesFirst
    /\ tool_results \subseteq tool_uses

\* Under discovery no connection task gets past the checks.
DiscoveryInv ==
    Discovery =>
        /\ \A c \in Clients : /\ ~Follows(c)
                              /\ conn[c] \notin {"Prompt", "PromptRequest"}
        /\ \A i \in DOMAIN events : events[i].type \in StarterEvents
        /\ tool_uses = {} /\ told = {} /\ pending_reply_schemas = None

-----------------------------------------------------------------------------
(* The event channel *)

\* An event of the channel after a send was there before, or is the new one.
LEMMA EmitAt ==
    ASSUME EventTypeOK, NEW type, NEW from, Emit(type, from),
           NEW i \in DOMAIN events'
    PROVE  \/ /\ i = Len(events) + 1
              /\ events'[i] = [type |-> type, from |-> from]
           \/ i \in DOMAIN events /\ events'[i] = events[i]
BY DEF EventTypeOK, Emit

\* A send leaves the events before it where they are.
LEMMA EmitKeeps ==
    ASSUME EventTypeOK, NEW type, NEW from, Emit(type, from)
    PROVE  /\ Len(events') = Len(events) + 1
           /\ \A i \in DOMAIN events : i \in DOMAIN events'
                                       /\ events'[i] = events[i]
           /\ Len(events') \in DOMAIN events'
           /\ events'[Len(events')] = [type |-> type, from |-> from]
BY DEF EventTypeOK, Emit

\* Taking the first event moves every other one forward.
LEMMA TakesAt ==
    ASSUME EventTypeOK, NEW types, Takes(types)
    PROVE  /\ 1 \in DOMAIN events /\ events[1] = Head(events)
           /\ events[1] \in Events /\ events[1].type \in types
           /\ Len(events') = Len(events) - 1
           /\ \A i \in DOMAIN events' : i + 1 \in DOMAIN events
                                        /\ events'[i] = events[i + 1]
           /\ \A i \in DOMAIN events : i = 1 \/ (i - 1 \in DOMAIN events'
                                                 /\ events'[i - 1] = events[i])
BY DEF EventTypeOK, Takes

\* The connection tasks send events of clients ...
LEMMA SessionEvents ==
    ASSUME TypeOK, SessionStep
    PROVE  \/ UNCHANGED events
           \/ \E c \in Clients : \E type \in ClientEvents :
                 type = conn[c] /\ Emit(type, c)
<1>1. ASSUME NEW c \in Clients,
             \/ ClientReceives(c) \/ ListenerTakesAllow(c) \/ ReceiveFails(c)
             \/ RecordSendsChunk(c) \/ RecordFinishes(c) \/ Accept(c)
      PROVE  UNCHANGED events
  BY <1>1 DEF ClientReceives, ListenerTakesAllow, ReceiveFails,
              RecordSendsChunk, RecordFinishes, RecordWrites, Accept
<1>2. CASE ServerTask
  BY <1>2 DEF ServerTask, ServerShutdown, ServerFatal, StopAccepting,
              ServerFinish, ServerAborted, DropListener
<1>3. ASSUME NEW c \in Clients, SendEvent(c) \/ SendAsk(c)
      PROVE  \E type \in ClientEvents : type = conn[c] /\ Emit(type, c)
  BY <1>3 DEF SendEvent, SendAsk, ClientEvents, RecordEvents
<1>4. ASSUME NEW c \in Clients, Handle(c), ~SendEvent(c), ~SendAsk(c)
      PROVE  UNCHANGED events
  BY <1>4 DEF Handle, HandleMetadata, HandleRecordStart, HandleRecordChunk,
              HandleRecordEnd, HandleRecordData, HandleTell, HandleAsk,
              AskResolved, HandleReplyRejected, HandleReply, TakeResponder,
              ConnEnds
<1> QED
  BY <1>1, <1>2, <1>3, <1>4 DEF SessionStep

\* ... and the starter its own.
LEMMA ExecEvents ==
    ASSUME ExecOutput \/ ExecStep
    PROVE  \/ UNCHANGED events
           \/ \E type \in StarterEvents : Emit(type, None)
BY DEF ExecOutput, ExecStep, ExecSpawn, ExecSpawnFails, ExecSeesCancel,
       ExecSendOutput, ExecSeesExit, ExecSendCancelled, ExecSendFinished,
       ExecServerDone, ExecSendFailed, sessionVars, StarterEvents

\* Only the event loop and the tasks above touch the channel.
LEMMA LaunchKeeps ==
    ASSUME NEW c \in Clients,
           \/ ScriptLaunch(c) \/ UiReply(c) \/ UiFeedback(c)
           \/ OffloadRunsReply(c)
    PROVE  /\ Connect(c) /\ UNCHANGED <<events, execVars, flagVars>>
           /\ UNCHANGED runner \/ (runner = "offload"
                                   /\ runner' = "offloadReply")
BY DEF ScriptLaunch, UiReply, UiFeedback, OffloadRunsReply, Connect, runVars

-----------------------------------------------------------------------------
(* Cancelling *)

\* A step that has nothing to do with a cancel.
LEMMA CancelKept ==
    ASSUME TypeOK, CancelInv,
           UNCHANGED <<cancel_tx, cancelled, kill, combo, run_cancelled,
                       outcome>>,
           user_cancel => user_cancel',
           runner' = "done" => runner = "done",
           \A i \in DOMAIN events' :
              events'[i].type = "Cancelled"
                 => \E j \in DOMAIN events : events[j].type = "Cancelled"
    PROVE  CancelInv'
BY DEF CancelInv, CancelIsTheUsers

LEMMA CancelNext ==
    ASSUME TypeOK, CancelInv, [Next]_vars
    PROVE  CancelInv'
<1> USE DEF TypeOK, SessionTypeOK
<1>1. CASE SessionStep /\ UNCHANGED <<execVars, runVars>>
  <2>1. ASSUME NEW i \in DOMAIN events', events'[i].type = "Cancelled"
        PROVE  \E j \in DOMAIN events : events[j].type = "Cancelled"
    <3>1. CASE UNCHANGED events
      BY <2>1, <3>1
    <3>2. ASSUME NEW c \in Clients, NEW type \in ClientEvents, Emit(type, c)
          PROVE  i \in DOMAIN events /\ events'[i] = events[i]
      <4>1. type # "Cancelled"
        BY DEF ClientEvents, RecordEvents
      <4> QED
        BY <2>1, <3>2, <4>1, EmitAt
    <3> QED
      BY <1>1, <2>1, <3>1, <3>2, SessionEvents
  <2> QED
    BY <1>1, <2>1, CancelKept DEF execVars, runVars, flagVars
<1>2. ASSUME NEW c \in Clients,
             \/ ScriptLaunch(c) \/ UiReply(c) \/ UiFeedback(c)
             \/ OffloadRunsReply(c)
      PROVE  CancelInv'
  BY <1>2, LaunchKeeps, CancelKept DEF execVars, flagVars
<1>3. CASE \/ ScriptExit \/ PipesClose \/ KillLands \/ OffloadReplyKilled
           \/ UserCancel
  <2>1. /\ UNCHANGED <<cancel_tx, cancelled, kill, combo, run_cancelled,
                       outcome, runner, events>>
        /\ user_cancel => user_cancel'
    BY <1>3 DEF ScriptExit, PipesClose, KillLands, OffloadReplyKilled, UserCancel,
                sessionVars, execVars, runVars, flagVars
  <2> QED
    BY <2>1, CancelKept
<1>4. CASE ExecOutput \/ ExecStep
  <2>1. UNCHANGED <<user_cancel, cancel_tx, run_cancelled, outcome, runner>>
    BY <1>4 DEF ExecOutput, ExecStep, ExecSpawn, ExecSpawnFails,
                ExecSeesCancel, ExecSendOutput, ExecSeesExit,
                ExecSendCancelled, ExecSendFinished, ExecServerDone,
                ExecSendFailed, runVars, flagVars
  <2>2. ASSUME NEW i \in DOMAIN events', events'[i].type = "Cancelled"
        PROVE  cancelled
    <3>1. CASE i \in DOMAIN events /\ events'[i] = events[i]
      BY <2>2, <3>1 DEF CancelInv
    <3>2. CASE \E type \in StarterEvents :
                  Emit(type, None) /\ events'[i] = [type |-> type,
                                                    from |-> None]
      <4>1. Emit("Cancelled", None)
        BY <2>2, <3>2
      <4>2. ExecSendCancelled
        <5>1. /\ Len(events') = Len(events) + 1
              /\ events'[Len(events')].type = "Cancelled"
          BY <4>1 DEF Emit, EventTypeOK
        <5>2. ASSUME NEW type, type # "Cancelled", Emit(type, None)
              PROVE  FALSE
          <6>1. events'[Len(events')].type = type
            BY <5>2 DEF Emit, EventTypeOK
          <6> QED
            BY <5>1, <5>2, <6>1
        <5>3. ~UNCHANGED events
          BY <5>1 DEF EventTypeOK
        <5> QED
          BY <1>4, <5>2, <5>3 DEF ExecOutput, ExecStep, ExecSpawn,
             ExecSpawnFails, ExecSeesCancel, ExecSendOutput, ExecSeesExit,
             ExecSendFinished, ExecServerDone, ExecSendFailed, sessionVars
      <4> QED
        BY <4>2 DEF ExecSendCancelled
    <3> QED
      BY <1>4, <2>2, <3>1, <3>2, ExecEvents, EmitAt
  <2>3. /\ cancelled => cancelled'
        /\ kill' => cancelled'
        /\ combo' = "cancelled" => cancelled'
        /\ cancelled' => cancel_tx
    BY <1>4 DEF CancelInv, Starter, ExecOutput, ExecStep, ExecSpawn,
                ExecSpawnFails, ExecSeesCancel, ExecSendOutput, ExecSeesExit,
                ExecSendCancelled, ExecSendFinished, ExecServerDone,
                ExecSendFailed
  <2> QED
    BY <2>1, <2>2, <2>3 DEF CancelInv, CancelIsTheUsers
<1>5. CASE RunnerSeesCancel
  BY <1>5 DEF RunnerSeesCancel, CancelInv, CancelIsTheUsers, sessionVars,
              execVars
<1>6. CASE RunnerStarterEnds
  <2>1. /\ events[1] = Head(events) /\ 1 \in DOMAIN events
        /\ \A i \in DOMAIN events' :
              i + 1 \in DOMAIN events /\ events'[i] = events[i + 1]
    BY <1>6, TakesAt DEF RunnerStarterEnds
  <2>2. run_cancelled' => user_cancel
    BY <1>6, <2>1 DEF RunnerStarterEnds, CancelInv
  <2>3. runner = "poll" /\ UNCHANGED <<cancel_tx, cancelled, kill, combo,
                                       outcome, user_cancel, runner>>
    BY <1>6 DEF RunnerStarterEnds, Takes, execVars
  <2> QED
    BY <2>1, <2>2, <2>3 DEF CancelInv, CancelIsTheUsers
<1>7. CASE RunnerRecord \/ RunnerOutput \/ RunnerTell \/ RunnerAsk
  <2>1. \A i \in DOMAIN events' :
           i + 1 \in DOMAIN events /\ events'[i] = events[i + 1]
    BY <1>7, TakesAt DEF RunnerRecord, RunnerOutput, RunnerTell, RunnerAsk
  <2>2. /\ UNCHANGED <<execVars, flagVars>>
        /\ runner' # "done"
    BY <1>7 DEF RunnerRecord, RunnerOutput, RunnerTell, RunnerAsk, Enter,
                Mode, Takes, runVars
  <2> QED
    BY <2>1, <2>2, CancelKept DEF execVars, flagVars
<1>8. CASE \/ RunnerRefuses \/ DirectReply \/ InteractivePauses
           \/ InteractiveFails \/ OffloadFails \/ OffloadReplyReturns
  <2>1. /\ UNCHANGED <<events, execVars, flagVars>>
        /\ runner' = "poll"
    BY <1>8 DEF RunnerRefuses, DirectReply, InteractivePauses,
                InteractiveFails, OffloadFails, OffloadReplyReturns, Respond,
                ReplyUnchanged
  <2> QED
    BY <2>1, CancelKept DEF execVars, flagVars
<1>9. CASE RunnerEnds
  BY <1>9 DEF RunnerEnds, RunOutcome, CancelInv, CancelIsTheUsers,
              sessionVars, execVars
<1>10. CASE UNCHANGED vars
  BY <1>10, CancelKept DEF vars, sessionVars, execVars, runVars, flagVars
<1> QED
  BY <1>1, <1>2, <1>3, <1>4, <1>5, <1>6, <1>7, <1>8, <1>9, <1>10
  DEF Next, RunnerStep, Terminated

LEMMA CancelAlways == Spec => []CancelInv
<1>1. Init => CancelInv
  BY DEF Init, SessionInit, CancelInv, CancelIsTheUsers
<1>2. TypeOK /\ CancelInv /\ [Next]_vars => CancelInv'
  BY CancelNext
<1> QED
  BY <1>1, <1>2, TypeCorrect, PTL DEF Spec

\* A run is reported cancelled, and its script killed, only after the user
\* cancelled it, and a run that was told of the cancel reports nothing else
\* (starter.rs:506-543, runner.rs:296-301, 617-655).
THEOREM CancelCorrect == Spec => []CancelIsTheUsers
<1>1. CancelInv => CancelIsTheUsers
  BY DEF CancelInv
<1> QED
  BY <1>1, CancelAlways, PTL

-----------------------------------------------------------------------------
(* The end of a run *)

\* The script's processes only come to an end.
WindsDown ==
    \A c \in ScriptClients :
        /\ Alive(c)' => Alive(c)
        /\ client'[c] = "killed" => client[c] = "killed"
        /\ client[c] = "idle" => client'[c] = "idle"

\* A server that ended stays ended, with what it returned and no connection
\* that was not there.
ServerStays ==
    /\ server = "done" => server' = "done"
    /\ server = "done" /\ ServerOk => ServerOk'
    /\ server \in {"done", "aborted"} =>
          /\ server' \in {"done", "aborted"}
          /\ \A c \in Clients : conn[c] \in {"none", "closed"}
                                   => conn'[c] \in {"none", "closed"}

LEMMA RunKept ==
    ASSUME RunInv, WindsDown, ServerStays,
           UNCHANGED <<script, starter, kill, cancelled, combo, exit_code,
                       outcome, spawnVars>>,
           runner' = "done" <=> runner = "done",
           offload_reply' \in {offload_reply, None}
    PROVE  RunInv'
<1> USE DEF RunInv, spawnVars
<1>1. ~Held => ~Held'
  BY DEF WindsDown, Held
<1>2. OutputClosed => OutputClosed'
  BY <1>1 DEF OutputClosed
<1>3. ScriptInv'
  BY <1>1, <1>2 DEF ScriptInv, WindsDown
<1>4. KillInv'
  BY DEF KillInv, WindsDown
<1>5. ComboInv'
  BY <1>2 DEF ComboInv, ServerStays
<1> QED
  BY <1>3, <1>4, <1>5

\* The session winds down by itself.
LEMMA SessionStays ==
    ASSUME TypeOK, SessionStep
    PROVE  WindsDown /\ ServerStays
<1> USE DEF TypeOK, SessionTypeOK, ClientTypeOK, ConnTypeOK, TaskTypeOK,
            StateTypeOK
<1>1. ASSUME NEW c \in Clients,
             \/ ClientReceives(c) \/ ListenerTakesAllow(c) \/ ReceiveFails(c)
             \/ RecordSendsChunk(c) \/ RecordFinishes(c)
      PROVE  WindsDown /\ ServerStays
  <2>1. UNCHANGED <<conn, server, metadata, fatal_error>>
    BY <1>1 DEF ClientReceives, ListenerTakesAllow, ReceiveFails,
                RecordSendsChunk, RecordFinishes, RecordWrites, connVars,
                taskVars, stateVars
  <2>2. /\ Alive(c)
        /\ client'[c] \notin {"killed", "idle"}
        /\ \A d \in Clients \ {c} : client'[d] = client[d]
    BY <1>1 DEF ClientReceives, ListenerTakesAllow, ReceiveFails, Outcome,
                RecordSendsChunk, RecordFinishes, RecordWrites, Alive, Over
  <2>3. WindsDown
    BY <2>2 DEF WindsDown, Alive, ScriptClients, Over
  <2>4. ServerStays
    BY <2>1 DEF ServerStays, ServerOk
  <2> QED
    BY <2>3, <2>4
<1>2. ASSUME NEW c \in Clients, Handle(c)
      PROVE  WindsDown /\ ServerStays
  <2>1. /\ UNCHANGED <<client, server, fatal_error>>
        /\ metadata => metadata'
        /\ conn[c] \notin {"none", "closed"}
        /\ \A d \in Clients \ {c} : conn'[d] = conn[d]
    BY <1>2 DEF Handle, HandleMetadata, HandleRecordStart, HandleRecordChunk,
                HandleRecordEnd, HandleRecordData, HandleTell, HandleAsk,
                AskResolved, HandleReplyRejected, HandleReply, TakeResponder,
                ConnEnds, SendEvent, SendAsk, Reads, Goto, Fail, SendOrFail,
                clientVars, stateVars, connVars, taskVars
  <2> QED
    BY <2>1 DEF WindsDown, ServerStays, ServerOk, Alive, ScriptClients
<1>3. CASE ServerTask \/ \E c \in Clients : Accept(c)
  <2>1. UNCHANGED <<client, metadata>>
    BY <1>3 DEF ServerTask, ServerShutdown, ServerFatal, StopAccepting,
                ServerFinish, ServerAborted, DropListener, Accept, clientVars,
                stateVars
  <2>2. server \in {"listening", "draining"}
    BY <1>3 DEF ServerTask, ServerShutdown, ServerFatal, StopAccepting,
                ServerFinish, ServerAborted, Accept
  <2> QED
    BY <2>1, <2>2 DEF WindsDown, ServerStays, Alive, ScriptClients
<1> QED
  BY <1>1, <1>2, <1>3 DEF SessionStep

LEMMA LaunchRun ==
    ASSUME TypeOK, RunInv, NEW c \in Clients,
           \/ ScriptLaunch(c) \/ UiReply(c) \/ UiFeedback(c)
           \/ OffloadRunsReply(c)
    PROVE  RunInv'
<1> USE DEF TypeOK, SessionTypeOK, ClientTypeOK, ConnTypeOK, RunInv
<1>1. /\ Connect(c) /\ UNCHANGED <<script, starter, kill, cancelled, combo,
                                   exit_code, outcome, server, metadata,
                                   fatal_error, spawnVars>>
      /\ runner' = "done" <=> runner = "done"
  BY LaunchKeeps DEF Connect, execVars, flagVars, taskVars, stateVars
<1>2. ServerStays
  BY <1>1 DEF ServerStays, ServerOk, Connect
<1>3. CASE ScriptLaunch(c)
  <2>1. /\ script = "running" /\ offload_reply' = offload_reply
        /\ client'[c] # "killed"
        /\ \A d \in Clients \ {c} : client'[d] = client[d]
    BY <1>1, <1>3 DEF ScriptLaunch, Connect, AfterSend, runVars, replyVars
  <2>2. starter \notin {"spawn", "reaped", "awaitServer", "sendFailed", "done"}
    BY <2>1 DEF ScriptInv, OutputClosed
  <2>3. ScriptInv'
    <3>1. pipes_closed => OutputClosed'
      BY <1>1, <2>1, OutputAssumption DEF ScriptInv, OutputClosed, Held, ScriptClients
    <3> QED
      BY <1>1, <2>1, <2>2, <3>1 DEF ScriptInv, spawnVars
  <2>4. KillInv'
    BY <1>1, <2>1 DEF KillInv, ScriptClients, spawnVars
  <2>5. ComboInv'
    BY <1>1, <2>2 DEF ComboInv
  <2> QED
    BY <2>3, <2>4, <2>5
<1>4. CASE UiReply(c) \/ UiFeedback(c)
  <2>1. c \notin ScriptClients /\ offload_reply' = offload_reply
    BY <1>4 DEF UiReply, UiFeedback, ScriptClients, runVars, replyVars
  <2>2. WindsDown
    BY <1>1, <2>1 DEF WindsDown, Connect, Alive, ScriptClients
  <2> QED
    BY <1>1, <1>2, <2>1, <2>2, RunKept
<1>5. CASE OffloadRunsReply(c)
  <2>1. /\ c \notin ScriptClients
        /\ offload_reply' = c /\ Kind[c] = "reply"
    BY <1>5 DEF OffloadRunsReply, ScriptClients
  <2>2. WindsDown
    BY <1>1, <2>1 DEF WindsDown, Connect, Alive, ScriptClients
  <2>3. ~Held => ~Held'
    BY <2>2 DEF WindsDown, Held
  <2>4. OutputClosed => OutputClosed'
    BY <1>1, <2>3 DEF OutputClosed
  <2>5. ScriptInv'
    BY <1>1, <2>2, <2>3, <2>4 DEF ScriptInv, WindsDown, spawnVars
  <2>6. KillInv'
    BY <1>1, <2>1, <2>2 DEF KillInv, WindsDown, spawnVars
  <2>7. ComboInv'
    BY <1>1, <1>2, <2>4 DEF ComboInv, ServerStays
  <2> QED
    BY <2>5, <2>6, <2>7
<1> QED
  BY <1>3, <1>4, <1>5

LEMMA ProcessRun ==
    ASSUME TypeOK, RunInv,
           \/ ScriptExit \/ PipesClose \/ KillLands \/ OffloadReplyKilled
           \/ UserCancel
    PROVE  RunInv'
<1> USE DEF TypeOK, SessionTypeOK, ClientTypeOK, ConnTypeOK, RunInv
<1>1. /\ UNCHANGED <<starter, kill, cancelled, combo, outcome, runner, server,
                     metadata, fatal_error, conn, offload_reply>>
      /\ ServerStays
  BY DEF ScriptExit, PipesClose, KillLands, OffloadReplyKilled, UserCancel,
         sessionVars,
         execVars, runVars, flagVars, replyVars, taskVars, connVars, stateVars,
         ServerStays, ServerOk
<1>2. CASE ScriptExit
  <2>1. /\ script = "running" /\ script' = "exited"
        /\ UNCHANGED <<client, spawnVars>>
    BY <1>2 DEF ScriptExit, sessionVars, clientVars
  <2>2. starter \notin {"spawn", "reaped", "awaitServer", "sendFailed", "done"}
    BY <2>1 DEF ScriptInv, OutputClosed
  <2>3. OutputClosed => OutputClosed'
    BY <2>1 DEF OutputClosed, Held, Alive
  <2> QED
    BY <1>1, <2>1, <2>2, <2>3 DEF ScriptInv, KillInv, ComboInv, spawnVars
<1>3. CASE KillLands
  <2>1. /\ kill /\ script # "none" /\ UNCHANGED <<exit_code, pipes_closed>>
        /\ script' = IF script = "running" THEN "killed" ELSE script
    BY <1>3 DEF KillLands, GroupMembers, ScriptInv, Alive
  <2>2. (~Held => ~Held') /\ (OutputClosed => OutputClosed')
    <3>1. \A c \in ScriptClients : ~Alive(c) => client'[c] = client[c]
      BY <1>3 DEF KillLands, GroupMembers, ScriptClients
    <3>2. ~Held => ~Held'
      BY <3>1 DEF Held, Alive
    <3> QED
      BY <2>1, <3>2 DEF OutputClosed
  <2>3. ScriptInv'
    BY <1>1, <2>1, <2>2 DEF ScriptInv
  <2>4. KillInv'
    BY <1>1, <2>1 DEF KillInv
  <2>5. ComboInv'
    BY <1>1, <2>1, <2>2 DEF ComboInv, ServerStays
  <2> QED
    BY <2>3, <2>4, <2>5
<1>4. CASE OffloadReplyKilled \/ UserCancel
  <2>1. UNCHANGED <<script, exit_code, spawnVars>>
    BY <1>4 DEF OffloadReplyKilled, UserCancel, execVars
  <2>2. WindsDown
    <3>1. CASE OffloadReplyKilled
      <4>1. client' = [client EXCEPT ![offload_reply] = "killed"]
            /\ Alive(offload_reply)
        BY <3>1 DEF OffloadReplyKilled
      <4>2. offload_reply \notin ScriptClients
        BY NoneAssumption DEF KillInv, ScriptClients, Values
      <4> QED
        BY <4>1, <4>2 DEF WindsDown, Alive, ScriptClients
    <3>2. CASE UserCancel
      BY <3>2 DEF UserCancel, sessionVars, clientVars, WindsDown, Alive
    <3> QED
      BY <1>4, <3>1, <3>2
  <2> QED
    BY <1>1, <2>1, <2>2, RunKept
<1>5. CASE PipesClose
  <2>1. /\ OutputClosed
        /\ UNCHANGED <<script, exit_code, client, left>>
    BY <1>5 DEF PipesClose, sessionVars, clientVars
  <2>2. OutputClosed' /\ UNCHANGED Held
    BY <2>1 DEF OutputClosed, Held, Alive
  <2> QED
    BY <1>1, <2>1, <2>2 DEF ScriptInv, KillInv, ComboInv, ServerStays
<1> QED
  BY <1>2, <1>3, <1>4, <1>5

LEMMA ExecRun ==
    ASSUME TypeOK, RunInv, ExecOutput \/ ExecStep
    PROVE  RunInv'
<1> USE DEF TypeOK, ExecTypeOK, RunInv, Starter
<1>1. UNCHANGED <<client, conn, server, metadata, fatal_error, runner, outcome,
                  offload_reply, exit_code, pipes_closed, left>>
  BY DEF ExecOutput, ExecStep, ExecSpawn, ExecSpawnFails, ExecSeesCancel,
         ExecSendOutput, ExecSeesExit, ExecSendCancelled, ExecSendFinished,
         ExecServerDone, ExecSendFailed, sessionVars, clientVars, connVars,
         taskVars, stateVars, runVars, replyVars, flagVars, spawnVars
<1>2. /\ UNCHANGED Held
      /\ (pipes_closed => OutputClosed)'
  <2>1. UNCHANGED Held
    BY <1>1 DEF Held, Alive, ScriptClients
  <2>2. script # "none" => UNCHANGED script
    BY DEF ScriptInv, ExecOutput, ExecStep, ExecSpawn, ExecSpawnFails,
           ExecSeesCancel, ExecSendOutput, ExecSeesExit, ExecSendCancelled,
           ExecSendFinished, ExecServerDone, ExecSendFailed
  <2> QED
    BY <1>1, <2>1, <2>2 DEF ScriptInv, OutputClosed
<1>3. /\ starter # "done"
      /\ combo # "ok" /\ outcome # "success" /\ runner # "done"
  BY DEF ComboInv, ExecOutput, ExecStep, ExecSpawn, ExecSpawnFails,
         ExecSeesCancel, ExecSendOutput, ExecSeesExit, ExecSendCancelled,
         ExecSendFinished, ExecServerDone, ExecSendFailed
<1>4. script' = script \/ (script = "none" /\ script' = "running"
                           /\ starter' = "run")
  BY DEF ScriptInv, ExecOutput, ExecStep, ExecSpawn, ExecSpawnFails,
         ExecSeesCancel, ExecSendOutput, ExecSeesExit, ExecSendCancelled,
         ExecSendFinished, ExecServerDone, ExecSendFailed
<1>5. KillInv'
  <2>1. kill => kill'
    BY DEF ExecOutput, ExecStep, ExecSpawn, ExecSpawnFails, ExecSeesCancel,
           ExecSendOutput, ExecSeesExit, ExecSendCancelled, ExecSendFinished,
           ExecServerDone, ExecSendFailed
  <2> QED
    BY <1>1, <1>4, <2>1 DEF KillInv
<1>6. UNCHANGED <<script, Held>> => UNCHANGED OutputClosed
  BY DEF OutputClosed
<1>7. CASE ExecOutput \/ ExecSpawn \/ ExecSendOutput \/ ExecSeesCancel
  <2>1. starter' \in {"run", "sendOutput"} /\ combo' = combo
        /\ (starter = "spawn" => script' = "running")
        /\ (starter # "spawn" => script' = script)
    BY <1>7 DEF ExecOutput, ExecSpawn, ExecSendOutput, ExecSeesCancel
  <2> QED
    BY <1>1, <1>2, <1>3, <1>5, <2>1 DEF ScriptInv, ComboInv
<1>8. CASE ExecSpawnFails
  <2>1. /\ starter' = "sendFailed" /\ combo' = combo /\ script = "none"
        /\ script' = script /\ UNCHANGED cancelled /\ starter = "spawn"
    BY <1>8 DEF ExecSpawnFails, ScriptInv
  <2>2. ~Held
    BY <2>1 DEF ScriptInv, Held, Alive
  <2> QED
    BY <1>1, <1>2, <1>3, <1>5, <2>1, <2>2 DEF ScriptInv, ComboInv
<1>9. CASE ExecSeesExit
  <2>1. /\ starter' = "reaped" /\ OutputClosed /\ script # "running"
        /\ UNCHANGED <<script, combo>>
    BY <1>9 DEF ExecSeesExit, ScriptInv
  <2> QED
    BY <1>1, <1>2, <1>3, <1>5, <1>6, <2>1 DEF ScriptInv, ComboInv
<1>10. CASE ExecSendCancelled \/ ExecSendFailed
  <2>1. /\ starter' = "done" /\ combo' \in {"cancelled", "invalid"}
        /\ starter \in {"reaped", "sendFailed"} /\ UNCHANGED <<script, cancelled>>
        /\ cancelled => combo' = "cancelled"
    BY <1>10 DEF ExecSendCancelled, ExecSendFailed, ComboInv
  <2>2. script # "running" /\ ~Held
    BY <2>1 DEF ScriptInv, OutputClosed
  <2> QED
    BY <1>1, <1>2, <1>3, <1>5, <2>1, <2>2 DEF ScriptInv, ComboInv
<1>11. CASE ExecSendFinished
  <2>1. /\ OutputClosed /\ script # "running"
        /\ ~cancelled /\ UNCHANGED <<script, cancelled>>
    BY <1>11 DEF ExecSendFinished, ScriptInv
  <2>2. OutputClosed' /\ script' # "running" /\ ~Held'
    BY <1>2, <1>6, <2>1 DEF OutputClosed
  <2>3. CASE Discovery
    <3>1. starter' = "done" /\ combo' \in {"ok", "invalid"}
      BY <1>11, <2>3 DEF ExecSendFinished
    <3> QED
      BY <1>1, <1>3, <1>5, <2>1, <2>2, <2>3, <3>1
      DEF ScriptInv, ComboInv, OutputClosed
  <2>4. CASE ~Discovery
    <3>1. starter' = "awaitServer" /\ combo' = combo
      BY <1>11, <2>4 DEF ExecSendFinished
    <3> QED
      BY <1>1, <1>3, <1>5, <2>1, <2>2, <3>1 DEF ScriptInv, ComboInv,
                                                OutputClosed
  <2> QED
    BY <2>3, <2>4
<1>12. CASE ExecServerDone
  <2>1. /\ OutputClosed /\ script # "running"
        /\ ~cancelled /\ UNCHANGED <<script, cancelled>>
        /\ server = "done"
        /\ IF ServerOk THEN starter' = "done" /\ combo' = "ok"
                       ELSE starter' = "sendFailed" /\ combo' = combo
    BY <1>12 DEF ExecServerDone, ScriptInv, ComboInv
  <2>2. OutputClosed' /\ script' # "running" /\ ~Held'
    BY <1>2, <1>6, <2>1 DEF OutputClosed
  <2>3. ScriptInv'
    BY <1>2, <2>1, <2>2 DEF ScriptInv, OutputClosed
  <2>4. ComboInv'
    BY <1>1, <1>3, <2>1, <2>2 DEF ComboInv, ServerOk
  <2> QED
    BY <1>5, <2>3, <2>4
<1> QED
  BY <1>7, <1>8, <1>9, <1>10, <1>11, <1>12 DEF ExecStep

LEMMA RunnerRun ==
    ASSUME TypeOK, RunInv, RunnerStep
    PROVE  RunInv'
<1> USE DEF TypeOK, SessionTypeOK, ClientTypeOK
<1>1. UNCHANGED <<script, starter, kill, cancelled, combo, exit_code, conn,
                  server, metadata, fatal_error, spawnVars>>
  BY DEF RunnerStep, RunnerSeesCancel, RunnerRecord, RunnerOutput, RunnerTell,
         RunnerAsk, RunnerStarterEnds, RunnerRefuses, DirectReply,
         InteractivePauses, InteractiveFails, OffloadFails,
         OffloadReplyReturns, RunnerEnds, ReplyUnchanged, sessionVars,
         execVars, connVars, taskVars, stateVars
<1>2. ServerStays
  BY <1>1 DEF ServerStays, ServerOk
<1>3. offload_reply' \in {offload_reply, None}
  BY DEF RunnerStep, RunnerSeesCancel, RunnerRecord, RunnerOutput, RunnerTell,
         RunnerAsk, RunnerStarterEnds, RunnerRefuses, DirectReply,
         InteractivePauses, InteractiveFails, OffloadFails,
         OffloadReplyReturns, RunnerEnds, runVars, replyVars
<1>4. WindsDown
  <2>1. offload_reply \notin ScriptClients
    BY NoneAssumption DEF RunInv, KillInv, ScriptClients, Values
  <2>2. client' \in {client, [client EXCEPT ![offload_reply] = "killed"]}
    BY DEF RunnerStep, RunnerSeesCancel, RunnerRecord, RunnerOutput,
           RunnerTell, RunnerAsk, RunnerStarterEnds, RunnerRefuses,
           DirectReply, InteractivePauses, InteractiveFails, OffloadFails,
           OffloadReplyReturns, RunnerEnds, ReplyUnchanged, sessionVars,
           clientVars
  <2> QED
    BY <2>1, <2>2 DEF WindsDown, Alive, ScriptClients
<1>5. CASE RunnerEnds
  <2>1. /\ StreamClosed /\ runner' = "done" /\ outcome' = RunOutcome
        /\ UNCHANGED <<client, offload_reply>>
    BY <1>5 DEF RunnerEnds, sessionVars, clientVars, replyVars
  <2>2. /\ outcome' = "success" => combo = "ok" /\ exit_code # 1
        /\ combo = "cancelled" => outcome' = "cancelled"
    BY <2>1 DEF RunOutcome, StreamClosed, RunInv, ComboInv, ExecTypeOK
  <2>3. UNCHANGED <<Held, OutputClosed>>
    BY <1>1, <2>1 DEF Held, OutputClosed, Alive
  <2>4. ScriptInv' /\ KillInv'
    BY <1>1, <2>1, <2>3 DEF RunInv, ScriptInv, KillInv, spawnVars
  <2>5. ComboInv'
    BY <1>1, <2>1, <2>2, <2>3 DEF RunInv, ComboInv, StreamClosed, ServerOk
  <2> QED
    BY <2>4, <2>5 DEF RunInv
<1>6. CASE ~RunnerEnds
  <2>1. UNCHANGED outcome /\ runner # "done" /\ runner' # "done"
    BY <1>6 DEF RunnerStep, RunnerSeesCancel, RunnerRecord, RunnerOutput,
       RunnerTell, RunnerAsk, RunnerStarterEnds, RunnerRefuses, DirectReply,
       InteractivePauses, InteractiveFails, OffloadFails, OffloadReplyReturns,
       ReplyUnchanged, Takes, Enter, Mode, Respond, runVars, flagVars
  <2> QED
    BY <1>1, <1>2, <1>3, <1>4, <2>1, RunKept
<1> QED
  BY <1>5, <1>6

LEMMA RunNext ==
    ASSUME TypeOK, RunInv, [Next]_vars
    PROVE  RunInv'
<1>1. CASE SessionStep /\ UNCHANGED <<execVars, runVars>>
  BY <1>1, SessionStays, RunKept DEF execVars, runVars, flagVars, replyVars
<1>2. CASE UNCHANGED vars
  <2>1. WindsDown /\ ServerStays
    BY <1>2 DEF vars, sessionVars, clientVars, connVars, taskVars, stateVars,
                WindsDown, ServerStays, ServerOk, Alive
  <2> QED
    BY <1>2, <2>1, RunKept DEF vars, execVars, runVars, flagVars, replyVars
<1> QED
  BY <1>1, <1>2, LaunchRun, ProcessRun, ExecRun, RunnerRun
  DEF Next, Terminated

LEMMA RunAlways == Spec => []RunInv
<1>1. Init => RunInv
  BY DEF Init, SessionInit, RunInv, ScriptInv, KillInv, ComboInv, ScriptClients
<1>2. TypeOK /\ RunInv /\ [Next]_vars => RunInv'
  BY RunNext
<1> QED
  BY <1>1, <1>2, TypeCorrect, PTL DEF Spec

\* When run_combo returns, the script, the server, every connection task and
\* every client that holds the script's output have ended, whatever the user did;
\* what lives on is a client whose output was redirected or, in a cancelled run,
\* a recorded command, which is not in the script's process group
\* (exec.rs:203-205, 344-364, starter.rs:545-607, 1031-1063).
THEOREM NothingIsLeft == Spec => []NothingOutlivesTheRun
<1>1. CancelInv /\ RunInv => NothingOutlivesTheRun
  <2>1. CancelInv /\ RunInv /\ runner = "done" /\ left # {} => outcome = "cancelled"
    BY DEF CancelInv, RunInv, KillInv, ComboInv
  <2> QED
    BY <2>1 DEF RunInv, ScriptInv, ComboInv, NothingOutlivesTheRun
<1> QED
  BY <1>1, CancelAlways, RunAlways, PTL

\* A run that reports success has a script that ended by itself without a
\* failure, announced its metadata and left no session error the server stopped
\* on; none of its clients was killed, and one that is still at work has its
\* output redirected (starter.rs:553-607, runner.rs:617-655).
THEOREM SuccessCorrect == Spec => []SuccessIsEarned
<1>1. TypeOK /\ CancelInv /\ RunInv => SuccessIsEarned
  <2> SUFFICES ASSUME TypeOK, CancelInv, RunInv, outcome = "success"
               PROVE  /\ script = "exited" /\ exit_code # 1 /\ ~kill
                      /\ (~Discovery => metadata /\ ~fatal_error)
                      /\ \A c \in ScriptClients :
                            \/ client[c] \in {"idle", "done", "failed"}
                            \/ Alive(c) /\ c \in Redirected
    BY DEF SuccessIsEarned
  <2>1. /\ combo = "ok" /\ exit_code # 1 /\ ~cancelled
        /\ OutputClosed /\ script # "running"
        /\ ~Discovery => ServerOk
    BY DEF RunInv, ComboInv
  <2>2. ~kill
    BY <2>1 DEF CancelInv
  <2>3. script = "exited"
    BY <2>1, <2>2 DEF OutputClosed, RunInv, KillInv, TypeOK, ExecTypeOK
  <2>4. ASSUME NEW c \in ScriptClients
        PROVE  \/ client[c] \in {"idle", "done", "failed"}
               \/ Alive(c) /\ c \in Redirected
    <3>1. /\ client[c] # "killed"
          /\ Alive(c) => c \in Redirected
      BY <2>1, <2>2 DEF OutputClosed, Held, RunInv, KillInv
    <3> QED
      BY <3>1 DEF Alive, Over, ScriptClients, TypeOK, SessionTypeOK,
                  ClientTypeOK
  <2> QED
    BY <2>1, <2>2, <2>3, <2>4 DEF ServerOk
<1> QED
  BY <1>1, TypeCorrect, CancelAlways, RunAlways, PTL

-----------------------------------------------------------------------------
(* Records *)

\* A step after which no record is further than it was before its start.
NothingStarts ==
    \A c \in Clients :
        /\ Follows(c)' => Follows(c)
        /\ NotStarted(c)' => NotStarted(c)
        /\ \A i \in 2..Len(inbox'[c]) : inbox'[c][i] # "start"

\* Reading a message leaves only messages that were there, and no start.
LEMMA ReadsStart ==
    ASSUME TypeOK, SlotInv, StartsOnce, NEW c \in Clients, NEW m, Reads(c, m),
           UNCHANGED client
    PROVE  /\ ~NotStarted(c)'
           /\ \A d \in Clients :
                 /\ NotStarted(d)' => NotStarted(d)
                 /\ \A i \in DOMAIN inbox'[d] :
                       \E j \in DOMAIN inbox[d] : inbox'[d][i] = inbox[d][j]
                 /\ \A i \in 2..Len(inbox'[d]) : inbox'[d][i] # "start"
<1> USE DEF TypeOK, SessionTypeOK, ClientTypeOK
<1>1. inbox[c] \in Seq(Messages) /\ inbox[c] # <<>>
  BY DEF Reads
<1>2. /\ inbox'[c] = Tail(inbox[c])
      /\ \A d \in Clients \ {c} : inbox'[d] = inbox[d]
  BY DEF Reads
<1>3. /\ inbox'[c] \in Seq(Messages)
      /\ Len(inbox'[c]) = Len(inbox[c]) - 1
      /\ \A i \in DOMAIN inbox'[c] :
            i + 1 \in DOMAIN inbox[c] /\ inbox'[c][i] = inbox[c][i + 1]
  BY <1>1, <1>2
<1>4. \A i \in DOMAIN inbox'[c] : inbox'[c][i] # "start"
  BY <1>1, <1>3 DEF StartsOnce
<1>5. client[c] # "idle"
  BY DEF SlotInv, AsksOnce, Reads
<1>6. ~NotStarted(c)'
  <2>1. inbox'[c] # <<>> => Head(inbox'[c]) # "start"
    BY <1>3, <1>4
  <2> QED
    BY <1>5, <2>1 DEF NotStarted
<1>7. ASSUME NEW d \in Clients
      PROVE  /\ NotStarted(d)' => NotStarted(d)
             /\ \A i \in DOMAIN inbox'[d] :
                   \E j \in DOMAIN inbox[d] : inbox'[d][i] = inbox[d][j]
             /\ \A i \in 2..Len(inbox'[d]) : inbox'[d][i] # "start"
  <2>1. CASE d = c
    BY <1>3, <1>4, <1>6, <2>1
  <2>2. CASE d # c
    BY <1>2, <2>2 DEF NotStarted, StartsOnce
  <2> QED
    BY <2>1, <2>2
<1> QED
  BY <1>6, <1>7

\* The coco processes: what a record writes, it writes after the Allow.
LEMMA ClientStarts ==
    ASSUME TypeOK, StartsOnce, NEW c \in Clients,
           \/ Connect(c) \/ ClientReceives(c) \/ ListenerTakesAllow(c)
           \/ ReceiveFails(c) \/ RecordSendsChunk(c) \/ RecordFinishes(c)
    PROVE  NothingStarts
<1> USE DEF TypeOK, SessionTypeOK, ClientTypeOK, ConnTypeOK
<1>1. CASE Connect(c)
  <2>1. /\ client[c] = "idle" /\ UNCHANGED <<response, events>>
        /\ \A d \in Clients \ {c} : /\ client'[d] = client[d]
                                    /\ inbox'[d] = inbox[d]
                                    /\ conn'[d] = conn[d]
    BY <1>1 DEF Connect, Goto
  <2>2. /\ client'[c] \notin {"idle", "command", "chunked"}
        /\ \/ inbox'[c] = <<FirstMessage(c)>> /\ conn'[c] = "backlog"
           \/ UNCHANGED <<inbox, conn>>
    BY <1>1 DEF Connect, Goto, AfterSend
  <2>3. FirstMessage(c) \notin {"chunk", "end"}
    BY DEF FirstMessage
  <2>4. Follows(c)' => Follows(c)
    <3>1. CASE inbox'[c] = <<FirstMessage(c)>> /\ conn'[c] = "backlog"
      BY <2>1, <2>2, <2>3, <3>1 DEF Follows, RecordOf, RecordEvents
    <3>2. CASE UNCHANGED <<inbox, conn>>
      BY <2>1, <2>2, <3>2 DEF Follows, RecordOf
    <3> QED
      BY <2>2, <3>1, <3>2
  <2>5. \A i \in 2..Len(inbox'[c]) : inbox'[c][i] # "start"
    BY <2>2 DEF StartsOnce
  <2>6. NotStarted(c)
    BY <2>1 DEF NotStarted
  <2>7. ASSUME NEW d \in Clients \ {c}
        PROVE  /\ Follows(d)' => Follows(d)
               /\ NotStarted(d)' => NotStarted(d)
               /\ \A i \in 2..Len(inbox'[d]) : inbox'[d][i] # "start"
    <3>1. Follows(d)' => Follows(d)
      BY <2>1 DEF Follows, RecordOf
    <3>2. NotStarted(d)' => NotStarted(d)
      BY <2>1 DEF NotStarted
    <3>3. \A i \in 2..Len(inbox'[d]) : inbox'[d][i] # "start"
      BY <2>1 DEF StartsOnce
    <3> QED
      BY <3>1, <3>2, <3>3
  <2> QED
    BY <2>4, <2>5, <2>6, <2>7 DEF NothingStarts
<1>2. CASE ClientReceives(c) \/ ListenerTakesAllow(c) \/ ReceiveFails(c)
  <2>1. /\ UNCHANGED <<inbox, conn, events>>
        /\ client'[c] # "idle"
        /\ client'[c] \in {"command", "chunked"} => response[c] = "allow"
        /\ response'[c] # "allow"
        /\ \A d \in Clients \ {c} : /\ client'[d] = client[d]
                                    /\ response'[d] = response[d]
    BY <1>2, NoneAssumption
    DEF ClientReceives, ListenerTakesAllow, ReceiveFails, Outcome, connVars,
        Values, Responses
  <2>2. ASSUME NEW d \in Clients
        PROVE  /\ Follows(d)' => Follows(d)
               /\ NotStarted(d)' => NotStarted(d)
               /\ \A i \in 2..Len(inbox'[d]) : inbox'[d][i] # "start"
    BY <2>1 DEF Follows, RecordOf, NotStarted, StartsOnce
  <2> QED
    BY <2>2 DEF NothingStarts
<1>3. ASSUME NEW m \in Messages \ {"start"},
             NEW next \in Over \cup {"chunked"},
             client[c] \in {"command", "chunked"}, RecordWrites(c, m, next)
      PROVE  NothingStarts
  <2>1. /\ UNCHANGED <<response, conn, events>>
        /\ inbox'[c] \in {inbox[c], Append(inbox[c], m)}
        /\ client'[c] # "idle"
        /\ \A d \in Clients \ {c} : /\ client'[d] = client[d]
                                    /\ inbox'[d] = inbox[d]
    BY <1>3 DEF RecordWrites, connVars, Over
  <2>2. Follows(c)
    BY <1>3 DEF Follows
  <2>3. inbox[c] \in Seq(Messages)
    OBVIOUS
  <2>4. NotStarted(c)' => NotStarted(c)
    <3>1. CASE inbox'[c] = inbox[c]
      BY <2>1, <3>1 DEF NotStarted
    <3>2. CASE inbox'[c] = Append(inbox[c], m) /\ inbox[c] # <<>>
      <4>1. Head(inbox'[c]) = Head(inbox[c])
        BY <2>3, <3>2
      <4> QED
        BY <2>1, <3>2, <4>1 DEF NotStarted
    <3>3. CASE inbox'[c] = Append(inbox[c], m) /\ inbox[c] = <<>>
      <4>1. Head(inbox'[c]) = m
        BY <3>3
      <4> QED
        BY <2>1, <4>1 DEF NotStarted
    <3> QED
      BY <2>1, <3>1, <3>2, <3>3
  <2>5. ASSUME NEW i \in 2..Len(inbox'[c])
        PROVE  inbox'[c][i] # "start"
    <3>1. CASE inbox'[c] = inbox[c]
      BY <3>1 DEF StartsOnce
    <3>2. CASE inbox'[c] = Append(inbox[c], m)
      <4>1. \/ i \in 2..Len(inbox[c]) /\ inbox'[c][i] = inbox[c][i]
            \/ inbox'[c][i] = m
        BY <2>3, <3>2
      <4> QED
        BY <4>1 DEF StartsOnce
    <3> QED
      BY <2>1, <3>1, <3>2
  <2>6. ASSUME NEW d \in Clients \ {c}
        PROVE  /\ Follows(d)' => Follows(d)
               /\ NotStarted(d)' => NotStarted(d)
               /\ \A i \in 2..Len(inbox'[d]) : inbox'[d][i] # "start"
    BY <2>1 DEF Follows, RecordOf, NotStarted, StartsOnce
  <2> QED
    BY <2>2, <2>4, <2>5, <2>6 DEF NothingStarts
<1>4. CASE RecordSendsChunk(c) \/ RecordFinishes(c)
  BY <1>3, <1>4 DEF RecordSendsChunk, RecordFinishes, Messages, Over
<1> QED
  BY <1>1, <1>2, <1>4

\* A connection task sends what it has read, and announces the start first.
LEMMA HandleStarts ==
    ASSUME TypeOK, SlotInv, StartsOnce, NEW c \in Clients, Handle(c),
           ~(HandleRecordStart(c) /\ RecordAllowed)
    PROVE  NothingStarts
<1> USE DEF TypeOK, SessionTypeOK, ClientTypeOK, ConnTypeOK
<1>1. ASSUME UNCHANGED <<client, events>>,
             UNCHANGED inbox \/ \E m \in Messages : Reads(c, m),
             \A d \in Clients :
                /\ response'[d] = "allow" => response[d] = "allow"
                /\ conn'[d] \in RecordEvents =>
                      \/ conn[d] \in RecordEvents
                      \/ \E m \in {"chunk", "end"} : Reads(d, m)
      PROVE  NothingStarts
  <2>1. ASSUME NEW d \in Clients
        PROVE  /\ NotStarted(d)' => NotStarted(d)
               /\ \A i \in DOMAIN inbox'[d] :
                     \E j \in DOMAIN inbox[d] : inbox'[d][i] = inbox[d][j]
               /\ \A i \in 2..Len(inbox'[d]) : inbox'[d][i] # "start"
    <3>1. CASE UNCHANGED inbox
      BY <1>1, <3>1 DEF NotStarted, StartsOnce
    <3>2. CASE \E m \in Messages : Reads(c, m)
      BY <1>1, <3>2, ReadsStart
    <3> QED
      BY <1>1, <3>1, <3>2
  <2>2. ASSUME NEW d \in Clients, NEW m \in {"chunk", "end"}, Reads(d, m)
        PROVE  Follows(d)
    <3>1. inbox[d] \in Seq(Messages) /\ inbox[d] # <<>> /\ Head(inbox[d]) = m
      BY <2>2 DEF Reads
    <3>2. 1 \in DOMAIN inbox[d] /\ inbox[d][1] = m
      BY <3>1
    <3> QED
      BY <3>2 DEF Follows
  <2>3. ASSUME NEW d \in Clients, Follows(d)'
        PROVE  Follows(d)
    <3>1. CASE conn'[d] \in RecordEvents
      BY <1>1, <2>2, <3>1 DEF Follows
    <3>2. CASE \E i \in DOMAIN inbox'[d] : inbox'[d][i] \in {"chunk", "end"}
      BY <2>1, <3>2 DEF Follows
    <3>3. CASE \/ client'[d] \in {"command", "chunked"}
               \/ response'[d] = "allow"
               \/ \E i \in DOMAIN events' : RecordOf(d, i)'
      BY <1>1, <3>3 DEF Follows, RecordOf
    <3> QED
      BY <2>3, <3>1, <3>2, <3>3 DEF Follows
  <2> QED
    BY <2>1, <2>3 DEF NothingStarts
<1>2. CASE \/ HandleMetadata(c) \/ HandleRecordStart(c) \/ HandleTell(c)
           \/ HandleAsk(c) \/ AskResolved(c) \/ HandleReplyRejected(c)
           \/ HandleReply(c) \/ TakeResponder(c) \/ ConnEnds(c)
  <2>1. /\ UNCHANGED <<client, events>>
        /\ UNCHANGED inbox \/ \E m \in Messages : Reads(c, m)
    BY <1>2 DEF HandleMetadata, HandleRecordStart, HandleTell, HandleAsk,
                AskResolved, HandleReplyRejected, HandleReply, TakeResponder,
                ConnEnds, Messages, clientVars
  <2>2. \A d \in Clients : response'[d] = "allow" => response[d] = "allow"
    BY <1>2 DEF HandleMetadata, HandleRecordStart, HandleTell, HandleAsk,
                AskResolved, HandleReplyRejected, HandleReply, TakeResponder,
                ConnEnds, SendOrFail, BestEffort, clientVars
  <2>3. \A d \in Clients : conn'[d] \in RecordEvents
                              => conn[d] \in RecordEvents
    BY <1>2 DEF HandleMetadata, HandleRecordStart, HandleTell, HandleAsk,
                AskResolved, HandleReplyRejected, HandleReply, TakeResponder,
                ConnEnds, SendOrFail, Fail, Goto, RecordEvents, connVars
  <2> QED
    BY <1>1, <2>1, <2>2, <2>3
<1>3. CASE HandleRecordChunk(c) \/ HandleRecordEnd(c)
  BY <1>1, <1>3 DEF HandleRecordChunk, HandleRecordEnd, HandleRecordData,
                    Goto, Messages
<1>4. CASE SendEvent(c) \/ SendAsk(c)
  <2>1. /\ UNCHANGED <<client, inbox, response>> /\ Emit(conn[c], c)
        /\ \E pc \in {"read", "response"} : conn' = [conn EXCEPT ![c] = pc]
    BY <1>4 DEF SendEvent, SendAsk, Goto, clientVars
  <2>2. ASSUME NEW d \in Clients, NEW i \in DOMAIN events', RecordOf(d, i)'
        PROVE  Follows(d)
    <3>1. CASE i \in DOMAIN events /\ events'[i] = events[i]
      BY <2>2, <3>1 DEF RecordOf, Follows
    <3>2. CASE events'[i] = [type |-> conn[c], from |-> c]
      BY <2>2, <3>2 DEF RecordOf, Follows
    <3> QED
      BY <2>1, <3>1, <3>2, EmitAt
  <2>3. ASSUME NEW d \in Clients, Follows(d)'
        PROVE  Follows(d)
    BY <2>1, <2>2, <2>3 DEF Follows, RecordEvents
  <2> QED
    BY <2>1, <2>3 DEF NothingStarts, NotStarted, StartsOnce
<1> QED
  BY <1>2, <1>3, <1>4 DEF Handle

\* The rest of the run starts no record: it makes a coco process connect, or
\* kills one, or hands an event over.
LEMMA OtherStarts ==
    ASSUME TypeOK, StartsOnce, UNCHANGED <<inbox, response>>,
           \A c \in Clients : client'[c] \in {client[c], "killed"},
           \A c \in Clients :
              conn'[c] = conn[c] \/ conn'[c] \in {"read", "closed"},
           \A i \in DOMAIN events' :
              \/ events'[i].type \notin RecordEvents
              \/ \E j \in DOMAIN events : events'[i] = events[j]
    PROVE  NothingStarts
<1> SUFFICES ASSUME NEW c \in Clients
             PROVE  /\ Follows(c)' => Follows(c)
                    /\ NotStarted(c)' => NotStarted(c)
                    /\ \A i \in 2..Len(inbox'[c]) : inbox'[c][i] # "start"
  BY DEF NothingStarts
<1>1. (\E i \in DOMAIN events' : RecordOf(c, i)')
         => \E i \in DOMAIN events : RecordOf(c, i)
  BY DEF RecordOf
<1>2. Follows(c)' => Follows(c)
  BY <1>1 DEF Follows, RecordEvents
<1>3. NotStarted(c)' => NotStarted(c)
  BY DEF NotStarted
<1> QED
  BY <1>2, <1>3 DEF StartsOnce

LEMMA StartsStep ==
    ASSUME TypeOK, SlotInv, StartsOnce, [Next]_vars
    PROVE  \/ NothingStarts
           \/ \E c \in Clients : HandleRecordStart(c) /\ RecordAllowed
<1> USE DEF TypeOK, SessionTypeOK
<1>1. CASE \E c \in Clients : Handle(c)
  BY <1>1, HandleStarts
<1>2. CASE \E c \in Clients :
              \/ ClientReceives(c) \/ ListenerTakesAllow(c) \/ ReceiveFails(c)
              \/ RecordSendsChunk(c) \/ RecordFinishes(c)
              \/ ScriptLaunch(c) \/ UiReply(c) \/ UiFeedback(c)
              \/ OffloadRunsReply(c)
  BY <1>2, ClientStarts, LaunchKeeps
<1>3. CASE ServerTask \/ \E c \in Clients : Accept(c)
  <2>1. UNCHANGED <<client, inbox, response, events>>
    BY <1>3 DEF ServerTask, ServerShutdown, ServerFatal, StopAccepting,
                ServerFinish, ServerAborted, DropListener, Accept, clientVars
  <2>2. \A c \in Clients :
           conn'[c] = conn[c] \/ conn'[c] \in {"read", "closed"}
    BY <1>3 DEF ServerTask, ServerShutdown, ServerFatal, StopAccepting, Goto,
                ServerFinish, ServerAborted, DropListener, Accept, connVars,
                ConnTypeOK
  <2> QED
    BY <2>1, <2>2, OtherStarts
<1>4. CASE \/ ScriptExit \/ PipesClose \/ KillLands \/ OffloadReplyKilled
           \/ UserCancel
           \/ UNCHANGED vars
  <2>1. UNCHANGED <<inbox, response, conn, events>>
    BY <1>4 DEF ScriptExit, PipesClose, KillLands, OffloadReplyKilled, UserCancel, vars,
                sessionVars, clientVars, connVars
  <2>2. \A c \in Clients : client'[c] \in {client[c], "killed"}
    BY <1>4 DEF ScriptExit, PipesClose, KillLands, OffloadReplyKilled, UserCancel, vars,
                sessionVars, clientVars, ClientTypeOK
  <2> QED
    BY <2>1, <2>2, OtherStarts
<1>5. CASE ExecOutput \/ ExecStep
  <2>1. UNCHANGED <<client, inbox, response, conn>>
    BY <1>5 DEF ExecOutput, ExecStep, ExecSpawn, ExecSpawnFails,
       ExecSeesCancel, ExecSendOutput, ExecSeesExit, ExecSendCancelled,
       ExecSendFinished, ExecServerDone, ExecSendFailed, sessionVars,
       clientVars, connVars
  <2>2. ASSUME NEW i \in DOMAIN events'
        PROVE  \/ events'[i].type \notin RecordEvents
               \/ \E j \in DOMAIN events : events'[i] = events[j]
    <3>1. CASE UNCHANGED events
      BY <3>1
    <3>2. ASSUME NEW type \in StarterEvents, Emit(type, None)
          PROVE  \/ events'[i].type \notin RecordEvents
                 \/ \E j \in DOMAIN events : events'[i] = events[j]
      BY <3>2, EmitAt DEF StarterEvents, RecordEvents
    <3> QED
      BY <1>5, <3>1, <3>2, ExecEvents
  <2> QED
    BY <2>1, <2>2, OtherStarts
<1>6. CASE RunnerStep
  <2>1. UNCHANGED <<inbox, response, conn>>
    BY <1>6 DEF RunnerStep, RunnerSeesCancel, RunnerRecord, RunnerOutput,
       RunnerTell, RunnerAsk, RunnerStarterEnds, RunnerRefuses, DirectReply,
       InteractivePauses, InteractiveFails, OffloadFails, OffloadReplyReturns,
       RunnerEnds, ReplyUnchanged, sessionVars, clientVars, connVars
  <2>2. \A c \in Clients : client'[c] \in {client[c], "killed"}
    BY <1>6 DEF RunnerStep, RunnerSeesCancel, RunnerRecord, RunnerOutput,
       RunnerTell, RunnerAsk, RunnerStarterEnds, RunnerRefuses, DirectReply,
       InteractivePauses, InteractiveFails, OffloadFails, OffloadReplyReturns,
       RunnerEnds, sessionVars, clientVars, ClientTypeOK
  <2>3. UNCHANGED events \/ \E types : Takes(types)
    BY <1>6 DEF RunnerStep, RunnerSeesCancel, RunnerRecord, RunnerOutput,
       RunnerTell, RunnerAsk, RunnerStarterEnds, RunnerRefuses, DirectReply,
       InteractivePauses, InteractiveFails, OffloadFails, OffloadReplyReturns,
       RunnerEnds, ReplyUnchanged, sessionVars
  <2>4. \A i \in DOMAIN events' :
           \E j \in DOMAIN events : events'[i] = events[j]
    BY <2>3, TakesAt
  <2> QED
    BY <2>1, <2>2, <2>4, OtherStarts
<1> QED
  BY <1>1, <1>2, <1>3, <1>4, <1>5, <1>6 DEF Next, SessionStep, Terminated

\* What a step does to the ids and the events.  It may leave them alone ...
HistoryStays ==
    /\ UNCHANGED <<tool_use_id, events, tool_uses, tool_results>>
    /\ \A c \in Clients : conn[c] = "RecordStart" => conn'[c] = "RecordStart"

\* ... or give an id to a record ...
GivesId(c) ==
    /\ HandleRecordStart(c) /\ RecordAllowed
    /\ UNCHANGED <<tool_uses, tool_results>>

\* ... or send what a connection task, or the starter, has to say ...
Sends(type, from) ==
    /\ UNCHANGED <<tool_use_id, tool_uses, tool_results>>
    /\ Emit(type, from)
    /\ \A c \in Clients \ {from} : conn'[c] = conn[c]

ConnSends == \E c \in Clients : conn[c] \in ClientEvents /\ Sends(conn[c], c)
ExecSends == \E type \in StarterEvents : Sends(type, None)

\* ... or hand an event over that is no record's.
TakesOther ==
    /\ Takes(StarterEvents \cup {"Prompt", "PromptRequest"})
    /\ UNCHANGED <<tool_use_id, conn, tool_uses, tool_results>>

LEMMA SessionHistory ==
    ASSUME TypeOK, SessionStep, UNCHANGED <<tool_uses, tool_results>>
    PROVE  /\ event_index' \in {event_index, event_index + 1}
           /\ HistoryStays \/ (\E c \in Clients : GivesId(c)) \/ ConnSends
<1> USE DEF TypeOK, SessionTypeOK, ConnTypeOK, StateTypeOK
<1>1. ASSUME NEW c \in Clients, SendEvent(c) \/ SendAsk(c)
      PROVE  event_index' \in {event_index, event_index + 1} /\ ConnSends
  <2>1. event_index' \in {event_index, event_index + 1}
    BY <1>1 DEF SendEvent, SendAsk, next_event_index
  <2>2. conn[c] \in ClientEvents /\ Sends(conn[c], c)
    BY <1>1 DEF SendEvent, SendAsk, Sends, Goto, ClientEvents, RecordEvents
  <2> QED
    BY <2>1, <2>2 DEF ConnSends
<1>2. ASSUME NEW c \in Clients, HandleRecordStart(c)
      PROVE  /\ event_index' \in {event_index, event_index + 1}
             /\ HistoryStays \/ GivesId(c)
  BY <1>2 DEF HandleRecordStart, GivesId, HistoryStays, next_event_index,
              Fail, Goto, Reads
<1>3. ASSUME NEW c \in Clients,
             \/ HandleMetadata(c) \/ HandleRecordChunk(c) \/ HandleRecordEnd(c)
             \/ HandleTell(c) \/ HandleAsk(c) \/ AskResolved(c)
             \/ HandleReplyRejected(c) \/ HandleReply(c) \/ TakeResponder(c)
             \/ ConnEnds(c)
      PROVE  event_index' \in {event_index, event_index + 1} /\ HistoryStays
  <2>1. UNCHANGED <<event_index, tool_use_id, events>>
    BY <1>3 DEF HandleMetadata, HandleRecordChunk, HandleRecordEnd,
       HandleRecordData, HandleTell, HandleAsk, AskResolved,
       HandleReplyRejected, HandleReply, TakeResponder, ConnEnds, connVars,
       stateVars
  <2>2. \A d \in Clients : conn[d] = "RecordStart" => conn'[d] = "RecordStart"
    BY <1>3 DEF HandleMetadata, HandleRecordChunk, HandleRecordEnd,
       HandleRecordData, HandleTell, HandleAsk, AskResolved,
       HandleReplyRejected, HandleReply, TakeResponder, ConnEnds, connVars,
       Reads, SendOrFail, Fail, Goto
  <2> QED
    BY <2>1, <2>2 DEF HistoryStays
<1>4. ASSUME \/ ServerTask
             \/ \E c \in Clients :
                   \/ ClientReceives(c) \/ ListenerTakesAllow(c)
                   \/ ReceiveFails(c) \/ RecordSendsChunk(c)
                   \/ RecordFinishes(c) \/ Accept(c)
      PROVE  event_index' \in {event_index, event_index + 1} /\ HistoryStays
  <2>1. UNCHANGED <<event_index, tool_use_id, events>>
    BY <1>4 DEF ServerTask, ServerShutdown, ServerFatal, StopAccepting,
       ServerFinish, ServerAborted, DropListener, ClientReceives,
       ListenerTakesAllow, ReceiveFails, RecordWrites, RecordSendsChunk,
       RecordFinishes, Accept, connVars, stateVars
  <2>2. \A d \in Clients : conn[d] = "RecordStart" => conn'[d] = "RecordStart"
    BY <1>4 DEF ServerTask, ServerShutdown, ServerFatal, StopAccepting,
       ServerFinish, ServerAborted, DropListener, ClientReceives, Goto,
       ListenerTakesAllow, ReceiveFails, RecordWrites, RecordSendsChunk,
       RecordFinishes, Accept, connVars
  <2> QED
    BY <2>1, <2>2 DEF HistoryStays
<1> QED
  BY <1>1, <1>2, <1>3, <1>4 DEF SessionStep, Handle

LEMMA HistoryShape ==
    ASSUME TypeOK, SlotInv, [Next]_vars
    PROVE  /\ event_index' \in {event_index, event_index + 1}
           /\ \/ HistoryStays
              \/ \E c \in Clients : GivesId(c)
              \/ ConnSends \/ ExecSends
              \/ RunnerRecord \/ TakesOther
<1> USE DEF TypeOK, SessionTypeOK, StateTypeOK
<1>1. CASE SessionStep /\ UNCHANGED <<execVars, runVars>>
  BY <1>1, SessionHistory DEF runVars, historyVars
<1>2. ASSUME NEW c \in Clients,
             \/ ScriptLaunch(c) \/ UiReply(c) \/ UiFeedback(c)
             \/ OffloadRunsReply(c)
      PROVE  event_index' \in {event_index, event_index + 1} /\ HistoryStays
  <2>1. Connect(c) /\ UNCHANGED <<tool_uses, tool_results>>
    BY <1>2 DEF ScriptLaunch, UiReply, UiFeedback, OffloadRunsReply, runVars,
                historyVars
  <2>2. conn[c] # "RecordStart"
    BY <2>1 DEF Connect, SlotInv, AsksOnce
  <2> QED
    BY <2>1, <2>2 DEF Connect, Goto, HistoryStays, stateVars, ConnTypeOK
<1>3. CASE \/ ScriptExit \/ PipesClose \/ KillLands \/ OffloadReplyKilled \/ UserCancel
           \/ UNCHANGED vars
  BY <1>3 DEF ScriptExit, PipesClose, KillLands, OffloadReplyKilled, UserCancel, vars,
     sessionVars, connVars, stateVars, runVars, historyVars, HistoryStays
<1>4. CASE ExecOutput \/ ExecStep
  <2>1. UNCHANGED <<event_index, tool_use_id, conn, tool_uses, tool_results>>
    BY <1>4 DEF ExecOutput, ExecStep, ExecSpawn, ExecSpawnFails,
       ExecSeesCancel, ExecSendOutput, ExecSeesExit, ExecSendCancelled,
       ExecSendFinished, ExecServerDone, ExecSendFailed, sessionVars,
       connVars, stateVars, runVars, historyVars
  <2> QED
    BY <1>4, <2>1, ExecEvents DEF HistoryStays, ExecSends, Sends
<1>5. CASE RunnerStep
  <2>1. UNCHANGED <<event_index, tool_use_id, conn>>
    BY <1>5 DEF RunnerStep, RunnerSeesCancel, RunnerRecord, RunnerOutput,
       RunnerTell, RunnerAsk, RunnerStarterEnds, RunnerRefuses, DirectReply,
       InteractivePauses, InteractiveFails, OffloadFails, OffloadReplyReturns,
       RunnerEnds, ReplyUnchanged, sessionVars, connVars, stateVars
  <2>2. CASE RunnerOutput \/ RunnerTell \/ RunnerAsk \/ RunnerStarterEnds
    <3>1. UNCHANGED <<tool_uses, tool_results>>
      BY <2>2 DEF RunnerOutput, RunnerTell, RunnerAsk, RunnerStarterEnds,
                  historyVars, runVars
    <3>2. Takes(StarterEvents \cup {"Prompt", "PromptRequest"})
      BY <2>2 DEF RunnerOutput, RunnerTell, RunnerAsk, RunnerStarterEnds,
                  Takes, StarterEvents
    <3> QED
      BY <2>1, <3>1, <3>2 DEF TakesOther
  <2>3. CASE ~(\/ RunnerOutput \/ RunnerTell \/ RunnerAsk \/ RunnerStarterEnds
               \/ RunnerRecord)
    <3>1. UNCHANGED <<events, tool_uses, tool_results>>
      BY <1>5, <2>3 DEF RunnerStep, RunnerSeesCancel, RunnerRefuses,
         DirectReply, InteractivePauses, InteractiveFails, OffloadFails,
         OffloadReplyReturns, RunnerEnds, ReplyUnchanged, sessionVars,
         historyVars
    <3> QED
      BY <2>1, <3>1 DEF HistoryStays
  <2> QED
    BY <2>1, <2>2, <2>3
<1> QED
  BY <1>1, <1>2, <1>3, <1>4, <1>5 DEF Next, Terminated

\* Ids are given once and never withdrawn.
LEMMA IdsNext ==
    ASSUME TypeOK, SlotInv, StartsOnce, IdsAreBelow, [Next]_vars
    PROVE  IdsAreBelow' /\ StartsOnce'
<1> USE DEF TypeOK, SessionTypeOK, ConnTypeOK, StateTypeOK
<1>1. CASE UNCHANGED tool_use_id /\ NothingStarts
  <2>1. event_index' \in {event_index, event_index + 1}
    BY HistoryShape
  <2>2. IdsAreBelow'
    BY <1>1, <2>1, NoneAssumption DEF IdsAreBelow
  <2>3. StartsOnce'
    BY <1>1 DEF StartsOnce, NothingStarts
  <2> QED
    BY <2>2, <2>3
<1>2. ASSUME NEW c \in Clients, GivesId(c)
      PROVE  IdsAreBelow' /\ StartsOnce'
  <2>1. /\ tool_use_id' = [tool_use_id EXCEPT ![c] = event_index]
        /\ event_index' = event_index + 1
        /\ Reads(c, "start") /\ UNCHANGED <<client, events>>
        /\ \A d \in Clients \ {c} : response'[d] = response[d]
                                    /\ conn'[d] = conn[d]
    BY <1>2 DEF GivesId, HandleRecordStart, next_event_index, BestEffort, Goto,
                ClientTypeOK
  <2>2. IdsAreBelow'
    BY <2>1, NoneAssumption DEF IdsAreBelow
  <2>3. ASSUME NEW d \in Clients
        PROVE  /\ \A i \in 2..Len(inbox'[d]) : inbox'[d][i] # "start"
               /\ NotStarted(d)' => tool_use_id'[d] = None /\ ~Follows(d)'
    <3>1. CASE d = c
      BY <2>1, <3>1, ReadsStart
    <3>2. CASE d # c
      <4>1. inbox'[d] = inbox[d] /\ tool_use_id'[d] = tool_use_id[d]
        BY <2>1, <3>2 DEF Reads, ClientTypeOK
      <4>2. Follows(d)' => Follows(d)
        BY <2>1, <3>2, <4>1 DEF Follows, RecordOf
      <4>3. NotStarted(d)' => NotStarted(d)
        BY <2>1, <4>1 DEF NotStarted
      <4> QED
        BY <4>1, <4>2, <4>3 DEF StartsOnce
    <3> QED
      BY <3>1, <3>2
  <2> QED
    BY <2>2, <2>3 DEF StartsOnce
<1>3. CASE UNCHANGED tool_use_id /\ ~NothingStarts
  <2>1. PICK c \in Clients : HandleRecordStart(c) /\ RecordAllowed
    BY <1>3, StartsStep
  <2>2. tool_use_id'[c] = event_index /\ tool_use_id[c] = tool_use_id'[c]
    BY <1>3, <2>1 DEF HandleRecordStart
  <2> QED
    BY <2>2, NoneAssumption DEF IdsAreBelow
<1>4. CASE ~UNCHANGED tool_use_id
  BY <1>2, <1>4, HistoryShape DEF HistoryStays, ConnSends, ExecSends, Sends,
     RunnerRecord, TakesOther, connVars
<1> QED
  BY <1>1, <1>3, <1>4

\* What the event loop was told stays told.
LEMMA AnnouncedSends ==
    ASSUME TypeOK, NEW type, NEW from, Sends(type, from),
           NEW c \in Clients, NEW n \in Nat, NEW m \in Nat, n <= m,
           Announced(c, n)
    PROVE  Announced(c, m)'
<1>1. EventTypeOK /\ Emit(type, from)
  BY DEF TypeOK, SessionTypeOK, Sends
<1>2. CASE tool_use_id[c] \in tool_uses
  BY <1>2 DEF Announced, Sends
<1>3. CASE \E i \in DOMAIN events :
              i <= n /\ events[i] = [type |-> "RecordStart", from |-> c]
  <2>1. PICK i \in DOMAIN events :
                i <= n /\ events[i] = [type |-> "RecordStart", from |-> c]
    BY <1>3
  <2>2. i \in DOMAIN events' /\ events'[i] = events[i]
    BY <1>1, EmitKeeps
  <2>3. i \in Nat
    BY DEF TypeOK, SessionTypeOK, EventTypeOK
  <2> QED
    BY <2>1, <2>2, <2>3 DEF Announced
<1> QED
  BY <1>2, <1>3 DEF Announced

LEMMA AnnouncedTakes ==
    ASSUME TypeOK, RunnerRecord \/ TakesOther,
           NEW c \in Clients, NEW n \in Nat, Announced(c, n + 1)
    PROVE  Announced(c, n)'
<1>1. /\ tool_uses \subseteq tool_uses' /\ UNCHANGED tool_use_id
      /\ \E types : Takes(types)
  BY DEF RunnerRecord, TakesOther, connVars
<1>2. CASE tool_use_id[c] \in tool_uses
  BY <1>1, <1>2 DEF Announced
<1>3. CASE \E i \in DOMAIN events :
              i <= n + 1 /\ events[i] = [type |-> "RecordStart", from |-> c]
  <2>1. PICK i \in DOMAIN events :
                i <= n + 1 /\ events[i] = [type |-> "RecordStart", from |-> c]
    BY <1>3
  <2>2. CASE i = 1
    <3>1. Head(events) = [type |-> "RecordStart", from |-> c]
      BY <1>1, <2>1, <2>2, TakesAt DEF TypeOK, SessionTypeOK
    <3>2. RunnerRecord
      BY <3>1 DEF TakesOther, Takes, StarterEvents
    <3>3. tool_use_id[c] \in tool_uses'
      BY <3>1, <3>2 DEF RunnerRecord, EventId
    <3> QED
      BY <1>1, <3>3 DEF Announced
  <2>3. CASE i # 1
    <3>1. i - 1 \in DOMAIN events' /\ events'[i - 1] = events[i]
      BY <1>1, <2>3, TakesAt DEF TypeOK, SessionTypeOK
    <3>2. i - 1 <= n
      BY <2>1 DEF TypeOK, SessionTypeOK, EventTypeOK
    <3> QED
      BY <2>1, <3>1, <3>2 DEF Announced
  <2> QED
    BY <2>2, <2>3
<1> QED
  BY <1>2, <1>3 DEF Announced

LEMMA HistoryNext ==
    ASSUME TypeOK, SlotInv, HistoryInv, [Next]_vars
    PROVE  HistoryInv'
<1> USE DEF TypeOK, SessionTypeOK
<1>1. IdsAreBelow' /\ StartsOnce'
  BY IdsNext DEF HistoryInv
<1>2. ASSUME \A c \in Clients : Follows(c)' => Follows(c), HistoryStays
      PROVE  HistoryInv'
  <2>1. \A c \in Clients : \A n : Announced(c, n) => Announced(c, n)'
    BY <1>2 DEF Announced, HistoryStays
  <2>2. StartComesFirst'
    BY <1>2, <2>1 DEF HistoryInv, StartComesFirst, HistoryStays
  <2> QED
    BY <1>1, <1>2, <2>2 DEF HistoryInv, HistoryStays
<1>3. ASSUME NEW c \in Clients, GivesId(c)
      PROVE  HistoryInv'
  <2>1. /\ tool_use_id' = [tool_use_id EXCEPT ![c] = event_index]
        /\ Reads(c, "start") /\ conn'[c] = "RecordStart"
        /\ UNCHANGED <<client, events, tool_uses, tool_results>>
        /\ \A d \in Clients \ {c} : response'[d] = response[d]
                                    /\ conn'[d] = conn[d]
    BY <1>3 DEF GivesId, HandleRecordStart, BestEffort, Goto, ClientTypeOK,
                ConnTypeOK
  <2>2. ~Follows(c)
    BY <2>1 DEF HistoryInv, StartsOnce, NotStarted, Reads
  <2>3. ASSUME NEW d \in Clients
        PROVE  /\ Follows(d)' /\ conn'[d] # "RecordStart"
                     => Announced(d, Len(events))'
               /\ \A j \in DOMAIN events' :
                     events'[j] = [type |-> "RecordEnd", from |-> d]
                        => Announced(d, j)'
    <3>1. CASE d = c
      <4>1. ASSUME NEW j \in DOMAIN events
            PROVE  events[j] # [type |-> "RecordEnd", from |-> c]
        BY <2>2 DEF Follows, RecordOf, RecordEvents
      <4> QED
        BY <2>1, <3>1, <4>1
    <3>2. CASE d # c
      <4>1. inbox'[d] = inbox[d] /\ tool_use_id'[d] = tool_use_id[d]
        BY <2>1, <3>2 DEF Reads, ClientTypeOK, ConnTypeOK
      <4>2. Follows(d)' => Follows(d)
        BY <2>1, <3>2, <4>1 DEF Follows, RecordOf
      <4>3. \A n : Announced(d, n) => Announced(d, n)'
        BY <2>1, <4>1 DEF Announced
      <4> QED
        BY <2>1, <3>2, <4>2, <4>3 DEF HistoryInv, StartComesFirst
    <3> QED
      BY <3>1, <3>2
  <2>4. StartComesFirst'
    BY <2>3 DEF StartComesFirst
  <2> QED
    BY <1>1, <2>1, <2>4 DEF HistoryInv
<1>4. ASSUME \A c \in Clients : Follows(c)' => Follows(c),
             NEW type, NEW from, Sends(type, from),
             from \in Clients => type = conn[from],
             from \notin Clients => type \in StarterEvents
      PROVE  HistoryInv'
  <2>1. Emit(type, from) /\ Len(events) \in Nat
    BY <1>4 DEF Sends, EventTypeOK
  <2>2. /\ Len(events') = Len(events) + 1
        /\ Len(events') \in DOMAIN events'
        /\ events'[Len(events')] = [type |-> type, from |-> from]
    BY <2>1, EmitKeeps
  <2>3. ASSUME NEW c \in Clients, Follows(c)', conn'[c] # "RecordStart"
        PROVE  Announced(c, Len(events))'
    <3>1. CASE conn[c] # "RecordStart"
      BY <1>4, <2>1, <2>2, <2>3, <3>1, AnnouncedSends
      DEF HistoryInv, StartComesFirst
    <3>2. CASE conn[c] = "RecordStart"
      <4>1. from = c /\ type = "RecordStart"
        BY <1>4, <2>3, <3>2 DEF Sends
      <4> QED
        BY <2>1, <2>2, <4>1 DEF Announced
    <3> QED
      BY <3>1, <3>2
  <2>4. ASSUME NEW c \in Clients, NEW j \in DOMAIN events',
               events'[j] = [type |-> "RecordEnd", from |-> c]
        PROVE  Announced(c, j)'
    <3>1. CASE j \in DOMAIN events /\ events'[j] = events[j]
      <4>1. j \in Nat /\ Announced(c, j)
        BY <2>4, <3>1 DEF HistoryInv, StartComesFirst, EventTypeOK
      <4> QED
        BY <1>4, <4>1, AnnouncedSends
    <3>2. CASE /\ j = Len(events) + 1
               /\ events'[j] = [type |-> type, from |-> from]
      <4>1. from = c /\ conn[c] = "RecordEnd"
        BY <1>4, <2>4, <3>2 DEF StarterEvents
      <4>2. Announced(c, Len(events))
        BY <4>1 DEF Follows, RecordEvents, HistoryInv, StartComesFirst
      <4> QED
        BY <1>4, <2>1, <3>2, <4>2, AnnouncedSends
    <3> QED
      BY <2>1, <3>1, <3>2, EmitAt
  <2>5. StartComesFirst'
    BY <2>3, <2>4 DEF StartComesFirst
  <2> QED
    BY <1>1, <1>4, <2>5 DEF HistoryInv, Sends
<1>5. ASSUME \A c \in Clients : Follows(c)' => Follows(c),
             RunnerRecord \/ TakesOther
      PROVE  HistoryInv'
  <2>1. /\ \E types : Takes(types)
        /\ UNCHANGED <<conn, tool_use_id>>
    BY <1>5 DEF RunnerRecord, TakesOther, connVars
  <2>2. /\ Len(events') \in Nat /\ Len(events) = Len(events') + 1
        /\ 1 \in DOMAIN events /\ events[1] = Head(events)
        /\ events[1] \in Events
        /\ \A j \in DOMAIN events' : /\ j \in Nat /\ j + 1 \in DOMAIN events
                                     /\ events'[j] = events[j + 1]
    BY <2>1, TakesAt DEF EventTypeOK
  <2>3. StartComesFirst'
    BY <1>5, <2>1, <2>2, AnnouncedTakes DEF HistoryInv, StartComesFirst
  <2>4. tool_results' \subseteq tool_uses'
    <3>1. CASE RunnerRecord /\ Head(events).type = "RecordEnd"
      <4>1. PICK c \in Clients : Head(events) = [type |-> "RecordEnd",
                                                 from |-> c]
        BY <2>2, <3>1 DEF Events, ClientEvents, RecordEvents, StarterEvents
      <4>2. Announced(c, 1)
        BY <2>2, <4>1 DEF HistoryInv, StartComesFirst
      <4>3. tool_use_id[c] \in tool_uses
        BY <2>2, <4>1, <4>2 DEF Announced, EventTypeOK
      <4> QED
        BY <3>1, <4>1, <4>3 DEF RunnerRecord, EventId, HistoryInv
    <3>2. CASE ~(RunnerRecord /\ Head(events).type = "RecordEnd")
      BY <1>5, <3>2 DEF RunnerRecord, TakesOther, HistoryInv
    <3> QED
      BY <3>1, <3>2
  <2> QED
    BY <1>1, <2>3, <2>4 DEF HistoryInv
<1>6. CASE NothingStarts
  <2>1. \A c \in Clients : Follows(c)' => Follows(c)
    BY <1>6 DEF NothingStarts
  <2>2. ConnSends => HistoryInv'
    BY <1>4, <2>1 DEF ConnSends
  <2>3. ExecSends => HistoryInv'
    BY <1>4, <2>1, NoneAssumption DEF ExecSends, Values
  <2> QED
    BY <1>2, <1>3, <1>5, <2>1, <2>2, <2>3, HistoryShape
<1>7. ASSUME NEW c \in Clients, HandleRecordStart(c), RecordAllowed
      PROVE  HistoryInv'
  <2>1. UNCHANGED events /\ tool_use_id'[c] = event_index
    BY <1>7 DEF HandleRecordStart, ConnTypeOK
  <2>2. tool_use_id[c] # event_index
    BY NoneAssumption DEF HistoryInv, IdsAreBelow, StateTypeOK, ConnTypeOK
  <2>3. \A type, from : ~Emit(type, from)
    BY <2>1 DEF Emit, EventTypeOK
  <2> QED
    BY <1>3, <2>1, <2>2, <2>3, HistoryShape
    DEF HistoryStays, ConnSends, ExecSends, Sends, RunnerRecord, TakesOther,
        connVars
<1> QED
  BY <1>6, <1>7, StartsStep DEF HistoryInv

LEMMA HistoryAlways == Spec => []HistoryInv
<1>1. Init => HistoryInv
  <2> SUFFICES ASSUME Init PROVE HistoryInv
    OBVIOUS
  <2>1. \A c \in Clients : ~Follows(c)
    BY NoneAssumption DEF Init, SessionInit, Follows, RecordOf, RecordEvents,
                          Responses
  <2> QED
    BY <2>1 DEF Init, SessionInit, HistoryInv, StartsOnce, IdsAreBelow,
                StartComesFirst, NotStarted
<1>2. TypeOK /\ SlotInv /\ HistoryInv /\ [Next]_vars => HistoryInv'
  BY HistoryNext
<1> QED
  BY <1>1, <1>2, TypeCorrect, SlotInvariant, PTL DEF Spec

\* Whatever the coco processes of a run do at the same time, the model's
\* history never has a tool result without its tool use, and two records never
\* share an id (SessionState::next_event_index, starter.rs:129-133, 749-816).
THEOREM HistoryCorrect == Spec => []HistoryIsPaired
<1>1. HistoryInv => HistoryIsPaired
  BY DEF HistoryInv, IdsAreBelow, HistoryIsPaired
<1> QED
  BY <1>1, HistoryAlways, PTL

-----------------------------------------------------------------------------
(* Discovery *)

\* What the connection tasks add to the session when the starter only collects
\* metadata: no prompt and no ask.
LEMMA DiscoverySession ==
    ASSUME TypeOK, Discovery, pending_reply_schemas = None, SessionStep
    PROVE  /\ pending_reply_schemas' = None
           /\ \A c \in Clients :
                 conn'[c] \in {"Prompt", "PromptRequest"} => conn'[c] = conn[c]
<1> USE DEF TypeOK, SessionTypeOK, ConnTypeOK
<1>1. CASE \E c \in Clients :
              HandleTell(c) \/ HandleAsk(c) \/ AskResolved(c) \/ HandleReply(c)
              \/ TakeResponder(c)
  BY <1>1 DEF HandleTell, HandleAsk, AskAllowed, AskResolved, HandleReply,
     TakeResponder, SendOrFail, Fail, Goto, clear_pending_reply, slotVars
<1>2. CASE \E c \in Clients :
              \/ HandleMetadata(c) \/ HandleRecordStart(c)
              \/ HandleRecordChunk(c) \/ HandleRecordEnd(c) \/ SendEvent(c)
              \/ SendAsk(c) \/ HandleReplyRejected(c) \/ ConnEnds(c)
  BY <1>2 DEF HandleMetadata, HandleRecordStart, HandleRecordChunk,
     HandleRecordEnd, HandleRecordData, SendEvent, SendAsk,
     HandleReplyRejected, ConnEnds, SendOrFail, Fail, Goto, slotVars, connVars
<1>3. CASE \/ ServerTask
           \/ \E c \in Clients :
                 \/ ClientReceives(c) \/ ListenerTakesAllow(c)
                 \/ ReceiveFails(c) \/ RecordSendsChunk(c)
                 \/ RecordFinishes(c) \/ Accept(c)
  BY <1>3 DEF ServerTask, ServerShutdown, ServerFatal, StopAccepting,
     ServerFinish, ServerAborted, DropListener, ClientReceives, Goto,
     ListenerTakesAllow, ReceiveFails, RecordWrites, RecordSendsChunk,
     RecordFinishes, Accept, connVars, slotVars
<1> QED
  BY <1>1, <1>2, <1>3 DEF SessionStep, Handle

\* Everything else sends only the starter's own events.
LEMMA DiscoveryRest ==
    ASSUME TypeOK, SlotInv, [Next]_vars,
           ~(SessionStep /\ UNCHANGED <<execVars, runVars>>)
    PROVE  /\ UNCHANGED pending_reply_schemas
           /\ \A c \in Clients :
                 conn'[c] \in {"Prompt", "PromptRequest"} => conn'[c] = conn[c]
           /\ \A i \in DOMAIN events' :
                 \/ events'[i].type \in StarterEvents
                 \/ \E j \in DOMAIN events : events'[i] = events[j]
<1> USE DEF TypeOK, SessionTypeOK
<1>1. ASSUME NEW c \in Clients,
             \/ ScriptLaunch(c) \/ UiReply(c) \/ UiFeedback(c)
             \/ OffloadRunsReply(c)
      PROVE  /\ UNCHANGED <<pending_reply_schemas, events>>
             /\ \A d \in Clients : conn'[d] \in {conn[d], "backlog"}
  BY <1>1 DEF ScriptLaunch, UiReply, UiFeedback, OffloadRunsReply, Connect,
              Goto, slotVars, ConnTypeOK
<1>2. CASE \/ ScriptExit \/ PipesClose \/ KillLands \/ OffloadReplyKilled \/ UserCancel
           \/ UNCHANGED vars
  BY <1>2 DEF ScriptExit, PipesClose, KillLands, OffloadReplyKilled, UserCancel, vars,
     sessionVars, connVars, slotVars
<1>3. CASE ExecOutput \/ ExecStep
  <2>1. UNCHANGED <<pending_reply_schemas, conn>>
    BY <1>3 DEF ExecOutput, ExecStep, ExecSpawn, ExecSpawnFails,
       ExecSeesCancel, ExecSendOutput, ExecSeesExit, ExecSendCancelled,
       ExecSendFinished, ExecServerDone, ExecSendFailed, sessionVars,
       connVars, slotVars
  <2>2. ASSUME NEW i \in DOMAIN events'
        PROVE  \/ events'[i].type \in StarterEvents
               \/ \E j \in DOMAIN events : events'[i] = events[j]
    <3>1. CASE UNCHANGED events
      BY <3>1
    <3>2. ASSUME NEW type \in StarterEvents, Emit(type, None)
          PROVE  \/ events'[i].type \in StarterEvents
                 \/ \E j \in DOMAIN events : events'[i] = events[j]
      BY <3>2, EmitAt
    <3> QED
      BY <1>3, <3>1, <3>2, ExecEvents
  <2> QED
    BY <2>1, <2>2
<1>4. CASE RunnerStep
  <2>1. UNCHANGED <<pending_reply_schemas, conn>>
    BY <1>4 DEF RunnerStep, RunnerSeesCancel, RunnerRecord, RunnerOutput,
       RunnerTell, RunnerAsk, RunnerStarterEnds, RunnerRefuses, DirectReply,
       InteractivePauses, InteractiveFails, OffloadFails, OffloadReplyReturns,
       RunnerEnds, ReplyUnchanged, sessionVars, connVars, slotVars
  <2>2. UNCHANGED events \/ \E types : Takes(types)
    BY <1>4 DEF RunnerStep, RunnerSeesCancel, RunnerRecord, RunnerOutput,
       RunnerTell, RunnerAsk, RunnerStarterEnds, RunnerRefuses, DirectReply,
       InteractivePauses, InteractiveFails, OffloadFails, OffloadReplyReturns,
       RunnerEnds, ReplyUnchanged, sessionVars
  <2> QED
    BY <2>1, <2>2, TakesAt
<1> QED
  BY <1>1, <1>2, <1>3, <1>4 DEF Next, Terminated

\* With no record and no prompt on its way the event loop has none to take.
LEMMA DiscoveryHistory ==
    ASSUME TypeOK, [Next]_vars, tool_uses = {}, told = {},
           \A i \in DOMAIN events : events[i].type \in StarterEvents
    PROVE  tool_uses' = {} /\ told' = {}
<1> USE DEF TypeOK, SessionTypeOK
<1>1. ~RunnerRecord /\ ~RunnerTell
  <2>1. ASSUME NEW types, Takes(types)
        PROVE  types \cap StarterEvents # {}
    BY <2>1, TakesAt
  <2> QED
    BY <2>1 DEF RunnerRecord, RunnerTell, StarterEvents
<1>2. CASE RunnerStep
  BY <1>1, <1>2 DEF RunnerStep, RunnerSeesCancel, RunnerOutput, RunnerAsk,
     RunnerStarterEnds, RunnerRefuses, DirectReply, InteractivePauses,
     InteractiveFails, OffloadFails, OffloadReplyReturns, RunnerEnds,
     ReplyUnchanged, runVars, historyVars
<1>3. CASE ~RunnerStep
  BY <1>3 DEF Next, ScriptLaunch, UiReply, UiFeedback, OffloadRunsReply,
     ScriptExit, PipesClose, KillLands, ExecOutput, ExecStep, ExecSpawn, ExecSpawnFails,
     ExecSeesCancel, ExecSendOutput, ExecSeesExit, ExecSendCancelled,
     ExecSendFinished, ExecServerDone, ExecSendFailed, OffloadReplyKilled,
     UserCancel, Terminated, vars, runVars, historyVars
<1> QED
  BY <1>2, <1>3

LEMMA DiscoveryNext ==
    ASSUME TypeOK, SlotInv, StartsOnce, DiscoveryInv, [Next]_vars
    PROVE  DiscoveryInv'
<1> SUFFICES ASSUME Discovery PROVE DiscoveryInv'
  BY DEF DiscoveryInv
<1> USE DEF TypeOK, SessionTypeOK
<1>1. \A c \in Clients : ~Follows(c)'
  BY StartsStep DEF RecordAllowed, NothingStarts, DiscoveryInv
<1>2. tool_uses' = {} /\ told' = {}
  BY DiscoveryHistory DEF DiscoveryInv
<1>3. CASE SessionStep /\ UNCHANGED <<execVars, runVars>>
  <2>1. UNCHANGED events
    BY <1>3, SessionEvents DEF DiscoveryInv, Follows, ClientEvents
  <2> QED
    BY <1>1, <1>2, <1>3, <2>1, DiscoverySession DEF DiscoveryInv
<1>4. CASE ~(SessionStep /\ UNCHANGED <<execVars, runVars>>)
  BY <1>1, <1>2, <1>4, DiscoveryRest DEF DiscoveryInv
<1> QED
  BY <1>3, <1>4

\* Discovery runs a script to learn its metadata and nothing else: no record
\* is run, no prompt is told and no ask is opened, whatever the script does
\* (starter.rs:749-754, 873-880, 931-940).
THEOREM DiscoveryCorrect == Spec => []DiscoveryIsInert
<1>1. Init => DiscoveryInv
  <2> SUFFICES ASSUME Init PROVE DiscoveryInv
    OBVIOUS
  <2>1. \A c \in Clients : ~Follows(c)
    BY NoneAssumption DEF Init, SessionInit, Follows, RecordOf, RecordEvents,
                          Responses
  <2> QED
    BY <2>1 DEF Init, SessionInit, DiscoveryInv
<1>2. TypeOK /\ SlotInv /\ HistoryInv /\ DiscoveryInv /\ [Next]_vars
         => DiscoveryInv'
  BY DiscoveryNext DEF HistoryInv
<1>3. DiscoveryInv => DiscoveryIsInert
  BY DEF DiscoveryInv, Follows, DiscoveryIsInert
<1> QED
  BY <1>1, <1>2, <1>3, TypeCorrect, SlotInvariant, HistoryAlways, PTL DEF Spec

-----------------------------------------------------------------------------
(* Replies in offload mode *)

\* The script asks nothing interactively.
PlainAsks == \A c \in Clients : Kind[c] # "iask"

\* A coco reply writes one message, waits for its response and writes nothing
\* more, and no other process sends a reply.
LifeOf(c) ==
    IF Kind[c] = "reply"
    THEN /\ conn[c] \in {"none", "backlog", "read", "responder", "closed"}
         /\ client[c] \in Over \cup {"idle", "waiting"}
         /\ inbox[c] \in {<<>>, <<"reply">>}
         /\ response[c] \in {None, "valid", "invalid"}
         /\ conn[c] = "responder" => inbox[c] = <<>>
    ELSE /\ conn[c] # "responder"
         /\ \A i \in DOMAIN inbox[c] : inbox[c][i] # "reply"

ReplyLife == \A c \in Clients : LifeOf(c)

\* A reply that may still become the answer
OnItsWay(r) ==
    /\ Kind[r] = "reply"
    /\ conn[r] = "responder" \/ (conn[r] \in {"backlog", "read"} /\ inbox[r] # <<>>)

NoReply == \A r \in Clients : ~OnItsWay(r)
AskIsOpen == pending_reply_schemas # None /\ answer[pending_reply_schemas] = None
RequestAt(n) == events[n].type = "PromptRequest"
NoRequest == \A n \in DOMAIN events : ~RequestAt(n)

\* Of an open ask there is one thing at a time: the request its connection is
\* about to send, the request in the channel, the runner at work on it, or one
\* reply; and there is none of them once it is answered.
OneAtATime ==
    /\ \A c \in Clients : conn[c] = "PromptRequest" =>
          AskIsOpen /\ NoReply /\ NoRequest /\ runner # "offload"
    /\ \A n \in DOMAIN events : RequestAt(n) =>
          /\ AskIsOpen /\ NoReply /\ runner # "offload"
          /\ events[n].from = pending_reply_schemas
          /\ \A m \in DOMAIN events : RequestAt(m) => m = n
    /\ runner = "offload" =>
          AskIsOpen /\ NoReply /\ handling = pending_reply_schemas
    /\ \A r \in Clients : OnItsWay(r) =>
          AskIsOpen /\ \A s \in Clients : OnItsWay(s) => s = r

\* The model alone starts replies.
OnlyTheModel ==
    /\ runner \in {"poll", "offload", "offloadReply", "done"}
    /\ pending_interactive = None /\ ui # "offered"

SaidValid(r) == client[r] = "done" \/ response[r] = "valid"

IsAnswer ==
    \A r \in Clients : Kind[r] = "reply" /\ SaidValid(r)
                          => \E a \in Clients : answer[a] = r

OffloadInv ==
    /\ ReplyLife
    /\ Offload /\ PlainAsks /\ ~user_cancel
          => OnlyTheModel /\ OneAtATime /\ IsAnswer

\* What a step does to c, if it does anything to it.
LEMMA LifeKept ==
    ASSUME NEW c \in Clients, LifeOf(c),
           UNCHANGED <<client[c], inbox[c], response[c], conn[c]>>
    PROVE  /\ LifeOf(c)' /\ (SaidValid(c)' => SaidValid(c))
           /\ (OnItsWay(c)' <=> OnItsWay(c))
BY DEF LifeOf, SaidValid, OnItsWay

\* Reading takes the only message of a reply, and any other message is not one.
LEMMA ReadsReply ==
    ASSUME TypeOK, NEW c \in Clients, LifeOf(c), NEW m, Reads(c, m)
    PROVE  /\ \A d \in Clients : d # c => UNCHANGED inbox[d]
           /\ Kind[c] = "reply" => m = "reply" /\ inbox'[c] = <<>>
           /\ Kind[c] # "reply" =>
                 m # "reply" /\ \A i \in DOMAIN inbox'[c] : inbox'[c][i] # "reply"
<1>1. inbox[c] \in Seq(Messages) /\ inbox[c] # <<>> /\ inbox'[c] = Tail(inbox[c])
      /\ m = Head(inbox[c])
  BY DEF TypeOK, SessionTypeOK, ClientTypeOK, Reads
<1>2. \A d \in Clients : d # c => UNCHANGED inbox[d]
  BY DEF TypeOK, SessionTypeOK, ClientTypeOK, Reads
<1>3. CASE Kind[c] = "reply"
  <2>1. inbox[c] = <<"reply">>
    BY <1>1, <1>3 DEF LifeOf
  <2>2. Head(<<"reply">>) = "reply" /\ Tail(<<"reply">>) = <<>>
    OBVIOUS
  <2> QED
    BY <1>1, <1>2, <1>3, <2>1, <2>2
<1>4. CASE Kind[c] # "reply"
  <2>1. /\ 1 \in DOMAIN inbox[c] /\ m = inbox[c][1]
        /\ \A i \in DOMAIN inbox'[c] : i + 1 \in DOMAIN inbox[c]
                                       /\ inbox'[c][i] = inbox[c][i + 1]
    BY <1>1
  <2> QED
    BY <1>2, <1>4, <2>1 DEF LifeOf
<1> QED
  BY <1>3, <1>4

\* A connection starts with its first message.
LEMMA ConnectLife ==
    ASSUME TypeOK, ReplyLife, NEW c \in Clients, Connect(c)
    PROVE  /\ ReplyLife' /\ \A d \in Clients : SaidValid(d)' => SaidValid(d)
                                               \/ Kind[d] # "reply"
           /\ \A d \in Clients : OnItsWay(d)' => OnItsWay(d) \/ d = c
<1> USE DEF TypeOK, SessionTypeOK, ClientTypeOK, ConnTypeOK
<1>1. \A d \in Clients \ {c} : UNCHANGED <<client[d], inbox[d], response[d], conn[d]>>
  BY DEF Connect, Goto
<1>2. UNCHANGED response[c]
  BY DEF Connect
<1>3. Kind[c] = "reply" => FirstMessage(c) = "reply" /\ AfterSend(c) = "waiting"
  BY DEF FirstMessage, AfterSend, Tells
<1>4. Kind[c] # "reply" => FirstMessage(c) # "reply"
  BY KindAssumption DEF FirstMessage, Kinds, Asks, Tells
<1>5. CASE server \in {"listening", "draining"}
  <2>1. /\ client'[c] = AfterSend(c) /\ inbox'[c] = <<FirstMessage(c)>>
        /\ conn'[c] = "backlog"
    BY <1>5 DEF Connect, Goto
  <2>2. LifeOf(c)' /\ (Kind[c] = "reply" => (SaidValid(c)' => SaidValid(c)))
    <3>1. CASE Kind[c] = "reply"
      BY <1>2, <1>3, <2>1, <3>1 DEF LifeOf, SaidValid, ReplyLife
    <3>2. CASE Kind[c] # "reply"
      <4>1. \A i \in DOMAIN inbox'[c] : inbox'[c][i] = FirstMessage(c)
        BY <2>1
      <4> QED
        BY <1>4, <2>1, <3>2, <4>1 DEF LifeOf
    <3> QED
      BY <3>1, <3>2
  <2> QED
    BY <1>1, <2>2, LifeKept DEF ReplyLife
<1>6. CASE server \notin {"listening", "draining"}
  <2>1. client'[c] = "failed" /\ UNCHANGED <<inbox[c], conn[c]>>
    BY <1>6 DEF Connect
  <2>2. LifeOf(c)' /\ (Kind[c] = "reply" => (SaidValid(c)' => SaidValid(c)))
    BY <1>2, <2>1 DEF LifeOf, SaidValid, ReplyLife, Over
  <2> QED
    BY <1>1, <2>2, LifeKept DEF ReplyLife
<1> QED
  BY <1>5, <1>6

\* The processes: only the response that says so makes a reply valid.
LEMMA ProcessLife ==
    ASSUME TypeOK, ReplyLife, NEW c \in Clients,
           \/ ClientReceives(c) \/ ListenerTakesAllow(c) \/ ReceiveFails(c)
           \/ RecordSendsChunk(c) \/ RecordFinishes(c)
    PROVE  /\ ReplyLife'
           /\ \A d \in Clients : SaidValid(d)' => SaidValid(d) \/ Kind[d] # "reply"
           /\ \A d \in Clients : OnItsWay(d)' => OnItsWay(d)
<1> USE DEF TypeOK, SessionTypeOK, ClientTypeOK
<1>1. UNCHANGED conn
  BY DEF ClientReceives, ListenerTakesAllow, ReceiveFails, RecordWrites,
         RecordSendsChunk, RecordFinishes, connVars
<1>2. \A d \in Clients \ {c} : UNCHANGED <<client[d], inbox[d], response[d], conn[d]>>
  BY <1>1 DEF ClientReceives, ListenerTakesAllow, ReceiveFails, RecordWrites,
         RecordSendsChunk, RecordFinishes
<1>3. CASE Kind[c] = "reply"
  <2>1. LifeOf(c)
    BY DEF ReplyLife
  <2>2. client[c] \notin {"command", "chunked"}
    BY <1>3, <2>1 DEF LifeOf, Over
  <2>3. CASE ClientReceives(c)
    <3>1. /\ response[c] \in {"valid", "invalid"} /\ UNCHANGED inbox
          /\ client'[c] = Outcome(response[c]) /\ response'[c] = None
      BY <1>3, <2>1, <2>3 DEF ClientReceives, LifeOf
    <3>2. Outcome("valid") = "done" /\ Outcome("invalid") = "failed"
      BY DEF Outcome
    <3>3. client'[c] = "done" \/ client'[c] = "failed"
      BY <3>1, <3>2
    <3>4. LifeOf(c)'
      BY <1>1, <1>3, <2>1, <3>1, <3>3 DEF LifeOf, Over
    <3>5. SaidValid(c)' => SaidValid(c)
      BY NoneAssumption, <3>1, <3>2 DEF SaidValid, Responses
    <3>6. OnItsWay(c)' => OnItsWay(c)
      BY <1>1, <3>1 DEF OnItsWay
    <3> QED
      BY <1>2, <3>4, <3>5, <3>6, LifeKept DEF ReplyLife
  <2>4. CASE ListenerTakesAllow(c)
    BY <1>3, <2>1, <2>4, NoneAssumption DEF ListenerTakesAllow, LifeOf, Responses
  <2>5. CASE ReceiveFails(c)
    <3>1. client'[c] = "failed" /\ UNCHANGED <<inbox, response>>
      BY <2>5 DEF ReceiveFails
    <3>2. LifeOf(c)' /\ (SaidValid(c)' => SaidValid(c)) /\ (OnItsWay(c)' => OnItsWay(c))
      BY <1>1, <1>3, <2>1, <3>1 DEF LifeOf, SaidValid, OnItsWay, Over
    <3> QED
      BY <1>2, <3>2, LifeKept DEF ReplyLife
  <2> QED
    BY <2>2, <2>3, <2>4, <2>5 DEF RecordSendsChunk, RecordFinishes
<1>4. CASE Kind[c] # "reply"
  <2>1. LifeOf(c) /\ inbox[c] \in Seq(Messages)
    BY DEF ReplyLife
  <2>2. \/ inbox'[c] = inbox[c]
        \/ \E m \in {"chunk", "end"} : inbox'[c] = Append(inbox[c], m)
    BY DEF ClientReceives, ListenerTakesAllow, ReceiveFails, RecordWrites,
           RecordSendsChunk, RecordFinishes
  <2>3. \A i \in DOMAIN inbox'[c] : inbox'[c][i] # "reply"
    <3>1. CASE inbox'[c] = inbox[c]
      BY <1>4, <2>1, <3>1 DEF LifeOf
    <3>2. ASSUME NEW m \in {"chunk", "end"}, inbox'[c] = Append(inbox[c], m),
                 NEW i \in DOMAIN inbox'[c]
          PROVE  inbox'[c][i] # "reply"
      <4>1. (i \in DOMAIN inbox[c] /\ inbox'[c][i] = inbox[c][i]) \/ inbox'[c][i] = m
        BY <2>1, <3>2
      <4> QED
        BY <1>4, <2>1, <3>2, <4>1 DEF LifeOf
    <3> QED
      BY <2>2, <3>1, <3>2
  <2>4. LifeOf(c)'
    BY <1>1, <1>4, <2>1, <2>3 DEF LifeOf
  <2>5. ~OnItsWay(c)'
    BY <1>4 DEF OnItsWay
  <2> QED
    BY <1>2, <1>4, <2>4, <2>5, LifeKept DEF ReplyLife
<1> QED
  BY <1>3, <1>4

\* A step of c's connection that leaves the messages of the others alone.
OfConn(c) ==
    /\ \A d \in Clients : d # c => UNCHANGED <<inbox[d], response[d], conn[d]>>
    /\ UNCHANGED client

\* The connection of another process says nothing to a reply and reads none.
LEMMA OtherConnLife ==
    ASSUME TypeOK, ReplyLife, NEW c \in Clients, Kind[c] # "reply",
           OfConn(c), UNCHANGED inbox \/ (\E m : Reads(c, m)), conn'[c] # "responder"
    PROVE  /\ ReplyLife'
           /\ \A d \in Clients : SaidValid(d)' => SaidValid(d) \/ Kind[d] # "reply"
           /\ \A d \in Clients : OnItsWay(d)' => OnItsWay(d)
<1>1. \A d \in Clients \ {c} : UNCHANGED <<client[d], inbox[d], response[d], conn[d]>>
  BY DEF OfConn
<1>2. LifeOf(c)
  BY DEF ReplyLife
<1>3. \A i \in DOMAIN inbox'[c] : inbox'[c][i] # "reply"
  BY <1>2, ReadsReply DEF LifeOf
<1>4. LifeOf(c)' /\ ~OnItsWay(c)'
  BY <1>3 DEF LifeOf, OnItsWay
<1> QED
  BY <1>1, <1>4, LifeKept DEF ReplyLife

\* The connection of a reply checks it, and answers with it.
LEMMA ReplyConnLife ==
    ASSUME TypeOK, ReplyLife, NEW c \in Clients, Kind[c] = "reply", Handle(c)
    PROVE  /\ OfConn(c) /\ LifeOf(c)' /\ (OnItsWay(c)' => OnItsWay(c))
           /\ SaidValid(c)' => SaidValid(c) \/ TakeResponder(c)
           /\ HandleReplyRejected(c) \/ HandleReply(c) \/ TakeResponder(c) \/ ConnEnds(c)
<1> USE DEF TypeOK, SessionTypeOK, ClientTypeOK, ConnTypeOK
<1>1. LifeOf(c)
  BY DEF ReplyLife
<1>2. \A m : Reads(c, m) => m = "reply"
  BY <1>1, ReadsReply
<1>3. conn[c] \in {"none", "backlog", "read", "responder", "closed"}
  BY <1>1 DEF LifeOf
<1>4. \/ HandleReplyRejected(c) \/ HandleReply(c) \/ TakeResponder(c) \/ ConnEnds(c)
  BY <1>2, <1>3 DEF Handle, HandleMetadata, HandleRecordStart,
     HandleRecordChunk, HandleRecordEnd, HandleRecordData, SendEvent,
     HandleTell, HandleAsk, SendAsk, AskResolved, ClientEvents, RecordEvents
<1>5. CASE HandleReplyRejected(c)
  <2>1. /\ Reads(c, "reply") /\ UNCHANGED <<client, conn>>
        /\ response' \in {response, [response EXCEPT ![c] = "invalid"]}
    BY <1>5 DEF HandleReplyRejected, BestEffort, connVars
  <2>2. inbox'[c] = <<>> /\ \A d \in Clients : d # c => UNCHANGED inbox[d]
    BY <1>1, <2>1, ReadsReply
  <2>3. response'[c] \in {response[c], "invalid"}
    BY <2>1
  <2>4. OfConn(c)
    BY <2>1, <2>2 DEF OfConn
  <2> QED
    BY <1>1, <1>4, <2>1, <2>2, <2>3, <2>4 DEF LifeOf, SaidValid, OnItsWay
<1>6. CASE HandleReply(c)
  <2>1. /\ Reads(c, "reply") /\ UNCHANGED <<client, response>>
        /\ conn' = [conn EXCEPT ![c] = "responder"]
    BY <1>6 DEF HandleReply, Goto
  <2>2. inbox'[c] = <<>> /\ \A d \in Clients : d # c => UNCHANGED inbox[d]
    BY <1>1, <2>1, ReadsReply
  <2>3. OfConn(c) /\ conn'[c] = "responder"
    BY <2>1, <2>2 DEF OfConn
  <2>4. OnItsWay(c)
    BY <2>1 DEF OnItsWay, Reads
  <2> QED
    BY <1>1, <1>4, <2>1, <2>2, <2>3, <2>4 DEF LifeOf, SaidValid
<1>7. CASE TakeResponder(c)
  <2>1. /\ UNCHANGED <<client, inbox>> /\ conn[c] = "responder"
        /\ response' \in {response, [response EXCEPT ![c] = "valid"]}
        /\ \E pc \in {"read", "closed"} : conn' = [conn EXCEPT ![c] = pc]
    BY <1>7 DEF TakeResponder, SendOrFail, BestEffort, Fail, Goto
  <2>2. OfConn(c) /\ conn'[c] \in {"read", "closed"} /\ response'[c] \in {response[c], "valid"}
    BY <2>1 DEF OfConn
  <2>3. OnItsWay(c)
    BY <2>1 DEF OnItsWay
  <2> QED
    BY <1>1, <1>4, <1>7, <2>1, <2>2, <2>3 DEF LifeOf
<1>8. CASE ConnEnds(c)
  <2>1. UNCHANGED <<client, inbox, response>> /\ conn' = [conn EXCEPT ![c] = "closed"]
    BY <1>8 DEF ConnEnds, Fail, Goto, clientVars
  <2>2. OfConn(c) /\ conn'[c] = "closed"
    BY <2>1 DEF OfConn
  <2> QED
    BY <1>1, <1>4, <2>1, <2>2 DEF LifeOf, SaidValid, OnItsWay
<1> QED
  BY <1>4, <1>5, <1>6, <1>7, <1>8

\* The other handlers of a connection
LEMMA OtherHandleLife ==
    ASSUME TypeOK, ReplyLife, NEW c \in Clients, Kind[c] # "reply", Handle(c)
    PROVE  /\ ReplyLife'
           /\ \A d \in Clients : SaidValid(d)' => SaidValid(d) \/ Kind[d] # "reply"
           /\ \A d \in Clients : OnItsWay(d)' => OnItsWay(d)
<1> USE DEF TypeOK, SessionTypeOK, ClientTypeOK, ConnTypeOK
<1>1. LifeOf(c) /\ conn[c] # "responder"
  BY DEF ReplyLife, LifeOf
<1>2. ~Reads(c, "reply")
  BY <1>1, ReadsReply
<1>3. CASE \E m : Reads(c, m)
  <2>1. PICK m : Reads(c, m)
    BY <1>3
  <2>2. \A d \in Clients : d # c => UNCHANGED inbox[d]
    BY <1>1, <2>1, ReadsReply
  <2>3. CASE HandleMetadata(c) \/ HandleRecordStart(c)
    <3>1. UNCHANGED client /\ conn'[c] # "responder"
          /\ \A d \in Clients : d # c => UNCHANGED <<response[d], conn[d]>>
      BY <2>3 DEF HandleMetadata, HandleRecordStart, SendOrFail, BestEffort, Fail, Goto
    <3> QED
      BY <2>1, <2>2, <3>1, OtherConnLife DEF OfConn
  <2>4. CASE \/ HandleRecordChunk(c) \/ HandleRecordEnd(c) \/ HandleTell(c)
             \/ HandleAsk(c)
    <3>1. UNCHANGED <<client, response>> /\ conn'[c] # "responder"
          /\ \A d \in Clients : d # c => UNCHANGED conn[d]
      BY <2>4 DEF HandleRecordChunk, HandleRecordEnd, HandleRecordData,
         HandleTell, HandleAsk, Fail, Goto
    <3> QED
      BY <2>1, <2>2, <3>1, OtherConnLife DEF OfConn
  <2>5. CASE SendEvent(c) \/ SendAsk(c) \/ AskResolved(c) \/ ConnEnds(c)
    <3>1. UNCHANGED inbox
      BY <2>5 DEF SendEvent, SendAsk, AskResolved, ConnEnds, clientVars
    <3>2. inbox'[c] = Tail(inbox[c]) /\ inbox[c] # <<>> /\ inbox[c] \in Seq(Messages)
      BY <2>1 DEF Reads
    <3>3. Len(Tail(inbox[c])) = Len(inbox[c]) - 1 /\ Len(inbox[c]) \in Nat
      BY <3>2
    <3> QED
      BY <3>1, <3>2, <3>3
  <2> QED
    BY <1>1, <1>2, <2>3, <2>4, <2>5
    DEF Handle, HandleReplyRejected, HandleReply, TakeResponder
<1>4. CASE ~\E m : Reads(c, m)
  <2>1. SendEvent(c) \/ SendAsk(c) \/ AskResolved(c) \/ ConnEnds(c)
    BY <1>1, <1>4 DEF Handle, HandleMetadata, HandleRecordStart,
       HandleRecordChunk, HandleRecordEnd, HandleRecordData, HandleTell,
       HandleAsk, HandleReplyRejected, HandleReply, TakeResponder
  <2>2. UNCHANGED <<client, inbox>> /\ conn'[c] # "responder"
        /\ \A d \in Clients : d # c => UNCHANGED <<response[d], conn[d]>>
    BY <2>1 DEF SendEvent, SendAsk, AskResolved, ConnEnds, SendOrFail,
       BestEffort, Fail, Goto, clientVars
  <2> QED
    BY <2>2, OtherConnLife DEF OfConn
<1> QED
  BY <1>3, <1>4

LEMMA SessionLife ==
    ASSUME TypeOK, ReplyLife, SessionStep
    PROVE  /\ ReplyLife'
           /\ \A d \in Clients : SaidValid(d)' =>
                 SaidValid(d) \/ Kind[d] # "reply" \/ TakeResponder(d)
           /\ \A d \in Clients : OnItsWay(d)' => OnItsWay(d)
<1> USE DEF TypeOK, SessionTypeOK, ClientTypeOK, ConnTypeOK
<1>1. ASSUME NEW c \in Clients,
             \/ ClientReceives(c) \/ ListenerTakesAllow(c) \/ ReceiveFails(c)
             \/ RecordSendsChunk(c) \/ RecordFinishes(c)
      PROVE  /\ ReplyLife'
             /\ \A d \in Clients : SaidValid(d)' =>
                   SaidValid(d) \/ Kind[d] # "reply" \/ TakeResponder(d)
             /\ \A d \in Clients : OnItsWay(d)' => OnItsWay(d)
  BY <1>1, ProcessLife
<1>2. ASSUME NEW c \in Clients, Handle(c), Kind[c] = "reply"
      PROVE  /\ ReplyLife'
             /\ \A d \in Clients : SaidValid(d)' =>
                   SaidValid(d) \/ Kind[d] # "reply" \/ TakeResponder(d)
             /\ \A d \in Clients : OnItsWay(d)' => OnItsWay(d)
  <2>1. /\ OfConn(c) /\ LifeOf(c)' /\ (OnItsWay(c)' => OnItsWay(c))
        /\ SaidValid(c)' => SaidValid(c) \/ TakeResponder(c)
    BY <1>2, ReplyConnLife
  <2>2. \A d \in Clients \ {c} :
           UNCHANGED <<client[d], inbox[d], response[d], conn[d]>>
    BY <2>1 DEF OfConn
  <2> QED
    BY <2>1, <2>2, LifeKept DEF ReplyLife
<1>3. ASSUME NEW c \in Clients, Handle(c), Kind[c] # "reply"
      PROVE  /\ ReplyLife'
             /\ \A d \in Clients : SaidValid(d)' =>
                   SaidValid(d) \/ Kind[d] # "reply" \/ TakeResponder(d)
             /\ \A d \in Clients : OnItsWay(d)' => OnItsWay(d)
  BY <1>3, OtherHandleLife
<1>4. CASE ServerTask \/ \E c \in Clients : Accept(c)
  <2>1. UNCHANGED <<client, inbox, response>>
    BY <1>4 DEF ServerTask, ServerShutdown, ServerFatal, StopAccepting,
       ServerFinish, ServerAborted, DropListener, Accept, clientVars
  <2>2. \A d \in Clients : conn'[d] = conn[d]
                           \/ (conn[d] = "backlog" /\ conn'[d] \in {"read", "closed"})
    BY <1>4 DEF ServerTask, ServerShutdown, ServerFatal, StopAccepting,
       ServerFinish, ServerAborted, DropListener, Accept, Goto, connVars
  <2>3. \A d \in Clients : LifeOf(d)
    BY DEF ReplyLife
  <2>4. \A d \in Clients : LifeOf(d)'
    BY <2>1, <2>2, <2>3 DEF LifeOf
  <2>5. \A d \in Clients : OnItsWay(d)' => OnItsWay(d)
    BY <2>1, <2>2 DEF OnItsWay
  <2> QED
    BY <2>1, <2>4, <2>5 DEF ReplyLife, SaidValid
<1> QED
  BY <1>1, <1>2, <1>3, <1>4 DEF SessionStep

Launched(c) ==
    ScriptLaunch(c) \/ UiReply(c) \/ UiFeedback(c) \/ OffloadRunsReply(c)

LEMMA LifeNext ==
    ASSUME TypeOK, ReplyLife, [Next]_vars
    PROVE  /\ ReplyLife'
           /\ \A d \in Clients : SaidValid(d)' =>
                 SaidValid(d) \/ Kind[d] # "reply" \/ TakeResponder(d)
           /\ \A d \in Clients : OnItsWay(d)' => OnItsWay(d) \/ Launched(d)
<1> USE DEF TypeOK, SessionTypeOK, ClientTypeOK
<1>1. CASE SessionStep
  BY <1>1, SessionLife
<1>2. ASSUME NEW c \in Clients, Launched(c)
      PROVE  /\ ReplyLife'
             /\ \A d \in Clients : SaidValid(d)' =>
                   SaidValid(d) \/ Kind[d] # "reply" \/ TakeResponder(d)
             /\ \A d \in Clients : OnItsWay(d)' => OnItsWay(d) \/ Launched(d)
  <2>1. Connect(c)
    BY <1>2 DEF Launched, ScriptLaunch, UiReply, UiFeedback, OffloadRunsReply
  <2> QED
    BY <1>2, <2>1, ConnectLife
<1>3. CASE /\ UNCHANGED <<inbox, response, conn>>
           /\ \A d \in Clients : client'[d] \in {client[d], "killed"}
  <2>1. ASSUME NEW d \in Clients
        PROVE  /\ LifeOf(d)' /\ (SaidValid(d)' => SaidValid(d))
               /\ OnItsWay(d)' => OnItsWay(d)
    <3>1. UNCHANGED <<inbox[d], response[d], conn[d]>> /\ client'[d] \in {client[d], "killed"}
          /\ LifeOf(d)
      BY <1>3 DEF ReplyLife
    <3> QED
      BY <3>1 DEF LifeOf, SaidValid, OnItsWay, Over
  <2> QED
    BY <2>1 DEF ReplyLife
<1>4. CASE KillLands \/ OffloadReplyKilled \/ OffloadReplyReturns
  <2>1. UNCHANGED <<inbox, response, conn>>
    BY <1>4 DEF KillLands, OffloadReplyKilled, OffloadReplyReturns,
       ReplyUnchanged, connVars
  <2>2. \A d \in Clients : client'[d] \in {client[d], "killed"}
    BY <1>4 DEF KillLands, OffloadReplyKilled, OffloadReplyReturns
  <2> QED
    BY <1>3, <2>1, <2>2
<1>5. CASE \/ ScriptExit \/ PipesClose \/ ExecOutput \/ ExecStep \/ UserCancel
           \/ UNCHANGED vars
           \/ (RunnerStep /\ ~OffloadReplyReturns)
  <2>1. UNCHANGED <<client, inbox, response, conn>>
    BY <1>5 DEF ScriptExit, PipesClose, ExecOutput, ExecStep, ExecSpawn, ExecSpawnFails,
       ExecSeesCancel, ExecSendOutput, ExecSeesExit, ExecSendCancelled,
       ExecSendFinished, ExecServerDone, ExecSendFailed, UserCancel, vars,
       RunnerStep, RunnerSeesCancel, RunnerRecord, RunnerOutput, RunnerTell,
       RunnerAsk, RunnerStarterEnds, RunnerRefuses, DirectReply,
       InteractivePauses, InteractiveFails, OffloadFails, RunnerEnds,
       ReplyUnchanged, sessionVars, clientVars, connVars
  <2> QED
    BY <1>3, <2>1
<1> QED
  BY <1>1, <1>2, <1>4, <1>5 DEF Next, Terminated, Launched

\* The requests in the channel after a step are those of before, if none is sent.
RequestsStay ==
    \E k \in {0, 1} : \A n \in DOMAIN events' :
        RequestAt(n)' => n + k \in DOMAIN events /\ events'[n] = events[n + k]

LEMMA RequestsMove ==
    ASSUME EventTypeOK,
           \/ UNCHANGED events
           \/ \E type, from : type # "PromptRequest" /\ Emit(type, from)
           \/ \E types : Takes(types)
    PROVE  RequestsStay
<1>1. CASE UNCHANGED events
  <2>1. \A n \in DOMAIN events' : n + 0 = n
    BY <1>1 DEF EventTypeOK
  <2> QED
    BY <1>1, <2>1 DEF RequestsStay, RequestAt
<1>2. ASSUME NEW type, NEW from, type # "PromptRequest", Emit(type, from)
      PROVE  RequestsStay
  <2>1. ASSUME NEW n \in DOMAIN events', RequestAt(n)'
        PROVE  n + 0 \in DOMAIN events /\ events'[n] = events[n + 0]
    <3>1. n \in DOMAIN events /\ events'[n] = events[n]
      BY <1>2, <2>1, EmitAt DEF RequestAt
    <3>2. n + 0 = n
      BY <3>1 DEF EventTypeOK
    <3> QED
      BY <2>1, <3>1, <3>2 DEF RequestAt
  <2> QED
    BY <2>1 DEF RequestsStay
<1>3. ASSUME NEW types, Takes(types)
      PROVE  RequestsStay
  <2>1. \A n \in DOMAIN events' : n + 1 \in DOMAIN events /\ events'[n] = events[n + 1]
    BY <1>3, TakesAt
  <2> QED
    BY <2>1 DEF RequestsStay, RequestAt
<1> QED
  BY <1>1, <1>2, <1>3

\* A step that begins nothing for an ask and answers none.
LEMMA OneStays ==
    ASSUME EventTypeOK, EventTypeOK', OneAtATime, RequestsStay,
           UNCHANGED pending_reply_schemas, AskIsOpen => AskIsOpen',
           \A c \in Clients : conn'[c] = "PromptRequest" => conn[c] = "PromptRequest",
           \A c \in Clients : OnItsWay(c)' => OnItsWay(c),
           runner' = "offload" => runner = "offload" /\ handling' = handling
    PROVE  OneAtATime'
<1>1. NoReply => NoReply'
  BY DEF NoReply
<1>2. PICK k \in {0, 1} : \A n \in DOMAIN events' :
              RequestAt(n)' => /\ n + k \in DOMAIN events /\ RequestAt(n + k)
                               /\ events'[n] = events[n + k]
  BY DEF RequestsStay, RequestAt
<1>3. NoRequest => NoRequest'
  BY <1>2 DEF NoRequest
<1>4. ASSUME NEW c \in Clients, conn'[c] = "PromptRequest"
      PROVE  AskIsOpen' /\ NoReply' /\ NoRequest' /\ runner' # "offload"
  BY <1>1, <1>3, <1>4 DEF OneAtATime
<1>5. ASSUME NEW n \in DOMAIN events', RequestAt(n)'
      PROVE  /\ AskIsOpen' /\ NoReply' /\ runner' # "offload"
             /\ events'[n].from = pending_reply_schemas'
             /\ \A m \in DOMAIN events' : RequestAt(m)' => m = n
  <2>1. n + k \in DOMAIN events /\ RequestAt(n + k) /\ events'[n] = events[n + k]
    BY <1>2, <1>5
  <2>2. ASSUME NEW m \in DOMAIN events', RequestAt(m)'
        PROVE  m = n
    <3>1. m + k \in DOMAIN events /\ RequestAt(m + k)
      BY <1>2, <2>2
    <3>2. m + k = n + k
      BY <2>1, <3>1 DEF OneAtATime
    <3> QED
      BY <3>2 DEF EventTypeOK
  <2> QED
    BY <1>1, <2>1, <2>2 DEF OneAtATime
<1>6. ASSUME runner' = "offload"
      PROVE  AskIsOpen' /\ NoReply' /\ handling' = pending_reply_schemas'
  BY <1>1, <1>6 DEF OneAtATime
<1>7. ASSUME NEW r \in Clients, OnItsWay(r)'
      PROVE  AskIsOpen' /\ \A s \in Clients : OnItsWay(s)' => s = r
  BY <1>7 DEF OneAtATime
<1> QED
  BY <1>4, <1>5, <1>6, <1>7 DEF OneAtATime

\* Without an open ask there is nothing on its way.
LEMMA NothingOpen ==
    ASSUME OneAtATime, ~AskIsOpen
    PROVE  /\ \A c \in Clients : conn[c] # "PromptRequest"
           /\ NoRequest /\ NoReply /\ runner # "offload"
BY DEF OneAtATime, NoRequest, NoReply

\* An ask begins when there is none, and sends its request once.
LEMMA HandleAskOne ==
    ASSUME TypeOK, TypeOK', SlotInv, ReplyLife, OneAtATime, NEW c \in Clients, HandleAsk(c),
           UNCHANGED <<runner, handling>>,
           \A d \in Clients : OnItsWay(d)' => OnItsWay(d)
    PROVE  OneAtATime'
<1> USE DEF TypeOK, SessionTypeOK, ClientTypeOK, ConnTypeOK, SlotTypeOK
<1>1. UNCHANGED <<events, answer>> /\ RequestsStay
  BY RequestsMove DEF HandleAsk
<1>2. CASE ~AskAllowed
  <2>1. UNCHANGED pending_reply_schemas /\ conn' = [conn EXCEPT ![c] = "closed"]
    BY <1>2 DEF HandleAsk, Fail, Goto
  <2>2. AskIsOpen => AskIsOpen'
    BY <1>1, <2>1 DEF AskIsOpen
  <2> QED
    BY <1>1, <2>1, <2>2, OneStays
<1>3. CASE AskAllowed
  <2>1. pending_reply_schemas = None /\ pending_reply_schemas' = c
    BY <1>3 DEF AskAllowed, HandleAsk
  <2>2. NotAskedYet(c)
    BY DEF HandleAsk, Reads, NotAskedYet
  <2>3. AskIsOpen'
    BY <1>1, <2>1, <2>2, NoneAssumption DEF AskIsOpen, SlotInv, AsksOnce, Values
  <2>4. NoRequest /\ NoReply /\ runner # "offload"
    BY <2>1, NothingOpen DEF AskIsOpen
  <2>5. NoRequest' /\ NoReply' /\ runner' # "offload"
    BY <1>1, <2>4 DEF NoRequest, NoReply, RequestAt
  <2> QED
    BY <2>3, <2>5 DEF OneAtATime, NoRequest, NoReply
<1> QED
  BY <1>2, <1>3

LEMMA SendAskOne ==
    ASSUME TypeOK, TypeOK', SlotInv, OneAtATime, NEW c \in Clients, SendAsk(c),
           UNCHANGED <<runner, handling>>,
           \A d \in Clients : OnItsWay(d)' => OnItsWay(d)
    PROVE  OneAtATime'
<1> USE DEF TypeOK, SessionTypeOK, ConnTypeOK
<1>1. /\ conn[c] = "PromptRequest" /\ Emit("PromptRequest", c)
      /\ conn' = [conn EXCEPT ![c] = "response"]
      /\ UNCHANGED <<pending_reply_schemas, answer>>
  BY DEF SendAsk, Goto, slotVars
<1>2. AskIsOpen /\ NoReply /\ NoRequest /\ runner # "offload"
  BY <1>1 DEF OneAtATime
<1>3. AskIsOpen' /\ NoReply' /\ runner' # "offload"
  BY <1>1, <1>2 DEF AskIsOpen, NoReply
<1>4. \A d \in Clients : conn'[d] # "PromptRequest"
  BY <1>1, NoneAssumption DEF SlotInv, SlotMatchesTask, Asking
<1>5. ASSUME NEW n \in DOMAIN events', RequestAt(n)'
      PROVE  n = Len(events) + 1 /\ events'[n].from = c
  BY <1>1, <1>2, <1>5, EmitAt DEF NoRequest, RequestAt
<1>6. pending_reply_schemas' = c
  BY <1>1 DEF SlotInv, SlotMatchesTask, Asking
<1> QED
  BY <1>3, <1>4, <1>5, <1>6 DEF OneAtATime, NoReply

\* An ask that ends, and one that is answered, leave nothing behind.
LEMMA AnsweredOne ==
    ASSUME TypeOK, SlotInv, OneAtATime, NEW c \in Clients,
           AskResolved(c) \/ TakeResponder(c),
           UNCHANGED <<runner, handling>>,
           \A d \in Clients : OnItsWay(d)' => OnItsWay(d),
           ReplyLife
    PROVE  OneAtATime'
<1> USE DEF TypeOK, SessionTypeOK, ConnTypeOK, SlotTypeOK
<1>1. UNCHANGED events /\ conn' \in {[conn EXCEPT ![c] = "closed"], [conn EXCEPT ![c] = "read"]}
  BY DEF AskResolved, TakeResponder, SendOrFail, Fail, Goto
<1>2. \A d \in Clients : conn'[d] = "PromptRequest" => conn[d] = "PromptRequest"
  BY <1>1
<1>3. NoRequest => NoRequest'
  BY <1>1 DEF NoRequest, RequestAt
<1>4. NoReply => NoReply'
  BY DEF NoReply
<1>5. CASE AskResolved(c)
  <2>1. conn[c] = "response" /\ answer[c] # None
    BY <1>5 DEF AskResolved, ResponseReady
  <2>2. ~AskIsOpen
    BY <2>1 DEF SlotInv, SlotMatchesTask, Asking, AskIsOpen
  <2> QED
    BY <1>2, <1>3, <1>4, <2>2, NothingOpen DEF OneAtATime, NoRequest, NoReply
<1>6. CASE TakeResponder(c)
  <2>1. OnItsWay(c)
    BY <1>6 DEF TakeResponder, ReplyLife, LifeOf, OnItsWay
  <2>2. NoRequest /\ runner # "offload" /\ \A d \in Clients : conn[d] # "PromptRequest"
    BY <2>1 DEF OneAtATime, NoReply, NoRequest
  <2>3. \A s \in Clients : OnItsWay(s) => s = c
    BY <2>1 DEF OneAtATime
  <2>4. ~OnItsWay(c)'
    <3>1. inbox[c] = <<>> /\ UNCHANGED inbox
      BY <1>6, <2>1 DEF TakeResponder, OnItsWay, ReplyLife, LifeOf
    <3>2. conn'[c] # "responder"
      BY <1>1
    <3> QED
      BY <3>1, <3>2 DEF OnItsWay
  <2>5. NoReply'
    BY <2>3, <2>4 DEF NoReply
  <2> QED
    BY <1>2, <1>3, <2>2, <2>5 DEF OneAtATime, NoRequest, NoReply
<1> QED
  BY <1>5, <1>6

\* What the other steps of the session leave alone
LEMMA OtherSessionSteps ==
    ASSUME TypeOK, SessionStep,
           \A c \in Clients : ~HandleAsk(c) /\ ~SendAsk(c) /\ ~AskResolved(c)
                              /\ ~TakeResponder(c)
    PROVE  /\ UNCHANGED slotVars
           /\ \A c \in Clients : conn'[c] = "PromptRequest" => conn[c] = "PromptRequest"
           /\ \/ UNCHANGED events
              \/ \E type, from : type # "PromptRequest" /\ Emit(type, from)
<1> USE DEF TypeOK, SessionTypeOK, ConnTypeOK
<1>1. CASE \/ ServerTask
           \/ \E c \in Clients :
                 \/ ClientReceives(c) \/ ListenerTakesAllow(c)
                 \/ ReceiveFails(c) \/ RecordSendsChunk(c)
                 \/ RecordFinishes(c) \/ Accept(c)
  BY <1>1 DEF ServerTask, ServerShutdown, ServerFatal, StopAccepting,
     ServerFinish, ServerAborted, DropListener, ClientReceives, Goto,
     ListenerTakesAllow, ReceiveFails, RecordWrites, RecordSendsChunk,
     RecordFinishes, Accept, connVars
<1>2. ASSUME NEW c \in Clients, Handle(c), ~SendEvent(c)
      PROVE  /\ UNCHANGED <<slotVars, events>>
             /\ \A d \in Clients : conn'[d] = "PromptRequest" => conn[d] = "PromptRequest"
  BY <1>2 DEF Handle, HandleMetadata, HandleRecordStart, HandleRecordChunk,
     HandleRecordEnd, HandleRecordData, HandleTell, HandleReplyRejected,
     HandleReply, ConnEnds, SendOrFail, Fail, Goto, connVars
<1>3. ASSUME NEW c \in Clients, SendEvent(c)
      PROVE  /\ UNCHANGED slotVars
             /\ \A d \in Clients : conn'[d] = "PromptRequest" => conn[d] = "PromptRequest"
             /\ \E type, from : type # "PromptRequest" /\ Emit(type, from)
  BY <1>3 DEF SendEvent, Goto
<1> QED
  BY <1>1, <1>2, <1>3 DEF SessionStep

LEMMA SessionOne ==
    ASSUME TypeOK, TypeOK', SlotInv, ReplyLife, OneAtATime, SessionStep, UNCHANGED runVars
    PROVE  OneAtATime'
<1>1. UNCHANGED <<runner, handling>>
  BY DEF runVars, replyVars
<1>2. \A d \in Clients : OnItsWay(d)' => OnItsWay(d)
  BY SessionLife
<1>3. CASE \E c \in Clients : HandleAsk(c) \/ SendAsk(c) \/ AskResolved(c) \/ TakeResponder(c)
  BY <1>1, <1>2, <1>3, HandleAskOne, SendAskOne, AnsweredOne
<1>4. CASE \A c \in Clients : ~HandleAsk(c) /\ ~SendAsk(c) /\ ~AskResolved(c)
                              /\ ~TakeResponder(c)
  <2>1. /\ UNCHANGED slotVars
        /\ \A c \in Clients : conn'[c] = "PromptRequest" => conn[c] = "PromptRequest"
        /\ \/ UNCHANGED events
           \/ \E type, from : type # "PromptRequest" /\ Emit(type, from)
    BY <1>4, OtherSessionSteps
  <2>2. RequestsStay
    BY <2>1, RequestsMove DEF TypeOK, SessionTypeOK
  <2>3. UNCHANGED pending_reply_schemas /\ (AskIsOpen => AskIsOpen')
    BY <2>1 DEF slotVars, AskIsOpen
  <2> QED
    BY <1>1, <1>2, <2>1, <2>2, <2>3, OneStays DEF TypeOK, SessionTypeOK
<1> QED
  BY <1>3, <1>4

\* The runner takes the request and works on it, ...
LEMMA RunnerAskOne ==
    ASSUME TypeOK, TypeOK', SlotInv, OneAtATime, RunnerAsk, Offload, PlainAsks, ~user_cancel,
           \A d \in Clients : OnItsWay(d)' => OnItsWay(d)
    PROVE  OneAtATime' /\ runner' = "offload" /\ pending_interactive' = None
           /\ ui' \in {ui, "prompted"}
<1> USE DEF TypeOK, SessionTypeOK, SlotTypeOK
<1>1. Takes({"PromptRequest"}) /\ UNCHANGED <<conn, pending_reply_schemas, answer>>
  BY DEF RunnerAsk, connVars, slotVars
<1>2. /\ 1 \in DOMAIN events /\ events[1] = Head(events) /\ events[1] \in Events
      /\ RequestAt(1)
      /\ \A i \in DOMAIN events' : i + 1 \in DOMAIN events /\ events'[i] = events[i + 1]
  BY <1>1, TakesAt DEF RequestAt
<1>3. PICK c \in Clients : events[1] = [type |-> "PromptRequest", from |-> c]
  BY <1>2 DEF RequestAt, Events, StarterEvents
<1>4. runner' = "offload" /\ handling' = c /\ pending_interactive' = None
      /\ ui' \in {ui, "prompted"}
  BY <1>2, <1>3 DEF RunnerAsk, Enter, Mode, PlainAsks
<1>5. AskIsOpen /\ NoReply /\ \A m \in DOMAIN events : RequestAt(m) => m = 1
  BY <1>2 DEF OneAtATime
<1>6. c = pending_reply_schemas
  BY <1>2, <1>3 DEF OneAtATime
<1>7. \A d \in Clients : conn'[d] # "PromptRequest"
  BY <1>1, <1>2 DEF OneAtATime, NoRequest
<1>8. NoRequest'
  <2>1. ASSUME NEW n \in DOMAIN events', RequestAt(n)'
        PROVE  FALSE
    <3>1. n + 1 \in DOMAIN events /\ RequestAt(n + 1) /\ n \in Nat /\ n # 0
      BY <1>2, <2>1 DEF RequestAt, EventTypeOK
    <3>2. n + 1 = 1
      BY <1>5, <3>1
    <3> QED
      BY <3>1, <3>2
  <2> QED
    BY <2>1 DEF NoRequest
<1>9. NoReply' /\ AskIsOpen'
  BY <1>1, <1>5 DEF NoReply, AskIsOpen
<1> QED
  BY <1>4, <1>1, <1>6, <1>7, <1>8, <1>9 DEF OneAtATime, NoReply, NoRequest

\* ... starts one reply to it, ...
LEMMA LaunchOne ==
    ASSUME TypeOK, TypeOK', ReplyLife, OneAtATime, OnlyTheModel, NEW c \in Clients,
           Launched(c)
    PROVE  OneAtATime' /\ OnlyTheModel'
<1> USE DEF TypeOK, SessionTypeOK, ClientTypeOK, ConnTypeOK
<1>1. /\ Connect(c) /\ UNCHANGED <<events, pending_reply_schemas, answer>>
      /\ UNCHANGED <<handling, pending_interactive, ui>>
  BY DEF Launched, ScriptLaunch, UiReply, UiFeedback, OffloadRunsReply, Connect, slotVars,
         runVars, replyVars
<1>2. /\ \A d \in Clients : OnItsWay(d)' => OnItsWay(d) \/ d = c
      /\ \A d \in Clients : conn'[d] = "PromptRequest" => conn[d] = "PromptRequest"
  BY <1>1, ConnectLife DEF Connect, Goto
<1>3. RequestsStay /\ (AskIsOpen => AskIsOpen')
  BY <1>1, RequestsMove DEF AskIsOpen
<1>4. CASE OffloadRunsReply(c)
  <2>1. AskIsOpen /\ NoReply /\ runner = "offload" /\ runner' = "offloadReply"
    BY <1>4 DEF OneAtATime, OffloadRunsReply
  <2>2. \A d \in Clients : OnItsWay(d)' => d = c
    BY <1>2, <2>1 DEF NoReply
  <2>3. NoRequest /\ \A d \in Clients : conn[d] # "PromptRequest"
    BY <2>1 DEF OneAtATime, NoRequest
  <2>4. NoRequest'
    BY <1>1, <2>3 DEF NoRequest, RequestAt
  <2>5. OneAtATime'
    BY <1>2, <1>3, <2>1, <2>2, <2>3, <2>4 DEF OneAtATime, NoRequest
  <2> QED
    BY <1>1, <2>1, <2>5 DEF OnlyTheModel
<1>5. CASE ScriptLaunch(c) \/ UiFeedback(c)
  <2>1. Kind[c] # "reply" /\ UNCHANGED runner
    BY <1>5 DEF ScriptLaunch, UiFeedback, ScriptClients, runVars
  <2>2. \A d \in Clients : OnItsWay(d)' => OnItsWay(d)
    BY <1>2, <2>1 DEF OnItsWay
  <2>3. OneAtATime'
    BY <1>1, <1>2, <1>3, <2>1, <2>2, OneStays
  <2> QED
    BY <1>1, <2>1, <2>3 DEF OnlyTheModel
<1>6. CASE UiReply(c)
  BY <1>6 DEF UiReply, OnlyTheModel
<1> QED
  BY <1>4, <1>5, <1>6 DEF Launched

\* ... or gives up.
LEMMA OffloadFailsOne ==
    ASSUME TypeOK, OneAtATime, OnlyTheModel, OffloadFails
    PROVE  OneAtATime' /\ OnlyTheModel'
<1>1. runner = "offload" /\ runner' = "poll"
      /\ UNCHANGED <<conn, inbox, events, pending_interactive, ui>>
  BY DEF OffloadFails, Respond, ReplyUnchanged, connVars
<1>2. NoReply /\ NoRequest /\ \A d \in Clients : conn[d] # "PromptRequest"
  BY <1>1 DEF OneAtATime, NoRequest
<1>3. NoReply' /\ NoRequest' /\ \A d \in Clients : conn'[d] # "PromptRequest"
  BY <1>1, <1>2 DEF NoReply, NoRequest, RequestAt, OnItsWay
<1>4. OneAtATime'
  BY <1>1, <1>3 DEF OneAtATime, NoReply, NoRequest
<1> QED
  BY <1>1, <1>4 DEF OnlyTheModel

\* The rest of the run
LEMMA RestOne ==
    ASSUME TypeOK, TypeOK', OneAtATime, OnlyTheModel, ~user_cancel,
           \A d \in Clients : OnItsWay(d)' => OnItsWay(d),
           \/ ScriptExit \/ PipesClose \/ KillLands \/ OffloadReplyKilled \/ ExecOutput \/ ExecStep
           \/ (RunnerStep /\ ~RunnerAsk /\ ~OffloadFails)
           \/ UNCHANGED vars
    PROVE  OneAtATime' /\ OnlyTheModel'
<1> USE DEF TypeOK, SessionTypeOK
<1>1. CASE ScriptExit \/ PipesClose \/ KillLands \/ OffloadReplyKilled \/ UNCHANGED vars
  <2>1. UNCHANGED <<conn, events, slotVars, runner, handling, pending_interactive, ui>>
    BY <1>1 DEF ScriptExit, PipesClose, KillLands, OffloadReplyKilled, vars, sessionVars,
       connVars, runVars, replyVars
  <2>2. RequestsStay /\ UNCHANGED pending_reply_schemas /\ (AskIsOpen => AskIsOpen')
    BY <2>1, RequestsMove DEF slotVars, AskIsOpen
  <2> QED
    BY <2>1, <2>2, OneStays DEF OnlyTheModel
<1>2. CASE ExecOutput \/ ExecStep
  <2>1. UNCHANGED <<conn, slotVars, runner, handling, pending_interactive, ui>>
    BY <1>2 DEF ExecOutput, ExecStep, ExecSpawn, ExecSpawnFails,
       ExecSeesCancel, ExecSendOutput, ExecSeesExit, ExecSendCancelled,
       ExecSendFinished, ExecServerDone, ExecSendFailed, sessionVars,
       connVars, runVars, replyVars
  <2>2. UNCHANGED events \/ \E type, from : type # "PromptRequest" /\ Emit(type, from)
    BY <1>2, ExecEvents DEF StarterEvents
  <2>3. RequestsStay /\ UNCHANGED pending_reply_schemas /\ (AskIsOpen => AskIsOpen')
    BY <2>1, <2>2, RequestsMove DEF slotVars, AskIsOpen
  <2> QED
    BY <2>1, <2>3, OneStays DEF OnlyTheModel
<1>3. CASE RunnerStep /\ ~RunnerAsk /\ ~OffloadFails
  <2>1. \/ RunnerSeesCancel \/ RunnerRecord \/ RunnerOutput \/ RunnerTell
        \/ RunnerStarterEnds \/ OffloadReplyReturns \/ RunnerEnds
    BY <1>3 DEF RunnerStep, OnlyTheModel, RunnerRefuses, DirectReply,
       InteractivePauses, InteractiveFails
  <2>2. /\ UNCHANGED <<conn, pending_reply_schemas, answer, ui>>
        /\ runner' \in {runner, "poll", "done"} /\ pending_interactive' = None
        /\ runner' = runner => handling' = handling \/ runner # "offload"
        /\ UNCHANGED events \/ \E types : Takes(types)
    BY <2>1 DEF RunnerSeesCancel, RunnerRecord, RunnerOutput, RunnerTell,
       RunnerStarterEnds, OffloadReplyReturns, RunnerEnds, ReplyUnchanged,
       OnlyTheModel, sessionVars, connVars, slotVars, runVars, replyVars
  <2>3. RequestsStay /\ (AskIsOpen => AskIsOpen')
    BY <2>2, RequestsMove DEF AskIsOpen
  <2>4. OneAtATime'
    BY <2>2, <2>3, OneStays
  <2> QED
    BY <2>2, <2>4 DEF OnlyTheModel
<1> QED
  BY <1>1, <1>2, <1>3

\* The reply that is told it is valid is the answer, and stays it.
LEMMA AnswerNext ==
    ASSUME TypeOK, SlotInv, ReplyLife, OneAtATime, IsAnswer, [Next]_vars
    PROVE  IsAnswer'
<1> USE DEF TypeOK, SessionTypeOK, SlotTypeOK
<1>1. \A a \in Clients : answer[a] # None => answer'[a] = answer[a]
  <2>1. [Slot!Next]_(Slot!slot)
    BY NextSlot DEF SlotStep
  <2> QED
    BY <2>1 DEF Slot!Next, Slot!Begin, Slot!Resolve, Slot!Release, Slot!slot
<1>2. ASSUME NEW r \in Clients, Kind[r] = "reply", SaidValid(r)'
      PROVE  \E a \in Clients : answer'[a] = r
  <2>1. CASE SaidValid(r)
    <3>1. PICK a \in Clients : answer[a] = r
      BY <1>2, <2>1 DEF IsAnswer
    <3>2. r # None
      BY NoneAssumption DEF Values
    <3> QED
      BY <1>1, <3>1, <3>2
  <2>2. CASE TakeResponder(r)
    <3>1. OnItsWay(r)
      BY <1>2, <2>2 DEF TakeResponder, OnItsWay
    <3>2. pending_reply_schemas \in Clients /\ answer[pending_reply_schemas] = None
      BY <3>1 DEF OneAtATime, AskIsOpen
    <3>3. pending_reply_responder = pending_reply_schemas
      BY <3>2, NoneAssumption DEF SlotInv, SlotMatchesTask, Values
    <3>4. answer' = [answer EXCEPT ![pending_reply_schemas] = r]
      BY <2>2, <3>2, <3>3, NoneAssumption DEF TakeResponder, Resolved, Values
    <3> QED
      BY <3>2, <3>4
  <2> QED
    BY <1>2, <2>1, <2>2, LifeNext
<1> QED
  BY <1>2 DEF IsAnswer

LEMMA OffloadNext ==
    ASSUME TypeOK, TypeOK', SlotInv, OffloadInv, [Next]_vars
    PROVE  OffloadInv'
<1>1. ReplyLife /\ ReplyLife'
  BY LifeNext DEF OffloadInv
<1> SUFFICES ASSUME Offload, PlainAsks, ~user_cancel'
             PROVE  OnlyTheModel' /\ OneAtATime' /\ IsAnswer'
  BY <1>1 DEF OffloadInv, PlainAsks
<1>2. CASE user_cancel
  <2>1. UNCHANGED user_cancel \/ UserCancel
    BY DEF Next, ScriptLaunch, UiReply, UiFeedback, OffloadRunsReply,
       ScriptExit, PipesClose, KillLands, ExecOutput, ExecStep, ExecSpawn, ExecSpawnFails,
       ExecSeesCancel, ExecSendOutput, ExecSeesExit, ExecSendCancelled,
       ExecSendFinished, ExecServerDone, ExecSendFailed, OffloadReplyKilled,
       RunnerStep, RunnerSeesCancel, RunnerRecord, RunnerOutput, RunnerTell,
       RunnerAsk, RunnerStarterEnds, RunnerRefuses, DirectReply,
       InteractivePauses, InteractiveFails, OffloadFails, OffloadReplyReturns,
       RunnerEnds, ReplyUnchanged, Terminated, vars, runVars, flagVars
  <2> QED
    BY <1>2, <2>1 DEF UserCancel
<1>3. CASE ~user_cancel
  <2>1. OnlyTheModel /\ OneAtATime /\ IsAnswer
    BY <1>3 DEF OffloadInv
  <2>2. IsAnswer'
    BY <1>1, <2>1, AnswerNext
  <2>3. CASE SessionStep /\ UNCHANGED <<execVars, runVars>>
    <3>1. OneAtATime'
      BY <1>1, <2>1, <2>3, SessionOne
    <3> QED
      BY <2>1, <2>2, <2>3, <3>1 DEF OnlyTheModel, runVars, replyVars
  <2>4. CASE \E c \in Clients : Launched(c)
    BY <1>1, <2>1, <2>2, <2>4, LaunchOne
  <2>5. CASE UserCancel
    BY <2>5 DEF UserCancel
  <2>6. CASE OffloadFails
    BY <2>1, <2>2, <2>6, OffloadFailsOne
  <2>7. CASE /\ \A c \in Clients : ~Launched(c)
             /\ \/ ScriptExit \/ PipesClose \/ KillLands \/ OffloadReplyKilled \/ ExecOutput \/ ExecStep
                \/ RunnerStep \/ UNCHANGED vars
    <3>1. \A d \in Clients : OnItsWay(d)' => OnItsWay(d)
      BY <1>1, <2>7, LifeNext
    <3>2. CASE RunnerAsk
      BY <1>3, <2>1, <2>2, <3>1, <3>2, RunnerAskOne DEF OnlyTheModel
    <3>3. CASE ~RunnerAsk /\ ~OffloadFails
      BY <1>3, <2>1, <2>2, <2>7, <3>1, <3>3, RestOne
    <3> QED
      BY <2>2, <2>6, <3>2, <3>3
  <2> QED
    BY <2>3, <2>4, <2>5, <2>6, <2>7 DEF Next, Terminated, Launched
<1> QED
  BY <1>2, <1>3

\* When a script asks nothing interactively and its asks are answered by a coco
\* reply of the model, a reply that is told it is valid is what the ask was
\* answered, however many asks and replies there are, also when the bash tool
\* timed out on it and it lives on, unless the user cancelled the run
\* (starter.rs:973-993, runner.rs:1753-1763).
THEOREM ValidReplyCorrect == Spec => [](PlainAsks => ValidReplyIsTheAnswer)
<1>1. Init => OffloadInv
  <2> SUFFICES ASSUME Init PROVE OffloadInv
    OBVIOUS
  <2>1. ReplyLife
    BY DEF Init, SessionInit, ReplyLife, LifeOf, Over
  <2>2. NoReply /\ NoRequest /\ \A c \in Clients : conn[c] # "PromptRequest"
    BY DEF Init, SessionInit, NoReply, NoRequest, OnItsWay
  <2>3. OneAtATime /\ OnlyTheModel
    BY <2>2 DEF Init, OneAtATime, NoReply, NoRequest, OnlyTheModel
  <2>4. IsAnswer
    BY NoneAssumption DEF Init, SessionInit, IsAnswer, SaidValid, Responses
  <2> QED
    BY <2>1, <2>3, <2>4 DEF OffloadInv
<1>2. TypeOK /\ TypeOK' /\ SlotInv /\ OffloadInv /\ [Next]_vars => OffloadInv'
  BY OffloadNext
<1>3. OffloadInv => (PlainAsks => ValidReplyIsTheAnswer)
  BY DEF OffloadInv, IsAnswer, SaidValid, ValidReplyIsTheAnswer
<1> QED
  BY <1>1, <1>2, <1>3, TypeCorrect, SlotInvariant, PTL DEF Spec
=============================================================================
