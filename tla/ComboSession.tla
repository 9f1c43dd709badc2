---------------------------- MODULE ComboSession -----------------------------
(****************************************************************************)
(* A whole combo run: the script, the starter task that supervises it       *)
(* (execute_command in src/combo/starter.rs), the session server            *)
(* (SessionServer) and the runner that consumes the events and answers the  *)
(* asks (execute_combo in src/combo/runner.rs), with the user who may       *)
(* cancel, confirm a reply or send feedback.                                *)
(****************************************************************************)
EXTENDS SessionServer

CONSTANTS
    Background, \* may the script run coco clients in parallel?
    Redirected, \* the clients it starts with their output sent elsewhere
    Offload     \* are plain asks answered by a `coco reply` of the model?

ASSUME BackgroundAssumption == Background \in BOOLEAN
ASSUME OffloadAssumption == Offload \in BOOLEAN
ASSUME OutputAssumption == Redirected \subseteq Clients

VARIABLES
    script, exit_code,    \* the script process and its exit code, see ExitCodes
    kill,                 \* killer.kill() was called
    printed,              \* the script printed (one chunk is enough)
    pipes_closed,         \* spawn_chunked read EOF from both pipes
    left,                 \* records whose command was left to itself
    starter,              \* execute_command, by its await
    cancelled,            \* its local flag
    cancel_tx,            \* StarterExecution.cancel() was called
    combo,                \* the Starter's combo: result of the task
    runner,               \* execute_combo, by its await
    handling,             \* the ask it is working on
    offload_reply,        \* the coco reply it is running
    pending_interactive,  \* pending_interactive_{schemas,responder}
    run_cancelled,        \* its local flag `cancelled`
    starter_failed,       \* a Failed event was seen
    user_cancel,          \* the run's CancellationToken
    ui,                   \* what the UI knows: a socket, a reply to confirm
    tool_uses,            \* ids announced to the model,
    tool_results,         \*   and those whose result it has
    told,                 \* tells whose prompt it has
    outcome               \* how run_combo returned

spawnVars  == <<pipes_closed, left>>
execVars   == <<script, exit_code, kill, printed, starter, cancelled, combo,
                spawnVars>>
replyVars  == <<handling, offload_reply, pending_interactive, ui>>
historyVars == <<tool_uses, tool_results, told>>
flagVars   == <<cancel_tx, run_cancelled, starter_failed, user_cancel, outcome>>
runVars    == <<runner, replyVars, historyVars, flagVars>>
vars       == <<sessionVars, execVars, runVars>>

-----------------------------------------------------------------------------
(* The script *)

ScriptClients == {c \in Clients : Kind[c] \notin {"reply", "feedback"}}

Busy == \E c \in ScriptClients : Alive(c)

ScriptLaunch(c) ==
    /\ script = "running"
    /\ c \in ScriptClients
    /\ Background \/ ~Busy
    /\ Connect(c)
    /\ UNCHANGED <<execVars, runVars>>

\* A process ended by a signal has no exit code.
ExitCodes == {0, 1, None}

ScriptExit ==
    /\ script = "running"
    /\ Background \/ ~Busy
    /\ script' = "exited"
    /\ exit_code' \in ExitCodes
    /\ UNCHANGED <<sessionVars, kill, printed, starter, cancelled, combo,
                   spawnVars, runVars>>

\* A client that holds the pipes the script's output goes through
Held == \E c \in ScriptClients \ Redirected : Alive(c)

\* Mutant of OutputClosed: nobody waits for the clients in the background.
ScriptEnded == script \in {"exited", "killed"}

\* Nobody can write to the script's pipes any more.
OutputClosed == script \in {"exited", "killed"} /\ ~Held

\* The read loop of spawn_chunked ends.
PipesClose ==
    /\ OutputClosed
    /\ ~pipes_closed
    /\ pipes_closed' = TRUE
    /\ UNCHANGED <<sessionVars, script, exit_code, kill, printed, starter,
                   cancelled, combo, left, runVars>>

\* Mutant of GroupMembers: only the script itself is killed.
NoMembers == {}

\* The script's process group: the script and every client it started, but not
\* the command of a record, which has a group of its own (setpgid).
GroupMembers == {c \in ScriptClients : Alive(c)}

\* SIGKILL to the process group.  A recorded command that loses its coco record
\* is told nothing; once the read loop is over nobody looks at kill_rx.
KillLands ==
    /\ kill
    /\ ~pipes_closed
    /\ script = "running" \/ GroupMembers # {}
    /\ script' = IF script = "running" THEN "killed" ELSE script
    /\ client' = [c \in Clients |->
                     IF c \in GroupMembers THEN "killed" ELSE client[c]]
    /\ left' = left \cup
                  {c \in GroupMembers : client[c] \in {"command", "chunked"}}
    /\ UNCHANGED <<inbox, response, slotVars, stateVars, connVars, taskVars,
                   events, exit_code, kill, printed, starter, cancelled, combo,
                   pipes_closed, runVars>>

-----------------------------------------------------------------------------
(* execute_command *)

Starter(from, to) == starter = from /\ starter' = to

ExecSpawn ==
    /\ Starter("spawn", "run")
    /\ script' = "running"
    /\ Emit("Started", None)
    /\ UNCHANGED <<clientVars, slotVars, stateVars, connVars, taskVars,
                   exit_code, kill, printed, cancelled, combo, spawnVars,
                   runVars>>

ExecSpawnFails ==
    /\ Starter("spawn", "sendFailed")
    /\ UNCHANGED <<sessionVars, script, exit_code, kill, printed, cancelled,
                   combo, spawnVars, runVars>>

ExecSeesCancel ==
    /\ starter = "run"
    /\ cancel_tx
    /\ ~cancelled
    /\ cancelled' = TRUE
    /\ kill' = TRUE
    /\ UNCHANGED <<sessionVars, script, exit_code, printed, starter, combo,
                   spawnVars, runVars>>

\* A chunk of the script's output; it is dropped once the run is cancelled.
ExecOutput ==
    /\ Starter("run", IF cancelled THEN "run" ELSE "sendOutput")
    /\ script # "none"
    /\ ~printed
    /\ printed' = TRUE
    /\ UNCHANGED <<sessionVars, script, exit_code, kill, cancelled, combo,
                   spawnVars, runVars>>

\* Blocked here the starter does not look at cancel_rx.
ExecSendOutput ==
    /\ Starter("sendOutput", "run")
    /\ Emit("Output", None)
    /\ UNCHANGED <<clientVars, slotVars, stateVars, connVars, taskVars, script,
                   exit_code, kill, printed, cancelled, combo, spawnVars,
                   runVars>>

\* The read loop is over and child.wait() returned: Exited, the last event.
ExecSeesExit ==
    /\ Starter("run", "reaped")
    /\ pipes_closed
    /\ script \in {"exited", "killed"}
    /\ UNCHANGED <<sessionVars, script, exit_code, kill, printed, cancelled,
                   combo, spawnVars, runVars>>


\* What the starter leaves behind in each of its endings
Signal(s) ==
    server_signal' = IF server_signal = "none" THEN s ELSE server_signal

ExecSendCancelled ==
    /\ Starter("reaped", "done")
    /\ cancelled
    /\ Emit("Cancelled", None)
    /\ Signal("abort")
    /\ combo' = "cancelled"
    /\ UNCHANGED <<clientVars, slotVars, stateVars, connVars, server, error_tx,
                   fatal_error, cancel_token, script, exit_code, kill, printed,
                   cancelled, spawnVars, runVars>>

ExecSendFinished ==
    /\ starter = "reaped"
    /\ ~cancelled
    /\ Emit("Finished", None)
    /\ IF Discovery
       THEN /\ Signal("abort")
            /\ starter' = "done"
            /\ combo' = IF exit_code = 0 THEN "ok" ELSE "invalid"
       ELSE /\ Signal("shutdown")
            /\ starter' = "awaitServer"
            /\ UNCHANGED combo
    /\ UNCHANGED <<clientVars, slotVars, stateVars, connVars, server, error_tx,
                   fatal_error, cancel_token, script, exit_code, kill, printed,
                   cancelled, spawnVars, runVars>>

\* task.handle.await
ExecServerDone ==
    /\ Starter("awaitServer", IF ServerOk THEN "done" ELSE "sendFailed")
    /\ server = "done"
    /\ combo' = IF ServerOk THEN "ok" ELSE combo
    /\ UNCHANGED <<sessionVars, script, exit_code, kill, printed, cancelled,
                   spawnVars, runVars>>

\* fail_early!: the SessionServerTask is dropped on return, and with it the
\* sender the server's shutdown_rx waits on.
ExecSendFailed ==
    /\ Starter("sendFailed", "done")
    /\ Emit("Failed", None)
    /\ Signal("shutdown")
    /\ combo' = "invalid"
    /\ UNCHANGED <<clientVars, slotVars, stateVars, connVars, server, error_tx,
                   fatal_error, cancel_token, script, exit_code, kill, printed,
                   cancelled, spawnVars, runVars>>

ExecStep ==
    \/ ExecSpawn \/ ExecSpawnFails \/ ExecSeesCancel
    \/ ExecSendOutput \/ ExecSeesExit
    \/ ExecSendCancelled \/ ExecSendFinished
    \/ ExecServerDone \/ ExecSendFailed

-----------------------------------------------------------------------------
(* execute_combo: the event loop *)

RunnerSeesCancel ==
    /\ runner = "poll"
    /\ user_cancel
    /\ ~run_cancelled
    /\ run_cancelled' = TRUE
    /\ cancel_tx' = TRUE
    /\ UNCHANGED <<sessionVars, execVars, runner, replyVars, historyVars,
                   starter_failed, user_cancel, outcome>>

\* The next event, when it is one of these types.
Takes(types) ==
    /\ runner = "poll"
    /\ events # <<>>
    /\ Head(events).type \in types
    /\ events' = Tail(events)

\* The id in the next event
EventId == tool_use_id[Head(events).from]

RunnerRecord ==
    /\ Takes({"RecordStart", "RecordOutput", "RecordEnd"})
    /\ tool_uses' = IF Head(events).type = "RecordStart"
                    THEN tool_uses \cup {EventId} ELSE tool_uses
    /\ tool_results' = IF Head(events).type = "RecordEnd"
                       THEN tool_results \cup {EventId} ELSE tool_results
    /\ UNCHANGED <<clientVars, slotVars, stateVars, connVars, taskVars,
                   execVars, runner, replyVars, told, flagVars>>

RunnerOutput ==
    /\ Takes({"Started", "Output"})
    /\ UNCHANGED <<clientVars, slotVars, stateVars, connVars, taskVars,
                   execVars, runVars>>

Mode(c) ==
    IF Kind[c] = "iask" THEN "interactive"
    ELSE IF Offload THEN "offload" ELSE "direct"

\* All three ways to answer look at the token before they start.
Enter(c) ==
    /\ runner' = IF user_cancel THEN "refuse" ELSE Mode(c)
    /\ handling' = c

\* A tell re-enters the interactive handling of a paused ask.
RunnerTell ==
    /\ Takes({"Prompt"})
    /\ told' = told \cup {Head(events).from}
    /\ IF pending_interactive = None
       THEN UNCHANGED <<runner, handling>>
       ELSE Enter(pending_interactive)
    /\ UNCHANGED <<clientVars, slotVars, stateVars, connVars, taskVars,
                   execVars, offload_reply, pending_interactive, ui, tool_uses,
                   tool_results, flagVars>>

RunnerAsk ==
    /\ Takes({"PromptRequest"})
    /\ LET c == Head(events).from
       IN  /\ Enter(c)
           /\ pending_interactive' = IF Kind[c] = "iask" THEN c ELSE None
    /\ ui' = IF ui = "none" THEN "prompted" ELSE ui
    /\ UNCHANGED <<clientVars, slotVars, stateVars, connVars, taskVars,
                   execVars, offload_reply, historyVars, flagVars>>

\* Finished, Cancelled and Failed all forget a paused interactive ask.
RunnerStarterEnds ==
    /\ Takes({"Finished", "Cancelled", "Failed"})
    /\ pending_interactive' = None
    /\ run_cancelled' = (run_cancelled \/ Head(events).type = "Cancelled")
    /\ starter_failed' = (starter_failed \/ Head(events).type = "Failed")
    /\ UNCHANGED <<clientVars, slotVars, stateVars, connVars, taskVars,
                   execVars, runner, handling, offload_reply, ui, historyVars,
                   cancel_tx, user_cancel, outcome>>

-----------------------------------------------------------------------------
(* execute_combo: answering an ask *)

ReplyUnchanged ==
    UNCHANGED <<inbox, response, pending_reply_schemas,
                pending_reply_responder, stateVars, connVars, taskVars, events,
                execVars, historyVars, flagVars>>

\* responder.send(v), back to the event loop
Respond(v) ==
    /\ answer' = Resolved(answer, handling, v)
    /\ runner' = "poll"
    /\ handling' = None

\* The token was cancelled before the ask was looked at.
RunnerRefuses ==
    /\ runner = "refuse"
    /\ Respond("error")
    /\ pending_interactive' = None
    /\ UNCHANGED <<client, offload_reply, ui>>
    /\ ReplyUnchanged

\* The model answers, or fails, or the token cancels a streamed request.
DirectReply ==
    /\ runner = "direct"
    /\ \E v \in {"model", "error"} : Respond(v)
    /\ UNCHANGED <<client, offload_reply, pending_interactive, ui>>
    /\ ReplyUnchanged

\* The model was nudged often enough, or proposed a coco reply for the user
\* to confirm: the handler returns Ok and the ask stays open.
InteractivePauses ==
    /\ runner = "interactive"
    /\ runner' = "poll"
    /\ handling' = None
    /\ ui' \in {ui, "offered"}
    /\ UNCHANGED <<client, answer, offload_reply, pending_interactive>>
    /\ ReplyUnchanged

InteractiveFails ==
    /\ runner = "interactive"
    /\ Respond("error")
    /\ pending_interactive' = None
    /\ UNCHANGED <<client, offload_reply, ui>>
    /\ ReplyUnchanged

\* Every attempt failed before a coco reply was run.
OffloadFails ==
    /\ runner = "offload"
    /\ Respond("error")
    /\ UNCHANGED <<client, offload_reply, pending_interactive, ui>>
    /\ ReplyUnchanged

OffloadRunsReply(r) ==
    /\ runner = "offload"
    /\ Kind[r] = "reply"
    /\ Connect(r)
    /\ runner' = "offloadReply"
    /\ offload_reply' = r
    /\ UNCHANGED <<handling, pending_interactive, ui, historyVars, flagVars,
                   execVars>>

\* The token makes the bash tool kill the command and wait for it.
OffloadReplyKilled ==
    /\ runner = "offloadReply"
    /\ user_cancel
    /\ Alive(offload_reply)
    /\ client' = [client EXCEPT ![offload_reply] = "killed"]
    /\ UNCHANGED <<inbox, response, slotVars, stateVars, connVars, taskVars,
                   events, execVars, runVars>>

\* Ok(()) whatever the exit status of coco reply, unless the run is cancelled.
\* A timeout does not wait: proc.abort() may drop the task that is to kill the
\* process group before it does, and the coco reply lives on.
OffloadReplyReturns ==
    /\ runner = "offloadReply"
    /\ \/ Ended(offload_reply) /\ UNCHANGED client
       \/ Alive(offload_reply)
          /\ client' \in {client, [client EXCEPT ![offload_reply] = "killed"]}
    /\ offload_reply' = None
    /\ IF user_cancel
       THEN Respond("error")
       ELSE runner' = "poll" /\ handling' = None /\ UNCHANGED answer
    /\ UNCHANGED <<pending_interactive, ui>>
    /\ ReplyUnchanged

-----------------------------------------------------------------------------
(* execute_combo: the end of the run *)

\* Mutant of StreamClosed: the connection tasks hold no sender.
StreamClosedByServer ==
    /\ events = <<>>
    /\ starter = "done"
    /\ server \in {"done", "aborted"}

\* Every clone of event_tx is dropped and the channel is empty.
StreamClosed ==
    /\ events = <<>>
    /\ starter = "done"
    /\ server \in {"done", "aborted"}
    /\ \A c \in Clients : conn[c] \in {"none", "closed"}

\* Mutant of RunOutcome: an error in the combo hides the cancel.
RunOutcomeComboFirst ==
    IF combo = "invalid" THEN "comboError"
    ELSE IF run_cancelled \/ combo = "cancelled" THEN "cancelled"
    ELSE IF ~starter_failed /\ exit_code # 1 THEN "success"
    ELSE "unsuccessful"

RunOutcome ==
    IF run_cancelled \/ combo = "cancelled" THEN "cancelled"
    ELSE IF combo = "invalid" THEN "comboError"
    ELSE IF ~starter_failed /\ exit_code # 1 THEN "success"
    ELSE "unsuccessful"

RunnerEnds ==
    /\ runner = "poll"
    /\ StreamClosed
    /\ runner' = "done"
    /\ outcome' = RunOutcome
    /\ UNCHANGED <<sessionVars, execVars, replyVars, historyVars, cancel_tx,
                   run_cancelled, starter_failed, user_cancel>>

RunnerStep ==
    \/ RunnerSeesCancel
    \/ RunnerRecord \/ RunnerOutput \/ RunnerTell \/ RunnerAsk
    \/ RunnerStarterEnds
    \/ RunnerRefuses \/ DirectReply
    \/ InteractivePauses \/ InteractiveFails
    \/ OffloadFails \/ OffloadReplyReturns
    \/ RunnerEnds

-----------------------------------------------------------------------------
(* The user *)

UserCancel ==
    /\ runner # "done"
    /\ ~user_cancel
    /\ user_cancel' = TRUE
    /\ UNCHANGED <<sessionVars, execVars, runner, replyVars, historyVars,
                   cancel_tx, run_cancelled, starter_failed, outcome>>

\* The user confirms a coco reply the model proposed.
UiReply(r) ==
    /\ ui = "offered"
    /\ Kind[r] = "reply"
    /\ Connect(r)
    /\ UNCHANGED <<execVars, runVars>>

\* What the user types while a prompt is shown goes to the session.
UiFeedback(c) ==
    /\ ui # "none"
    /\ Kind[c] = "feedback"
    /\ Connect(c)
    /\ UNCHANGED <<execVars, runVars>>

-----------------------------------------------------------------------------
Init ==
    /\ SessionInit
    /\ script = "none" /\ exit_code = None /\ kill = FALSE /\ printed = FALSE
    /\ starter = "spawn" /\ cancelled = FALSE /\ cancel_tx = FALSE
    /\ combo = "none" /\ pipes_closed = FALSE /\ left = {}
    /\ runner = "poll" /\ handling = None /\ offload_reply = None
    /\ pending_interactive = None /\ ui = "none"
    /\ run_cancelled = FALSE /\ starter_failed = FALSE /\ user_cancel = FALSE
    /\ tool_uses = {} /\ tool_results = {} /\ told = {}
    /\ outcome = "none"

\* The run is over and stays so.
Terminated == runner = "done" /\ UNCHANGED vars

Next ==
    \/ SessionStep /\ UNCHANGED <<execVars, runVars>>
    \/ \E c \in Clients :
          ScriptLaunch(c) \/ UiReply(c) \/ UiFeedback(c) \/ OffloadRunsReply(c)
    \/ ScriptExit \/ PipesClose \/ KillLands
    \/ ExecOutput \/ ExecStep
    \/ OffloadReplyKilled \/ RunnerStep
    \/ UserCancel
    \/ Terminated

Spec == Init /\ [][Next]_vars

-----------------------------------------------------------------------------
(* Fairness: tokio runs every task that is ready, a coco client reads what it
   was sent, a model request and a bash command return or time out.  Nothing
   is assumed of the script, of a recorded command or of the user. *)

InSession(A) == A /\ UNCHANGED <<execVars, runVars>>

Fairness ==
    /\ \A c \in Clients :
          /\ WF_vars(InSession(ClientReceives(c) \/ ReceiveFails(c)))
          /\ WF_vars(InSession(Accept(c) \/ Handle(c)))
    /\ WF_vars(InSession(ServerTask))
    /\ WF_vars(KillLands)
    /\ WF_vars(PipesClose)
    /\ WF_vars(ExecStep)
    /\ WF_vars(RunnerStep)
    /\ WF_vars(OffloadReplyKilled)

FairSpec == Spec /\ Fairness

-----------------------------------------------------------------------------
(* Properties *)

\* Every variable has its type, and the event channel (mpsc::channel(16),
\* starter.rs:458) never holds more than its capacity.
ExecTypeOK ==
    /\ script \in {"none", "running", "exited", "killed"}
    /\ exit_code \in ExitCodes
    /\ kill \in BOOLEAN
    /\ printed \in BOOLEAN
    /\ starter \in {"spawn", "run", "sendOutput", "reaped", "awaitServer",
                    "sendFailed", "done"}
    /\ cancelled \in BOOLEAN
    /\ combo \in {"none", "ok", "invalid", "cancelled"}
    /\ pipes_closed \in BOOLEAN
    /\ left \subseteq Clients

ReplyTypeOK ==
    /\ runner \in {"poll", "refuse", "direct", "interactive", "offload",
                   "offloadReply", "done"}
    /\ handling \in Clients \cup {None}
    /\ offload_reply \in Clients \cup {None}
    /\ pending_interactive \in Clients \cup {None}
    /\ ui \in {"none", "prompted", "offered"}

HistoryTypeOK ==
    /\ tool_uses \subseteq Nat \cup {None}
    /\ tool_results \subseteq Nat \cup {None}
    /\ told \subseteq Clients

FlagTypeOK ==
    /\ cancel_tx \in BOOLEAN
    /\ run_cancelled \in BOOLEAN
    /\ starter_failed \in BOOLEAN
    /\ user_cancel \in BOOLEAN
    /\ outcome \in {"none", "cancelled", "comboError", "success",
                    "unsuccessful"}

TypeOK ==
    /\ SessionTypeOK
    /\ ExecTypeOK /\ ReplyTypeOK /\ HistoryTypeOK /\ FlagTypeOK

\* The session state, written by several connection tasks under one lock that
\* they release in between, agrees with the tasks: the registered schemas are
\* those of the one connection that is asking, the responder is that ask's,
\* and it has been taken only by an ask that is answered (starter.rs:874-930,
\* 941-985).
Asking(c) == conn[c] \in {"PromptRequest", "response"}

SlotMatchesTask ==
    /\ \A c \in Clients : Asking(c) <=> pending_reply_schemas = c
    /\ pending_reply_responder \in {None, pending_reply_schemas}
    /\ pending_reply_schemas # None /\ pending_reply_responder = None
          => answer[pending_reply_schemas] # None

\* The strengthening that makes SlotMatchesTask and the refinement of ReplySlot
\* inductive.  An ask whose prompt was not read yet has touched nothing ...
NotAskedYet(c) ==
    client[c] = "idle" \/ (inbox[c] # <<>> /\ Head(inbox[c]) = "prompt")

AsksOnce ==
    \A c \in Clients :
        /\ client[c] = "idle" => conn[c] = "none"
        /\ \A i \in 2..Len(inbox[c]) : inbox[c][i] # "prompt"
        /\ NotAskedYet(c) => answer[c] = None /\ ~Asking(c)

\* ... and an ask the runner refers to (by a queued event, as the ask it works
\* on, as a paused ask) either holds the slot or is answered already.
Queued(c) ==
    \E i \in DOMAIN events : events[i] = [type |-> "PromptRequest", from |-> c]

RefersTo(c) == Queued(c) \/ handling = c \/ pending_interactive = c

RunnerIsBehind ==
    /\ runner \notin {"poll", "done"} => handling \in Clients
    /\ \A c \in Clients :
          RefersTo(c) => answer[c] # None \/ pending_reply_schemas = c

SlotInv == SlotMatchesTask /\ AsksOnce /\ RunnerIsBehind

\* The slot of an ask goes through its life as ReplySlot describes: no second
\* ask begins while one is open, and whoever answers first (the runner, a
\* coco reply, an error) fixes the answer (PromptResponseSender::send,
\* starter.rs:99-112).
Slot == INSTANCE ReplySlot WITH holder <- pending_reply_schemas
SlotSpec == Slot!Spec

\* Moreover an ask that holds the slot is answered, and its slot is released,
\* when the script's asks are answered by the model and nobody else
\* (starter.rs:907-913, runner.rs:467-554).
SlotFairSpec == Slot!FairSpec

\* In the model's history a tool result follows the tool use with its id, and
\* records that run at the same time never share an id
\* (SessionState::next_event_index, starter.rs:129-133).
HistoryIsPaired ==
    /\ tool_results \subseteq tool_uses
    /\ \A c, d \in Clients :
          c # d /\ tool_use_id[c] # None => tool_use_id[c] # tool_use_id[d]

\* A run reports success only for a script that announced its metadata, was
\* not killed by the starter, did not exit with a failure, and left no session
\* error the server stopped on; every client it started has ended by itself,
\* save one whose output it had redirected (starter.rs:553-607,
\* runner.rs:617-655).  No exit code at all, which is what a signal from
\* elsewhere leaves, counts as success.
SuccessIsEarned ==
    outcome = "success" =>
        /\ script = "exited" /\ exit_code # 1 /\ ~kill
        /\ (~Discovery => metadata /\ ~fatal_error)
        /\ \A c \in ScriptClients :
              \/ client[c] \in {"idle", "done", "failed"}
              \/ Alive(c) /\ c \in Redirected

\* When run_combo returns, the script, the server, every connection task and
\* every client that writes where the script does have ended (the run waits for
\* the end of the pipes, exec.rs:344-364, and for every sender of its stream of
\* events).  What may be left is a client in the background whose output the
\* script had redirected, and a recorded command: it has a process group of its
\* own (exec.rs:203-205, cmd/record.rs:54), so the kill of a cancel ends coco
\* record and not the command.  No run but a cancelled one leaves the latter.
NothingOutlivesTheRun ==
    runner = "done" =>
        /\ script # "running" /\ ~Held
        /\ server \in {"done", "aborted"}
        /\ \A c \in Clients : conn[c] \in {"none", "closed"}
        /\ left # {} => outcome = "cancelled"

\* A run is reported cancelled, and the script is killed, only after the user
\* cancelled; a run that is told of the cancel never reports another outcome.
CancelIsTheUsers ==
    /\ kill \/ outcome = "cancelled" => user_cancel
    /\ runner = "done" /\ run_cancelled => outcome = "cancelled"

\* Under discovery nothing the script sends reaches the model: no record is
\* run or recorded, no prompt is told and no ask is opened
\* (starter.rs:749-754, 873-880, 931-940).
DiscoveryIsInert ==
    Discovery =>
        /\ tool_uses = {} /\ told = {} /\ pending_reply_schemas = None
        /\ \A c \in Clients : client[c] \notin {"command", "chunked"}

\* In offload mode a reply that was told it is valid is what the ask was
\* answered, also when the bash tool's timeout gave up on it and it lives on;
\* only the refusal of a cancelled run can come in between (starter.rs:973-993,
\* runner.rs:1753-1763).
ValidReplyIsTheAnswer ==
    Offload /\ ~user_cancel =>
        \A r \in Clients :
            Kind[r] = "reply" /\ client[r] = "done"
                => \E a \in Clients : answer[a] = r

-----------------------------------------------------------------------------
(* What the repository says of the program and the code does not do *)

\* A coco record that succeeded has its output, and a coco tell that succeeded
\* has its prompt, in a run that succeeded (the test at starter.rs:1300-1337
\* ends its script with a coco record and expects the output).
CompletedClientsAreHeard ==
    outcome = "success" =>
        \A c \in Clients : client[c] = "done" =>
            /\ Kind[c] = "tell" => c \in told
            /\ Kind[c] = "record" => tool_use_id[c] \in tool_results

\* A record that the server allowed goes on to run its command
\* (cmd/record.rs:42-51: wait_for_allow, then the command is spawned).
AllowedRecordRuns ==
    \A c \in Clients : response[c] = "allow" ~> client[c] # "waiting"

-----------------------------------------------------------------------------
(* Liveness *)

\* Whatever answered the ask and whatever else happens to the run, the coco ask
\* process returns: nothing but the answer ends its wait (starter.rs:907-926).
AnswerEndsTheAsk ==
    \A c \in {a \in Clients : Kind[a] \in Asks} : answer[c] # None ~> Ended(c)

\* Cancelling a run ends it: the script and all its clients are killed, every
\* task notices, the stream of events ends and run_combo returns
\* (runner.rs:296-301, starter.rs:506-543; the test at starter.rs:1688-1693
\* waits for the stream to end after a cancel).  It is so while no client has its
\* output redirected: see KillIsMissed.
CancelEndsTheRun == user_cancel ~> runner = "done"

\* A cancel that came after the end of the script's output: nobody looks at
\* kill_rx any more, and a process of the script's group lives.
KillIsMissed == kill /\ pipes_closed /\ GroupMembers # {}

=============================================================================
