------------------------------ MODULE ComboRuns ------------------------------
(****************************************************************************)
(* coco combo run, by a bash command of the model or from elsewhere: the    *)
(* client asks the session's server for a run and waits for its result      *)
(* (crates/coco-tui/src/combo_run_server.rs), which the chat sends through   *)
(* a bridge (combo_run_bridge.rs).  The chat shows the run in the widget of *)
(* the bash command that asked for it, which it knows by the combo's name   *)
(* only (components/chat.rs).                                               *)
(*                                                                          *)
(* All runs are of one combo.  Ids are of a bash tool use or of a run.      *)
(****************************************************************************)
EXTENDS Naturals, Sequences, FiniteSets, SequencesExt

CONSTANTS
    BashCalls,          \* the bash tool uses of an answer that run the combo, 1..n
    Terminals,          \* clients started elsewhere
    MaxOutputs,         \* bound: events of a run
    NoCall              \* no bash call

ASSUME RunsAssumption ==
    /\ IsFiniteSet(BashCalls) /\ BashCalls # {} /\ BashCalls = 1..Cardinality(BashCalls)
    /\ MaxOutputs \in Nat
    /\ BashCalls \cap Terminals = {} /\ NoCall \notin BashCalls

Clients == BashCalls \cup Terminals
Run(c)  == <<"run", c>>
Bash(c) == <<"bash", c>>
Ids     == {Run(c) : c \in Clients} \cup {Bash(c) : c \in BashCalls}

VARIABLES
    client,             \* the processes
    bridge,             \* clients registered, with the sender of their inbox
    inbox,              \* messages for the connection of a run; closed when it ended
    executes,           \* Execute actions of the chat
    answers,            \* its AnswerEvents
    pending_bash_combo_id,
    bash_id_of_run,     \* combo_run_id_to_bash_id
    combo, outputs,     \* the task that runs the combo, and how many events it sent
    widget              \* clients whose events a widget has shown

runsVars == <<client, bridge, inbox, executes, answers, pending_bash_combo_id, bash_id_of_run,
              combo, outputs, widget>>

Closed       == <<"closed">>
Bot          == [type |-> "bot"]
Out(c)       == [type |-> "output", run |-> c]
RunResult(c) == [type |-> "result", run |-> c]

RunsInit ==
    /\ client = [c \in Clients |-> "no"]
    /\ bridge = {} /\ inbox = [c \in Clients |-> Closed]
    /\ executes = <<>> /\ answers = <<Bot>>
    /\ pending_bash_combo_id = NoCall
    /\ bash_id_of_run = [c \in Clients |-> NoCall]
    /\ combo = [c \in Clients |-> "no"] /\ outputs = [c \in Clients |-> 0]
    /\ widget = [id \in Ids |-> {}]

-----------------------------------------------------------------------------
(* The client, its connection and the bridge *)

\* The bash command is denied, or starts and connects; it may be faster than the chat,
\* which has the answer of the model still to show.
ClientStarts(c) ==
    /\ client[c] = "no"
    /\ \E to \in {"connected"} \cup (IF c \in BashCalls THEN {"denied"} ELSE {}) :
          client' = [client EXCEPT ![c] = to]
    /\ UNCHANGED <<bridge, inbox, executes, answers, pending_bash_combo_id, bash_id_of_run, combo,
                   outputs, widget>>

\* Run ids are unique: register does not refuse one.
handle_combo_run(c) ==
    /\ client[c] = "connected"
    /\ bridge' = bridge \cup {c} /\ inbox' = [inbox EXCEPT ![c] = <<>>]
    /\ executes' = Append(executes, c)
    /\ client' = [client EXCEPT ![c] = "waiting"]
    /\ UNCHANGED <<answers, pending_bash_combo_id, bash_id_of_run, combo, outputs, widget>>

\* A timeout or a cancel of the bash tool kills it.
ClientDies(c) ==
    /\ client[c] = "waiting" /\ client' = [client EXCEPT ![c] = "dead"]
    /\ UNCHANGED <<bridge, inbox, executes, answers, pending_bash_combo_id, bash_id_of_run, combo,
                   outputs, widget>>

\* A message that cannot be delivered, and the result, end the connection.
Forwards(c) ==
    /\ inbox[c] # Closed /\ inbox[c] # <<>>
    /\ IF client[c] = "dead" \/ Head(inbox[c]) = "result"
       THEN inbox' = [inbox EXCEPT ![c] = Closed] /\ bridge' = bridge \ {c}
       ELSE inbox' = [inbox EXCEPT ![c] = Tail(@)] /\ UNCHANGED bridge
    /\ client' = IF client[c] = "waiting" /\ Head(inbox[c]) = "result"
                 THEN [client EXCEPT ![c] = "answered"] ELSE client
    /\ UNCHANGED <<executes, answers, pending_bash_combo_id, bash_id_of_run, combo, outputs,
                   widget>>

Delivered(id, message) ==
    [c \in Clients |-> IF id = Run(c) /\ c \in bridge /\ inbox[c] # Closed
                       THEN Append(inbox[c], message) ELSE inbox[c]]

\* The receiver may be gone: then the run is forgotten.
send_event(id) ==
    /\ inbox' = Delivered(id, "event")
    /\ bridge' = {c \in bridge : id = Run(c) => inbox[c] # Closed}

send_result(id) ==
    inbox' = Delivered(id, "result") /\ bridge' = {c \in bridge : id # Run(c)}

-----------------------------------------------------------------------------
(* The chat *)

\* One id for the name: the last tool use counts.
HandleBot ==
    /\ answers # <<>> /\ Head(answers) = Bot
    /\ answers' = Tail(answers)
    /\ pending_bash_combo_id' = CHOOSE c \in BashCalls : \A d \in BashCalls : d <= c
    /\ UNCHANGED <<client, bridge, inbox, executes, bash_id_of_run, combo, outputs, widget>>

claim_bash_id == pending_bash_combo_id' = NoCall

\* Without an id the run gets a widget of its own.
HandleExecute ==
    /\ executes # <<>>
    /\ LET c == Head(executes) IN
       /\ bash_id_of_run' = [bash_id_of_run EXCEPT ![c] = pending_bash_combo_id]
       /\ combo' = [combo EXCEPT ![c] = "running"]
    /\ executes' = Tail(executes) /\ claim_bash_id
    /\ UNCHANGED <<client, bridge, inbox, answers, outputs, widget>>

ui_id(c) == IF bash_id_of_run[c] = NoCall THEN Run(c) ELSE Bash(bash_id_of_run[c])

\* The events of task_combo_execute; the first of them is Executing.
ComboOutputs(c) ==
    /\ combo[c] = "running" /\ outputs[c] < MaxOutputs
    /\ outputs' = [outputs EXCEPT ![c] = @ + 1]
    /\ answers' = Append(answers, Out(c))
    /\ UNCHANGED <<client, bridge, inbox, executes, pending_bash_combo_id, bash_id_of_run, combo,
                   widget>>

\* Whether it succeeded, failed, was cancelled or not found.
ComboEnds(c) ==
    /\ combo[c] = "running" /\ combo' = [combo EXCEPT ![c] = "ended"]
    /\ answers' = Append(answers, RunResult(c))
    /\ UNCHANGED <<client, bridge, inbox, executes, pending_bash_combo_id, bash_id_of_run, outputs,
                   widget>>

\* The event gets the widget's id; under this id it is forwarded too, so that the clients
\* of bash calls see none.
HandleComboToolEvent ==
    /\ answers # <<>> /\ Head(answers).type = "output"
    /\ LET c == Head(answers).run IN
       /\ send_event(ui_id(c))
       /\ widget' = [widget EXCEPT ![ui_id(c)] = @ \cup {c}]
    /\ answers' = Tail(answers)
    /\ UNCHANGED <<client, executes, pending_bash_combo_id, bash_id_of_run, combo, outputs>>

\* Mutant of result_id: the widget's id, as for events.
result_ui_id(c) == ui_id(c)
result_id(c)    == Run(c)

HandleBashResult ==
    /\ answers # <<>> /\ Head(answers).type = "result"
    /\ LET c == Head(answers).run IN
       /\ send_result(result_id(c))
       /\ bash_id_of_run' = [bash_id_of_run EXCEPT ![c] = NoCall]
    /\ answers' = Tail(answers)
    /\ UNCHANGED <<client, executes, pending_bash_combo_id, combo, outputs, widget>>

RunsNext ==
    \/ \E c \in Clients :
          \/ ClientStarts(c) \/ handle_combo_run(c) \/ ClientDies(c) \/ Forwards(c)
          \/ ComboOutputs(c) \/ ComboEnds(c)
    \/ HandleBot \/ HandleExecute \/ HandleComboToolEvent \/ HandleBashResult

RunsSpec == RunsInit /\ [][RunsNext]_runsVars

-----------------------------------------------------------------------------
(* Properties *)

Running(c) == combo[c] = "running" \/ Contains(answers, RunResult(c)) \/ Contains(executes, c)

\* A client that waits is not forgotten: its run goes on, or the result is on the way to it
\* (handle_combo_run, forward_combo_result_to_session, ComboRunBridge).
WaitingClientsAreServed ==
    \A c \in Clients :
       client[c] = "waiting" =>
          \/ Running(c) /\ c \in bridge
          \/ inbox[c] # Closed /\ Contains(inbox[c], "result")

\* Two runs are not mixed in one widget, although the widgets are found by the combo's name
\* (pending_bash_combo_ids, combo_run_id_to_bash_id).
WidgetsAreNotShared == \A id \in Ids : Cardinality(widget[id]) <= 1

\* Both: each run has its client and its widget for as long as it needs them.
RunsAreServed == WaitingClientsAreServed /\ WidgetsAreNotShared
=============================================================================
