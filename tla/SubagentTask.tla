----------------------------- MODULE SubagentTask -----------------------------
(****************************************************************************)
(* run_task (src/tools/run_task.rs): a subagent works on a task in turns,   *)
(* with a copy of the parent's executor (src/agent/executor.rs) restricted  *)
(* to the subagent's tools.  Nobody answers its permission requests and     *)
(* nobody confirms its edits.                                               *)
(****************************************************************************)
EXTENDS Naturals, Sequences, SequencesExt

CONSTANTS
    MaxTurns,           \* max_turns, 50 in the code
    MaxUses             \* bound: tool uses of one response

ASSUME SubagentAssumption == MaxTurns \in Nat \ {0} /\ MaxUses \in Nat

ToolNames == {"bash", "edit", "read"}

VARIABLES
    allow_tools,        \* tools of the subagent's config; {} for no list
    session_grant,      \* the parent's user granted the bash commands for the session
    auto_accept_edits,
    at, turns, stop_reason,
    todo,               \* tool uses of the response that were not handled yet
    history,            \* the subagent's messages
    results,            \* tool results collected for the next message
    task_token,         \* the cancel token
    reported,           \* the status the last event about a tool use gave
    executed,           \* tool uses that took effect (history variable)
    result              \* what the main agent gets

subagentVars == <<allow_tools, session_grant, auto_accept_edits, at, turns, stop_reason, todo,
                  history, results, task_token, reported, executed, result>>
configVars   == <<allow_tools, session_grant, auto_accept_edits>>

NoResult == [success |-> FALSE, error |-> "none"]
User(ids)      == [role |-> "user", ids |-> ids]
Assistant(ids) == [role |-> "assistant", ids |-> ids]

SubagentInit ==
    /\ allow_tools \in {{}, {"bash", "edit"}}
    /\ session_grant \in BOOLEAN /\ auto_accept_edits \in BOOLEAN
    /\ at = "lookup" /\ turns = 0 /\ stop_reason = "none"
    /\ todo = <<>> /\ history = <<>> /\ results = <<>> /\ task_token = FALSE
    /\ reported = <<>> /\ executed = {} /\ result = NoResult

\* What apply_tool_policies leaves of the executor's tools.
tools == IF allow_tools = {} THEN ToolNames ELSE ToolNames \cap allow_tools

-----------------------------------------------------------------------------
(* The conversation *)

Finish(success, error) ==
    at' = "done" /\ result' = [success |-> success, error |-> error]

\* No such subagent, or its file cannot be read.
LookupFails ==
    /\ at = "lookup" /\ Finish(FALSE, "not found")
    /\ UNCHANGED <<configVars, turns, stop_reason, todo, history, results, task_token, reported,
                   executed>>

StartTask ==
    /\ at = "lookup" /\ at' = "chat" /\ history' = <<User(<<>>)>>
    /\ UNCHANGED <<configVars, turns, stop_reason, todo, results, task_token, reported, executed,
                   result>>

\* Also when the token is cancelled during the request.
ChatFails ==
    /\ at = "chat" /\ Finish(FALSE, IF task_token THEN "cancelled" ELSE "chat failed")
    /\ UNCHANGED <<configVars, turns, stop_reason, todo, history, results, task_token, reported,
                   executed>>

UseId(n) == <<turns + 1, n>>

Responds(names, reason) ==
    LET uses == [n \in DOMAIN names |-> [id |-> UseId(n), name |-> names[n]]] IN
    /\ at = "chat"
    /\ turns' = turns + 1 /\ stop_reason' = reason
    /\ history' = Append(history, Assistant([n \in DOMAIN uses |-> uses[n].id]))
    /\ todo' = uses
    /\ at' = "turn"
    /\ UNCHANGED <<configVars, results, task_token, reported, executed, result>>

\* The condition of the loop, read after every response.
GoesOn == stop_reason = "tool_use" /\ turns < MaxTurns

\* The last turn of a task that is cut off counts as a success.
TurnEnds ==
    /\ at = "turn" /\ (~GoesOn \/ task_token \/ todo = <<>>)
    /\ IF GoesOn /\ task_token THEN Finish(FALSE, "cancelled") ELSE Finish(TRUE, "none")
    /\ UNCHANGED <<configVars, turns, stop_reason, todo, history, results, task_token, reported,
                   executed>>

TurnGoesOn ==
    /\ at = "turn" /\ GoesOn /\ ~task_token /\ todo # <<>> /\ at' = "tools"
    /\ UNCHANGED <<configVars, turns, stop_reason, todo, history, results, task_token, reported,
                   executed, result>>

-----------------------------------------------------------------------------
(* The tools *)

use == Head(todo)

\* Mutant of Handled: a tool that was cancelled gets no result.
HandledUnlessCancelled(status, effect) ==
    /\ at = "tools" /\ todo # <<>>
    /\ reported' = Append(reported, [id |-> use.id, name |-> use.name, status |-> status])
    /\ executed' = IF effect THEN executed \cup {use.id} ELSE executed
    /\ results' = IF status = "cancelled" THEN results ELSE Append(results, use.id)
    /\ todo' = Tail(todo)
    /\ UNCHANGED <<configVars, at, turns, stop_reason, history, task_token, result>>

\* The tool use ends: an event with its status, and a result for the model.
Handled(status, effect) ==
    /\ at = "tools" /\ todo # <<>>
    /\ reported' = Append(reported, [id |-> use.id, name |-> use.name, status |-> status])
    /\ executed' = IF effect THEN executed \cup {use.id} ELSE executed
    /\ results' = Append(results, use.id)
    /\ todo' = Tail(todo)
    /\ UNCHANGED <<configVars, at, turns, stop_reason, history, task_token, result>>

\* execute_with_output sees the token first.
ToolCancelled == at = "tools" /\ todo # <<>> /\ task_token /\ Handled("cancelled", FALSE)

\* Mutant of IsKnown: the tools of the parent.
IsParentsTool == use.name \in ToolNames
IsKnown       == use.name \in tools

Runs == at = "tools" /\ todo # <<>>

ToolNotFound == Runs /\ ~task_token /\ ~IsKnown /\ Handled("failed", FALSE)

has_session_permission == session_grant

\* Mutant of status_of_request: asking counts as done.
request_completed == "completed"
status_of_request == "failed"

\* AskPermission is shown; the tool is not executed.
BashAsks ==
    /\ Runs /\ ~task_token /\ IsKnown /\ use.name = "bash" /\ ~has_session_permission
    /\ Handled(status_of_request, FALSE)

\* A cancel kills it: the output tells of the kill, and counts as captured.
BashRuns ==
    /\ Runs /\ IsKnown /\ use.name = "bash" /\ has_session_permission
    /\ \/ ~task_token /\ Handled("completed", TRUE)
       \/ Handled("failed", TRUE)

ReadRuns ==
    /\ Runs /\ ~task_token /\ IsKnown /\ use.name = "read"
    /\ \E status \in {"completed", "failed"} : Handled(status, status = "completed")

\* The edit is applied at once if edits are accepted; else the callback drops the
\* TextEdit, nothing is captured, and the tool counts as completed.
EditRuns ==
    /\ Runs /\ ~task_token /\ IsKnown /\ use.name = "edit"
    /\ \/ Handled("completed", auto_accept_edits)
       \/ Handled("failed", FALSE)

SendResults ==
    /\ at = "tools" /\ todo = <<>>
    /\ history' = Append(history, User(results)) /\ results' = <<>>
    /\ at' = "chat"
    /\ UNCHANGED <<configVars, turns, stop_reason, todo, task_token, reported, executed, result>>

TaskIsCancelled ==
    /\ at # "done" /\ ~task_token /\ task_token' = TRUE
    /\ UNCHANGED <<configVars, at, turns, stop_reason, todo, history, results, reported, executed,
                   result>>

SubagentNext ==
    \/ LookupFails \/ StartTask \/ ChatFails
    \/ \E names \in BoundedSeq(ToolNames, MaxUses) :
          \E reason \in {"tool_use", "end_turn"} : Responds(names, reason)
    \/ TurnEnds \/ TurnGoesOn
    \/ ToolCancelled \/ ToolNotFound \/ BashAsks \/ BashRuns \/ ReadRuns \/ EditRuns
    \/ SendResults \/ TaskIsCancelled

SubagentSpec == SubagentInit /\ [][SubagentNext]_subagentVars

-----------------------------------------------------------------------------
(* Properties *)

\* Whatever was cancelled, refused or not found, the model gets one result for each of its
\* tool uses, in the next message and in their order (execute_subagent).
SubagentIsAnswered ==
    \A n \in DOMAIN history :
       history[n].role = "assistant" /\ n < Len(history) =>
          history[n + 1].role = "user" /\ history[n + 1].ids = history[n].ids

\* What the events call completed took effect, and was allowed: by the subagent's list of
\* tools, and for a bash command by the parent's user.  The exception is an edit nobody
\* confirmed: it is called completed, and the model told that it was executed, although the
\* file is unchanged (execute_subagent, Executor::execute_with_output).
CompletedToolsRan ==
    \A n \in DOMAIN reported :
       LET r == reported[n] IN
       /\ r.status = "completed" =>
             r.id \in executed \/ (r.name = "edit" /\ ~auto_accept_edits)
       /\ r.id \in executed => r.name \in tools /\ (r.name = "bash" => session_grant)

\* Both: each tool use has its result, and a result says what took place.
SubagentIsTruthful == SubagentIsAnswered /\ CompletedToolsRan
=============================================================================
