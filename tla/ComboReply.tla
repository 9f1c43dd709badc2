------------------------------ MODULE ComboReply ------------------------------
(****************************************************************************)
(* A combo the user started that asks interactively, as the chat shows it:  *)
(* the runner's model proposes coco reply commands, the user grants or      *)
(* rejects them in the combo's widget or gives feedback, the chat runs the  *)
(* granted ones, and in the end the combo is summarised                     *)
(* (src/combo/runner.rs, crates/coco-tui/src/components/chat.rs,            *)
(* components/messages/combo.rs).                                           *)
(*                                                                          *)
(* Output and recorded commands, which the widget only displays, are left   *)
(* out.  So is the session server, which is in SessionServer.               *)
(****************************************************************************)
EXTENDS Naturals, Sequences, FiniteSets, SequencesExt

CONSTANTS
    Replies,            \* tool uses the runner's model may come up with, 1..n
    MaxAsks,            \* bound: asks of the script
    MaxTells,           \* bound: messages of feedback
    MaxRetries,         \* bound: retries of the summary's stream
    MaxAhead            \* bound: events the run is ahead of the chat

ASSUME ReplyAssumption ==
    /\ Replies \subseteq Nat \ {0} /\ MaxAsks \in Nat /\ MaxTells \in Nat
    /\ MaxRetries \in Nat /\ MaxAhead \in Nat \ {0}

VARIABLES
    runner,             \* execute_combo
    asked, asks,        \* the script waits for an answer; how often it asked
    schemas,            \* pending_interactive_schemas is Some
    tells,              \* feedback on the way to the runner, and sent so far
    reply_use,          \* per tool use: what became of it
    summary_attempt,    \* of the summary's stream
    run_cancelled,      \* the user cancelled
    events,             \* of the run and of the tool tasks, to the chat
    actions,            \* of the widget, to the chat
    ready,              \* ChatState
    sock,               \* combo_pending_reply_session_socks has the combo
    offload,            \* combo_offload_tool_use_to_combo_id
    pending_actions,    \* pending_user_actions: tool uses, 0 for feedback
    starter_state, bash_tool_use,           \* of the widget; 0 for None
    summary, summary_streaming, has_output,     \* of the widget
    summaries,              \* whole summaries the widget shows
    orphans, stopped    \* history: see the properties

runVars    == <<runner, asked, asks, schemas, tells, reply_use, summary_attempt, run_cancelled>>
chatVars3  == <<ready, sock, offload, pending_actions>>
widgetVars2 == <<starter_state, bash_tool_use>>
sumVars    == <<summary, summary_streaming, has_output, summaries>>
replyVars  == <<runVars, events, actions, chatVars3, widgetVars2, sumVars, orphans, stopped>>

Feedback == 0

ReplyInit ==
    /\ runner = "idle" /\ asked = FALSE /\ asks = 0 /\ schemas = FALSE
    /\ tells = [waiting |-> 0, sent |-> 0]
    /\ reply_use = [u \in Replies |-> "new"]
    /\ summary_attempt = [n |-> 0, text |-> "none"] /\ run_cancelled = FALSE
    /\ events = <<>> /\ actions = <<>>
    /\ ready = FALSE /\ sock = FALSE /\ offload = {} /\ pending_actions = {}
    /\ starter_state = "Executing" /\ bash_tool_use = 0
    /\ summary = FALSE /\ summary_streaming = FALSE /\ has_output = FALSE /\ summaries = 0
    /\ orphans = {} /\ stopped = FALSE

-----------------------------------------------------------------------------
(* The run *)

Event(type, u)    == [type |-> type, use |-> u, on |-> FALSE]
EventOn(type, on) == [type |-> type, use |-> 0, on |-> on]

Emit(more)    == Len(events) < MaxAhead /\ events' = events \o more
chatOnly      == <<actions, chatVars3, widgetVars2, sumVars, orphans, stopped>>
New(u)        == reply_use[u] = "new" /\ \A v \in Replies : v < u => reply_use[v] # "new"

\* coco ask -i: from now on what the user tells the combo goes to the model.
ScriptAsks ==
    /\ runner = "idle" /\ ~asked /\ asks < MaxAsks
    /\ asked' = TRUE /\ asks' = asks + 1 /\ schemas' = TRUE /\ runner' = "asking"
    /\ Emit(<<EventOn("prompt", TRUE)>>)
    /\ UNCHANGED <<tells, reply_use, summary_attempt, run_cancelled, chatOnly>>

\* coco reply is for the user to confirm; the runner goes on with its loop.
RunnerProposes(u) ==
    /\ runner = "asking" /\ New(u)
    /\ reply_use' = [reply_use EXCEPT ![u] = "proposed"] /\ runner' = "idle"
    /\ Emit(<<Event("confirm", u)>>)
    /\ UNCHANGED <<asked, asks, schemas, tells, summary_attempt, run_cancelled, chatOnly>>

\* Any other tool runs, or is refused, at once.
RunnerExecutes(u) ==
    /\ runner = "asking" /\ New(u)
    /\ reply_use' = [reply_use EXCEPT ![u] = "done"]
    /\ Emit(<<Event("tool_use", u), Event("tool_result", u)>>)
    /\ UNCHANGED <<runner, asked, asks, schemas, tells, summary_attempt, run_cancelled,
                   chatOnly>>

\* The model only talked, for the third time: the runner waits for feedback.  What it said
\* was streamed, or is emitted now.
RunnerPauses ==
    /\ runner = "asking" /\ runner' = "idle"
    /\ \E streamed \in BOOLEAN :
          Emit(IF streamed THEN <<>> ELSE <<EventOn("prompt", TRUE)>>)
    /\ UNCHANGED <<asked, asks, schemas, tells, reply_use, summary_attempt, run_cancelled,
                   chatOnly>>

\* The request failed, or fifty turns are over: the script is told.
RunnerFails ==
    /\ runner = "asking" /\ runner' = "idle"
    /\ asked' = FALSE /\ schemas' = FALSE
    /\ Emit(<<Event("error", 0)>>)
    /\ UNCHANGED <<asks, tells, reply_use, summary_attempt, run_cancelled, chatOnly>>

\* The schemas of an ask that was answered still count.
RunnerHearsFeedback ==
    /\ runner = "idle" /\ tells.waiting > 0
    /\ tells' = [tells EXCEPT !.waiting = @ - 1]
    /\ runner' = IF schemas THEN "asking" ELSE "idle"
    /\ Emit(<<EventOn("prompt", FALSE)>>)
    /\ UNCHANGED <<asked, asks, schemas, reply_use, summary_attempt, run_cancelled, chatOnly>>

\* The chat runs it; the answer may be refused, or come when nobody asks.
ReplyRuns(u) ==
    /\ reply_use[u] = "granted" /\ reply_use' = [reply_use EXCEPT ![u] = "done"]
    /\ asked' \in IF runner \in {"idle", "asking"} THEN {FALSE, asked} ELSE {FALSE}
    /\ Emit(<<Event("ran", u)>>)
    /\ UNCHANGED <<runner, asks, schemas, tells, summary_attempt, run_cancelled, chatOnly>>

ScriptEnds ==
    /\ runner = "idle" /\ ~asked /\ runner' = "executed"
    /\ Emit(<<Event("executed", 0)>>)
    /\ UNCHANGED <<asked, asks, schemas, tells, reply_use, summary_attempt, run_cancelled,
                   chatOnly>>

\* Whatever is under way is dropped.
RunnerSeesCancel ==
    /\ run_cancelled /\ runner \in {"idle", "asking"}
    /\ runner' = "over" /\ asked' = FALSE
    /\ Emit(<<Event("cancelled", 0), Event("result", 0)>>)
    /\ UNCHANGED <<asks, schemas, tells, reply_use, summary_attempt, run_cancelled, chatOnly>>

(* generate_combo_summary *)

\* The first attempt, or a retry: what was streamed does not count.
SummaryStarts ==
    /\ runner = "executed" /\ summary_attempt.n <= MaxRetries
    /\ summary_attempt.n = 0 \/ summary_attempt.text # "whole"
    /\ summary_attempt' = [n |-> summary_attempt.n + 1, text |-> "none"]
    /\ Emit(<<Event("summary_reset", 0)>>)
    /\ UNCHANGED <<runner, asked, asks, schemas, tells, reply_use, run_cancelled, chatOnly>>

SummaryText ==
    /\ runner = "executed" /\ summary_attempt.n > 0 /\ summary_attempt.text # "whole"
    /\ \E whole \in BOOLEAN :
          /\ summary_attempt' = [summary_attempt EXCEPT !.text = IF whole THEN "whole" ELSE "part"]
          /\ summary_attempt' # summary_attempt
          /\ Emit(<<EventOn("summary_text", whole)>>)
    /\ UNCHANGED <<runner, asked, asks, schemas, tells, reply_use, run_cancelled, chatOnly>>

\* With the summary, or with the last lines of output when there is none: the model failed
\* or said nothing, or the user cancelled.
SummaryDone ==
    /\ runner = "executed" /\ runner' = "over"
    /\ Emit(<<Event("summary_done", 0), Event("result", 0)>>)
    /\ UNCHANGED <<asked, asks, schemas, tells, reply_use, summary_attempt, run_cancelled,
                   chatOnly>>

-----------------------------------------------------------------------------
(* The widget: on_combo_event *)

keep_summary == summary' = TRUE

\* The summary is appended unless there is one, or one is being streamed.
append_summary ==
    IF summary \/ summary_streaming THEN UNCHANGED <<summary, summaries>>
    ELSE summary' = TRUE /\ summaries' = summaries + 1

widget_summary_reset ==
    /\ summary_streaming' = TRUE /\ has_output' = FALSE /\ UNCHANGED <<summary, summaries>>

widget_summary_text(whole) ==
    /\ summary_streaming' = TRUE /\ has_output' = TRUE
    /\ summaries' = summaries + (IF whole THEN 1 ELSE 0) /\ UNCHANGED summary

widget_summary_done ==
    /\ summary_streaming' = FALSE /\ has_output' = FALSE
    /\ IF summary_streaming /\ has_output THEN keep_summary /\ UNCHANGED summaries
       ELSE IF summary THEN UNCHANGED <<summary, summaries>>
       ELSE summary' = TRUE /\ summaries' = summaries + 1

push_offload_bash_tool_use(u, requires_confirmation) ==
    /\ bash_tool_use' = IF requires_confirmation THEN u ELSE 0
    /\ starter_state' = IF requires_confirmation THEN "AwaitingPermission" ELSE starter_state

widget_ends(state) == starter_state' = state /\ bash_tool_use' = 0

-----------------------------------------------------------------------------
(* The chat *)

Receives(type) == events # <<>> /\ Head(events).type = type /\ events' = Tail(events)
The            == Head(events)

\* Mutant of add_offload: the combo has one reply at a time.
one_offload(u) == {u}
add_offload(u) == offload \cup {u}

HandlePrompt ==
    /\ Receives("prompt") /\ ready' = FALSE
    /\ IF The.on THEN sock' = TRUE /\ pending_actions' = pending_actions \cup {Feedback}
                 ELSE UNCHANGED <<sock, pending_actions>>
    /\ UNCHANGED <<runVars, actions, offload, widgetVars2, sumVars, orphans, stopped>>

HandleReplyToolUse ==
    /\ events # <<>> /\ The.type \in {"confirm", "tool_use"} /\ events' = Tail(events)
    /\ ready' = FALSE
    /\ IF The.type = "confirm"
       THEN /\ offload' = add_offload(The.use) /\ sock' = TRUE
            /\ pending_actions' = (pending_actions \ {Feedback}) \cup {The.use}
       ELSE UNCHANGED <<offload, sock, pending_actions>>
    /\ push_offload_bash_tool_use(The.use, The.type = "confirm")
    /\ UNCHANGED <<runVars, actions, sumVars, orphans, stopped>>

HandleReplyToolResult ==
    /\ Receives("tool_result")
    /\ offload' = offload \ {The.use} /\ pending_actions' = pending_actions \ {The.use}
    /\ bash_tool_use' = 0
    /\ UNCHANGED <<runVars, actions, ready, sock, starter_state, sumVars, orphans, stopped>>

HandleReplyToolError ==
    /\ Receives("error") /\ ready' = TRUE
    /\ UNCHANGED <<runVars, actions, sock, offload, pending_actions, widgetVars2, sumVars,
                   orphans,
                   stopped>>

\* Mutant of forget_run: handle_combo_event forgets less than handle_combo_event_from_tool.
forget_feedback == sock' = FALSE /\ pending_actions' = {} /\ UNCHANGED offload
forget_run      == sock' = FALSE /\ pending_actions' = {} /\ offload' = {}

HandleExecuted ==
    /\ Receives("executed") /\ forget_run /\ stopped' = TRUE
    /\ widget_ends("Finalized")
    /\ UNCHANGED <<runVars, actions, ready, sumVars, orphans>>

HandleCancelled ==
    /\ Receives("cancelled") /\ forget_run /\ stopped' = TRUE
    /\ widget_ends("Cancelled") /\ ready' = TRUE
    /\ summary_streaming' = FALSE /\ has_output' = FALSE
    /\ UNCHANGED <<runVars, actions, summary, summaries, orphans>>

HandleSummary ==
    /\ events # <<>> /\ events' = Tail(events)
    /\ \/ The.type = "summary_reset" /\ widget_summary_reset
       \/ The.type = "summary_text" /\ widget_summary_text(The.on)
       \/ The.type = "summary_done" /\ widget_summary_done
    /\ ready' = FALSE
    /\ UNCHANGED <<runVars, actions, sock, offload, pending_actions, widgetVars2, orphans,
                   stopped>>

\* Of the run: the widget takes it, then the chat appends a summary once more, and asks its
\* model.
HandleRunResult ==
    /\ Receives("result") /\ append_summary
    /\ UNCHANGED <<runVars, actions, chatVars3, widgetVars2, summary_streaming, has_output,
                   orphans, stopped>>

\* Of a coco reply: it is for the widget, as long as the chat knows whose it is.
HandleToolResult ==
    /\ Receives("ran")
    /\ IF The.use \in offload
       THEN offload' = offload \ {The.use} /\ UNCHANGED <<pending_actions, orphans>>
       ELSE /\ pending_actions' = pending_actions \ {The.use} /\ UNCHANGED offload
            /\ orphans' = orphans \cup {[use |-> The.use, late |-> stopped]}
    /\ UNCHANGED <<runVars, actions, ready, sock, widgetVars2, sumVars, stopped>>

(* The user *)

Presses(to, action) ==
    /\ starter_state = "AwaitingPermission" /\ bash_tool_use # 0
    /\ starter_state' = to
    /\ actions' = Append(actions, [type |-> action, use |-> bash_tool_use])

KeyGrant ==
    /\ Presses("Discovering", "grant")
    /\ UNCHANGED <<runVars, events, chatVars3, bash_tool_use, sumVars, orphans, stopped>>

KeyReject ==
    /\ Presses("Executing", "cancel") /\ bash_tool_use' = 0
    /\ UNCHANGED <<runVars, events, chatVars3, sumVars, orphans, stopped>>

Takes(type) == actions # <<>> /\ Head(actions).type = type /\ actions' = Tail(actions)

HandleGrant ==
    /\ Takes("grant")
    /\ pending_actions' = pending_actions \ {Head(actions).use}
    /\ reply_use' = [reply_use EXCEPT ![Head(actions).use] = "granted"]
    /\ UNCHANGED <<runner, asked, asks, schemas, tells, summary_attempt, run_cancelled,
                   events, ready, sock,
                   offload, widgetVars2, sumVars, orphans, stopped>>

\* A rejected reply of the combo asks for feedback; any other is queued as a result for the
\* chat's model.
HandleCancel ==
    /\ Takes("cancel")
    /\ LET u == Head(actions).use IN
       /\ offload' = offload \ {u}
       /\ IF u \in offload \cup pending_actions
          THEN pending_actions' = (pending_actions \ {u}) \cup {Feedback} /\ UNCHANGED orphans
          ELSE UNCHANGED pending_actions /\ orphans' = orphans \cup {[use |-> u, late |-> stopped]}
    /\ ready' = TRUE
    /\ UNCHANGED <<runVars, events, sock, widgetVars2, sumVars, stopped>>

\* The message goes to the session's socket as coco tell does.
try_submit_combo_feedback ==
    /\ ready /\ Feedback \in pending_actions /\ tells.sent < MaxTells
    /\ IF sock /\ runner \in {"idle", "asking"}
       THEN /\ tells' = [waiting |-> tells.waiting + 1, sent |-> tells.sent + 1]
            /\ ready' = FALSE
       ELSE ready' = TRUE /\ UNCHANGED tells
    /\ UNCHANGED <<runner, asked, asks, schemas, reply_use, summary_attempt, run_cancelled,
                   events, actions, sock,
                   offload, pending_actions, widgetVars2, sumVars, orphans, stopped>>

UserCancelsRun ==
    /\ ~run_cancelled /\ run_cancelled' = TRUE
    /\ UNCHANGED <<runner, asked, asks, schemas, tells, reply_use, summary_attempt, events,
                   actions, chatVars3,
                   widgetVars2, sumVars, orphans, stopped>>

RunSteps ==
    \/ ScriptAsks \/ RunnerPauses \/ RunnerFails \/ RunnerHearsFeedback
    \/ ScriptEnds \/ RunnerSeesCancel \/ SummaryStarts \/ SummaryText \/ SummaryDone
    \/ \E u \in Replies : RunnerProposes(u) \/ RunnerExecutes(u) \/ ReplyRuns(u)

ReplyNext ==
    \/ RunSteps
    \/ HandlePrompt \/ HandleReplyToolUse \/ HandleReplyToolResult \/ HandleReplyToolError
    \/ HandleExecuted \/ HandleCancelled \/ HandleSummary \/ HandleRunResult \/ HandleToolResult
    \/ KeyGrant \/ KeyReject \/ HandleGrant \/ HandleCancel
    \/ try_submit_combo_feedback \/ UserCancelsRun

ReplySpec == ReplyInit /\ [][ReplyNext]_replyVars

-----------------------------------------------------------------------------
(* Properties *)

\* What the user did with a coco reply of a running combo does not turn up in the chat's own
\* conversation, where no tool use is for it (ToolResult handler, ToolAction::Cancel).  When
\* the combo ends before the chat hears of it, it does.
RepliesStayWithTheirCombo == \A o \in orphans : o.late

\* When the chat has heard that the run ended, nothing of it waits for the user
\* (handle_combo_event_from_tool, on_combo_event).
NothingIsLeftOfTheRun ==
    stopped => ~sock /\ offload = {} /\ pending_actions = {} /\ starter_state # "AwaitingPermission"

\* The widget shows one whole summary: the streamed one, the one of SummaryDone, or the one
\* of the result.  When the stream broke off after some text, what it showed stays alone
\* (append_summary, maybe_append_summary, SummaryDone).
SummaryIsShownOnce ==
    /\ summaries <= 1
    /\ runner = "over" /\ events = <<>> /\ summary_attempt.text # "part" => summaries = 1

\* All of them: what the chat keeps of a run begins and ends with it.
RunStaysTogether == RepliesStayWithTheirCombo /\ NothingIsLeftOfTheRun /\ SummaryIsShownOnce
=============================================================================
