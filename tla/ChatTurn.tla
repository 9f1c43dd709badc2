------------------------------ MODULE ChatTurn ------------------------------
(****************************************************************************)
(* The turns of the chat component: a prompt becomes a request to the       *)
(* model, the answer's tool uses run in tasks of their own, the user grants *)
(* or cancels some of them, and the results go back in one message          *)
(* (crates/coco-tui/src/components/chat.rs, src/agent/executor.rs, the tool *)
(* widgets).  Combos the model starts are in ComboRuns, streaming is in     *)
(* ModelStream, saving in SessionStore.                                     *)
(*                                                                          *)
(* Tasks talk to the component through one unbounded event queue; the       *)
(* component handles one event, or one key and the action it sends, at a    *)
(* time.  Every spawned task works on a clone of the component's agent: it  *)
(* sees the permissions of the moment it was spawned, but shares messages.  *)
(****************************************************************************)
EXTENDS Naturals, Sequences, FiniteSets

CONSTANTS
    ToolIds,     \* ids of the tool uses the model may ask for
    ManualRuns,  \* ids of the combos the user starts from the palette
    ToolKinds,   \* the kinds of tool the model uses, a subset of Kinds
    Command,     \* Command[t]: what t runs if it is a bash tool use
    AutoAccept,  \* values of auto_accept_edits, which the user toggles at any time
    MaxPrompts,  \* bound: messages the user submits and combos the user starts
    MaxFires,    \* bound: cancellations by a double Ctrl-C
    MaxToolTurns, \* bound: the first requests, which the model may answer with tool uses
    MaxHunks     \* bound: hunks of a text edit

\* bash asks for permission.  read and list do not, and end silently when they
\* are cancelled; task (run_task) does not and answers when cancelled.  edit is
\* str_replace.  reply is bash with a `coco reply` for no pending combo.  unknown
\* is a tool the executor does not have.
Kinds == {"bash", "read", "task", "edit", "reply", "unknown"}
Uses  == ToolIds \cup ManualRuns
Commands == {Command[t] : t \in ToolIds}

ASSUME ToolKindsAssumption == ToolKinds \subseteq Kinds
ASSUME IdsAssumption == ToolIds \cap ManualRuns = {} /\ IsFiniteSet(ToolIds)
ASSUME AutoAcceptAssumption == AutoAccept \in SUBSET BOOLEAN
ASSUME BoundsAssumption == MaxPrompts \in Nat /\ MaxFires \in Nat /\ MaxToolTurns \in Nat
                           /\ MaxHunks \in Nat \ {0}

VARIABLES
    state,                  \* ChatState
    pending_chats,          \* results that wait for the next user message
    pending_tool_ids, collected_tool_results,   \* the batch being collected
    pending_user_actions,   \* tool uses the user has to decide about
    kind, widget, hunks,    \* per tool use: its tool, its ToolState, its edit
    tools_once_pcl, bash_session_allowlist,     \* permissions of the component's agent
    cancel_token,           \* the guard's token; all smaller ones are cancelled
    last_hit,               \* of Ctrl-C: "none", or the state it was hit in
    fires, prompts,         \* how often the guard fired, how often the user submitted
    events,                 \* global::event_tx
    chats,                  \* the task_chat tasks, in the order they were spawned
    tool,                   \* the task of a tool use, or of a combo run
    messages,               \* the agent's history
    app,                    \* "running" or "quit"
    interfered, batch_cancelled, granted   \* history, for the properties

widgetVars == <<kind, widget, hunks>>
grantVars  == <<tools_once_pcl, bash_session_allowlist>>
batchVars  == <<pending_tool_ids, collected_tool_results>>
guardVars  == <<cancel_token, last_hit, fires, prompts>>
taskVars   == <<chats, tool>>
ghostVars  == <<interfered, batch_cancelled, granted>>
chatVars   == <<state, pending_chats, batchVars, pending_user_actions>>
vars == <<chatVars, widgetVars, grantVars, guardVars, events, taskVars, messages, app,
          ghostVars>>

Widgets == {"none", "initing", "waiting", "executing", "cancelled", "finished"}
Tokens  == Nat \ {0}

\* execute: the uses of an assistant's message that the component ran
Message == [role : {"user", "assistant"}, uses : SUBSET Uses, execute : SUBSET Uses,
            results : SUBSET Uses]
Event   == [type : {"AskBot", "Bot", "Cancelled", "Permission", "TextEdit", "AutoEdit",
                    "Pending", "ToolResult", "ComboProgress"},
            ids : SUBSET Uses]
Task    == [pc : {"none", "spawned", "running", "applying", "done"},
            token : Tokens, once : SUBSET ToolIds, allow : SUBSET Commands]
ChatTask == [pc : {"spawned", "asking", "responded", "done"}, token : Tokens,
             results : SUBSET Uses, execute : SUBSET ToolIds,
             once : SUBSET ToolIds, allow : SUBSET Commands]

NoTask == [pc |-> "none", token |-> 1, once |-> {}, allow |-> {}]

Init ==
    /\ state = "Ready"
    /\ pending_chats = {} /\ pending_tool_ids = {} /\ collected_tool_results = {}
    /\ pending_user_actions = {}
    /\ kind = [t \in ToolIds |-> "none"]
    /\ widget = [t \in Uses |-> "none"]
    /\ hunks = [t \in ToolIds |-> 0]
    /\ tools_once_pcl = {} /\ bash_session_allowlist = {}
    /\ cancel_token = 1
    /\ last_hit = "none" /\ fires = 0 /\ prompts = 0
    /\ events = <<>> /\ chats = <<>> /\ messages = <<>>
    /\ tool = [t \in Uses |-> NoTask]
    /\ app = "running"
    /\ interfered = FALSE /\ batch_cancelled = FALSE /\ granted = {}

-----------------------------------------------------------------------------
(* Helpers *)

Cancelled(token) == token < cancel_token

Send(type, ids) == events' = Append(events, [type |-> type, ids |-> ids])

Receive(type) ==
    /\ events # <<>> /\ Head(events).type = type
    /\ events' = Tail(events)

user(results) == [role |-> "user", uses |-> {}, execute |-> {}, results |-> results]
assistant(uses, execute) ==
    [role |-> "assistant", uses |-> uses, execute |-> execute, results |-> {}]

\* Work of an earlier prompt that is not finished, which the component does not
\* wait for when it spawns the next request.
InFlight == \/ events # <<>>
            \/ \E n \in DOMAIN chats : chats[n].pc # "done"
            \/ \E t \in Uses : tool[t].pc \in {"spawned", "running", "applying"}
            \/ \E t \in ToolIds : widget[t] = "waiting"

Armed == last_hit # "none"

reset == last_hit' = "none"

set_processing == state' = "Processing"

\* Mutant of set_ready: the guard stays armed.
set_ready_armed == state' = "Ready" /\ UNCHANGED last_hit

set_ready ==
    /\ state' = "Ready"
    /\ IF state # "Ready" THEN reset ELSE UNCHANGED last_hit

\* Takes what is pending into the message and spawns the request, whose token
\* replaces, and cancels, the current one.
spawn_chat_task(results) ==
    /\ chats' = Append(chats,
          [pc |-> "spawned", token |-> cancel_token + 1, results |-> pending_chats \cup results,
           execute |-> {}, once |-> tools_once_pcl, allow |-> bash_session_allowlist])
    /\ pending_chats' = {}
    /\ cancel_token' = cancel_token + 1
    /\ reset

spawn_tool_use(t, once, allow) ==
    tool' = [tool EXCEPT ![t] = [pc |-> "spawned", token |-> cancel_token,
                                 once |-> once, allow |-> allow]]

ChatDone(n) == [chats[n] EXCEPT !.pc = "done", !.results = {}, !.execute = {},
                                !.once = {}, !.allow = {}]
ToolDone(t) == tool' = [tool EXCEPT ![t] = [NoTask EXCEPT !.pc = "done"]]

-----------------------------------------------------------------------------
(* task_chat *)

\* A task that starts cancelled returns without a word: what it was given is lost.
ChatStarts(n) ==
    /\ chats[n].pc = "spawned"
    /\ IF Cancelled(chats[n].token)
       THEN /\ chats' = [chats EXCEPT ![n] = ChatDone(n)]
            /\ UNCHANGED <<events, messages>>
       ELSE /\ chats' = [chats EXCEPT ![n].pc = "asking", ![n].results = {}]
            /\ messages' = Append(messages, user(chats[n].results))
            /\ Send("AskBot", {})
    /\ UNCHANGED <<chatVars, widgetVars, grantVars, guardVars, tool, app, ghostVars>>

\* The request fails, or its stream sees the cancelled token.
ChatFails(n) ==
    /\ chats[n].pc = "asking"
    /\ chats' = [chats EXCEPT ![n] = ChatDone(n)]
    /\ Send(IF Cancelled(chats[n].token) THEN "Cancelled" ELSE "Bot", {})
    /\ UNCHANGED <<chatVars, widgetVars, grantVars, guardVars, tool, messages, app, ghostVars>>

\* The tool uses a response makes the component run; none if the model ran out
\* of tokens or refused.
ToExecute(uses, stopped) ==
    IF stopped THEN {} ELSE {t \in uses : kind'[t] # "reply"}

ChatAnswers(n, uses, stopped) ==
    /\ chats[n].pc = "asking"
    /\ \A t \in uses : kind[t] = "none"
    /\ uses # {} => n <= MaxToolTurns
    /\ \E k \in [uses -> ToolKinds] :
          kind' = [t \in ToolIds |-> IF t \in uses THEN k[t] ELSE kind[t]]
    /\ messages' = Append(messages, assistant(uses, ToExecute(uses, stopped)))
    /\ chats' = [chats EXCEPT ![n].pc = "responded",
                              ![n].execute = ToExecute(uses, stopped)]
    /\ Send("Bot", uses)
    /\ UNCHANGED <<chatVars, widget, hunks, grantVars, guardVars, tool, app, ghostVars>>

\* Mutant of PendingEvents: a batch of two is not announced.
PendingEventsFromThree(execute) ==
    IF Cardinality(execute) > 2 THEN <<[type |-> "Pending", ids |-> execute]>> ELSE <<>>

PendingEvents(execute) ==
    IF Cardinality(execute) > 1 THEN <<[type |-> "Pending", ids |-> execute]>> ELSE <<>>

ChatExecutes(n) ==
    LET execute == IF Cancelled(chats[n].token) THEN {} ELSE chats[n].execute IN
    /\ chats[n].pc = "responded"
    /\ events' = events \o PendingEvents(execute)
    /\ tool' = [t \in Uses |-> IF t \in execute
                               THEN [pc |-> "spawned", token |-> chats[n].token,
                                     once |-> chats[n].once, allow |-> chats[n].allow]
                               ELSE tool[t]]
    /\ chats' = [chats EXCEPT ![n] = ChatDone(n)]
    /\ UNCHANGED <<chatVars, widgetVars, grantVars, guardVars, messages, app, ghostVars>>

-----------------------------------------------------------------------------
(* task_tool_use, task_apply_text_edit, task_combo_execute *)

\* Mutant of take_once_permission: no grant at all counts as a grant for everything.
take_any_permission(t) == tool[t].once \in SUBSET {t}

take_once_permission(t) == t \in tool[t].once

has_session_permission(t) == kind[t] = "bash" /\ Command[t] \in tool[t].allow

\* execute_with_output up to the tool's own work.  Nobody looks at its result: a
\* call that was cancelled or names no tool ends without an event.
ToolStarts(t) ==
    /\ tool[t].pc = "spawned"
    /\ IF t \in ToolIds /\ (Cancelled(tool[t].token) \/ kind[t] = "unknown")
       THEN ToolDone(t) /\ UNCHANGED events
       ELSE IF t \in ToolIds /\ kind[t] = "bash"
               /\ ~take_once_permission(t) /\ ~has_session_permission(t)
       THEN ToolDone(t) /\ Send("Permission", {t})
       ELSE tool' = [tool EXCEPT ![t].pc = "running"] /\ UNCHANGED events
    /\ UNCHANGED <<chatVars, widgetVars, grantVars, guardVars, chats, messages, app, ghostVars>>

\* Success and failure take the same way.
ToolFinishes(t) ==
    /\ tool[t].pc = "running"
    /\ Send("ToolResult", {t})
    /\ ToolDone(t)
    /\ UNCHANGED <<chatVars, widgetVars, grantVars, guardVars, chats, messages, app, ghostVars>>

\* select! takes the cancelled token and drops the tool's future.
ToolStopsSilently(t) ==
    /\ t \in ToolIds /\ tool[t].pc = "running"
    /\ kind[t] \in {"read", "edit"} /\ Cancelled(tool[t].token)
    /\ ToolDone(t)
    /\ UNCHANGED <<chatVars, widgetVars, grantVars, guardVars, events, chats, messages, app,
                   ghostVars>>

EditProposed(t, n, auto) ==
    /\ t \in ToolIds /\ tool[t].pc = "running" /\ kind[t] = "edit"
    /\ IF auto
       THEN /\ events' = events \o <<[type |-> "AutoEdit", ids |-> {t}],
                                     [type |-> "ToolResult", ids |-> {t}]>>
            /\ UNCHANGED hunks
       ELSE /\ Send("TextEdit", {t})
            /\ hunks' = [hunks EXCEPT ![t] = n]
    /\ ToolDone(t)
    /\ UNCHANGED <<chatVars, kind, widget, grantVars, guardVars, chats, messages, app, ghostVars>>

\* One hunk was written; the rest of the edit needs the user again, an error or the last
\* hunk ends the tool use.
HunkApplied(t, failed) ==
    /\ t \in ToolIds /\ tool[t].pc = "applying"
    /\ IF failed \/ hunks[t] = 1
       THEN Send("ToolResult", {t}) /\ UNCHANGED hunks
       ELSE Send("TextEdit", {t}) /\ hunks' = [hunks EXCEPT ![t] = @ - 1]
    /\ ToolDone(t)
    /\ UNCHANGED <<chatVars, kind, widget, grantVars, guardVars, chats, messages, app, ghostVars>>

ComboProgresses(r) ==
    /\ r \in ManualRuns /\ tool[r].pc = "running"
    /\ \A n \in DOMAIN events : events[n].type # "ComboProgress"
    /\ Send("ComboProgress", {r})
    /\ UNCHANGED <<chatVars, widgetVars, grantVars, guardVars, taskVars, messages, app, ghostVars>>

-----------------------------------------------------------------------------
(* handle_event *)

HandleAskBot ==
    /\ Receive("AskBot")
    /\ set_processing
    /\ UNCHANGED <<pending_chats, batchVars, pending_user_actions, widgetVars, grantVars,
                   guardVars, taskVars, messages, app, ghostVars>>

\* The component is ready again unless the answer uses a tool, whether or not the
\* tool is going to run.
HandleBot ==
    LET uses == Head(events).ids IN
    /\ Receive("Bot")
    /\ IF uses = {} THEN set_ready ELSE UNCHANGED <<state, last_hit>>
    /\ widget' = [t \in Uses |-> IF t \in uses THEN "initing" ELSE widget[t]]
    /\ UNCHANGED <<pending_chats, batchVars, pending_user_actions, kind, hunks, grantVars,
                   cancel_token, fires, prompts, taskVars, messages, app, ghostVars>>

HandleCancelled ==
    /\ Receive("Cancelled")
    /\ set_ready
    /\ UNCHANGED <<pending_chats, batchVars, pending_user_actions, widgetVars, grantVars,
                   cancel_token, fires, prompts, taskVars, messages, app, ghostVars>>

\* Mutant of add_pending: only the last one is remembered.
replace_pending(asked) == asked

add_pending(asked) == pending_user_actions \cup asked

HandleAsksUser ==
    LET asked == Head(events).ids IN
    /\ Receive("Permission") \/ Receive("TextEdit")
    /\ pending_user_actions' = add_pending(asked)
    /\ widget' = [t \in Uses |-> IF t \in asked THEN "waiting" ELSE widget[t]]
    /\ UNCHANGED <<state, pending_chats, batchVars, kind, hunks, grantVars, guardVars, taskVars,
                   messages, app, ghostVars>>

HandleAutoEdit ==
    /\ Receive("AutoEdit")
    /\ widget' = [t \in Uses |-> IF t \in Head(events).ids THEN "executing" ELSE widget[t]]
    /\ UNCHANGED <<chatVars, kind, hunks, grantVars, guardVars, taskVars, messages, app, ghostVars>>

HandlePending ==
    /\ Receive("Pending")
    /\ pending_tool_ids' = Head(events).ids
    /\ collected_tool_results' = {}
    /\ UNCHANGED <<state, pending_chats, pending_user_actions, widgetVars, grantVars, guardVars,
                   taskVars, messages, app, ghostVars>>

\* Mutant of Collected: any result is taken for one of the batch.
CollectedInAnyBatch(t) == pending_tool_ids # {}

Collected(t) == t \in pending_tool_ids

\* Mutant of BatchIsOpen: the result just taken still counts as missing.
BatchIsOpenAlways(t) == Collected(t)

BatchIsOpen(t) == Collected(t) /\ pending_tool_ids # {t}

\* The result of a batch member waits for the others; any other result, a manual
\* combo's included, is sent at once.
HandleToolResult ==
    /\ Receive("ToolResult")
    /\ \E t \in Head(events).ids :
       /\ widget' = [widget EXCEPT ![t] = "finished"]
       /\ pending_user_actions' = pending_user_actions \ {t}
       /\ pending_tool_ids' = pending_tool_ids \ {t}
       /\ IF BatchIsOpen(t)
          THEN /\ collected_tool_results' = collected_tool_results \cup {t}
               /\ UNCHANGED <<pending_chats, chats, cancel_token, last_hit>>
          ELSE /\ collected_tool_results' =
                     IF Collected(t) THEN {} ELSE collected_tool_results
               /\ spawn_chat_task(IF Collected(t)
                                  THEN collected_tool_results \cup {t} ELSE {t})
       /\ UNCHANGED <<state, kind, hunks, grantVars, fires, prompts, tool, messages, app,
                      ghostVars>>

HandleComboProgress ==
    /\ Receive("ComboProgress")
    /\ set_processing
    /\ UNCHANGED <<pending_chats, batchVars, pending_user_actions, widgetVars, grantVars,
                   guardVars, taskVars, messages, app, ghostVars>>

-----------------------------------------------------------------------------
(* Keys and the actions they send *)

\* on_submit, submit_value: only when Ready.  Ready does not mean idle: AskBot of
\* the last request may be on its way, or other members of a batch at work.
Submit ==
    /\ state = "Ready" /\ prompts < MaxPrompts
    /\ prompts' = prompts + 1
    /\ spawn_chat_task({})
    /\ interfered' = (interfered \/ InFlight)
    /\ UNCHANGED <<state, batchVars, pending_user_actions, widgetVars, grantVars, fires, events,
                   tool, messages, app, batch_cancelled, granted>>

\* Mutant of Decidable: the widget takes the key while its command runs, too.
DecidableTwice(t) == widget[t] \in {"waiting", "executing"} /\ kind[t] = "bash"

\* The widget takes the key while it waits; a widget without a tool of its own
\* (Raw) takes it once, at any time.
Decidable(t) ==
    \/ widget[t] = "waiting" /\ kind[t] = "bash"
    \/ widget[t] = "initing" /\ kind[t] = "unknown"

Grant(t) ==
    /\ Decidable(t)
    /\ tools_once_pcl' = tools_once_pcl \cup {t}
    /\ spawn_tool_use(t, tools_once_pcl', bash_session_allowlist)
    /\ set_processing
    /\ widget' = [widget EXCEPT ![t] = "executing"]
    /\ pending_user_actions' = pending_user_actions \ {t}
    /\ granted' = granted \cup {t}
    /\ UNCHANGED <<pending_chats, batchVars, kind, hunks, bash_session_allowlist, guardVars,
                   events, chats, messages, app, interfered, batch_cancelled>>

GrantSession(t) ==
    /\ Decidable(t) /\ kind[t] = "bash"
    /\ bash_session_allowlist' = bash_session_allowlist \cup {Command[t]}
    /\ spawn_tool_use(t, tools_once_pcl, bash_session_allowlist')
    /\ set_processing
    /\ widget' = [widget EXCEPT ![t] = "executing"]
    /\ pending_user_actions' = pending_user_actions \ {t}
    /\ granted' = granted \cup {Command[t]}
    /\ UNCHANGED <<pending_chats, batchVars, kind, hunks, tools_once_pcl, guardVars, events,
                   chats, messages, app, interfered, batch_cancelled>>

\* The guard after Esc, or after the second Ctrl-C that stands for it.
ArmAfter(key, refused) ==
    IF key = "CtrlC" THEN Armed /\ reset
    ELSE IF refused /\ state # "Ready" THEN reset ELSE UNCHANGED last_hit

\* One of several that were started together; the batch may not be announced yet.
InBatch(t) == \E n \in DOMAIN messages :
                 t \in messages[n].execute /\ Cardinality(messages[n].execute) > 1

\* The message that asked for it has been answered, or is about to be.
IsLate(t) == \/ \E n \in DOMAIN chats : chats[n].pc # "done"
             \/ t \notin messages[Len(messages)].uses

\* The result goes to the next user message; the batch keeps waiting for it.
Refuse(t) ==
    /\ pending_user_actions' = pending_user_actions \ {t}
    /\ pending_chats' = pending_chats \cup {t}
    /\ widget' = [widget EXCEPT ![t] = "cancelled"]
    /\ batch_cancelled' = (batch_cancelled \/ InBatch(t))
    /\ interfered' = (interfered \/ IsLate(t))
    /\ state' = "Ready"

CancelTool(t, key) ==
    /\ Decidable(t)
    /\ Refuse(t)
    /\ ArmAfter(key, TRUE)
    /\ UNCHANGED <<batchVars, kind, hunks, grantVars, cancel_token, fires, prompts, events,
                   taskVars, messages, app, granted>>

ApplyHunk(t) ==
    /\ widget[t] = "waiting" /\ kind[t] = "edit"
    /\ tool' = [tool EXCEPT ![t].pc = "applying"]
    /\ set_processing
    /\ widget' = [widget EXCEPT ![t] = "executing"]
    /\ UNCHANGED <<pending_chats, batchVars, pending_user_actions, kind, hunks, grantVars,
                   guardVars, events, chats, messages, app, ghostVars>>

RejectHunk(t, key) ==
    /\ widget[t] = "waiting" /\ kind[t] = "edit"
    /\ ArmAfter(key, hunks[t] = 1)
    /\ IF hunks[t] = 1
       THEN Refuse(t) /\ UNCHANGED <<hunks, events>>
       ELSE /\ Send("TextEdit", {t})
            /\ hunks' = [hunks EXCEPT ![t] = @ - 1]
            /\ widget' = [widget EXCEPT ![t] = "cancelled"]
            /\ UNCHANGED <<state, pending_chats, pending_user_actions, batch_cancelled,
                            interfered>>
    /\ UNCHANGED <<batchVars, kind, grantVars, cancel_token, fires, prompts, taskVars, messages,
                   app, granted>>

\* ExecuteViaBash: the user's prompt and a tool use in the model's name go into the
\* history at once, whatever the component is doing.
ExecuteManual(r) ==
    /\ widget[r] = "none" /\ prompts < MaxPrompts
    /\ prompts' = prompts + 1
    /\ messages' = messages \o <<user({}), assistant({r}, {r})>>
    /\ widget' = [widget EXCEPT ![r] = "executing"]
    /\ spawn_tool_use(r, tools_once_pcl, bash_session_allowlist)
    /\ set_processing
    /\ interfered' = (interfered \/ InFlight \/ state = "Processing" \/ pending_chats # {})
    /\ UNCHANGED <<pending_chats, batchVars, pending_user_actions, kind, hunks, grantVars,
                   cancel_token, last_hit, fires, events, chats, app, batch_cancelled, granted>>

ExecutingBash == \E t \in ToolIds : kind[t] \in {"bash", "reply"}
                                    /\ widget[t] \in {"initing", "executing"}
WaitingTools  == {t \in ToolIds : widget[t] = "waiting"}

\* Ctrl-C otherwise: the second hit within the window cancels the token, and quits if
\* the component is ready.
PressToCancel ==
    /\ ExecutingBash \/ WaitingTools = {}
    /\ fires < MaxFires
    /\ IF Armed
       THEN /\ fires' = fires + 1
            /\ cancel_token' = cancel_token + 1
            /\ reset
            /\ app' = IF state = "Ready" THEN "quit" ELSE app
            /\ interfered' = (interfered \/ \E n \in DOMAIN chats : chats[n].pc # "done")
       ELSE last_hit' = state /\ UNCHANGED <<fires, cancel_token, app, interfered>>
    /\ UNCHANGED <<chatVars, widgetVars, grantVars, prompts, events, taskVars, messages,
                   batch_cancelled, granted>>

\* Ctrl-C while a tool waits and no bash runs: twice is Esc to the widget.
PressToRefuse(t) ==
    /\ ~ExecutingBash /\ t \in WaitingTools
    /\ \/ CancelTool(t, "CtrlC")
       \/ RejectHunk(t, "CtrlC")
       \/ /\ ~Armed /\ last_hit' = state
          /\ UNCHANGED <<chatVars, widgetVars, grantVars, cancel_token, fires, prompts, events,
                         taskVars, messages, app, ghostVars>>

\* on_tick after the two seconds.
Disarm ==
    /\ Armed /\ reset
    /\ UNCHANGED <<chatVars, widgetVars, grantVars, cancel_token, fires, prompts, events, taskVars,
                   messages, app, ghostVars>>

-----------------------------------------------------------------------------
(* Specification *)

ToolStep(t) == \/ ToolStarts(t)
               \/ ToolFinishes(t)
               \/ ToolStopsSilently(t)
               \/ \E n \in 1..MaxHunks, auto \in AutoAccept : EditProposed(t, n, auto)
               \/ \E failed \in BOOLEAN : HunkApplied(t, failed)

ChatStep(n) == \/ ChatStarts(n)
               \/ ChatFails(n)
               \/ \E uses \in SUBSET ToolIds, stopped \in BOOLEAN : ChatAnswers(n, uses, stopped)
               \/ ChatExecutes(n)

HandleEvent == \/ HandleAskBot \/ HandleBot \/ HandleCancelled
               \/ HandleAsksUser \/ HandleAutoEdit
               \/ HandlePending \/ HandleToolResult \/ HandleComboProgress

UserStep ==
    \/ Submit
    \/ \E t \in ToolIds : \/ Grant(t) \/ GrantSession(t) \/ CancelTool(t, "Esc")
                         \/ ApplyHunk(t) \/ RejectHunk(t, "Esc")
                         \/ PressToRefuse(t)
    \/ \E r \in ManualRuns : ExecuteManual(r)
    \/ PressToCancel

Running(A) == app = "running" /\ A

Next == Running(\/ \E t \in Uses : ToolStep(t) \/ ComboProgresses(t)
                \/ \E n \in DOMAIN chats : ChatStep(n)
                \/ HandleEvent
                \/ UserStep
                \/ Disarm)

Spec == Init /\ [][Next]_vars

-----------------------------------------------------------------------------
(* Properties *)

\* Every variable has its type.
TypeOK ==
    /\ state \in {"Ready", "Processing"}
    /\ pending_chats \in SUBSET Uses
    /\ pending_tool_ids \in SUBSET ToolIds
    /\ collected_tool_results \in SUBSET ToolIds
    /\ pending_user_actions \in SUBSET ToolIds
    /\ kind \in [ToolIds -> ToolKinds \cup {"none"}]
    /\ widget \in [Uses -> Widgets]
    /\ hunks \in [ToolIds -> 0..MaxHunks]
    /\ tools_once_pcl \in SUBSET ToolIds
    /\ bash_session_allowlist \in SUBSET Commands
    /\ cancel_token \in Tokens
    /\ last_hit \in {"none", "Ready", "Processing"}
    /\ fires \in 0..MaxFires /\ prompts \in 0..MaxPrompts
    /\ events \in Seq(Event)
    /\ chats \in Seq(ChatTask)
    /\ tool \in [Uses -> Task]
    /\ messages \in Seq(Message)
    /\ app \in {"running", "quit"}
    /\ interfered \in BOOLEAN /\ batch_cancelled \in BOOLEAN
    /\ granted \in SUBSET (ToolIds \cup Commands)

\* The history is one the providers accept: what the component ran for a message of
\* the model is answered by the next message, all of it, and that answers nothing else.
\* (HandleToolResult collects a batch, build_user_content adds what the user refused.)
EveryUseIsAnswered ==
    \A n \in 1..(Len(messages) - 1) :
       messages[n].role = "assistant" =>
          /\ messages[n].execute \subseteq messages[n + 1].results
          /\ messages[n + 1].results \subseteq messages[n].uses

\* That holds as long as the user does not submit, start a combo, cancel or refuse while an
\* earlier prompt is at work, and refuses no member of a batch.
HistoryIsAnswered == ~interfered /\ ~batch_cancelled => EveryUseIsAnswered

\* That holds as long as the user does not interfere; refusing a tool is no
\* interference, the interface asks for it.
RefusalsAreAnswered == ~interfered => EveryUseIsAnswered

\* Whatever the user does, no tool use gets two results: one that was granted, cancelled
\* or rejected is not decided again, and a collected result is sent once.
AnsweredAtMostOnce ==
    \A t \in Uses :
       Cardinality({n \in DOMAIN messages : t \in messages[n].results})
       + Cardinality({n \in DOMAIN chats : t \in chats[n].results})
       + Cardinality({x \in {pending_chats, collected_tool_results} : t \in x}) <= 1

\* The history the providers see is one they accept: each tool use of a message is
\* answered in the next one, and once.
UsesAreAnsweredOnce == HistoryIsAnswered /\ AnsweredAtMostOnce

\* A bash command runs only after the user granted that call or, for the session,
\* that command, whichever clone of the agent runs it.
OnlyGrantedRun ==
    \A t \in ToolIds :
       kind[t] = "bash" /\ tool[t].pc = "running" => {t, Command[t]} \cap granted # {}

\* A tool that waits for the user is among the pending actions, through which
\* the focus reaches it.
WaitingIsPending == WaitingTools \subseteq pending_user_actions

\* Ctrl-C quits only if the first hit was made after the component became ready: a
\* hit that was meant to cancel does not count (set_ready).
QuitIsMeant == [][app' = "quit" => last_hit = "Ready"]_vars

\* Every task has ended and every event was handled: only the user can go on.
Quiescent == /\ events = <<>>
             /\ \A n \in DOMAIN chats : chats[n].pc = "done"
             /\ \A t \in Uses : tool[t].pc \in {"none", "done"}

\* Nobody cancelled or interfered, and the model asked for what the component runs.
Undisturbed ==
    /\ ~interfered /\ ~batch_cancelled /\ fires = 0
    /\ \A n \in DOMAIN messages : messages[n].execute = messages[n].uses
    /\ \A t \in ToolIds : kind[t] # "unknown"

\* Then a turn is never lost: when nothing is left to do, the component is ready for
\* the next prompt or a tool waits for the user.
TurnIsNotLost ==
    Undisturbed /\ Quiescent => state = "Ready" \/ WaitingTools # {} \/ app = "quit"
=============================================================================
