--------------------------- MODULE ChatTurn_proofs ---------------------------
(****************************************************************************)
(* Theorems about the turns of the chat component (ChatTurn), for any       *)
(* number of tool uses, combos, prompts, hunks and cancellations.           *)
(****************************************************************************)
EXTENDS ChatTurn, SequenceTheorems, FiniteSetTheorems, TLAPS

-----------------------------------------------------------------------------
(* The invariant *)

\* TypeOK, by the groups of variables the actions change.
StateTypeOK ==
    /\ state \in {"Ready", "Processing"}
    /\ pending_chats \in SUBSET Uses
    /\ pending_user_actions \in SUBSET ToolIds
BatchTypeOK ==
    pending_tool_ids \in SUBSET ToolIds /\ collected_tool_results \in SUBSET ToolIds
WidgetTypeOK ==
    /\ kind \in [ToolIds -> ToolKinds \cup {"none"}]
    /\ widget \in [Uses -> Widgets]
    /\ hunks \in [ToolIds -> 0..MaxHunks]
GrantTypeOK ==
    /\ tools_once_pcl \in SUBSET ToolIds
    /\ bash_session_allowlist \in SUBSET Commands
    /\ granted \in SUBSET (ToolIds \cup Commands)
GuardTypeOK ==
    /\ cancel_token \in Tokens
    /\ last_hit \in {"none", "Ready", "Processing"}
    /\ fires \in 0..MaxFires /\ prompts \in 0..MaxPrompts
EventsTypeOK   == events \in Seq(Event)
ChatsTypeOK    == chats \in Seq(ChatTask)
ToolTypeOK     == tool \in [Uses -> Task]
MessagesTypeOK == messages \in Seq(Message)
RestTypeOK ==
    app \in {"running", "quit"} /\ interfered \in BOOLEAN /\ batch_cancelled \in BOOLEAN

\* An event is about tool uses the model asked for; who is asked about an edit has a
\* hunk to look at.
EventOK(e, kinds, hunks_of) ==
    /\ e.type \in {"Bot", "Permission", "TextEdit", "Pending"} => e.ids \subseteq ToolIds
    /\ e.type \in {"Bot", "AutoEdit", "ToolResult"} =>
          \A t \in e.ids \cap ToolIds : kinds[t] # "none"
    /\ e.type \in {"Permission", "TextEdit", "ToolResult"} => \E t \in Uses : e.ids = {t}
    /\ e.type = "Permission" => \A t \in e.ids : kinds[t] = "bash"
    /\ e.type = "TextEdit" => \A t \in e.ids : kinds[t] = "edit" /\ hunks_of[t] >= 1

EventsInv == \A n \in DOMAIN events : EventOK(events[n], kind, hunks)

\* A tool use is nowhere before the model asks for it.
ToolsInv ==
    \A t \in ToolIds :
       /\ kind[t] = "none" => tool[t].pc = "none" /\ widget[t] = "none"
       /\ tool[t].pc = "applying" => kind[t] = "edit" /\ hunks[t] >= 1
       /\ widget[t] = "waiting" =>
             kind[t] = "bash" \/ (kind[t] = "edit" /\ hunks[t] >= 1)

\* What a task may do was granted, however old its clone of the agent is.
ChatOK(c, kinds, given) ==
    /\ \A t \in c.execute : kinds[t] # "none"
    /\ c.once \subseteq given /\ c.allow \subseteq given

ChatsInv == \A n \in DOMAIN chats : ChatOK(chats[n], kind, granted)

GrantsInv ==
    /\ tools_once_pcl \subseteq granted /\ bash_session_allowlist \subseteq granted
    /\ \A t \in Uses : tool[t].once \subseteq granted /\ tool[t].allow \subseteq granted

\* A hit that was made while the component was at work is forgotten when it is ready.
HitIsOfState == last_hit = "Processing" => state = "Processing"

ChatInv ==
    /\ TypeOK
    /\ EventsInv /\ ToolsInv /\ ChatsInv /\ GrantsInv /\ HitIsOfState
    /\ OnlyGrantedRun /\ WaitingIsPending

LEMMA TypeParts ==
    TypeOK <=> /\ StateTypeOK /\ BatchTypeOK /\ WidgetTypeOK /\ GrantTypeOK /\ GuardTypeOK
               /\ EventsTypeOK /\ ChatsTypeOK /\ ToolTypeOK /\ MessagesTypeOK /\ RestTypeOK
BY DEF TypeOK, StateTypeOK, BatchTypeOK, WidgetTypeOK, GrantTypeOK, GuardTypeOK,
       EventsTypeOK, ChatsTypeOK, ToolTypeOK, MessagesTypeOK, RestTypeOK

\* What a step has to establish
LEMMA Together ==
    ASSUME StateTypeOK', BatchTypeOK', WidgetTypeOK', GrantTypeOK', GuardTypeOK',
           EventsTypeOK', ChatsTypeOK', ToolTypeOK', MessagesTypeOK', RestTypeOK',
           EventsInv', ToolsInv', ChatsInv', GrantsInv', HitIsOfState', OnlyGrantedRun',
           WaitingIsPending'
    PROVE  ChatInv'
BY DEF ChatInv, TypeOK, StateTypeOK, BatchTypeOK, WidgetTypeOK, GrantTypeOK, GuardTypeOK,
       EventsTypeOK, ChatsTypeOK, ToolTypeOK, MessagesTypeOK, RestTypeOK

-----------------------------------------------------------------------------
(* The event queue *)

\* What is known of a tool use stays known.
KindsStay ==
    \A t \in ToolIds : /\ kind[t] # "none" => kind'[t] = kind[t]
                       /\ hunks[t] >= 1 => hunks'[t] >= 1

EventTypes == {"AskBot", "Bot", "Cancelled", "Permission", "TextEdit", "AutoEdit",
               "Pending", "ToolResult", "ComboProgress"}

LEMMA EventStays ==
    ASSUME KindsStay, NEW e \in Event, EventOK(e, kind, hunks)
    PROVE  EventOK(e, kind', hunks')
BY DEF KindsStay, EventOK, Event

LEMMA EventsStay ==
    ASSUME EventsTypeOK, EventsInv, KindsStay, UNCHANGED events
    PROVE  EventsTypeOK' /\ EventsInv'
<1> USE DEF EventsTypeOK, EventsInv
<1>1. \A n \in DOMAIN events : events[n] \in Event
  OBVIOUS
<1> QED
  BY <1>1, EventStays

LEMMA Appended ==
    ASSUME EventsTypeOK, EventsInv, KindsStay, NEW e \in Event, EventOK(e, kind', hunks'),
           events' = Append(events, e)
    PROVE  EventsTypeOK' /\ EventsInv'
<1> USE DEF EventsTypeOK, EventsInv
<1>1. \A n \in DOMAIN events : events[n] \in Event
  OBVIOUS
<1>2. /\ DOMAIN events' = 1..(Len(events) + 1)
      /\ \A n \in 1..Len(events) : events'[n] = events[n]
      /\ events'[Len(events) + 1] = e
  OBVIOUS
<1>3. DOMAIN events = 1..Len(events) /\ Len(events) \in Nat
  OBVIOUS
<1>4. \A n \in 1..(Len(events) + 1) : n \in 1..Len(events) \/ n = Len(events) + 1
  BY <1>3
<1>5. EventsInv'
  BY <1>1, <1>2, <1>3, <1>4, EventStays
<1> QED
  BY <1>5

LEMMA Sent ==
    ASSUME EventsTypeOK, EventsInv, KindsStay, NEW type \in EventTypes,
           NEW ids \in SUBSET Uses, EventOK([type |-> type, ids |-> ids], kind', hunks'),
           Send(type, ids)
    PROVE  EventsTypeOK' /\ EventsInv'
<1>1. [type |-> type, ids |-> ids] \in Event
  BY DEF Event, EventTypes
<1> QED
  BY <1>1, Appended DEF Send

LEMMA Received ==
    ASSUME EventsTypeOK, EventsInv, KindsStay, NEW type, Receive(type)
    PROVE  /\ EventsTypeOK' /\ EventsInv'
           /\ Head(events) \in Event /\ Head(events).type = type
           /\ EventOK(Head(events), kind, hunks)
<1> USE DEF EventsTypeOK, EventsInv
<1>1. /\ events # <<>> /\ Head(events).type = type /\ events' = Tail(events)
      /\ events \in Seq(Event)
  BY DEF Receive
<1>2. Head(events) \in Event /\ Head(events) = events[1] /\ 1 \in DOMAIN events
  BY <1>1
<1>3. events' \in Seq(Event)
  BY <1>1
<1>4. \A n \in DOMAIN events' : n + 1 \in DOMAIN events /\ events'[n] = events[n + 1]
  BY <1>1
<1>5. \A n \in DOMAIN events : events[n] \in Event
  OBVIOUS
<1>6. EventsInv'
  BY <1>4, <1>5, EventStays
<1> QED
  BY <1>1, <1>2, <1>3, <1>6

-----------------------------------------------------------------------------
(* The tasks *)

LEMMA ChatsStay ==
    ASSUME ChatsTypeOK, ChatsInv, KindsStay, granted \subseteq granted', UNCHANGED chats
    PROVE  ChatsTypeOK' /\ ChatsInv'
<1> USE DEF ChatsTypeOK, ChatsInv
<1>1. \A n \in DOMAIN chats : chats[n] \in ChatTask
  OBVIOUS
<1>2. \A n \in DOMAIN chats : ChatOK(chats[n], kind', granted')
  BY <1>1 DEF ChatOK, KindsStay, ChatTask
<1> QED
  BY <1>2

LEMMA ChatChanges ==
    ASSUME ChatsTypeOK, ChatsInv, KindsStay, granted \subseteq granted',
           NEW n \in DOMAIN chats, NEW c \in ChatTask, ChatOK(c, kind', granted'),
           chats' = [chats EXCEPT ![n] = c]
    PROVE  /\ ChatsTypeOK' /\ ChatsInv'
           /\ Len(chats') = Len(chats) /\ chats'[n] = c
           /\ \A m \in DOMAIN chats : m # n => chats'[m] = chats[m]
<1> USE DEF ChatsTypeOK, ChatsInv
<1>1. \A m \in DOMAIN chats : chats[m] \in ChatTask
  OBVIOUS
<1>2. \A m \in DOMAIN chats : ChatOK(chats[m], kind', granted')
  BY <1>1 DEF ChatOK, KindsStay, ChatTask
<1>3. /\ chats' \in Seq(ChatTask) /\ Len(chats') = Len(chats)
      /\ DOMAIN chats' = DOMAIN chats /\ chats'[n] = c
      /\ \A m \in DOMAIN chats : m # n => chats'[m] = chats[m]
  OBVIOUS
<1> QED
  BY <1>2, <1>3

\* A new request has a clone of the agent as it is now.
LEMMA ChatSpawned ==
    ASSUME StateTypeOK, GrantTypeOK, GuardTypeOK, ChatsTypeOK, ChatsInv, GrantsInv,
           KindsStay, UNCHANGED granted, NEW results \in SUBSET Uses,
           spawn_chat_task(results)
    PROVE  /\ ChatsTypeOK' /\ ChatsInv'
           /\ pending_chats' = {} /\ cancel_token' \in Tokens /\ last_hit' = "none"
           /\ Len(chats') = Len(chats) + 1
           /\ chats'[Len(chats) + 1].results = pending_chats \cup results
           /\ chats'[Len(chats) + 1].execute = {}
           /\ \A m \in DOMAIN chats : chats'[m] = chats[m]
<1> DEFINE c == [pc |-> "spawned", token |-> cancel_token + 1,
                 results |-> pending_chats \cup results, execute |-> {},
                 once |-> tools_once_pcl, allow |-> bash_session_allowlist]
<1> USE DEF ChatsTypeOK, ChatsInv
<1>1. /\ chats' = Append(chats, c)
      /\ pending_chats' = {} /\ cancel_token' = cancel_token + 1 /\ last_hit' = "none"
  BY DEF spawn_chat_task, reset
<1>2. cancel_token + 1 \in Tokens
  BY DEF GuardTypeOK, Tokens
<1>3. c \in ChatTask
  BY <1>2 DEF ChatTask, StateTypeOK, GrantTypeOK
<1>4. ChatOK(c, kind', granted')
  BY DEF ChatOK, GrantsInv
<1>5. c.results = pending_chats \cup results /\ c.execute = {}
  OBVIOUS
<1> HIDE DEF c
<1>6. \A m \in DOMAIN chats : chats[m] \in ChatTask
  OBVIOUS
<1>7. \A m \in DOMAIN chats : ChatOK(chats[m], kind', granted')
  BY <1>6 DEF ChatOK, KindsStay, ChatTask
<1>8. /\ chats' \in Seq(ChatTask) /\ Len(chats') = Len(chats) + 1
      /\ DOMAIN chats' = 1..(Len(chats) + 1) /\ chats'[Len(chats) + 1] = c
      /\ DOMAIN chats = 1..Len(chats) /\ Len(chats) \in Nat
      /\ \A m \in 1..Len(chats) : chats'[m] = chats[m]
  BY <1>1, <1>3
<1>9. \A m \in 1..(Len(chats) + 1) : m \in 1..Len(chats) \/ m = Len(chats) + 1
  BY <1>8
<1>10. ChatsInv'
  BY <1>4, <1>7, <1>8, <1>9
<1> QED
  BY <1>1, <1>2, <1>5, <1>8, <1>10

LEMMA ToolChanges ==
    ASSUME ToolTypeOK, NEW t \in Uses, NEW task \in Task, tool' = [tool EXCEPT ![t] = task]
    PROVE  /\ ToolTypeOK' /\ tool'[t] = task
           /\ \A u \in Uses : u # t => tool'[u] = tool[u]
BY DEF ToolTypeOK

LEMMA DoneTask ==
    /\ [NoTask EXCEPT !.pc = "done"] \in Task
    /\ [NoTask EXCEPT !.pc = "done"].pc = "done"
    /\ [NoTask EXCEPT !.pc = "done"].once = {}
    /\ [NoTask EXCEPT !.pc = "done"].allow = {}
BY DEF NoTask, Task, Tokens

LEMMA DoneChat ==
    ASSUME ChatsTypeOK, NEW n \in DOMAIN chats
    PROVE  /\ ChatDone(n) \in ChatTask
           /\ ChatDone(n).pc = "done" /\ ChatDone(n).results = {}
           /\ ChatDone(n).execute = {}
           /\ \A kinds, given : ChatOK(ChatDone(n), kinds, given)
<1>1. chats[n] \in ChatTask
  BY DEF ChatsTypeOK
<1>2. /\ ChatDone(n) \in ChatTask
      /\ ChatDone(n).pc = "done" /\ ChatDone(n).results = {}
      /\ ChatDone(n).execute = {} /\ ChatDone(n).once = {} /\ ChatDone(n).allow = {}
  BY <1>1 DEF ChatDone, ChatTask
<1> QED
  BY <1>2 DEF ChatOK

\* The end of a tool's task takes nothing back.
LEMMA ToolEnds ==
    ASSUME ToolTypeOK, GrantsInv, NEW t \in Uses, ToolDone(t), UNCHANGED grantVars,
           UNCHANGED granted
    PROVE  /\ ToolTypeOK' /\ GrantsInv' /\ tool'[t].pc = "done"
           /\ \A u \in Uses : u # t => tool'[u] = tool[u]
<1>1. /\ ToolTypeOK' /\ tool'[t] = [NoTask EXCEPT !.pc = "done"]
      /\ \A u \in Uses : u # t => tool'[u] = tool[u]
  BY DoneTask, ToolChanges DEF ToolDone
<1> QED
  BY <1>1, DoneTask DEF GrantsInv, grantVars

-----------------------------------------------------------------------------
(* task_chat *)

\* What a step of a task leaves alone
LEMMA GroupsStay ==
    ASSUME ChatInv
    PROVE  /\ UNCHANGED chatVars => StateTypeOK' /\ BatchTypeOK'
           /\ UNCHANGED widgetVars => WidgetTypeOK' /\ KindsStay
           /\ UNCHANGED <<grantVars, granted>> => GrantTypeOK'
           /\ UNCHANGED guardVars => GuardTypeOK'
           /\ UNCHANGED <<app, interfered, batch_cancelled>> => RestTypeOK'
           /\ UNCHANGED <<widget, pending_user_actions>> => WaitingIsPending'
           /\ UNCHANGED <<last_hit, state>> => HitIsOfState'
           /\ UNCHANGED <<kind, tool, widget, hunks>> => ToolsInv'
           /\ UNCHANGED <<grantVars, tool, granted>> => GrantsInv'
           /\ UNCHANGED <<kind, tool, granted>> => OnlyGrantedRun'
BY TypeParts
DEF ChatInv, chatVars, batchVars, widgetVars, grantVars, guardVars, StateTypeOK, BatchTypeOK,
    WidgetTypeOK, GrantTypeOK, GuardTypeOK, RestTypeOK, WaitingIsPending, WaitingTools,
    HitIsOfState, ToolsInv, GrantsInv, OnlyGrantedRun, KindsStay

LEMMA ChatStartsStep ==
    ASSUME ChatInv, NEW n \in DOMAIN chats, ChatStarts(n)
    PROVE  ChatInv'
<1>1. UNCHANGED <<chatVars, widgetVars, grantVars, guardVars, tool, app, ghostVars>>
  BY DEF ChatStarts
<1>2. /\ KindsStay /\ granted \subseteq granted'
      /\ StateTypeOK' /\ BatchTypeOK' /\ WidgetTypeOK' /\ GrantTypeOK' /\ GuardTypeOK'
      /\ ToolTypeOK' /\ RestTypeOK'
      /\ ToolsInv' /\ GrantsInv' /\ HitIsOfState' /\ OnlyGrantedRun' /\ WaitingIsPending'
  BY <1>1, GroupsStay, TypeParts
  DEF chatVars, widgetVars, grantVars, guardVars, ghostVars, ToolTypeOK, ChatInv
<1>3. /\ EventsTypeOK /\ EventsInv /\ ChatsTypeOK /\ ChatsInv /\ MessagesTypeOK
      /\ chats[n] \in ChatTask /\ ChatOK(chats[n], kind, granted)
  BY TypeParts DEF ChatInv, ChatsTypeOK, ChatsInv
<1>4. CASE Cancelled(chats[n].token)
  <2>1. /\ chats' = [chats EXCEPT ![n] = ChatDone(n)]
        /\ UNCHANGED <<events, messages>>
    BY <1>4 DEF ChatStarts
  <2>2. ChatsTypeOK' /\ ChatsInv'
    BY <1>2, <1>3, <2>1, DoneChat, ChatChanges
  <2>3. EventsTypeOK' /\ EventsInv'
    BY <1>2, <1>3, <2>1, EventsStay
  <2> QED
    BY <1>2, <1>3, <2>1, <2>2, <2>3, Together DEF MessagesTypeOK
<1>5. CASE ~Cancelled(chats[n].token)
  <2> DEFINE c == [chats[n] EXCEPT !.pc = "asking", !.results = {}]
  <2>1. /\ chats' = [chats EXCEPT ![n] = c]
        /\ messages' = Append(messages, user(chats[n].results))
        /\ Send("AskBot", {})
    BY <1>3, <1>5 DEF ChatStarts, ChatsTypeOK
  <2>2. c \in ChatTask /\ ChatOK(c, kind', granted')
    BY <1>1, <1>3 DEF ChatTask, ChatOK, widgetVars, ghostVars
  <2> HIDE DEF c
  <2>3. ChatsTypeOK' /\ ChatsInv'
    BY <1>2, <1>3, <2>1, <2>2, ChatChanges
  <2>4. EventsTypeOK' /\ EventsInv'
    BY <1>2, <1>3, <2>1, Sent DEF EventOK, EventTypes
  <2>5. MessagesTypeOK'
    <3>1. user(chats[n].results) \in Message
      BY <1>3 DEF user, Message, ChatTask
    <3> QED
      BY <1>3, <2>1, <3>1 DEF MessagesTypeOK
  <2> QED
    BY <1>2, <2>3, <2>4, <2>5, Together
<1> QED
  BY <1>4, <1>5

LEMMA ChatFailsStep ==
    ASSUME ChatInv, NEW n \in DOMAIN chats, ChatFails(n)
    PROVE  ChatInv'
<1>1. UNCHANGED <<chatVars, widgetVars, grantVars, guardVars, tool, messages, app, ghostVars>>
  BY DEF ChatFails
<1>2. /\ KindsStay /\ granted \subseteq granted'
      /\ StateTypeOK' /\ BatchTypeOK' /\ WidgetTypeOK' /\ GrantTypeOK' /\ GuardTypeOK'
      /\ ToolTypeOK' /\ MessagesTypeOK' /\ RestTypeOK'
      /\ ToolsInv' /\ GrantsInv' /\ HitIsOfState' /\ OnlyGrantedRun' /\ WaitingIsPending'
  BY <1>1, GroupsStay, TypeParts
  DEF chatVars, widgetVars, grantVars, guardVars, ghostVars, ToolTypeOK, MessagesTypeOK,
      ChatInv
<1>3. /\ EventsTypeOK /\ EventsInv /\ ChatsTypeOK /\ ChatsInv
  BY TypeParts DEF ChatInv
<1>4. ChatsTypeOK' /\ ChatsInv'
  BY <1>2, <1>3, DoneChat, ChatChanges DEF ChatFails
<1>5. EventsTypeOK' /\ EventsInv'
  <2>1. \A type \in {"Cancelled", "Bot"} : EventOK([type |-> type, ids |-> {}], kind', hunks')
    BY DEF EventOK
  <2>2. Send("Cancelled", {}) \/ Send("Bot", {})
    BY DEF ChatFails
  <2> QED
    BY <1>2, <1>3, <2>1, <2>2, Sent DEF EventTypes
<1> QED
  BY <1>2, <1>4, <1>5, Together

\* The model asks for tool uses that are new.
LEMMA ChatAnswersStep ==
    ASSUME ChatInv, NEW n \in DOMAIN chats, NEW uses \in SUBSET ToolIds,
           NEW stopped \in BOOLEAN, ChatAnswers(n, uses, stopped)
    PROVE  ChatInv'
<1> DEFINE execute == ToExecute(uses, stopped)
           c == [chats[n] EXCEPT !.pc = "responded", !.execute = execute]
<1>1. UNCHANGED <<chatVars, widget, hunks, grantVars, guardVars, tool, app, ghostVars>>
  BY DEF ChatAnswers
<1>2. /\ StateTypeOK' /\ BatchTypeOK' /\ GrantTypeOK' /\ GuardTypeOK'
      /\ ToolTypeOK' /\ RestTypeOK'
      /\ GrantsInv' /\ HitIsOfState' /\ WaitingIsPending' /\ granted \subseteq granted'
  BY <1>1, GroupsStay, TypeParts
  DEF chatVars, grantVars, guardVars, ghostVars, ToolTypeOK, ChatInv
<1>3. /\ EventsTypeOK /\ EventsInv /\ ChatsTypeOK /\ ChatsInv /\ MessagesTypeOK
      /\ WidgetTypeOK /\ ToolsInv /\ OnlyGrantedRun
      /\ chats[n] \in ChatTask /\ ChatOK(chats[n], kind, granted)
  BY TypeParts DEF ChatInv, ChatsTypeOK, ChatsInv
<1>4. PICK k \in [uses -> ToolKinds] :
         kind' = [t \in ToolIds |-> IF t \in uses THEN k[t] ELSE kind[t]]
  BY DEF ChatAnswers
<1>5. \A t \in uses : kind[t] = "none" /\ kind'[t] # "none"
  BY <1>4, ToolKindsAssumption DEF ChatAnswers, Kinds
<1>6. \A t \in ToolIds : t \notin uses => kind'[t] = kind[t]
  BY <1>4
<1>7. KindsStay
  BY <1>1, <1>5, <1>6 DEF KindsStay
<1>8. WidgetTypeOK'
  BY <1>1, <1>3, <1>4 DEF WidgetTypeOK
<1>9. ToolsInv'
  BY <1>1, <1>3, <1>5, <1>6 DEF ToolsInv
<1>10. OnlyGrantedRun'
  BY <1>1, <1>3, <1>5, <1>6 DEF OnlyGrantedRun, ToolsInv, ghostVars
<1>11. execute \in SUBSET uses
  BY DEF ToExecute
<1>12. /\ chats' = [chats EXCEPT ![n] = c]
       /\ messages' = Append(messages, assistant(uses, execute))
       /\ Send("Bot", uses)
  BY <1>3 DEF ChatAnswers, ChatsTypeOK
<1> HIDE DEF execute
<1>13. c \in ChatTask /\ ChatOK(c, kind', granted')
  BY <1>1, <1>3, <1>5, <1>11 DEF ChatTask, ChatOK, ghostVars
<1> HIDE DEF c
<1>14. ChatsTypeOK' /\ ChatsInv'
  BY <1>2, <1>3, <1>7, <1>12, <1>13, ChatChanges
<1>15. EventsTypeOK' /\ EventsInv'
  <2>1. EventOK([type |-> "Bot", ids |-> uses], kind', hunks')
    BY <1>5 DEF EventOK
  <2> QED
    BY <1>3, <1>7, <1>12, <2>1, Sent DEF EventTypes, Uses
<1>16. MessagesTypeOK'
  <2>1. assistant(uses, execute) \in Message
    BY <1>11 DEF assistant, Message, Uses
  <2> QED
    BY <1>3, <1>12, <2>1 DEF MessagesTypeOK
<1> QED
  BY <1>2, <1>8, <1>9, <1>10, <1>14, <1>15, <1>16, Together

\* The tools' tasks are as old as the request.
LEMMA ChatExecutesStep ==
    ASSUME ChatInv, NEW n \in DOMAIN chats, ChatExecutes(n)
    PROVE  ChatInv'
<1> DEFINE execute == IF Cancelled(chats[n].token) THEN {} ELSE chats[n].execute
           task == [pc |-> "spawned", token |-> chats[n].token,
                    once |-> chats[n].once, allow |-> chats[n].allow]
<1>1. /\ UNCHANGED <<chatVars, widgetVars, grantVars, guardVars, messages, app, ghostVars>>
      /\ events' = events \o PendingEvents(execute)
      /\ tool' = [t \in Uses |-> IF t \in execute THEN task ELSE tool[t]]
      /\ chats' = [chats EXCEPT ![n] = ChatDone(n)]
  BY DEF ChatExecutes
<1>2. /\ KindsStay /\ granted \subseteq granted'
      /\ StateTypeOK' /\ BatchTypeOK' /\ WidgetTypeOK' /\ GrantTypeOK' /\ GuardTypeOK'
      /\ MessagesTypeOK' /\ RestTypeOK' /\ HitIsOfState' /\ WaitingIsPending'
  BY <1>1, GroupsStay, TypeParts
  DEF chatVars, widgetVars, grantVars, guardVars, ghostVars, MessagesTypeOK, ChatInv
<1>3. /\ EventsTypeOK /\ EventsInv /\ ChatsTypeOK /\ ChatsInv /\ ToolTypeOK
      /\ ToolsInv /\ GrantsInv /\ OnlyGrantedRun
      /\ chats[n] \in ChatTask /\ ChatOK(chats[n], kind, granted)
  BY TypeParts DEF ChatInv, ChatsTypeOK, ChatsInv
<1>4. execute \in SUBSET ToolIds /\ \A t \in execute : kind[t] # "none"
  BY <1>3 DEF ChatTask, ChatOK
<1>5. task \in Task /\ task.pc = "spawned"
      /\ task.once \subseteq granted /\ task.allow \subseteq granted
  BY <1>3 DEF ChatTask, ChatOK, Task
<1> HIDE DEF execute, task
<1>6. ToolTypeOK' /\ \A t \in Uses : tool'[t] = IF t \in execute THEN task ELSE tool[t]
  BY <1>1, <1>3, <1>5 DEF ToolTypeOK
<1>7. GrantsInv'
  BY <1>1, <1>3, <1>5, <1>6 DEF GrantsInv, grantVars, ghostVars
<1>8. ToolsInv' /\ OnlyGrantedRun'
  BY <1>1, <1>3, <1>4, <1>5, <1>6
  DEF ToolsInv, OnlyGrantedRun, widgetVars, ghostVars, Uses
<1>9. ChatsTypeOK' /\ ChatsInv'
  BY <1>1, <1>2, <1>3, DoneChat, ChatChanges
<1>10. EventsTypeOK' /\ EventsInv'
  <2> DEFINE e == [type |-> "Pending", ids |-> execute]
  <2>1. CASE PendingEvents(execute) = <<>>
    <3>1. UNCHANGED events
      BY <1>1, <1>3, <2>1 DEF EventsTypeOK
    <3> QED
      BY <1>2, <1>3, <3>1, EventsStay
  <2>2. CASE PendingEvents(execute) = <<e>>
    <3>1. e \in Event /\ EventOK(e, kind', hunks')
      BY <1>4 DEF Event, EventOK, Uses
    <3> HIDE DEF e
    <3>2. events' = Append(events, e)
      BY <1>1, <1>3, <2>2 DEF EventsTypeOK
    <3> QED
      BY <1>2, <1>3, <3>1, <3>2, Appended
  <2> QED
    BY <2>1, <2>2 DEF PendingEvents
<1> QED
  BY <1>2, <1>6, <1>7, <1>8, <1>9, <1>10, Together

-----------------------------------------------------------------------------
(* task_tool_use, task_apply_text_edit, task_combo_execute *)

\* What the end of a tool's task leaves true, whatever it reports.
LEMMA ToolEndsWell ==
    ASSUME ChatInv, NEW t \in Uses, ToolDone(t), tool[t].pc # "none",
           UNCHANGED <<chatVars, kind, widget, grantVars, guardVars, chats, messages, app,
                       ghostVars>>,
           KindsStay, WidgetTypeOK', EventsTypeOK', EventsInv'
    PROVE  ChatInv'
<1>1. UNCHANGED <<kind, widget, pending_user_actions, granted>>
  BY DEF chatVars, ghostVars
<1>2. /\ StateTypeOK' /\ BatchTypeOK' /\ GrantTypeOK' /\ GuardTypeOK'
      /\ MessagesTypeOK' /\ RestTypeOK' /\ HitIsOfState' /\ WaitingIsPending'
  BY GroupsStay, TypeParts
  DEF chatVars, grantVars, guardVars, ghostVars, MessagesTypeOK, ChatInv
<1>3. ChatsTypeOK' /\ ChatsInv'
  BY <1>1, ChatsStay, TypeParts DEF ChatInv
<1>4. /\ ToolTypeOK' /\ GrantsInv' /\ tool'[t].pc = "done"
      /\ \A u \in Uses : u # t => tool'[u] = tool[u]
  BY <1>1, ToolEnds, TypeParts DEF ChatInv
<1>5. ToolsInv' /\ OnlyGrantedRun'
  BY <1>1, <1>4 DEF ToolsInv, OnlyGrantedRun, ChatInv, Uses, KindsStay
<1> QED
  BY <1>2, <1>3, <1>4, <1>5, Together

LEMMA ToolStartsStep ==
    ASSUME ChatInv, NEW t \in Uses, ToolStarts(t)
    PROVE  ChatInv'
<1>1. /\ tool[t].pc = "spawned" /\ KindsStay
      /\ UNCHANGED <<chatVars, widgetVars, grantVars, guardVars, chats, messages, app,
                     ghostVars>>
  BY DEF ToolStarts, KindsStay, widgetVars
<1>2. /\ EventsTypeOK /\ EventsInv /\ ToolTypeOK /\ WidgetTypeOK'
  BY <1>1, GroupsStay, TypeParts DEF ChatInv
<1>3. CASE ToolDone(t) /\ UNCHANGED events
  BY <1>1, <1>2, <1>3, EventsStay, ToolEndsWell DEF widgetVars
<1>4. CASE /\ t \in ToolIds /\ kind[t] = "bash"
           /\ ToolDone(t) /\ Send("Permission", {t})
  <2>1. EventOK([type |-> "Permission", ids |-> {t}], kind', hunks')
    BY <1>1, <1>4 DEF EventOK, widgetVars
  <2>2. EventsTypeOK' /\ EventsInv'
    BY <1>1, <1>2, <1>4, <2>1, Sent DEF EventTypes, Uses
  <2> QED
    BY <1>1, <1>2, <1>4, <2>2, ToolEndsWell DEF widgetVars
<1>5. CASE /\ t \in ToolIds /\ kind[t] = "bash"
              => take_once_permission(t) \/ has_session_permission(t)
           /\ tool' = [tool EXCEPT ![t].pc = "running"] /\ UNCHANGED events
  <2>1. /\ StateTypeOK' /\ BatchTypeOK' /\ GrantTypeOK' /\ GuardTypeOK'
        /\ MessagesTypeOK' /\ RestTypeOK' /\ HitIsOfState' /\ WaitingIsPending'
    BY <1>1, GroupsStay, TypeParts
    DEF chatVars, widgetVars, grantVars, guardVars, ghostVars, MessagesTypeOK, ChatInv
  <2>2. ChatsTypeOK' /\ ChatsInv' /\ EventsTypeOK' /\ EventsInv'
    BY <1>1, <1>2, <1>5, ChatsStay, EventsStay, TypeParts DEF ChatInv, ghostVars
  <2> DEFINE task == [tool[t] EXCEPT !.pc = "running"]
  <2>3. tool[t] \in Task /\ tool' = [tool EXCEPT ![t] = task]
    BY <1>2, <1>5 DEF ToolTypeOK
  <2>4. /\ task \in Task /\ task.pc = "running"
        /\ task.once = tool[t].once /\ task.allow = tool[t].allow
    BY <2>3 DEF Task
  <2> HIDE DEF task
  <2>5. /\ ToolTypeOK' /\ tool'[t] = task
        /\ \A u \in Uses : u # t => tool'[u] = tool[u]
    BY <1>2, <2>3, <2>4, ToolChanges
  <2>6. GrantsInv' /\ ToolsInv'
    BY <1>1, <2>4, <2>5 DEF ChatInv, GrantsInv, ToolsInv, grantVars, ghostVars, widgetVars,
                            Uses
  <2>7. OnlyGrantedRun'
    <3>1. t \in ToolIds /\ kind[t] = "bash" => {t, Command[t]} \cap granted # {}
      BY <1>5 DEF ChatInv, GrantsInv, take_once_permission, has_session_permission
    <3> QED
      BY <1>1, <2>5, <3>1
      DEF ChatInv, OnlyGrantedRun, widgetVars, ghostVars, Uses
  <2> QED
    BY <1>2, <2>1, <2>2, <2>5, <2>6, <2>7, Together
<1> QED
  BY <1>3, <1>4, <1>5 DEF ToolStarts

LEMMA ToolStopsStep ==
    ASSUME ChatInv, NEW t \in Uses, ToolFinishes(t) \/ ToolStopsSilently(t)
    PROVE  ChatInv'
<1>1. /\ tool[t].pc = "running" /\ KindsStay /\ ToolDone(t)
      /\ UNCHANGED <<chatVars, widgetVars, grantVars, guardVars, chats, messages, app,
                     ghostVars>>
      /\ Send("ToolResult", {t}) \/ UNCHANGED events
  BY DEF ToolFinishes, ToolStopsSilently, KindsStay, widgetVars
<1>2. /\ EventsTypeOK /\ EventsInv /\ WidgetTypeOK'
  BY <1>1, GroupsStay, TypeParts DEF ChatInv
<1>3. EventsTypeOK' /\ EventsInv'
  <2>1. EventOK([type |-> "ToolResult", ids |-> {t}], kind', hunks')
    BY <1>1 DEF EventOK, ChatInv, ToolsInv, widgetVars
  <2> QED
    BY <1>1, <1>2, <2>1, Sent, EventsStay DEF EventTypes
<1> QED
  BY <1>1, <1>2, <1>3, ToolEndsWell DEF widgetVars

LEMMA AppendedTwice ==
    ASSUME EventsTypeOK, EventsInv, KindsStay, NEW d \in Event, NEW e \in Event,
           EventOK(d, kind', hunks'), EventOK(e, kind', hunks'),
           events' = events \o <<d, e>>
    PROVE  EventsTypeOK' /\ EventsInv'
<1> USE DEF EventsTypeOK, EventsInv
<1>1. \A n \in DOMAIN events : events[n] \in Event
  OBVIOUS
<1>2. /\ DOMAIN events = 1..Len(events) /\ Len(events) \in Nat
      /\ DOMAIN events' = 1..(Len(events) + 2)
      /\ \A n \in 1..Len(events) : events'[n] = events[n]
      /\ events'[Len(events) + 1] = d /\ events'[Len(events) + 2] = e
  OBVIOUS
<1>3. \A n \in 1..(Len(events) + 2) :
         n \in 1..Len(events) \/ n = Len(events) + 1 \/ n = Len(events) + 2
  BY <1>2
<1>4. EventsInv'
  BY <1>1, <1>2, <1>3, EventStays
<1> QED
  BY <1>4

LEMMA EditProposedStep ==
    ASSUME ChatInv, NEW t \in Uses, NEW n \in 1..MaxHunks, NEW auto \in BOOLEAN,
           EditProposed(t, n, auto)
    PROVE  ChatInv'
<1>1. /\ t \in ToolIds /\ tool[t].pc = "running" /\ kind[t] = "edit" /\ ToolDone(t)
      /\ UNCHANGED <<chatVars, kind, widget, grantVars, guardVars, chats, messages, app,
                     ghostVars>>
  BY DEF EditProposed
<1>2. EventsTypeOK /\ EventsInv /\ WidgetTypeOK
  BY TypeParts DEF ChatInv
<1>3. CASE auto
  <2> DEFINE d == [type |-> "AutoEdit", ids |-> {t}]
             e == [type |-> "ToolResult", ids |-> {t}]
  <2>1. d \in Event /\ e \in Event /\ EventOK(d, kind', hunks') /\ EventOK(e, kind', hunks')
    BY <1>1 DEF Event, EventOK
  <2>2. UNCHANGED hunks /\ events' = events \o <<d, e>>
    BY <1>3 DEF EditProposed
  <2> HIDE DEF d, e
  <2>3. KindsStay /\ WidgetTypeOK'
    BY <1>1, <1>2, <2>2 DEF KindsStay, WidgetTypeOK
  <2>4. EventsTypeOK' /\ EventsInv'
    BY <1>2, <2>1, <2>2, <2>3, AppendedTwice
  <2> QED
    BY <1>1, <2>3, <2>4, ToolEndsWell
<1>4. CASE ~auto
  <2>1. Send("TextEdit", {t}) /\ hunks' = [hunks EXCEPT ![t] = n]
    BY <1>4 DEF EditProposed
  <2>2. n \in 0..MaxHunks /\ n >= 1
    BY BoundsAssumption
  <2>3. KindsStay /\ WidgetTypeOK' /\ hunks'[t] = n
    BY <1>1, <1>2, <2>1, <2>2 DEF KindsStay, WidgetTypeOK
  <2>4. EventOK([type |-> "TextEdit", ids |-> {t}], kind', hunks')
    BY <1>1, <2>2, <2>3 DEF EventOK
  <2>5. EventsTypeOK' /\ EventsInv'
    BY <1>2, <2>1, <2>3, <2>4, Sent DEF EventTypes
  <2> QED
    BY <1>1, <2>3, <2>5, ToolEndsWell
<1> QED
  BY <1>3, <1>4

LEMMA HunkAppliedStep ==
    ASSUME ChatInv, NEW t \in Uses, NEW failed \in BOOLEAN, HunkApplied(t, failed)
    PROVE  ChatInv'
<1>1. /\ t \in ToolIds /\ tool[t].pc = "applying" /\ ToolDone(t)
      /\ UNCHANGED <<chatVars, kind, widget, grantVars, guardVars, chats, messages, app,
                     ghostVars>>
  BY DEF HunkApplied
<1>2. EventsTypeOK /\ EventsInv /\ WidgetTypeOK /\ kind[t] = "edit" /\ hunks[t] >= 1
  BY <1>1, TypeParts DEF ChatInv, ToolsInv
<1>3. CASE failed \/ hunks[t] = 1
  <2>1. Send("ToolResult", {t}) /\ UNCHANGED hunks
    BY <1>3 DEF HunkApplied
  <2>2. KindsStay /\ WidgetTypeOK'
    BY <1>1, <1>2, <2>1 DEF KindsStay, WidgetTypeOK
  <2>3. EventOK([type |-> "ToolResult", ids |-> {t}], kind', hunks')
    BY <1>1, <1>2 DEF EventOK
  <2>4. EventsTypeOK' /\ EventsInv'
    BY <1>2, <2>1, <2>2, <2>3, Sent DEF EventTypes
  <2> QED
    BY <1>1, <2>2, <2>4, ToolEndsWell
<1>4. CASE ~(failed \/ hunks[t] = 1)
  <2>1. Send("TextEdit", {t}) /\ hunks' = [hunks EXCEPT ![t] = hunks[t] - 1]
    BY <1>4 DEF HunkApplied
  <2>2. hunks[t] \in 0..MaxHunks /\ hunks[t] # 1
    BY <1>1, <1>2, <1>4 DEF WidgetTypeOK
  <2>3. hunks[t] - 1 \in 0..MaxHunks /\ hunks[t] - 1 >= 1
    BY <1>2, <2>2, BoundsAssumption
  <2>4. KindsStay /\ WidgetTypeOK' /\ hunks'[t] >= 1
    BY <1>1, <1>2, <2>1, <2>3 DEF KindsStay, WidgetTypeOK
  <2>5. EventOK([type |-> "TextEdit", ids |-> {t}], kind', hunks')
    BY <1>1, <1>2, <2>4 DEF EventOK
  <2>6. EventsTypeOK' /\ EventsInv'
    BY <1>2, <2>1, <2>4, <2>5, Sent DEF EventTypes
  <2> QED
    BY <1>1, <2>4, <2>6, ToolEndsWell
<1> QED
  BY <1>3, <1>4

LEMMA ComboProgressesStep ==
    ASSUME ChatInv, NEW r \in Uses, ComboProgresses(r)
    PROVE  ChatInv'
<1>1. /\ Send("ComboProgress", {r})
      /\ UNCHANGED <<chatVars, widgetVars, grantVars, guardVars, taskVars, messages, app,
                     ghostVars>>
  BY DEF ComboProgresses
<1>2. /\ KindsStay /\ granted \subseteq granted'
      /\ StateTypeOK' /\ BatchTypeOK' /\ WidgetTypeOK' /\ GrantTypeOK' /\ GuardTypeOK'
      /\ ToolTypeOK' /\ MessagesTypeOK' /\ RestTypeOK'
      /\ ToolsInv' /\ GrantsInv' /\ HitIsOfState' /\ OnlyGrantedRun' /\ WaitingIsPending'
  BY <1>1, GroupsStay, TypeParts
  DEF chatVars, widgetVars, grantVars, guardVars, taskVars, ghostVars, ToolTypeOK,
      MessagesTypeOK, ChatInv
<1>3. ChatsTypeOK' /\ ChatsInv'
  BY <1>1, <1>2, ChatsStay, TypeParts DEF ChatInv, taskVars
<1>4. EventsTypeOK' /\ EventsInv'
  <2>1. EventOK([type |-> "ComboProgress", ids |-> {r}], kind', hunks')
    BY DEF EventOK
  <2> QED
    BY <1>1, <1>2, <2>1, Sent, TypeParts DEF EventTypes, ChatInv
<1> QED
  BY <1>2, <1>3, <1>4, Together

-----------------------------------------------------------------------------
(* handle_event *)

\* What an event leaves alone: the permissions and the tasks.
LEMMA TasksStay ==
    ASSUME ChatInv, KindsStay, UNCHANGED <<grantVars, taskVars, granted>>
    PROVE  GrantTypeOK' /\ ChatsTypeOK' /\ ChatsInv' /\ ToolTypeOK' /\ GrantsInv'
BY ChatsStay, TypeParts
DEF ChatInv, grantVars, taskVars, GrantTypeOK, ToolTypeOK, GrantsInv

LEMMA HandleStateStep ==
    ASSUME ChatInv, HandleAskBot \/ HandleComboProgress \/ HandleCancelled
    PROVE  ChatInv'
<1>1. /\ UNCHANGED <<pending_chats, batchVars, pending_user_actions, widgetVars, grantVars,
                     cancel_token, fires, prompts, taskVars, messages, app, ghostVars>>
      /\ Receive("AskBot") \/ Receive("ComboProgress") \/ Receive("Cancelled")
  BY DEF HandleAskBot, HandleComboProgress, HandleCancelled, guardVars
<1>2. /\ state' \in {"Ready", "Processing"} /\ last_hit' \in {last_hit, "none"}
      /\ last_hit' = "Processing" => state' = "Processing"
  BY TypeParts
  DEF HandleAskBot, HandleComboProgress, HandleCancelled, set_processing, set_ready, reset,
      guardVars, ChatInv, HitIsOfState, StateTypeOK
<1>3. /\ KindsStay /\ BatchTypeOK' /\ WidgetTypeOK' /\ MessagesTypeOK' /\ RestTypeOK'
      /\ ToolsInv' /\ OnlyGrantedRun' /\ WaitingIsPending'
  BY <1>1, GroupsStay, TypeParts
  DEF widgetVars, taskVars, ghostVars, batchVars, MessagesTypeOK, ChatInv, BatchTypeOK,
      KindsStay
<1>4. StateTypeOK' /\ GuardTypeOK' /\ HitIsOfState'
  BY <1>1, <1>2, TypeParts DEF StateTypeOK, GuardTypeOK, HitIsOfState, ChatInv
<1>5. GrantTypeOK' /\ ChatsTypeOK' /\ ChatsInv' /\ ToolTypeOK' /\ GrantsInv'
  BY <1>1, <1>3, TasksStay DEF ghostVars
<1>6. EventsTypeOK' /\ EventsInv'
  BY <1>1, <1>3, Received, TypeParts DEF ChatInv
<1> QED
  BY <1>3, <1>4, <1>5, <1>6, Together

\* A widget takes a new state; the tool use has been asked for.
LEMMA WidgetsChange ==
    ASSUME ChatInv, NEW shown \in SUBSET Uses, NEW to \in Widgets \ {"waiting"},
           widget' = [t \in Uses |-> IF t \in shown THEN to ELSE widget[t]],
           \A t \in shown \cap ToolIds : kind[t] # "none",
           UNCHANGED <<kind, hunks, tool, granted>>,
           WaitingTools \ shown \subseteq pending_user_actions'
    PROVE  WidgetTypeOK' /\ KindsStay /\ ToolsInv' /\ OnlyGrantedRun' /\ WaitingIsPending'
<1>1. WidgetTypeOK /\ ToolsInv /\ OnlyGrantedRun
  BY TypeParts DEF ChatInv
<1>2. WidgetTypeOK' /\ KindsStay
  BY <1>1 DEF WidgetTypeOK, KindsStay
<1>3. ToolsInv'
  BY <1>1 DEF ToolsInv, Uses
<1>4. OnlyGrantedRun'
  BY <1>1 DEF OnlyGrantedRun
<1>5. WaitingIsPending'
  BY DEF WaitingIsPending, WaitingTools, Uses
<1> QED
  BY <1>2, <1>3, <1>4, <1>5

LEMMA HandleBotStep ==
    ASSUME ChatInv, HandleBot
    PROVE  ChatInv'
<1> DEFINE uses == Head(events).ids
<1>1. /\ UNCHANGED <<pending_chats, batchVars, pending_user_actions, kind, hunks, grantVars,
                     cancel_token, fires, prompts, taskVars, messages, app, ghostVars>>
      /\ Receive("Bot")
      /\ widget' = [t \in Uses |-> IF t \in uses THEN "initing" ELSE widget[t]]
  BY DEF HandleBot
<1>2. /\ state' \in {"Ready", "Processing"} /\ last_hit' \in {last_hit, "none"}
      /\ last_hit' = "Processing" => state' = "Processing"
  BY TypeParts DEF HandleBot, set_ready, reset, ChatInv, HitIsOfState, StateTypeOK
<1>3. KindsStay
  BY <1>1 DEF KindsStay
<1>4. /\ EventsTypeOK' /\ EventsInv'
      /\ Head(events) \in Event /\ Head(events).type = "Bot"
      /\ EventOK(Head(events), kind, hunks)
  BY <1>1, <1>3, Received, TypeParts DEF ChatInv
<1>5. uses \in SUBSET Uses /\ \A t \in uses : kind[t] # "none"
  BY <1>4 DEF Event, EventOK
<1> HIDE DEF uses
<1>6. WidgetTypeOK' /\ ToolsInv' /\ OnlyGrantedRun' /\ WaitingIsPending'
  <2>1. WaitingTools \ uses \subseteq pending_user_actions'
    BY <1>1 DEF ChatInv, WaitingIsPending
  <2> QED
    BY <1>1, <1>5, <2>1, WidgetsChange DEF Widgets, taskVars, ghostVars
<1>7. StateTypeOK' /\ GuardTypeOK' /\ HitIsOfState'
  BY <1>1, <1>2, TypeParts DEF StateTypeOK, GuardTypeOK, HitIsOfState, ChatInv
<1>8. GrantTypeOK' /\ ChatsTypeOK' /\ ChatsInv' /\ ToolTypeOK' /\ GrantsInv'
  BY <1>1, <1>3, TasksStay DEF ghostVars
<1>9. BatchTypeOK' /\ MessagesTypeOK' /\ RestTypeOK'
  BY <1>1, TypeParts DEF BatchTypeOK, MessagesTypeOK, RestTypeOK, batchVars, ghostVars,
                         ChatInv
<1> QED
  BY <1>4, <1>6, <1>7, <1>8, <1>9, Together

LEMMA HandleAsksUserStep ==
    ASSUME ChatInv, HandleAsksUser
    PROVE  ChatInv'
<1> DEFINE asked == Head(events).ids
<1>1. /\ UNCHANGED <<state, pending_chats, batchVars, kind, hunks, grantVars, guardVars,
                     taskVars, messages, app, ghostVars>>
      /\ Receive("Permission") \/ Receive("TextEdit")
      /\ pending_user_actions' = pending_user_actions \cup asked
      /\ widget' = [t \in Uses |-> IF t \in asked THEN "waiting" ELSE widget[t]]
  BY DEF HandleAsksUser, add_pending
<1>2. KindsStay
  BY <1>1 DEF KindsStay
<1>3. /\ EventsTypeOK' /\ EventsInv'
      /\ Head(events) \in Event /\ Head(events).type \in {"Permission", "TextEdit"}
      /\ EventOK(Head(events), kind, hunks)
  BY <1>1, <1>2, Received, TypeParts DEF ChatInv
<1>4. /\ asked \in SUBSET ToolIds
      /\ \A t \in asked : kind[t] = "bash" \/ (kind[t] = "edit" /\ hunks[t] >= 1)
  BY <1>3 DEF Event, EventOK
<1> HIDE DEF asked
<1>5. WidgetTypeOK' /\ StateTypeOK'
  BY <1>1, <1>4, TypeParts DEF WidgetTypeOK, StateTypeOK, Widgets, ChatInv
<1>6. ToolsInv'
  BY <1>1, <1>4 DEF ToolsInv, ChatInv, taskVars, Uses
<1>7. OnlyGrantedRun' /\ HitIsOfState'
  BY <1>1 DEF OnlyGrantedRun, HitIsOfState, ChatInv, taskVars, ghostVars, guardVars
<1>8. WaitingIsPending'
  BY <1>1 DEF WaitingIsPending, WaitingTools, ChatInv, Uses
<1>9. GrantTypeOK' /\ ChatsTypeOK' /\ ChatsInv' /\ ToolTypeOK' /\ GrantsInv'
  BY <1>1, <1>2, TasksStay DEF ghostVars
<1>10. BatchTypeOK' /\ GuardTypeOK' /\ MessagesTypeOK' /\ RestTypeOK'
  BY <1>1, TypeParts DEF BatchTypeOK, GuardTypeOK, MessagesTypeOK, RestTypeOK, batchVars,
                         guardVars, ghostVars, ChatInv
<1> QED
  BY <1>3, <1>5, <1>6, <1>7, <1>8, <1>9, <1>10, Together

LEMMA HandleAutoEditStep ==
    ASSUME ChatInv, HandleAutoEdit
    PROVE  ChatInv'
<1> DEFINE shown == Head(events).ids
<1>1. /\ UNCHANGED <<chatVars, kind, hunks, grantVars, guardVars, taskVars, messages, app,
                     ghostVars>>
      /\ Receive("AutoEdit")
      /\ widget' = [t \in Uses |-> IF t \in shown THEN "executing" ELSE widget[t]]
  BY DEF HandleAutoEdit
<1>2. KindsStay
  BY <1>1 DEF KindsStay
<1>3. /\ EventsTypeOK' /\ EventsInv'
      /\ Head(events) \in Event /\ Head(events).type = "AutoEdit"
      /\ EventOK(Head(events), kind, hunks)
  BY <1>1, <1>2, Received, TypeParts DEF ChatInv
<1>4. shown \in SUBSET Uses /\ \A t \in shown \cap ToolIds : kind[t] # "none"
  BY <1>3 DEF Event, EventOK
<1> HIDE DEF shown
<1>5. WidgetTypeOK' /\ ToolsInv' /\ OnlyGrantedRun' /\ WaitingIsPending'
  <2>1. WaitingTools \ shown \subseteq pending_user_actions'
    BY <1>1 DEF ChatInv, WaitingIsPending, chatVars
  <2> QED
    BY <1>1, <1>4, <2>1, WidgetsChange DEF Widgets, taskVars, ghostVars
<1>6. /\ StateTypeOK' /\ BatchTypeOK' /\ GuardTypeOK' /\ MessagesTypeOK' /\ RestTypeOK'
      /\ HitIsOfState'
  BY <1>1, GroupsStay, TypeParts
  DEF chatVars, guardVars, ghostVars, MessagesTypeOK, ChatInv
<1>7. GrantTypeOK' /\ ChatsTypeOK' /\ ChatsInv' /\ ToolTypeOK' /\ GrantsInv'
  BY <1>1, <1>2, TasksStay DEF ghostVars
<1> QED
  BY <1>3, <1>5, <1>6, <1>7, Together

LEMMA HandlePendingStep ==
    ASSUME ChatInv, HandlePending
    PROVE  ChatInv'
<1>1. /\ UNCHANGED <<state, pending_chats, pending_user_actions, widgetVars, grantVars,
                     guardVars, taskVars, messages, app, ghostVars>>
      /\ Receive("Pending")
      /\ pending_tool_ids' = Head(events).ids /\ collected_tool_results' = {}
  BY DEF HandlePending
<1>2. /\ KindsStay /\ WidgetTypeOK' /\ GuardTypeOK' /\ MessagesTypeOK' /\ RestTypeOK'
      /\ ToolsInv' /\ HitIsOfState' /\ OnlyGrantedRun' /\ WaitingIsPending'
  BY <1>1, GroupsStay, TypeParts
  DEF widgetVars, guardVars, taskVars, ghostVars, MessagesTypeOK, ChatInv, KindsStay
<1>3. /\ EventsTypeOK' /\ EventsInv'
      /\ Head(events) \in Event /\ Head(events).type = "Pending"
      /\ EventOK(Head(events), kind, hunks)
  BY <1>1, <1>2, Received, TypeParts DEF ChatInv
<1>4. StateTypeOK' /\ BatchTypeOK'
  BY <1>1, <1>3, TypeParts DEF StateTypeOK, BatchTypeOK, EventOK, Event, ChatInv
<1>5. GrantTypeOK' /\ ChatsTypeOK' /\ ChatsInv' /\ ToolTypeOK' /\ GrantsInv'
  BY <1>1, <1>2, TasksStay DEF ghostVars
<1> QED
  BY <1>2, <1>3, <1>4, <1>5, Together

\* A result is collected, or sent with what is collected and what is pending.
LEMMA HandleToolResultStep ==
    ASSUME ChatInv, HandleToolResult
    PROVE  ChatInv'
<1>1. PICK t \in Head(events).ids :
         /\ widget' = [widget EXCEPT ![t] = "finished"]
         /\ pending_user_actions' = pending_user_actions \ {t}
         /\ pending_tool_ids' = pending_tool_ids \ {t}
         /\ IF BatchIsOpen(t)
            THEN /\ collected_tool_results' = collected_tool_results \cup {t}
                 /\ UNCHANGED <<pending_chats, chats, cancel_token, last_hit>>
            ELSE /\ collected_tool_results' =
                       IF Collected(t) THEN {} ELSE collected_tool_results
                 /\ spawn_chat_task(IF Collected(t)
                                    THEN collected_tool_results \cup {t} ELSE {t})
         /\ UNCHANGED <<state, kind, hunks, grantVars, fires, prompts, tool, messages, app,
                        ghostVars>>
  BY DEF HandleToolResult
<1>2. KindsStay /\ Receive("ToolResult")
  BY <1>1 DEF HandleToolResult, KindsStay
<1>3. /\ EventsTypeOK' /\ EventsInv'
      /\ Head(events) \in Event /\ Head(events).type = "ToolResult"
      /\ EventOK(Head(events), kind, hunks)
  BY <1>2, Received, TypeParts DEF ChatInv
<1>4. t \in Uses /\ (t \in ToolIds => kind[t] # "none")
  BY <1>1, <1>3 DEF Event, EventOK
<1>5. WidgetTypeOK' /\ ToolsInv' /\ OnlyGrantedRun' /\ WaitingIsPending'
  <2> DEFINE shown == {t}
  <2>1. widget' = [u \in Uses |-> IF u \in shown THEN "finished" ELSE widget[u]]
    BY <1>1, <1>4, TypeParts DEF ChatInv, WidgetTypeOK
  <2>2. WaitingTools \ shown \subseteq pending_user_actions'
    BY <1>1 DEF ChatInv, WaitingIsPending
  <2>3. shown \in SUBSET Uses /\ \A u \in shown \cap ToolIds : kind[u] # "none"
    BY <1>4
  <2> HIDE DEF shown
  <2> QED
    BY <1>1, <2>1, <2>2, <2>3, WidgetsChange, ZenonT(30) DEF Widgets, ghostVars
<1>6. GrantTypeOK' /\ ToolTypeOK' /\ GrantsInv' /\ MessagesTypeOK' /\ RestTypeOK'
  BY <1>1, TypeParts
  DEF ChatInv, GrantTypeOK, ToolTypeOK, GrantsInv, MessagesTypeOK, RestTypeOK, grantVars,
      ghostVars
<1>7. CASE BatchIsOpen(t)
  <2>1. /\ collected_tool_results' = collected_tool_results \cup {t}
        /\ UNCHANGED <<pending_chats, chats, cancel_token, last_hit>>
        /\ t \in pending_tool_ids
    BY <1>1, <1>7 DEF BatchIsOpen, Collected
  <2>2. StateTypeOK' /\ BatchTypeOK' /\ GuardTypeOK' /\ HitIsOfState'
    BY <1>1, <2>1, TypeParts
    DEF ChatInv, StateTypeOK, BatchTypeOK, GuardTypeOK, HitIsOfState
  <2>3. ChatsTypeOK' /\ ChatsInv'
    BY <1>1, <1>2, <2>1, ChatsStay, TypeParts DEF ChatInv, ghostVars
  <2> QED
    BY <1>3, <1>5, <1>6, <2>2, <2>3, Together
<1>8. CASE ~BatchIsOpen(t)
  <2> DEFINE results == IF Collected(t) THEN collected_tool_results \cup {t} ELSE {t}
  <2>1. results \in SUBSET Uses
    BY <1>4, TypeParts DEF ChatInv, BatchTypeOK, Uses
  <2>2. /\ collected_tool_results' \in {{}, collected_tool_results}
        /\ spawn_chat_task(results)
    BY <1>1, <1>8
  <2> HIDE DEF results
  <2>3. /\ ChatsTypeOK' /\ ChatsInv'
        /\ pending_chats' = {} /\ cancel_token' \in Tokens /\ last_hit' = "none"
    BY <1>1, <1>2, <2>1, <2>2, ChatSpawned, TypeParts DEF ChatInv, ghostVars
  <2>4. StateTypeOK' /\ BatchTypeOK' /\ GuardTypeOK' /\ HitIsOfState'
    BY <1>1, <2>2, <2>3, TypeParts
    DEF ChatInv, StateTypeOK, BatchTypeOK, GuardTypeOK, HitIsOfState
  <2> QED
    BY <1>3, <1>5, <1>6, <2>3, <2>4, Together
<1> QED
  BY <1>7, <1>8

-----------------------------------------------------------------------------
(* Keys *)

LEMMA SubmitStep ==
    ASSUME ChatInv, Submit
    PROVE  ChatInv'
<1>1. /\ prompts < MaxPrompts /\ prompts' = prompts + 1
      /\ spawn_chat_task({})
      /\ interfered' = (interfered \/ InFlight)
      /\ UNCHANGED <<state, batchVars, pending_user_actions, widgetVars, grantVars, fires,
                     events, tool, messages, app, batch_cancelled, granted>>
  BY DEF Submit
<1>2. /\ KindsStay /\ WidgetTypeOK' /\ GrantTypeOK' /\ MessagesTypeOK' /\ ToolTypeOK'
      /\ BatchTypeOK' /\ ToolsInv' /\ GrantsInv' /\ OnlyGrantedRun' /\ WaitingIsPending'
  BY <1>1, GroupsStay, TypeParts
  DEF widgetVars, grantVars, batchVars, MessagesTypeOK, ToolTypeOK, BatchTypeOK, ChatInv,
      KindsStay
<1>3. /\ ChatsTypeOK' /\ ChatsInv'
      /\ pending_chats' = {} /\ cancel_token' \in Tokens /\ last_hit' = "none"
  BY <1>1, <1>2, ChatSpawned, TypeParts DEF ChatInv
<1>4. StateTypeOK' /\ GuardTypeOK' /\ HitIsOfState'
  <2>1. prompts' \in 0..MaxPrompts
    BY <1>1, BoundsAssumption, TypeParts DEF ChatInv, GuardTypeOK
  <2> QED
    BY <1>1, <1>3, <2>1, TypeParts DEF ChatInv, StateTypeOK, GuardTypeOK, HitIsOfState
<1>5. RestTypeOK'
  <2>1. interfered' \in BOOLEAN
    BY <1>1
  <2> QED
    BY <1>1, <2>1, TypeParts DEF ChatInv, RestTypeOK
<1>6. EventsTypeOK' /\ EventsInv'
  BY <1>1, <1>2, EventsStay, TypeParts DEF ChatInv
<1> QED
  BY <1>2, <1>3, <1>4, <1>5, <1>6, Together

\* A grant is written down before the tool's task gets its clone of the agent.
LEMMA Granted ==
    ASSUME ChatInv, NEW t \in ToolIds, kind[t] # "none",
           NEW once \in SUBSET ToolIds, NEW allow \in SUBSET Commands,
           tools_once_pcl' = once, bash_session_allowlist' = allow,
           once \subseteq granted', allow \subseteq granted', granted \subseteq granted',
           granted' \subseteq ToolIds \cup Commands,
           spawn_tool_use(t, once, allow), set_processing,
           widget' = [widget EXCEPT ![t] = "executing"],
           pending_user_actions' = pending_user_actions \ {t},
           UNCHANGED <<pending_chats, batchVars, kind, hunks, guardVars, events, chats,
                       messages, app, interfered, batch_cancelled>>
    PROVE  ChatInv'
<1> DEFINE task == [pc |-> "spawned", token |-> cancel_token, once |-> once,
                    allow |-> allow]
<1>1. task \in Task /\ tool' = [tool EXCEPT ![t] = task]
      /\ task.pc = "spawned" /\ task.once = once /\ task.allow = allow
  BY TypeParts DEF spawn_tool_use, Task, ChatInv, GuardTypeOK
<1> HIDE DEF task
<1>2. /\ ToolTypeOK' /\ tool'[t] = task
      /\ \A u \in Uses : u # t => tool'[u] = tool[u]
  BY <1>1, ToolChanges, TypeParts DEF ChatInv, Uses
<1>3. KindsStay /\ WidgetTypeOK /\ GrantsInv /\ ToolsInv /\ OnlyGrantedRun
  BY TypeParts DEF KindsStay, ChatInv
<1>4. GrantsInv'
  BY <1>1, <1>2, <1>3 DEF GrantsInv
<1>5. /\ WidgetTypeOK' /\ widget'[t] = "executing"
      /\ \A u \in Uses : u # t => widget'[u] = widget[u]
  BY <1>3 DEF WidgetTypeOK, Widgets, Uses
<1>6. ToolsInv'
  BY <1>1, <1>2, <1>3, <1>5 DEF ToolsInv, Uses
<1>7. OnlyGrantedRun'
  BY <1>1, <1>2, <1>3 DEF OnlyGrantedRun, Uses
<1>8. WaitingIsPending'
  BY <1>5 DEF WaitingIsPending, WaitingTools, ChatInv, Uses
<1>9. EventsTypeOK' /\ EventsInv' /\ ChatsTypeOK' /\ ChatsInv'
  BY <1>3, EventsStay, ChatsStay, TypeParts DEF ChatInv
<1>10. /\ StateTypeOK' /\ BatchTypeOK' /\ GrantTypeOK' /\ GuardTypeOK' /\ MessagesTypeOK'
       /\ RestTypeOK' /\ HitIsOfState'
  BY TypeParts
  DEF ChatInv, StateTypeOK, BatchTypeOK, GrantTypeOK, GuardTypeOK, MessagesTypeOK,
      RestTypeOK, HitIsOfState, set_processing, batchVars, guardVars
<1> QED
  BY <1>2, <1>4, <1>5, <1>6, <1>7, <1>8, <1>9, <1>10, Together

LEMMA GrantStep ==
    ASSUME ChatInv, NEW t \in ToolIds, Grant(t) \/ GrantSession(t)
    PROVE  ChatInv'
<1>1. kind[t] # "none"
  BY DEF Grant, GrantSession, Decidable
<1>2. GrantTypeOK /\ GrantsInv
  BY TypeParts DEF ChatInv
<1>3. CASE Grant(t)
  <2>1. /\ tools_once_pcl \cup {t} \in SUBSET ToolIds
        /\ bash_session_allowlist \in SUBSET Commands
        /\ tools_once_pcl' = tools_once_pcl \cup {t}
        /\ UNCHANGED bash_session_allowlist
        /\ granted' = granted \cup {t}
        /\ granted' \subseteq ToolIds \cup Commands
    BY <1>2, <1>3 DEF Grant, GrantTypeOK
  <2>2. /\ tools_once_pcl \cup {t} \subseteq granted'
        /\ bash_session_allowlist \subseteq granted' /\ granted \subseteq granted'
    BY <1>2, <2>1 DEF GrantsInv
  <2> QED
    BY <1>1, <1>3, <2>1, <2>2, Granted DEF Grant
<1>4. CASE GrantSession(t)
  <2>1. /\ tools_once_pcl \in SUBSET ToolIds
        /\ bash_session_allowlist \cup {Command[t]} \in SUBSET Commands
        /\ UNCHANGED tools_once_pcl
        /\ bash_session_allowlist' = bash_session_allowlist \cup {Command[t]}
        /\ granted' = granted \cup {Command[t]}
        /\ granted' \subseteq ToolIds \cup Commands
    BY <1>2, <1>4 DEF GrantSession, GrantTypeOK, Commands
  <2>2. /\ tools_once_pcl \subseteq granted'
        /\ bash_session_allowlist \cup {Command[t]} \subseteq granted'
        /\ granted \subseteq granted'
    BY <1>2, <2>1 DEF GrantsInv
  <2> QED
    BY <1>1, <1>4, <2>1, <2>2, Granted DEF GrantSession
<1> QED
  BY <1>3, <1>4

\* Refusing makes the component ready, and forgets a hit of before.
LEMMA Refused ==
    ASSUME ChatInv, NEW t \in ToolIds, kind[t] # "none", NEW key, Refuse(t),
           ArmAfter(key, TRUE),
           UNCHANGED <<batchVars, kind, hunks, grantVars, cancel_token, fires, prompts,
                       events, taskVars, messages, app, granted>>
    PROVE  ChatInv'
<1>1. KindsStay /\ WidgetTypeOK /\ ToolsInv /\ OnlyGrantedRun
  BY TypeParts DEF KindsStay, ChatInv
<1>2. /\ WidgetTypeOK' /\ widget'[t] = "cancelled"
      /\ \A u \in Uses : u # t => widget'[u] = widget[u]
  BY <1>1 DEF WidgetTypeOK, Widgets, Uses, Refuse
<1>3. ToolsInv' /\ OnlyGrantedRun'
  BY <1>1, <1>2 DEF ToolsInv, OnlyGrantedRun, Uses, taskVars
<1>4. WaitingIsPending'
  BY <1>2 DEF WaitingIsPending, WaitingTools, ChatInv, Uses, Refuse
<1>5. EventsTypeOK' /\ EventsInv'
  BY <1>1, EventsStay, TypeParts DEF ChatInv
<1>6. GrantTypeOK' /\ ChatsTypeOK' /\ ChatsInv' /\ ToolTypeOK' /\ GrantsInv'
  BY <1>1, TasksStay
<1>7. StateTypeOK' /\ state' = "Ready"
  BY TypeParts DEF ChatInv, StateTypeOK, Refuse, Uses
<1>8. /\ last_hit' \in {last_hit, "none"}
      /\ last_hit' = "Processing" => state = "Ready"
  BY TypeParts DEF ArmAfter, reset, ChatInv, StateTypeOK
<1>9. GuardTypeOK' /\ HitIsOfState'
  BY <1>7, <1>8, TypeParts DEF ChatInv, GuardTypeOK, HitIsOfState
<1>10. BatchTypeOK' /\ MessagesTypeOK' /\ RestTypeOK'
  BY TypeParts DEF ChatInv, BatchTypeOK, MessagesTypeOK, RestTypeOK, batchVars, Refuse
<1> QED
  BY <1>2, <1>3, <1>4, <1>5, <1>6, <1>7, <1>9, <1>10, Together

LEMMA CancelToolStep ==
    ASSUME ChatInv, NEW t \in ToolIds, NEW key, CancelTool(t, key)
    PROVE  ChatInv'
<1>1. kind[t] # "none"
  BY DEF CancelTool, Decidable
<1> QED
  BY <1>1, Refused DEF CancelTool

LEMMA ApplyHunkStep ==
    ASSUME ChatInv, NEW t \in ToolIds, ApplyHunk(t)
    PROVE  ChatInv'
<1>1. /\ kind[t] = "edit" /\ widget[t] = "waiting" /\ set_processing
      /\ widget' = [widget EXCEPT ![t] = "executing"]
      /\ tool' = [tool EXCEPT ![t].pc = "applying"]
      /\ UNCHANGED <<pending_chats, batchVars, pending_user_actions, kind, hunks, grantVars,
                     guardVars, events, chats, messages, app, ghostVars>>
  BY DEF ApplyHunk
<1>2. KindsStay /\ WidgetTypeOK /\ ToolTypeOK /\ ToolsInv /\ GrantsInv /\ OnlyGrantedRun
  BY <1>1, TypeParts DEF KindsStay, ChatInv
<1> DEFINE task == [tool[t] EXCEPT !.pc = "applying"]
<1>3. tool[t] \in Task /\ tool' = [tool EXCEPT ![t] = task]
  BY <1>1, <1>2 DEF ToolTypeOK, Uses
<1>4. /\ task \in Task /\ task.pc = "applying"
      /\ task.once = tool[t].once /\ task.allow = tool[t].allow
  BY <1>3 DEF Task
<1> HIDE DEF task
<1>5. /\ ToolTypeOK' /\ tool'[t] = task
      /\ \A u \in Uses : u # t => tool'[u] = tool[u]
  BY <1>2, <1>3, <1>4, ToolChanges, ZenonT(30) DEF Uses
<1>6. /\ WidgetTypeOK' /\ widget'[t] = "executing"
      /\ \A u \in Uses : u # t => widget'[u] = widget[u]
  BY <1>1, <1>2 DEF WidgetTypeOK, Widgets, Uses
<1>7. hunks[t] >= 1
  BY <1>1, <1>2 DEF ToolsInv
<1>8. ToolsInv' /\ OnlyGrantedRun' /\ GrantsInv'
  BY <1>1, <1>2, <1>4, <1>5, <1>6, <1>7
  DEF ToolsInv, OnlyGrantedRun, GrantsInv, grantVars, ghostVars, Uses
<1>9. WaitingIsPending'
  BY <1>1, <1>6 DEF WaitingIsPending, WaitingTools, ChatInv, Uses
<1>10. EventsTypeOK' /\ EventsInv' /\ ChatsTypeOK' /\ ChatsInv'
  BY <1>1, <1>2, EventsStay, ChatsStay, TypeParts DEF ChatInv, ghostVars
<1>11. /\ StateTypeOK' /\ BatchTypeOK' /\ GrantTypeOK' /\ GuardTypeOK' /\ MessagesTypeOK'
       /\ RestTypeOK' /\ HitIsOfState'
  BY <1>1, TypeParts
  DEF ChatInv, StateTypeOK, BatchTypeOK, GrantTypeOK, GuardTypeOK, MessagesTypeOK,
      RestTypeOK, HitIsOfState, set_processing, batchVars, guardVars, grantVars, ghostVars
<1> QED
  BY <1>5, <1>6, <1>8, <1>9, <1>10, <1>11, Together

\* A hunk that is not the last one is skipped: the rest is shown again.
LEMMA RejectHunkStep ==
    ASSUME ChatInv, NEW t \in ToolIds, NEW key, RejectHunk(t, key)
    PROVE  ChatInv'
<1>1. /\ kind[t] = "edit" /\ widget[t] = "waiting"
      /\ ArmAfter(key, hunks[t] = 1)
      /\ UNCHANGED <<batchVars, kind, grantVars, cancel_token, fires, prompts, taskVars,
                     messages, app, granted>>
  BY DEF RejectHunk
<1>2. CASE hunks[t] = 1
  <2>1. Refuse(t) /\ UNCHANGED <<hunks, events>> /\ ArmAfter(key, TRUE)
    BY <1>1, <1>2 DEF RejectHunk, ArmAfter
  <2> QED
    BY <1>1, <2>1, Refused
<1>3. CASE hunks[t] # 1
  <2>1. /\ Send("TextEdit", {t})
        /\ hunks' = [hunks EXCEPT ![t] = hunks[t] - 1]
        /\ widget' = [widget EXCEPT ![t] = "cancelled"]
        /\ UNCHANGED <<state, pending_chats, pending_user_actions, batch_cancelled,
                       interfered>>
    BY <1>3 DEF RejectHunk
  <2>2. WidgetTypeOK /\ ToolsInv /\ OnlyGrantedRun /\ EventsTypeOK /\ EventsInv
        /\ hunks[t] >= 1 /\ hunks[t] \in 0..MaxHunks
    BY <1>1, TypeParts DEF ChatInv, ToolsInv, WidgetTypeOK
  <2>3. hunks[t] - 1 \in 0..MaxHunks /\ hunks[t] - 1 >= 1
    BY <1>3, <2>2, BoundsAssumption
  <2>4. /\ WidgetTypeOK' /\ KindsStay /\ hunks'[t] >= 1 /\ widget'[t] = "cancelled"
        /\ \A u \in Uses : u # t => widget'[u] = widget[u]
    BY <1>1, <2>1, <2>2, <2>3 DEF WidgetTypeOK, Widgets, KindsStay, Uses
  <2>5. EventOK([type |-> "TextEdit", ids |-> {t}], kind', hunks')
    BY <1>1, <2>4 DEF EventOK, Uses
  <2>6. EventsTypeOK' /\ EventsInv'
    BY <2>1, <2>2, <2>4, <2>5, Sent DEF EventTypes, Uses
  <2>7. ToolsInv' /\ OnlyGrantedRun'
    BY <1>1, <2>2, <2>4 DEF ToolsInv, OnlyGrantedRun, KindsStay, taskVars, Uses
  <2>8. WaitingIsPending'
    BY <2>1, <2>4 DEF WaitingIsPending, WaitingTools, ChatInv, Uses
  <2>9. GrantTypeOK' /\ ChatsTypeOK' /\ ChatsInv' /\ ToolTypeOK' /\ GrantsInv'
    BY <1>1, <2>4, TasksStay
  <2>10. last_hit' \in {last_hit, "none"}
    BY <1>1 DEF ArmAfter, reset
  <2>11. /\ StateTypeOK' /\ BatchTypeOK' /\ GuardTypeOK' /\ MessagesTypeOK'
         /\ RestTypeOK' /\ HitIsOfState'
    BY <1>1, <2>1, <2>10, TypeParts
    DEF ChatInv, StateTypeOK, BatchTypeOK, GuardTypeOK, MessagesTypeOK, RestTypeOK,
        HitIsOfState, batchVars
  <2> QED
    BY <2>4, <2>6, <2>7, <2>8, <2>9, <2>11, Together
<1> QED
  BY <1>2, <1>3

LEMMA ExecuteManualStep ==
    ASSUME ChatInv, NEW r \in ManualRuns, ExecuteManual(r)
    PROVE  ChatInv'
<1> DEFINE task == [pc |-> "spawned", token |-> cancel_token, once |-> tools_once_pcl,
                    allow |-> bash_session_allowlist]
<1>1. /\ prompts < MaxPrompts /\ prompts' = prompts + 1
      /\ messages' = messages \o <<user({}), assistant({r}, {r})>>
      /\ widget' = [widget EXCEPT ![r] = "executing"]
      /\ tool' = [tool EXCEPT ![r] = task] /\ state' = "Processing"
      /\ interfered' \in BOOLEAN
      /\ UNCHANGED <<pending_chats, batchVars, pending_user_actions, kind, hunks, grantVars,
                     cancel_token, last_hit, fires, events, chats, app, batch_cancelled,
                     granted>>
  BY DEF ExecuteManual, spawn_tool_use, set_processing
<1>2. KindsStay /\ WidgetTypeOK /\ ToolTypeOK /\ ToolsInv /\ GrantsInv /\ OnlyGrantedRun
  BY <1>1, TypeParts DEF KindsStay, ChatInv
<1>3. task \in Task /\ task.once = tools_once_pcl /\ task.allow = bash_session_allowlist
  BY TypeParts DEF Task, ChatInv, GuardTypeOK, GrantTypeOK
<1> HIDE DEF task
<1>4. /\ ToolTypeOK' /\ tool'[r] = task
      /\ \A u \in Uses : u # r => tool'[u] = tool[u]
  BY <1>1, <1>2, <1>3, ToolChanges DEF Uses
<1>5. WidgetTypeOK' /\ \A u \in Uses : u # r => widget'[u] = widget[u]
  BY <1>1, <1>2 DEF WidgetTypeOK, Widgets, Uses
<1>6. r \notin ToolIds
  BY IdsAssumption
<1>7. ToolsInv' /\ OnlyGrantedRun' /\ GrantsInv'
  BY <1>1, <1>2, <1>3, <1>4, <1>5, <1>6
  DEF ToolsInv, OnlyGrantedRun, GrantsInv, grantVars, Uses
<1>8. WaitingIsPending'
  BY <1>1, <1>5, <1>6 DEF WaitingIsPending, WaitingTools, ChatInv, Uses
<1>9. EventsTypeOK' /\ EventsInv' /\ ChatsTypeOK' /\ ChatsInv'
  BY <1>1, <1>2, EventsStay, ChatsStay, TypeParts DEF ChatInv
<1>10. MessagesTypeOK'
  <2>1. user({}) \in Message /\ assistant({r}, {r}) \in Message
    BY DEF user, assistant, Message, Uses
  <2>2. messages \in Seq(Message)
    BY TypeParts DEF ChatInv, MessagesTypeOK
  <2> QED
    BY <1>1, <2>1, <2>2 DEF MessagesTypeOK
<1>11. GuardTypeOK'
  <2>1. prompts' \in 0..MaxPrompts
    BY <1>1, BoundsAssumption, TypeParts DEF ChatInv, GuardTypeOK
  <2> QED
    BY <1>1, <2>1, TypeParts DEF ChatInv, GuardTypeOK
<1>12. StateTypeOK' /\ BatchTypeOK' /\ GrantTypeOK' /\ RestTypeOK' /\ HitIsOfState'
  BY <1>1, TypeParts
  DEF ChatInv, StateTypeOK, BatchTypeOK, GrantTypeOK, RestTypeOK, HitIsOfState, batchVars,
      grantVars
<1> QED
  BY <1>4, <1>5, <1>7, <1>8, <1>9, <1>10, <1>11, <1>12, Together

\* Hits of Ctrl-C touch the guard alone.
LEMMA GuardStep ==
    ASSUME ChatInv, GuardTypeOK', RestTypeOK',
           last_hit' \in {last_hit, "none", state},
           UNCHANGED <<chatVars, widgetVars, grantVars, events, taskVars, messages, granted>>
    PROVE  ChatInv'
<1>1. /\ KindsStay /\ StateTypeOK' /\ BatchTypeOK' /\ WidgetTypeOK' /\ MessagesTypeOK'
      /\ ToolsInv' /\ OnlyGrantedRun' /\ WaitingIsPending'
  BY GroupsStay, TypeParts
  DEF chatVars, widgetVars, taskVars, MessagesTypeOK, ChatInv
<1>2. HitIsOfState'
  BY TypeParts DEF ChatInv, HitIsOfState, StateTypeOK, chatVars
<1>3. GrantTypeOK' /\ ChatsTypeOK' /\ ChatsInv' /\ ToolTypeOK' /\ GrantsInv'
  BY <1>1, TasksStay
<1>4. EventsTypeOK' /\ EventsInv'
  BY <1>1, EventsStay, TypeParts DEF ChatInv
<1> QED
  BY <1>1, <1>2, <1>3, <1>4, Together

LEMMA PressStep ==
    ASSUME ChatInv, PressToCancel \/ Disarm \/ \E t \in ToolIds : PressToRefuse(t)
    PROVE  ChatInv'
<1>1. GuardTypeOK /\ RestTypeOK /\ StateTypeOK
  BY TypeParts DEF ChatInv
<1>2. CASE PressToCancel
  <2>1. /\ UNCHANGED <<chatVars, widgetVars, grantVars, prompts, events, taskVars, messages,
                       batch_cancelled, granted>>
        /\ fires < MaxFires /\ fires' \in {fires, fires + 1}
        /\ cancel_token' \in {cancel_token, cancel_token + 1}
        /\ last_hit' \in {last_hit, "none", state}
        /\ app' \in {app, "quit"} /\ interfered' \in {interfered, TRUE, FALSE}
    BY <1>2 DEF PressToCancel, reset
  <2>2. fires' \in 0..MaxFires /\ cancel_token' \in Tokens
    BY <1>1, <2>1, BoundsAssumption DEF GuardTypeOK, Tokens
  <2>3. GuardTypeOK' /\ RestTypeOK'
    BY <1>1, <2>1, <2>2 DEF GuardTypeOK, RestTypeOK, StateTypeOK
  <2> QED
    BY <2>1, <2>3, GuardStep
<1>3. CASE Disarm
  <2>1. GuardTypeOK' /\ RestTypeOK'
    BY <1>1, <1>3 DEF Disarm, reset, GuardTypeOK, RestTypeOK, ghostVars
  <2> QED
    BY <1>3, <2>1, GuardStep DEF Disarm, reset, ghostVars
<1>4. ASSUME NEW t \in ToolIds, PressToRefuse(t)
      PROVE  ChatInv'
  <2>1. CASE CancelTool(t, "CtrlC") \/ RejectHunk(t, "CtrlC")
    BY <2>1, CancelToolStep, RejectHunkStep
  <2>2. CASE /\ last_hit' = state
             /\ UNCHANGED <<chatVars, widgetVars, grantVars, cancel_token, fires, prompts,
                            events, taskVars, messages, app, ghostVars>>
    <3>1. GuardTypeOK' /\ RestTypeOK'
      BY <1>1, <2>2 DEF GuardTypeOK, RestTypeOK, StateTypeOK, ghostVars
    <3> QED
      BY <2>2, <3>1, GuardStep DEF ghostVars
  <2> QED
    BY <1>4, <2>1, <2>2 DEF PressToRefuse
<1> QED
  BY <1>2, <1>3, <1>4

-----------------------------------------------------------------------------
(* The theorems *)

LEMMA ChatNextKeeps ==
    ASSUME ChatInv, [Next]_vars
    PROVE  ChatInv'
<1>1. CASE UNCHANGED vars
  <2>1. /\ UNCHANGED <<chatVars, widgetVars, grantVars, events, taskVars, messages, granted>>
        /\ UNCHANGED <<guardVars, app, interfered, batch_cancelled>>
    BY <1>1 DEF vars, ghostVars
  <2>2. GuardTypeOK' /\ RestTypeOK' /\ UNCHANGED last_hit
    BY <2>1, GroupsStay DEF guardVars
  <2> QED
    BY <2>1, <2>2, GuardStep
<1>2. ASSUME NEW t \in Uses, ToolStep(t) \/ ComboProgresses(t)
      PROVE  ChatInv'
  <2>1. ASSUME NEW n \in 1..MaxHunks, NEW auto \in AutoAccept, EditProposed(t, n, auto)
        PROVE  ChatInv'
    BY <2>1, EditProposedStep, AutoAcceptAssumption
  <2> QED
    BY <1>2, <2>1, ToolStartsStep, ToolStopsStep, HunkAppliedStep, ComboProgressesStep
    DEF ToolStep
<1>3. ASSUME NEW n \in DOMAIN chats, ChatStep(n)
      PROVE  ChatInv'
  BY <1>3, ChatStartsStep, ChatFailsStep, ChatAnswersStep, ChatExecutesStep DEF ChatStep
<1>4. CASE HandleEvent
  BY <1>4, HandleStateStep, HandleBotStep, HandleAsksUserStep, HandleAutoEditStep,
     HandlePendingStep, HandleToolResultStep DEF HandleEvent
<1>5. CASE UserStep
  BY <1>5, SubmitStep, GrantStep, CancelToolStep, ApplyHunkStep, RejectHunkStep,
     ExecuteManualStep, PressStep DEF UserStep
<1> QED
  BY <1>1, <1>2, <1>3, <1>4, <1>5, PressStep DEF Next, Running

LEMMA ChatInitKeeps ==
    ASSUME Init
    PROVE  ChatInv
<1>1. NoTask \in Task /\ NoTask.pc = "none" /\ NoTask.once = {} /\ NoTask.allow = {}
  BY DEF NoTask, Task, Tokens
<1>2. TypeOK
  <2>1. <<>> \in Seq(Event) /\ <<>> \in Seq(ChatTask) /\ <<>> \in Seq(Message)
    OBVIOUS
  <2>2. EventsTypeOK /\ ChatsTypeOK /\ MessagesTypeOK
    BY <2>1 DEF Init, EventsTypeOK, ChatsTypeOK, MessagesTypeOK
  <2>3. StateTypeOK /\ BatchTypeOK /\ GrantTypeOK /\ RestTypeOK
    BY DEF Init, StateTypeOK, BatchTypeOK, GrantTypeOK, RestTypeOK
  <2>4. WidgetTypeOK /\ ToolTypeOK
    BY <1>1, BoundsAssumption DEF Init, WidgetTypeOK, ToolTypeOK, Widgets
  <2>5. GuardTypeOK
    BY BoundsAssumption DEF Init, GuardTypeOK, Tokens
  <2> QED
    BY <2>2, <2>3, <2>4, <2>5, TypeParts
<1>3. EventsInv /\ ChatsInv
  BY DEF Init, EventsInv, ChatsInv
<1>4. ToolsInv /\ GrantsInv /\ OnlyGrantedRun
  BY <1>1 DEF Init, ToolsInv, GrantsInv, OnlyGrantedRun, Uses
<1>5. HitIsOfState /\ WaitingIsPending
  BY DEF Init, HitIsOfState, WaitingIsPending, WaitingTools, Uses
<1> QED
  BY <1>2, <1>3, <1>4, <1>5 DEF ChatInv

LEMMA ChatInvariant == Spec => []ChatInv
BY ChatInitKeeps, ChatNextKeeps, PTL DEF Spec

\* Every variable of the chat component has its type in every reachable state; no count
\* of an edit's hunks goes below zero, however an edit is applied and rejected.
THEOREM ChatTypeCorrect == Spec => []TypeOK
<1>1. ChatInv => TypeOK
  BY DEF ChatInv
<1> QED
  BY <1>1, ChatInvariant, PTL

\* Whichever clone of the agent a tool's task works with, and however old it is: a bash
\* command runs only if the user granted this call or this command (execute_with_output,
\* take_once_permission).
THEOREM GrantsCorrect == Spec => []OnlyGrantedRun
<1>1. ChatInv => OnlyGrantedRun
  BY DEF ChatInv
<1> QED
  BY <1>1, ChatInvariant, PTL

\* A tool that waits for the user can be reached, in whatever order the requests come,
\* are decided and are overtaken by results (pending_user_actions).
THEOREM WaitingCorrect == Spec => []WaitingIsPending
<1>1. ChatInv => WaitingIsPending
  BY DEF ChatInv
<1> QED
  BY <1>1, ChatInvariant, PTL

\* No step quits by a hit of Ctrl-C that was meant to cancel.
THEOREM QuitCorrect == Spec => QuitIsMeant
<1>1. ASSUME ChatInv, [Next]_vars
      PROVE  [app' = "quit" => last_hit = "Ready"]_vars
  <2>1. SUFFICES ASSUME Next, app' = "quit"
                 PROVE  last_hit = "Ready"
    BY <1>1
  <2>2. app = "running" /\ app' # app
    BY <2>1 DEF Next, Running
  <2>3. PressToCancel
    <3>1. ~(\E t \in Uses : ToolStep(t) \/ ComboProgresses(t))
      BY <2>2 DEF ToolStep, ToolStarts, ToolFinishes, ToolStopsSilently, EditProposed,
                  HunkApplied, ComboProgresses
    <3>2. ~(\E n \in DOMAIN chats : ChatStep(n))
      BY <2>2 DEF ChatStep, ChatStarts, ChatFails, ChatAnswers, ChatExecutes
    <3>3. ~HandleEvent
      BY <2>2 DEF HandleEvent, HandleAskBot, HandleBot, HandleCancelled, HandleAsksUser,
                  HandleAutoEdit, HandlePending, HandleToolResult, HandleComboProgress
    <3>4. ~Disarm
      BY <2>2 DEF Disarm
    <3>5. UserStep
      BY <2>1, <3>1, <3>2, <3>3, <3>4 DEF Next, Running
    <3> QED
      BY <2>2, <3>5
      DEF UserStep, Submit, Grant, GrantSession, CancelTool, ApplyHunk, RejectHunk,
          PressToRefuse, ExecuteManual
  <2>4. Armed /\ state = "Ready"
    BY <2>2, <2>3 DEF PressToCancel
  <2> QED
    BY <1>1, <2>4, TypeParts DEF Armed, ChatInv, HitIsOfState, GuardTypeOK
<1> QED
  BY <1>1, ChatInvariant, PTL DEF QuitIsMeant, Spec
=============================================================================
