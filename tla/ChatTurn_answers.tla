--------------------------- MODULE ChatTurn_answers ---------------------------
(****************************************************************************)
(* Theorems about the answers of the chat component (ChatTurn): what the    *)
(* history says of the tool uses, for any number of them, of prompts, of    *)
(* hunks and of cancellations.  No tool use has two answers, whatever the   *)
(* user does; if the user does not disturb the turn, each is answered in    *)
(* the next message, and the turn ends.                                     *)
(****************************************************************************)
EXTENDS ChatTurn_proofs

-----------------------------------------------------------------------------
(* Who has the answer to a tool use *)

Unknown(t, kinds) == t \in ToolIds /\ kinds[t] = "unknown"

\* The tool uses an event decides about.  A widget without a tool of its own lets the
\* user decide about it as soon as it is shown.
Carried(e, kinds) ==
    IF e.type \in {"Permission", "TextEdit", "ToolResult"} THEN e.ids
    ELSE IF e.type = "Bot" THEN {t \in e.ids : Unknown(t, kinds)} ELSE {}

Places == {"event", "message", "results", "execute", "task", "widget", "pending",
           "collected"}

\* The answer to t, or the work that may lead to one, is in the n-th of the things of
\* a place.
Holds(t, place, n) ==
    \/ place = "event" /\ n \in DOMAIN events /\ t \in Carried(events[n], kind)
    \/ place = "message" /\ n \in DOMAIN messages /\ t \in messages[n].results
    \/ place = "results" /\ n \in DOMAIN chats /\ t \in chats[n].results
    \/ /\ place = "execute" /\ n \in DOMAIN chats
       /\ t \in chats[n].execute /\ ~Unknown(t, kind)
    \/ /\ place = "task" /\ n = 0
       /\ \/ tool[t].pc \in {"running", "applying"}
          \/ tool[t].pc = "spawned" /\ ~Unknown(t, kind)
    \/ /\ place = "widget" /\ n = 0
       /\ widget[t] = "waiting" \/ (widget[t] = "initing" /\ Unknown(t, kind))
    \/ place = "pending" /\ n = 0 /\ t \in pending_chats
    \/ place = "collected" /\ n = 0 /\ t \in collected_tool_results

IsNew(t) == IF t \in ToolIds THEN kind[t] = "none" ELSE widget[t] = "none"

\* It is in one place, and nowhere before the tool use is known.
Once(t) ==
    /\ \A p, q \in Places, m, n \in Nat : Holds(t, p, m) /\ Holds(t, q, n) => p = q /\ m = n
    /\ IsNew(t) => \A p \in Places, n \in Nat : ~Holds(t, p, n)

OneAnswer == \A t \in Uses : Once(t)

\* The place of an event before k events were taken from the queue.
Before(p, n, k) == IF p = "event" THEN n + k ELSE n

LEMMA Stays ==
    ASSUME NEW t \in Uses, Once(t), IsNew(t)' => IsNew(t), NEW k \in {0, 1},
           \A p \in Places, n \in Nat : Holds(t, p, n)' => Holds(t, p, Before(p, n, k))
    PROVE  Once(t)'
BY DEF Once, Before

\* It goes from one place to another, while k events are taken from the queue.
Goes(t, k, p0, n0, p1, n1) ==
    \A p \in Places, n \in Nat : Holds(t, p, n)' =>
       \/ p = p1 /\ n = n1
       \/ Holds(t, p, Before(p, n, k)) /\ (p # p0 \/ Before(p, n, k) # n0)

LEMMA Moves ==
    ASSUME NEW t \in Uses, Once(t), IsNew(t)' => IsNew(t), NEW k \in {0, 1},
           NEW p0 \in Places, NEW n0 \in Nat, Holds(t, p0, n0),
           NEW p1 \in Places, NEW n1 \in Nat, Goes(t, k, p0, n0, p1, n1)
    PROVE  Once(t)'
BY DEF Once, Before, Goes

\* The same for a step that takes nothing from the queue.
LEMMA StaysThere ==
    ASSUME NEW t \in Uses, Once(t), IsNew(t)' => IsNew(t),
           \A p \in Places, n \in Nat : Holds(t, p, n)' => Holds(t, p, n)
    PROVE  Once(t)'
BY DEF Once

LEMMA MovesThere ==
    ASSUME NEW t \in Uses, Once(t), IsNew(t)' => IsNew(t),
           NEW p0 \in Places, NEW n0 \in Nat, Holds(t, p0, n0),
           NEW p1 \in Places, NEW n1 \in Nat,
           \A p \in Places, n \in Nat : Holds(t, p, n)' =>
              \/ p = p1 /\ n = n1
              \/ Holds(t, p, n) /\ (p # p0 \/ n # n0)
    PROVE  Once(t)'
BY DEF Once

LEMMA OnlyThere ==
    ASSUME NEW t \in Uses, Once(t), NEW p0 \in Places, NEW n0 \in Nat, Holds(t, p0, n0)
    PROVE  ~IsNew(t) /\ \A p \in Places, n \in Nat : Holds(t, p, n) => p = p0 /\ n = n0
BY DEF Once

LEMMA Appears ==
    ASSUME NEW t \in Uses, ~IsNew(t)', NEW p1 \in Places, NEW n1 \in Nat,
           \A p \in Places, n \in Nat : Holds(t, p, n)' => p = p1 /\ n = n1
    PROVE  Once(t)'
BY DEF Once

-----------------------------------------------------------------------------
(* task_chat *)

LEMMA ChatStartsOnce ==
    ASSUME ChatInv, OneAnswer, NEW n \in DOMAIN chats, ChatStarts(n)
    PROVE  OneAnswer'
<1> SUFFICES ASSUME NEW u \in Uses
             PROVE  Once(u)'
  BY DEF OneAnswer
<1>1. /\ UNCHANGED <<pending_chats, collected_tool_results, kind, widget, tool>>
      /\ EventsTypeOK /\ ChatsTypeOK /\ MessagesTypeOK /\ Once(u)
      /\ chats[n] \in ChatTask
  BY TypeParts DEF ChatStarts, chatVars, batchVars, widgetVars, ChatInv, OneAnswer, ChatsTypeOK
<1>2. IsNew(u)' => IsNew(u)
  BY <1>1 DEF IsNew
<1>3. CASE Cancelled(chats[n].token)
  <2>1. chats' = [chats EXCEPT ![n] = ChatDone(n)] /\ UNCHANGED <<events, messages>>
    BY <1>3 DEF ChatStarts
  <2>2. ChatDone(n).results = {} /\ ChatDone(n).execute = {}
    BY <1>1, DoneChat
  <2>3. \A p \in Places, m \in Nat : Holds(u, p, m)' => Holds(u, p, m)
    BY <1>1, <2>1, <2>2 DEF Holds, ChatsTypeOK
  <2> QED
    BY <1>1, <1>2, <2>3, StaysThere
<1>4. CASE ~Cancelled(chats[n].token)
  <2> DEFINE c == [chats[n] EXCEPT !.pc = "asking", !.results = {}]
             e == [type |-> "AskBot", ids |-> {}]
             message == user(chats[n].results)
  <2>1. /\ chats' = [chats EXCEPT ![n] = c]
        /\ messages' = Append(messages, message)
        /\ events' = Append(events, e)
    BY <1>1, <1>4 DEF ChatStarts, ChatsTypeOK, Send
  <2>2. c.results = {} /\ c.execute = chats[n].execute
    BY <1>1 DEF ChatTask
  <2>3. message.results = chats[n].results /\ Carried(e, kind) = {}
    BY DEF user, Carried
  <2> HIDE DEF c, e, message
  <2> PICK last \in Nat : last = Len(messages) + 1
    BY <1>1 DEF MessagesTypeOK
  <2>4. /\ \A m \in DOMAIN events' :
              \/ m \in DOMAIN events /\ events'[m] = events[m]
              \/ events'[m] = e
        /\ \A m \in DOMAIN messages' :
              \/ m \in DOMAIN messages /\ messages'[m] = messages[m]
              \/ m = last /\ messages'[m] = message
    BY <1>1, <2>1 DEF EventsTypeOK, MessagesTypeOK
  <2>5. \A p \in Places, m \in Nat : Holds(u, p, m)' =>
           \/ p = "message" /\ m = last /\ u \in chats[n].results
           \/ Holds(u, p, m) /\ (p # "results" \/ m # n)
    BY <1>1, <2>1, <2>2, <2>3, <2>4 DEF Holds, ChatsTypeOK
  <2>6. CASE u \in chats[n].results
    <3>1. Holds(u, "results", n) /\ n \in Nat
      BY <1>1, <2>6 DEF Holds, ChatsTypeOK
    <3> QED
      BY <1>1, <1>2, <2>5, <3>1, MovesThere DEF Places
  <2>7. CASE u \notin chats[n].results
    BY <1>1, <1>2, <2>5, <2>7, StaysThere
  <2> QED
    BY <2>6, <2>7
<1> QED
  BY <1>3, <1>4

LEMMA ChatFailsOnce ==
    ASSUME ChatInv, OneAnswer, NEW n \in DOMAIN chats, ChatFails(n)
    PROVE  OneAnswer'
<1> SUFFICES ASSUME NEW u \in Uses
             PROVE  Once(u)'
  BY DEF OneAnswer
<1>1. /\ UNCHANGED <<pending_chats, collected_tool_results, kind, widget, tool, messages>>
      /\ EventsTypeOK /\ ChatsTypeOK /\ Once(u)
      /\ chats' = [chats EXCEPT ![n] = ChatDone(n)]
  BY TypeParts DEF ChatFails, chatVars, batchVars, widgetVars, ChatInv, OneAnswer
<1>2. IsNew(u)' => IsNew(u)
  BY <1>1 DEF IsNew
<1>3. ChatDone(n).results = {} /\ ChatDone(n).execute = {}
  BY <1>1, DoneChat
<1>4. PICK e : events' = Append(events, e) /\ Carried(e, kind) = {}
  BY DEF ChatFails, Send, Carried
<1>5. \A m \in DOMAIN events' :
         \/ m \in DOMAIN events /\ events'[m] = events[m]
         \/ events'[m] = e
  BY <1>1, <1>4 DEF EventsTypeOK
<1>6. \A p \in Places, m \in Nat : Holds(u, p, m)' => Holds(u, p, m)
  BY <1>1, <1>3, <1>4, <1>5 DEF Holds, ChatsTypeOK
<1> QED
  BY <1>1, <1>2, <1>6, StaysThere

LEMMA ChatAnswersOnce ==
    ASSUME ChatInv, OneAnswer, NEW n \in DOMAIN chats, NEW uses \in SUBSET ToolIds,
           NEW stopped \in BOOLEAN, ChatAnswers(n, uses, stopped)
    PROVE  OneAnswer'
<1> SUFFICES ASSUME NEW u \in Uses
             PROVE  Once(u)'
  BY DEF OneAnswer
<1> DEFINE e == [type |-> "Bot", ids |-> uses]
<1>1. /\ UNCHANGED <<pending_chats, collected_tool_results, widget, tool>>
      /\ EventsTypeOK /\ ChatsTypeOK /\ MessagesTypeOK /\ Once(u)
      /\ chats[n] \in ChatTask /\ n \in Nat
  BY TypeParts DEF ChatAnswers, chatVars, batchVars, ChatInv, OneAnswer, ChatsTypeOK
<1>2. PICK k \in [uses -> ToolKinds] :
         kind' = [t \in ToolIds |-> IF t \in uses THEN k[t] ELSE kind[t]]
  BY DEF ChatAnswers
<1>3. /\ \A t \in uses : kind[t] = "none" /\ kind'[t] # "none"
      /\ \A t \in ToolIds : t \notin uses => kind'[t] = kind[t]
  BY <1>2, ToolKindsAssumption DEF ChatAnswers, Kinds
<1>4. IsNew(u)' => IsNew(u)
  BY <1>1, <1>3 DEF IsNew
<1>5. PICK execute \in SUBSET uses : execute = ToExecute(uses, stopped)
  BY DEF ToExecute
<1> DEFINE c == [chats[n] EXCEPT !.pc = "responded", !.execute = execute]
           message == assistant(uses, execute)
<1>6. /\ chats' = [chats EXCEPT ![n] = c]
      /\ messages' = Append(messages, message)
      /\ events' = Append(events, e)
  BY <1>1, <1>5 DEF ChatAnswers, ChatsTypeOK, Send
<1>7. /\ c.results = chats[n].results /\ c.execute = execute
      /\ message \in Message /\ message.results = {}
  BY <1>1 DEF ChatTask, assistant, Message, Uses
<1>8. e \in Event /\ \A t \in Carried(e, kind') : t \in uses /\ Unknown(t, kind')
  BY DEF Carried, Event, Uses
<1> HIDE DEF c, e, message
<1> PICK last \in Nat : last = Len(events) + 1
  BY <1>1 DEF EventsTypeOK
<1>9. /\ \A m \in DOMAIN events' :
            \/ m \in DOMAIN events /\ events'[m] = events[m]
            \/ m = last /\ events'[m] = e
      /\ \A m \in DOMAIN messages' :
            \/ m \in DOMAIN messages /\ messages'[m] = messages[m]
            \/ messages'[m] = message
  BY <1>1, <1>6, <1>7, <1>8 DEF EventsTypeOK, MessagesTypeOK
<1>10. CASE u \notin uses
  <2>1. \A kinds : u \in ToolIds \/ ~Unknown(u, kinds)
    BY DEF Unknown
  <2>2. Unknown(u, kind') = Unknown(u, kind)
    BY <1>3, <1>10 DEF Unknown
  <2>3. \A m \in DOMAIN events : u \in Carried(events[m], kind') <=> u \in Carried(events[m], kind)
    BY <2>2 DEF Carried
  <2>4. \A p \in Places, m \in Nat : Holds(u, p, m)' => Holds(u, p, m)
    BY <1>1, <1>6, <1>7, <1>8, <1>9, <1>10, <2>2, <2>3 DEF Holds, ChatsTypeOK
  <2> QED
    BY <1>1, <1>4, <2>4, StaysThere
<1>11. CASE u \in uses
  <2>1. u \in ToolIds /\ kind[u] = "none" /\ IsNew(u) /\ ~IsNew(u)' /\ ~Unknown(u, kind)
    BY <1>3, <1>11 DEF IsNew, Unknown
  <2>2. \A p \in Places, m \in Nat : ~Holds(u, p, m)
    BY <1>1, <2>1 DEF Once
  <2>3. /\ widget[u] = "none" /\ tool[u].pc = "none"
        /\ u \notin pending_chats /\ u \notin collected_tool_results
    BY <2>1, <2>2 DEF Holds, ChatInv, ToolsInv, Places
  <2>4. \A m \in DOMAIN chats : u \notin chats[m].execute /\ u \notin chats[m].results
    BY <1>1, <2>1, <2>2 DEF Holds, ChatsTypeOK, Places
  <2>5. \A m \in DOMAIN messages : u \notin messages[m].results
    BY <1>1, <2>2 DEF Holds, MessagesTypeOK, Places
  <2>6. \A m \in DOMAIN events : u \notin Carried(events[m], kind')
    BY <1>1, <2>1, <2>2 DEF Holds, EventsTypeOK, Places, ChatInv, EventsInv, EventOK, Carried
  <2>7. CASE Unknown(u, kind')
    <3>1. \A p \in Places, m \in Nat : Holds(u, p, m)' => p = "event" /\ m = last
      BY <1>1, <1>6, <1>7, <1>9, <2>3, <2>4, <2>5, <2>6, <2>7 DEF Holds, ChatsTypeOK
    <3> QED
      BY <2>1, <3>1, Appears DEF Places
  <2>8. CASE ~Unknown(u, kind')
    <3>1. \A p \in Places, m \in Nat : Holds(u, p, m)' => p = "execute" /\ m = n
      BY <1>1, <1>6, <1>7, <1>8, <1>9, <2>3, <2>4, <2>5, <2>6, <2>8 DEF Holds, ChatsTypeOK
    <3> QED
      BY <1>1, <2>1, <3>1, Appears DEF Places
  <2> QED
    BY <2>7, <2>8
<1> QED
  BY <1>10, <1>11

LEMMA ChatExecutesOnce ==
    ASSUME ChatInv, OneAnswer, NEW n \in DOMAIN chats, ChatExecutes(n)
    PROVE  OneAnswer'
<1> SUFFICES ASSUME NEW u \in Uses
             PROVE  Once(u)'
  BY DEF OneAnswer
<1>1. /\ UNCHANGED <<pending_chats, collected_tool_results, kind, widget, messages>>
      /\ EventsTypeOK /\ ChatsTypeOK /\ ToolTypeOK /\ Once(u)
      /\ chats[n] \in ChatTask /\ n \in Nat
      /\ chats' = [chats EXCEPT ![n] = ChatDone(n)]
  BY TypeParts
  DEF ChatExecutes, chatVars, batchVars, widgetVars, ChatInv, OneAnswer, ChatsTypeOK
<1>2. IsNew(u)' => IsNew(u)
  BY <1>1 DEF IsNew
<1>3. ChatDone(n).results = {} /\ ChatDone(n).execute = {}
  BY <1>1, DoneChat
<1>4. PICK execute \in SUBSET chats[n].execute :
         /\ execute = IF Cancelled(chats[n].token) THEN {} ELSE chats[n].execute
         /\ events' = events \o PendingEvents(execute)
         /\ u \in execute => tool'[u].pc = "spawned"
         /\ u \notin execute => tool'[u] = tool[u]
  BY DEF ChatExecutes
<1>5. \A m \in DOMAIN events' :
         \/ m \in DOMAIN events /\ events'[m] = events[m]
         \/ Carried(events'[m], kind) = {}
  <2>1. CASE PendingEvents(execute) = <<>>
    BY <1>1, <1>4, <2>1 DEF EventsTypeOK
  <2>2. CASE PendingEvents(execute) = <<[type |-> "Pending", ids |-> execute]>>
    <3> DEFINE e == [type |-> "Pending", ids |-> execute]
    <3>1. Carried(e, kind) = {} /\ e \in Event
      BY <1>1 DEF Carried, Event, ChatTask, Uses
    <3>2. events' = events \o <<e>>
      BY <1>4, <2>2
    <3> HIDE DEF e
    <3>3. events' = Append(events, e)
      BY <1>1, <3>1, <3>2 DEF EventsTypeOK
    <3> QED
      BY <1>1, <3>1, <3>3 DEF EventsTypeOK
  <2> QED
    BY <2>1, <2>2 DEF PendingEvents
<1>6. CASE u \in execute /\ ~Unknown(u, kind)
  <2>1. Holds(u, "execute", n)
    BY <1>1, <1>4, <1>6 DEF Holds
  <2>2. \A p \in Places, m \in Nat : Holds(u, p, m)' =>
           \/ p = "task" /\ m = 0
           \/ Holds(u, p, m) /\ (p # "execute" \/ m # n)
    BY <1>1, <1>3, <1>5 DEF Holds, ChatsTypeOK
  <2> QED
    BY <1>1, <1>2, <2>1, <2>2, MovesThere DEF Places
<1>7. CASE ~(u \in execute /\ ~Unknown(u, kind))
  <2>1. \A p \in Places, m \in Nat : Holds(u, p, m)' => Holds(u, p, m)
    BY <1>1, <1>3, <1>4, <1>5, <1>7, ZenonT(60) DEF Holds, ChatsTypeOK
  <2> QED
    BY <1>1, <1>2, <2>1, StaysThere
<1> QED
  BY <1>6, <1>7

-----------------------------------------------------------------------------
(* task_tool_use, task_apply_text_edit, task_combo_execute *)

LEMMA ToolStartsOnce ==
    ASSUME ChatInv, OneAnswer, NEW t \in Uses, ToolStarts(t)
    PROVE  OneAnswer'
<1> SUFFICES ASSUME NEW u \in Uses
             PROVE  Once(u)'
  BY DEF OneAnswer
<1>1. /\ UNCHANGED <<pending_chats, collected_tool_results, kind, widget, messages, chats>>
      /\ EventsTypeOK /\ ToolTypeOK /\ Once(u) /\ tool[t].pc = "spawned"
  BY TypeParts DEF ToolStarts, chatVars, batchVars, widgetVars, ChatInv, OneAnswer
<1>2. IsNew(u)' => IsNew(u)
  BY <1>1 DEF IsNew
<1>3. CASE ToolDone(t) /\ UNCHANGED events
  <2>1. u = t => tool'[u].pc = "done"
    BY <1>1, <1>3, DoneTask DEF ToolDone, ToolTypeOK
  <2>2. u # t => tool'[u] = tool[u]
    BY <1>1, <1>3 DEF ToolDone, ToolTypeOK
  <2>3. \A p \in Places, m \in Nat : Holds(u, p, m)' => Holds(u, p, m)
    BY <1>1, <1>3, <2>1, <2>2 DEF Holds
  <2> QED
    BY <1>1, <1>2, <2>3, StaysThere
<1>4. CASE /\ t \in ToolIds /\ kind[t] = "bash"
           /\ ToolDone(t) /\ Send("Permission", {t})
  <2> DEFINE e == [type |-> "Permission", ids |-> {t}]
  <2>1. e \in Event /\ Carried(e, kind) = {t} /\ events' = Append(events, e)
    BY <1>4 DEF Carried, Send, Event
  <2> HIDE DEF e
  <2> PICK last \in Nat : last = Len(events) + 1
    BY <1>1 DEF EventsTypeOK
  <2>2. \A m \in DOMAIN events' :
           \/ m \in DOMAIN events /\ events'[m] = events[m]
           \/ m = last /\ events'[m] = e
    BY <1>1, <2>1 DEF EventsTypeOK
  <2>3. CASE u = t
    <3>1. Holds(u, "task", 0)
      BY <1>1, <1>4, <2>3 DEF Holds, Unknown
    <3>2. tool'[u].pc = "done"
      BY <1>1, <1>4, <2>3, DoneTask DEF ToolDone, ToolTypeOK
    <3>3. \A p \in Places, m \in Nat : Holds(u, p, m)' =>
             \/ p = "event" /\ m = last
             \/ Holds(u, p, m) /\ (p # "task" \/ m # 0)
      BY <1>1, <2>2, <3>2 DEF Holds
    <3>4. Once(u)
      BY <1>1
    <3>5. "task" \in Places /\ "event" \in Places /\ 0 \in Nat
      BY DEF Places
    <3> QED
      BY <1>2, <3>1, <3>3, <3>4, <3>5 DEF Once
  <2>4. CASE u # t
    <3>1. tool'[u] = tool[u]
      BY <1>1, <1>4, <2>4 DEF ToolDone, ToolTypeOK
    <3>2. \A p \in Places, m \in Nat : Holds(u, p, m)' => Holds(u, p, m)
      BY <1>1, <2>1, <2>2, <2>4, <3>1 DEF Holds
    <3> QED
      BY <1>1, <1>2, <3>2, StaysThere
  <2> QED
    BY <2>3, <2>4
<1>5. CASE /\ ~Unknown(t, kind)
           /\ tool' = [tool EXCEPT ![t].pc = "running"] /\ UNCHANGED events
  <2>1. u = t \/ tool'[u] = tool[u]
    BY <1>1, <1>5 DEF ToolTypeOK
  <2>2. \A p \in Places, m \in Nat : Holds(u, p, m)' => Holds(u, p, m)
    BY <1>1, <1>5, <2>1 DEF Holds
  <2> QED
    BY <1>1, <1>2, <2>2, StaysThere
<1> QED
  BY <1>3, <1>4, <1>5 DEF ToolStarts, Unknown

\* The end of a tool's task is reported at most once.
LEMMA ToolEndsOnce ==
    ASSUME ChatInv, OneAnswer, NEW t \in Uses, ToolDone(t),
           tool[t].pc \in {"running", "applying"},
           UNCHANGED <<chatVars, kind, widget, chats, messages>>,
           NEW last \in Nat,
           \A m \in DOMAIN events' :
              \/ m \in DOMAIN events /\ events'[m] = events[m]
              \/ m = last /\ Carried(events'[m], kind) \subseteq {t}
              \/ Carried(events'[m], kind) = {}
    PROVE  OneAnswer'
<1> SUFFICES ASSUME NEW u \in Uses
             PROVE  Once(u)'
  BY DEF OneAnswer
<1>1. /\ UNCHANGED <<pending_chats, collected_tool_results, kind, widget, messages, chats>>
      /\ EventsTypeOK /\ ToolTypeOK /\ Once(u)
  BY TypeParts DEF chatVars, batchVars, ChatInv, OneAnswer
<1>2. IsNew(u)' => IsNew(u)
  BY <1>1 DEF IsNew
<1>3. u = t => tool'[u].pc = "done"
  BY <1>1, DoneTask DEF ToolDone, ToolTypeOK
<1>4. u # t => tool'[u] = tool[u]
  BY <1>1 DEF ToolDone, ToolTypeOK
<1>5. CASE u = t
  <2>1. Holds(u, "task", 0)
    BY <1>5 DEF Holds
  <2>2. \A p \in Places, m \in Nat : Holds(u, p, m)' =>
           \/ p = "event" /\ m = last
           \/ Holds(u, p, m) /\ (p # "task" \/ m # 0)
    BY <1>1, <1>3, <1>5 DEF Holds
  <2> QED
    BY <1>1, <1>2, <2>1, <2>2, MovesThere, SMTT(30) DEF Places
<1>6. CASE u # t
  <2>1. \A p \in Places, m \in Nat : Holds(u, p, m)' => Holds(u, p, m)
    BY <1>1, <1>4, <1>6 DEF Holds
  <2> QED
    BY <1>1, <1>2, <2>1, StaysThere
<1> QED
  BY <1>5, <1>6

LEMMA ToolTasksOnce ==
    ASSUME ChatInv, OneAnswer, NEW t \in Uses, ToolStep(t) \/ ComboProgresses(t)
    PROVE  OneAnswer'
<1>1. EventsTypeOK /\ WidgetTypeOK
  BY TypeParts DEF ChatInv
<1> PICK n \in Nat : n = Len(events)
  BY <1>1 DEF EventsTypeOK
<1>2. \A type, ids : Send(type, ids) =>
         \A m \in DOMAIN events' : \/ m \in DOMAIN events /\ events'[m] = events[m]
                                   \/ m = n + 1 /\ events'[m] = [type |-> type, ids |-> ids]
  BY <1>1 DEF Send, EventsTypeOK
<1>3. \A type, ids : /\ Carried([type |-> type, ids |-> ids], kind) \subseteq ids
                     /\ type \in {"AutoEdit", "ComboProgress"} =>
                           Carried([type |-> type, ids |-> ids], kind) = {}
  BY DEF Carried
<1>4. ASSUME NEW type, Send(type, {t}), ToolDone(t), tool[t].pc \in {"running", "applying"},
             UNCHANGED <<chatVars, kind, widget, chats, messages>>
      PROVE  OneAnswer'
  <2>1. \A m \in DOMAIN events' :
           \/ m \in DOMAIN events /\ events'[m] = events[m]
           \/ m = n + 1 /\ Carried(events'[m], kind) \subseteq {t}
           \/ Carried(events'[m], kind) = {}
    BY <1>2, <1>3, <1>4
  <2> QED
    BY <1>4, <2>1, ToolEndsOnce
<1>5. CASE ToolFinishes(t)
  BY <1>4, <1>5 DEF ToolFinishes, widgetVars
<1>6. CASE ToolStopsSilently(t)
  BY <1>6, ToolEndsOnce DEF ToolStopsSilently, widgetVars
<1>7. ASSUME NEW h \in 1..MaxHunks, NEW auto \in AutoAccept, EditProposed(t, h, auto)
      PROVE  OneAnswer'
  <2>1. CASE Send("TextEdit", {t})
    BY <1>4, <1>7, <2>1 DEF EditProposed
  <2>2. CASE events' = events \o <<[type |-> "AutoEdit", ids |-> {t}],
                                   [type |-> "ToolResult", ids |-> {t}]>>
    <3> DEFINE a == [type |-> "AutoEdit", ids |-> {t}]
               b == [type |-> "ToolResult", ids |-> {t}]
    <3>1. a \in Event /\ b \in Event /\ Carried(a, kind) = {} /\ Carried(b, kind) \subseteq {t}
      BY DEF Carried, Event
    <3> HIDE DEF a, b
    <3>2. events' = events \o <<a, b>>
      BY <2>2 DEF a, b
    <3>3. <<a, b>> \in Seq(Event) /\ Len(<<a, b>>) = 2
          /\ <<a, b>>[1] = a /\ <<a, b>>[2] = b
      BY <3>1
    <3>4. \A m \in DOMAIN events' : \/ m \in DOMAIN events /\ events'[m] = events[m]
                                    \/ m = n + 1 /\ events'[m] = a
                                    \/ m = n + 2 /\ events'[m] = b
      BY <1>1, <3>2, <3>3 DEF EventsTypeOK
    <3>5. \A m \in DOMAIN events' :
             \/ m \in DOMAIN events /\ events'[m] = events[m]
             \/ m = n + 2 /\ Carried(events'[m], kind) \subseteq {t}
             \/ Carried(events'[m], kind) = {}
      BY <3>1, <3>4
    <3>6. /\ ToolDone(t) /\ tool[t].pc \in {"running", "applying"}
          /\ UNCHANGED <<chatVars, kind, widget, chats, messages>>
      BY <1>7 DEF EditProposed
    <3> QED
      BY <3>5, <3>6, ToolEndsOnce
  <2> QED
    BY <1>7, <2>1, <2>2 DEF EditProposed
<1>8. CASE \E failed \in BOOLEAN : HunkApplied(t, failed)
  BY <1>4, <1>8 DEF HunkApplied
<1>9. CASE ComboProgresses(t)
  <2> SUFFICES ASSUME NEW u \in Uses
               PROVE  Once(u)'
    BY DEF OneAnswer
  <2>1. /\ UNCHANGED <<pending_chats, collected_tool_results, kind, widget, messages, chats,
                       tool>>
        /\ Once(u)
    BY <1>9 DEF ComboProgresses, chatVars, batchVars, widgetVars, taskVars, OneAnswer
  <2>2. \A p \in Places, m \in Nat : Holds(u, p, m)' => Holds(u, p, m)
    BY <1>2, <1>3, <1>9, <2>1 DEF Holds, ComboProgresses
  <2> QED
    BY <2>1, <2>2, StaysThere DEF IsNew
<1> QED
  BY <1>5, <1>6, <1>7, <1>8, <1>9, ToolStartsOnce DEF ToolStep

-----------------------------------------------------------------------------
(* handle_event *)

\* What taking an event from the queue leaves there
LEMMA ReceivedPlaces ==
    ASSUME EventsTypeOK, NEW type, Receive(type)
    PROVE  /\ 1 \in DOMAIN events /\ events[1] = Head(events)
           /\ Head(events) \in Event /\ Head(events).type = type
           /\ \A m \in DOMAIN events' : /\ m + 1 \in DOMAIN events /\ m + 1 # 1
                                        /\ events'[m] = events[m + 1]
<1>1. events \in Seq(Event) /\ events # <<>> /\ Head(events).type = type
      /\ events' = Tail(events)
  BY DEF EventsTypeOK, Receive
<1> QED
  BY <1>1

LEMMA HandleStateOnce ==
    ASSUME ChatInv, OneAnswer,
           \/ HandleAskBot \/ HandleCancelled \/ HandleAutoEdit \/ HandlePending
           \/ HandleComboProgress
    PROVE  OneAnswer'
<1> SUFFICES ASSUME NEW u \in Uses
             PROVE  Once(u)'
  BY DEF OneAnswer
<1>1. EventsTypeOK /\ WidgetTypeOK /\ Once(u)
  BY TypeParts DEF ChatInv, OneAnswer
<1>2. PICK type : Receive(type)
  BY DEF HandleAskBot, HandleCancelled, HandleAutoEdit, HandlePending, HandleComboProgress
<1>3. \A m \in DOMAIN events' : m + 1 \in DOMAIN events /\ events'[m] = events[m + 1]
  BY <1>1, <1>2, ReceivedPlaces
<1>4. /\ UNCHANGED <<pending_chats, kind, tool, messages, chats>>
      /\ collected_tool_results' \subseteq collected_tool_results
      /\ widget'[u] \in {widget[u], "executing"}
  BY <1>1
  DEF HandleAskBot, HandleCancelled, HandleAutoEdit, HandlePending, HandleComboProgress,
      chatVars, batchVars, widgetVars, taskVars, WidgetTypeOK
<1>5. \A p \in Places, m \in Nat : Holds(u, p, m)' => Holds(u, p, Before(p, m, 1))
  BY <1>3, <1>4 DEF Holds, Before
<1>6. IsNew(u)' => IsNew(u)
  BY <1>4 DEF IsNew
<1> QED
  BY <1>1, <1>5, <1>6, Stays

\* An event that decides about tool uses hands them to their widgets.
LEMMA ToWidgetOnce ==
    ASSUME ChatInv, OneAnswer, NEW type, Receive(type), NEW asked \in SUBSET Uses,
           NEW shown \in {"initing", "waiting"},
           UNCHANGED <<pending_chats, collected_tool_results, kind, tool, messages, chats>>,
           widget' = [t \in Uses |-> IF t \in asked THEN shown ELSE widget[t]],
           \A t \in asked : \/ t \in Carried(Head(events), kind)
                            \/ shown = "initing" /\ ~Unknown(t, kind)
    PROVE  OneAnswer'
<1> SUFFICES ASSUME NEW u \in Uses
             PROVE  Once(u)'
  BY DEF OneAnswer
<1>1. EventsTypeOK /\ WidgetTypeOK /\ Once(u)
  BY TypeParts DEF ChatInv, OneAnswer
<1>2. /\ 1 \in DOMAIN events /\ events[1] = Head(events)
      /\ \A m \in DOMAIN events' : /\ m + 1 \in DOMAIN events /\ m + 1 # 1
                                   /\ events'[m] = events[m + 1]
  BY <1>1, ReceivedPlaces
<1>3. IsNew(u)' => IsNew(u)
  BY <1>1 DEF IsNew, WidgetTypeOK
<1>4. CASE u \in asked /\ u \in Carried(Head(events), kind)
  <2>1. Holds(u, "event", 1)
    BY <1>2, <1>4 DEF Holds
  <2>2. Goes(u, 1, "event", 1, "widget", 0)
    BY <1>2 DEF Goes, Holds, Before
  <2> QED
    BY <1>1, <1>3, <2>1, <2>2, Moves DEF Places
<1>5. CASE ~(u \in asked /\ u \in Carried(Head(events), kind))
  <2>1. \A p \in Places, m \in Nat : Holds(u, p, m)' => Holds(u, p, Before(p, m, 1))
    BY <1>2, <1>5 DEF Holds, Before
  <2> QED
    BY <1>1, <1>3, <2>1, Stays
<1> QED
  BY <1>4, <1>5

LEMMA HandleBotOnce ==
    ASSUME ChatInv, OneAnswer, HandleBot
    PROVE  OneAnswer'
<1>1. EventsTypeOK
  BY TypeParts DEF ChatInv
<1>2. Receive("Bot")
  BY DEF HandleBot
<1>3. PICK uses \in SUBSET Uses : uses = Head(events).ids
  BY <1>1, <1>2, ReceivedPlaces DEF Event
<1>4. \A t \in uses : t \in Carried(Head(events), kind) \/ ~Unknown(t, kind)
  BY <1>1, <1>2, <1>3, ReceivedPlaces DEF Carried
<1>5. /\ UNCHANGED <<pending_chats, collected_tool_results, kind, tool, messages, chats>>
      /\ widget' = [t \in Uses |-> IF t \in uses THEN "initing" ELSE widget[t]]
  BY <1>3 DEF HandleBot, batchVars, taskVars
<1> QED
  BY <1>2, <1>4, <1>5, ToWidgetOnce

LEMMA HandleAsksUserOnce ==
    ASSUME ChatInv, OneAnswer, HandleAsksUser
    PROVE  OneAnswer'
<1>1. EventsTypeOK
  BY TypeParts DEF ChatInv
<1>2. PICK type \in {"Permission", "TextEdit"} : Receive(type)
  BY DEF HandleAsksUser
<1>3. PICK asked \in SUBSET Uses : asked = Head(events).ids
  BY <1>1, <1>2, ReceivedPlaces DEF Event
<1>4. \A t \in asked : t \in Carried(Head(events), kind)
  BY <1>1, <1>2, <1>3, ReceivedPlaces DEF Carried
<1>5. /\ UNCHANGED <<pending_chats, collected_tool_results, kind, tool, messages, chats>>
      /\ widget' = [t \in Uses |-> IF t \in asked THEN "waiting" ELSE widget[t]]
  BY <1>3 DEF HandleAsksUser, batchVars, taskVars
<1> QED
  BY <1>2, <1>4, <1>5, ToWidgetOnce

\* A result is collected, or sent with everything that was waiting.
LEMMA HandleToolResultOnce ==
    ASSUME ChatInv, OneAnswer, HandleToolResult
    PROVE  OneAnswer'
<1>1. EventsTypeOK /\ WidgetTypeOK /\ ChatsTypeOK /\ StateTypeOK /\ BatchTypeOK
      /\ GrantTypeOK /\ GuardTypeOK /\ ChatsInv /\ GrantsInv
  BY TypeParts DEF ChatInv
<1>2. Receive("ToolResult")
  BY DEF HandleToolResult
<1>3. /\ 1 \in DOMAIN events /\ events[1] = Head(events)
      /\ Head(events) \in Event /\ Head(events).type = "ToolResult"
      /\ \A m \in DOMAIN events' : /\ m + 1 \in DOMAIN events /\ m + 1 # 1
                                   /\ events'[m] = events[m + 1]
  BY <1>1, <1>2, ReceivedPlaces
<1>4. PICK t \in Head(events).ids :
       /\ widget' = [widget EXCEPT ![t] = "finished"]
       /\ IF BatchIsOpen(t)
          THEN /\ collected_tool_results' = collected_tool_results \cup {t}
               /\ UNCHANGED <<pending_chats, chats, cancel_token, last_hit>>
          ELSE /\ collected_tool_results' =
                     IF Collected(t) THEN {} ELSE collected_tool_results
               /\ spawn_chat_task(IF Collected(t)
                                  THEN collected_tool_results \cup {t} ELSE {t})
       /\ UNCHANGED <<kind, hunks, grantVars, tool, messages, ghostVars>>
  BY DEF HandleToolResult
<1>5. t \in Uses /\ t \in Carried(Head(events), kind) /\ Holds(t, "event", 1)
  BY <1>3 DEF Event, Carried, Holds
<1> SUFFICES ASSUME NEW u \in Uses
             PROVE  Once(u)'
  BY DEF OneAnswer
<1>6. Once(u) /\ UNCHANGED <<kind, tool, messages, granted>>
  BY <1>4 DEF OneAnswer, ghostVars
<1>7. widget'[u] \in {widget[u], "finished"}
  BY <1>1, <1>4 DEF WidgetTypeOK
<1>8. IsNew(u)' => IsNew(u)
  BY <1>6, <1>7 DEF IsNew
<1>9. CASE BatchIsOpen(t)
  <2>1. collected_tool_results' = collected_tool_results \cup {t}
        /\ UNCHANGED <<pending_chats, chats>>
    BY <1>4, <1>9
  <2>2. CASE u = t
    <3>1. Goes(u, 1, "event", 1, "collected", 0)
      BY <1>3, <1>6, <1>7, <2>1 DEF Goes, Holds, Before
    <3> QED
      BY <1>5, <1>6, <1>8, <2>2, <3>1, Moves DEF Places
  <2>3. CASE u # t
    <3>1. \A p \in Places, m \in Nat : Holds(u, p, m)' => Holds(u, p, Before(p, m, 1))
      BY <1>3, <1>6, <1>7, <2>1, <2>3 DEF Holds, Before
    <3> QED
      BY <1>6, <1>8, <3>1, Stays
  <2> QED
    BY <2>2, <2>3
<1>10. CASE ~BatchIsOpen(t)
  <2>1. PICK results \in SUBSET Uses :
           /\ results = IF Collected(t) THEN collected_tool_results \cup {t} ELSE {t}
           /\ spawn_chat_task(results)
           /\ collected_tool_results' =
                 IF Collected(t) THEN {} ELSE collected_tool_results
    BY <1>1, <1>4, <1>5, <1>10 DEF BatchTypeOK, Uses
  <2>2. /\ t \in results /\ results \subseteq collected_tool_results \cup {t}
        /\ \/ collected_tool_results' = {}
           \/ results = {t} /\ collected_tool_results' = collected_tool_results
    BY <2>1
  <2>3. KindsStay
    BY <1>4 DEF KindsStay
  <2> PICK last \in Nat : last = Len(chats) + 1
    BY <1>1 DEF ChatsTypeOK
  <2>4. /\ pending_chats' = {} /\ Len(chats') = last
        /\ chats'[last].results = pending_chats \cup results
        /\ chats'[last].execute = {}
        /\ \A m \in DOMAIN chats : chats'[m] = chats[m]
        /\ ChatsTypeOK'
    BY <1>1, <1>6, <2>1, <2>3, ChatSpawned
  <2>5. \A m \in DOMAIN chats' : m \in DOMAIN chats \/ m = last
    BY <1>1, <2>4 DEF ChatsTypeOK
  <2>6. \A p \in Places, m \in Nat : Holds(u, p, m)' =>
           \/ p = "results" /\ m = last /\ u \in pending_chats \cup results
           \/ /\ Holds(u, p, Before(p, m, 1))
              /\ p # "pending" /\ (p # "collected" \/ u \in collected_tool_results')
              /\ p # "event" \/ Before(p, m, 1) # 1
    BY <1>3, <1>6, <1>7, <2>2, <2>4, <2>5 DEF Holds, Before
  <2>7. CASE u = t
    <3>1. Goes(u, 1, "event", 1, "results", last)
      BY <2>6 DEF Goes
    <3> QED
      BY <1>5, <1>6, <1>8, <2>7, <3>1, Moves DEF Places
  <2>8. CASE u # t /\ u \in pending_chats
    <3>1. Holds(u, "pending", 0)
      BY <2>8 DEF Holds
    <3>2. \A p \in Places, m \in Nat : Holds(u, p, m)' =>
             \/ p = "results" /\ m = last
             \/ Holds(u, p, Before(p, m, 1)) /\ (p # "pending" \/ Before(p, m, 1) # 0)
      BY <2>6
    <3>4. ~IsNew(u) /\ \A p \in Places, m \in Nat : Holds(u, p, m) => p = "pending" /\ m = 0
      BY <1>6, <3>1, OnlyThere DEF Places
    <3>5. \A p \in Places, m \in Nat : Holds(u, p, m)' => p = "results" /\ m = last
      BY <3>2, <3>4 DEF Before
    <3> QED
      BY <1>8, <3>4, <3>5, Appears DEF Places
  <2>9. CASE u # t /\ u \notin pending_chats /\ u \in results
    <3>1. Holds(u, "collected", 0)
      BY <2>2, <2>9 DEF Holds
    <3>2. u \notin collected_tool_results'
      BY <2>2, <2>9
    <3>3. \A p \in Places, m \in Nat : Holds(u, p, m)' =>
             \/ p = "results" /\ m = last
             \/ Holds(u, p, Before(p, m, 1)) /\ (p # "collected" \/ Before(p, m, 1) # 0)
      BY <2>6, <3>2
    <3>4. ~IsNew(u) /\ \A p \in Places, m \in Nat : Holds(u, p, m) => p = "collected" /\ m = 0
      BY <1>6, <3>1, OnlyThere DEF Places
    <3>5. \A p \in Places, m \in Nat : Holds(u, p, m)' => p = "results" /\ m = last
      BY <3>3, <3>4 DEF Before
    <3> QED
      BY <1>8, <3>4, <3>5, Appears DEF Places
  <2>10. CASE u \notin pending_chats \cup results
    <3>1. \A p \in Places, m \in Nat : Holds(u, p, m)' => Holds(u, p, Before(p, m, 1))
      BY <2>6, <2>10
    <3> QED
      BY <1>6, <1>8, <3>1, Stays
  <2> QED
    BY <2>2, <2>7, <2>8, <2>9, <2>10
<1> QED
  BY <1>9, <1>10

-----------------------------------------------------------------------------
(* Keys and the actions they send *)

LEMMA SubmitOnce ==
    ASSUME ChatInv, OneAnswer, Submit
    PROVE  OneAnswer'
<1> SUFFICES ASSUME NEW u \in Uses
             PROVE  Once(u)'
  BY DEF OneAnswer
<1>1. /\ UNCHANGED <<collected_tool_results, kind, hunks, widget, tool, messages, events,
                     granted>>
      /\ spawn_chat_task({})
  BY DEF Submit, batchVars, widgetVars
<1>2. ChatsTypeOK /\ StateTypeOK /\ GrantTypeOK /\ GuardTypeOK /\ ChatsInv /\ GrantsInv
      /\ Once(u)
  BY TypeParts DEF ChatInv, OneAnswer
<1>3. KindsStay
  BY <1>1 DEF KindsStay
<1> PICK last \in Nat : last = Len(chats) + 1
  BY <1>2 DEF ChatsTypeOK
<1>4. /\ pending_chats' = {} /\ Len(chats') = last
      /\ chats'[last].results = pending_chats /\ chats'[last].execute = {}
      /\ \A m \in DOMAIN chats : chats'[m] = chats[m]
      /\ ChatsTypeOK'
  BY <1>1, <1>2, <1>3, ChatSpawned
<1>5. \A m \in DOMAIN chats' : m \in DOMAIN chats \/ m = last
  BY <1>2, <1>4 DEF ChatsTypeOK
<1>6. IsNew(u)' => IsNew(u)
  BY <1>1 DEF IsNew
<1>7. \A p \in Places, m \in Nat : Holds(u, p, m)' =>
         \/ p = "results" /\ m = last /\ u \in pending_chats
         \/ Holds(u, p, m) /\ (p # "pending" \/ m # 0)
  BY <1>1, <1>4, <1>5 DEF Holds
<1>8. CASE u \in pending_chats
  <2>1. Holds(u, "pending", 0)
    BY <1>8 DEF Holds
  <2>2. \A p \in Places, m \in Nat : Holds(u, p, m)' =>
           \/ p = "results" /\ m = last
           \/ Holds(u, p, m) /\ (p # "pending" \/ m # 0)
    BY <1>7
  <2>3. ~IsNew(u) /\ \A p \in Places, m \in Nat : Holds(u, p, m) => p = "pending" /\ m = 0
    BY <1>2, <2>1, OnlyThere DEF Places
  <2>4. \A p \in Places, m \in Nat : Holds(u, p, m)' => p = "results" /\ m = last
    BY <2>2, <2>3
  <2> QED
    BY <1>6, <2>3, <2>4, Appears DEF Places
<1>9. CASE u \notin pending_chats
  BY <1>2, <1>6, <1>7, <1>9, StaysThere
<1> QED
  BY <1>8, <1>9

\* A granted command runs; granting a tool that does not exist leads nowhere.
LEMMA GrantOnce ==
    ASSUME ChatInv, OneAnswer, NEW t \in ToolIds, Grant(t) \/ GrantSession(t)
    PROVE  OneAnswer'
<1> SUFFICES ASSUME NEW u \in Uses
             PROVE  Once(u)'
  BY DEF OneAnswer
<1>1. /\ UNCHANGED <<pending_chats, collected_tool_results, kind, messages, events, chats>>
      /\ widget' = [widget EXCEPT ![t] = "executing"] /\ Decidable(t)
  BY DEF Grant, GrantSession, batchVars
<1>2. WidgetTypeOK /\ ToolTypeOK /\ Once(u) /\ t \in Uses
  BY TypeParts DEF ChatInv, OneAnswer, Uses
<1>3. /\ u # t => tool'[u] = tool[u] /\ widget'[u] = widget[u]
      /\ u = t => tool'[u].pc = "spawned" /\ widget'[u] = "executing"
  BY <1>1, <1>2 DEF Grant, GrantSession, spawn_tool_use, ToolTypeOK, WidgetTypeOK
<1>4. IsNew(u)' => IsNew(u)
  BY <1>1, <1>3 DEF IsNew
<1>5. CASE u = t /\ widget[t] = "waiting" /\ kind[t] = "bash"
  <2>1. Holds(u, "widget", 0)
    BY <1>5 DEF Holds
  <2>2. ~IsNew(u) /\ \A p \in Places, m \in Nat : Holds(u, p, m) => p = "widget" /\ m = 0
    BY <1>2, <2>1, OnlyThere DEF Places
  <2>3. \A p \in Places, m \in Nat : Holds(u, p, m)' =>
           \/ p = "task" /\ m = 0
           \/ Holds(u, p, m) /\ (p # "widget" \/ m # 0)
    BY <1>1, <1>3, <1>5 DEF Holds
  <2>4. \A p \in Places, m \in Nat : Holds(u, p, m)' => p = "task" /\ m = 0
    BY <2>2, <2>3
  <2> QED
    BY <1>4, <2>2, <2>4, Appears DEF Places
<1>6. CASE u # t \/ Unknown(t, kind)
  <2>1. \A p \in Places, m \in Nat : Holds(u, p, m)' => Holds(u, p, m)
    BY <1>1, <1>3, <1>6 DEF Holds
  <2> QED
    BY <1>2, <1>4, <2>1, StaysThere
<1> QED
  BY <1>1, <1>5, <1>6 DEF Decidable, Unknown

\* The user's refusal is the answer.
LEMMA RefusedOnce ==
    ASSUME ChatInv, OneAnswer, NEW t \in ToolIds, Refuse(t),
           widget[t] = "waiting" \/ (widget[t] = "initing" /\ Unknown(t, kind)),
           UNCHANGED <<collected_tool_results, kind, messages, events, chats, tool>>
    PROVE  OneAnswer'
<1> SUFFICES ASSUME NEW u \in Uses
             PROVE  Once(u)'
  BY DEF OneAnswer
<1>1. WidgetTypeOK /\ Once(u) /\ t \in Uses
  BY TypeParts DEF ChatInv, OneAnswer, Uses
<1>2. /\ pending_chats' = pending_chats \cup {t}
      /\ u # t => widget'[u] = widget[u]
      /\ u = t => widget'[u] = "cancelled"
  BY <1>1 DEF Refuse, WidgetTypeOK
<1>3. IsNew(u)' => IsNew(u)
  BY <1>2 DEF IsNew
<1>4. CASE u = t
  <2>1. Holds(u, "widget", 0)
    BY <1>4 DEF Holds
  <2>2. ~IsNew(u) /\ \A p \in Places, m \in Nat : Holds(u, p, m) => p = "widget" /\ m = 0
    BY <1>1, <2>1, OnlyThere DEF Places
  <2>3. \A p \in Places, m \in Nat : Holds(u, p, m)' =>
           \/ p = "pending" /\ m = 0
           \/ Holds(u, p, m) /\ (p # "widget" \/ m # 0)
    BY <1>2, <1>4 DEF Holds
  <2>4. \A p \in Places, m \in Nat : Holds(u, p, m)' => p = "pending" /\ m = 0
    BY <2>2, <2>3
  <2> QED
    BY <1>3, <2>2, <2>4, Appears DEF Places
<1>5. CASE u # t
  <2>1. \A p \in Places, m \in Nat : Holds(u, p, m)' => Holds(u, p, m)
    BY <1>2, <1>5 DEF Holds
  <2> QED
    BY <1>1, <1>3, <2>1, StaysThere
<1> QED
  BY <1>4, <1>5

LEMMA CancelToolOnce ==
    ASSUME ChatInv, OneAnswer, NEW t \in ToolIds, NEW key, CancelTool(t, key)
    PROVE  OneAnswer'
BY RefusedOnce DEF CancelTool, Decidable, Unknown, batchVars, taskVars

LEMMA ApplyHunkOnce ==
    ASSUME ChatInv, OneAnswer, NEW t \in ToolIds, ApplyHunk(t)
    PROVE  OneAnswer'
<1> SUFFICES ASSUME NEW u \in Uses
             PROVE  Once(u)'
  BY DEF OneAnswer
<1>1. /\ UNCHANGED <<pending_chats, collected_tool_results, kind, messages, events, chats>>
      /\ widget' = [widget EXCEPT ![t] = "executing"] /\ widget[t] = "waiting"
      /\ tool' = [tool EXCEPT ![t].pc = "applying"]
  BY DEF ApplyHunk, batchVars
<1>2. WidgetTypeOK /\ ToolTypeOK /\ Once(u) /\ t \in Uses
  BY TypeParts DEF ChatInv, OneAnswer, Uses
<1>3. /\ u # t => tool'[u] = tool[u] /\ widget'[u] = widget[u]
      /\ u = t => widget'[u] = "executing"
  BY <1>1, <1>2 DEF ToolTypeOK, WidgetTypeOK
<1>4. IsNew(u)' => IsNew(u)
  BY <1>1, <1>3 DEF IsNew
<1>5. CASE u = t
  <2>1. Holds(u, "widget", 0)
    BY <1>1, <1>5 DEF Holds
  <2>2. ~IsNew(u) /\ \A p \in Places, m \in Nat : Holds(u, p, m) => p = "widget" /\ m = 0
    BY <1>2, <2>1, OnlyThere DEF Places
  <2>3. \A p \in Places, m \in Nat : Holds(u, p, m)' =>
           \/ p = "task" /\ m = 0
           \/ Holds(u, p, m) /\ (p # "widget" \/ m # 0)
    BY <1>1, <1>3, <1>5 DEF Holds
  <2>4. \A p \in Places, m \in Nat : Holds(u, p, m)' => p = "task" /\ m = 0
    BY <2>2, <2>3
  <2> QED
    BY <1>4, <2>2, <2>4, Appears DEF Places
<1>6. CASE u # t
  <2>1. \A p \in Places, m \in Nat : Holds(u, p, m)' => Holds(u, p, m)
    BY <1>1, <1>3, <1>6 DEF Holds
  <2> QED
    BY <1>2, <1>4, <2>1, StaysThere
<1> QED
  BY <1>5, <1>6

LEMMA RejectHunkOnce ==
    ASSUME ChatInv, OneAnswer, NEW t \in ToolIds, NEW key, RejectHunk(t, key)
    PROVE  OneAnswer'
<1>1. /\ UNCHANGED <<collected_tool_results, kind, messages, chats, tool>>
      /\ widget[t] = "waiting"
  BY DEF RejectHunk, batchVars, taskVars
<1>2. CASE hunks[t] = 1
  BY <1>1, <1>2, RefusedOnce DEF RejectHunk
<1>3. CASE hunks[t] # 1
  <2> SUFFICES ASSUME NEW u \in Uses
               PROVE  Once(u)'
    BY DEF OneAnswer
  <2> DEFINE e == [type |-> "TextEdit", ids |-> {t}]
  <2>1. WidgetTypeOK /\ EventsTypeOK /\ Once(u) /\ t \in Uses
    BY TypeParts DEF ChatInv, OneAnswer, Uses
  <2>2. e \in Event /\ Carried(e, kind) = {t}
    BY <2>1 DEF Carried, Event
  <2>3. events' = Append(events, e) /\ UNCHANGED pending_chats
        /\ widget' = [widget EXCEPT ![t] = "cancelled"]
    BY <1>3 DEF RejectHunk, Send
  <2> HIDE DEF e
  <2> PICK last \in Nat : last = Len(events) + 1
    BY <2>1 DEF EventsTypeOK
  <2>4. \A m \in DOMAIN events' :
           \/ m \in DOMAIN events /\ events'[m] = events[m]
           \/ m = last /\ events'[m] = e
    BY <2>1, <2>2, <2>3 DEF EventsTypeOK
  <2>5. /\ u # t => widget'[u] = widget[u]
        /\ u = t => widget'[u] = "cancelled"
    BY <2>1, <2>3 DEF WidgetTypeOK
  <2>6. IsNew(u)' => IsNew(u)
    BY <1>1, <2>5 DEF IsNew
  <2>7. CASE u = t
    <3>1. Holds(u, "widget", 0)
      BY <1>1, <2>7 DEF Holds
    <3>2. ~IsNew(u) /\ \A p \in Places, m \in Nat : Holds(u, p, m) => p = "widget" /\ m = 0
      BY <2>1, <3>1, OnlyThere DEF Places
    <3>3. \A p \in Places, m \in Nat : Holds(u, p, m)' =>
             \/ p = "event" /\ m = last
             \/ Holds(u, p, m) /\ (p # "widget" \/ m # 0)
      BY <1>1, <2>3, <2>4, <2>5, <2>7 DEF Holds
    <3>4. \A p \in Places, m \in Nat : Holds(u, p, m)' => p = "event" /\ m = last
      BY <3>2, <3>3
    <3> QED
      BY <2>6, <3>2, <3>4, Appears DEF Places
  <2>8. CASE u # t
    <3>1. \A p \in Places, m \in Nat : Holds(u, p, m)' => Holds(u, p, m)
      BY <1>1, <2>2, <2>3, <2>4, <2>5, <2>8 DEF Holds
    <3> QED
      BY <2>1, <2>6, <3>1, StaysThere
  <2> QED
    BY <2>7, <2>8
<1> QED
  BY <1>2, <1>3

LEMMA ExecuteManualOnce ==
    ASSUME ChatInv, OneAnswer, NEW r \in ManualRuns, ExecuteManual(r)
    PROVE  OneAnswer'
<1> SUFFICES ASSUME NEW u \in Uses
             PROVE  Once(u)'
  BY DEF OneAnswer
<1> DEFINE prompt == user({})
           call == assistant({r}, {r})
<1>1. /\ UNCHANGED <<pending_chats, collected_tool_results, kind, events, chats>>
      /\ widget' = [widget EXCEPT ![r] = "executing"] /\ widget[r] = "none"
      /\ messages' = messages \o <<prompt, call>>
  BY DEF ExecuteManual, batchVars
<1>2. /\ WidgetTypeOK /\ ToolTypeOK /\ MessagesTypeOK /\ Once(u)
      /\ r \in Uses /\ r \notin ToolIds
  BY TypeParts, IdsAssumption DEF ChatInv, OneAnswer, Uses
<1>3. prompt \in Message /\ call \in Message /\ prompt.results = {} /\ call.results = {}
  BY <1>2 DEF user, assistant, Message
<1> HIDE DEF prompt, call
<1>4. /\ <<prompt, call>> \in Seq(Message) /\ Len(<<prompt, call>>) = 2
      /\ <<prompt, call>>[1] = prompt /\ <<prompt, call>>[2] = call
  BY <1>3
<1>5. \A m \in DOMAIN messages' : \/ m \in DOMAIN messages /\ messages'[m] = messages[m]
                                  \/ messages'[m] \in {prompt, call}
  BY <1>1, <1>2, <1>4 DEF MessagesTypeOK
<1>6. \A m \in DOMAIN messages' : u \in messages'[m].results =>
         m \in DOMAIN messages /\ u \in messages[m].results
  BY <1>3, <1>5
<1>7. /\ u # r => tool'[u] = tool[u] /\ widget'[u] = widget[u]
      /\ u = r => widget'[u] = "executing"
  BY <1>1, <1>2 DEF ExecuteManual, spawn_tool_use, ToolTypeOK, WidgetTypeOK
<1>8. IsNew(u)' => IsNew(u)
  BY <1>1, <1>7 DEF IsNew
<1>9. CASE u = r
  <2>1. IsNew(u) /\ ~IsNew(u)'
    BY <1>1, <1>2, <1>7, <1>9 DEF IsNew
  <2>2. \A p \in Places, m \in Nat : ~Holds(u, p, m)
    BY <1>2, <2>1 DEF Once
  <2>3. \A p \in Places, m \in Nat : Holds(u, p, m)' =>
           \/ p = "task" /\ m = 0
           \/ Holds(u, p, m)
    BY <1>1, <1>6, <1>7, <1>9, ZenonT(30) DEF Holds
  <2>4. \A p \in Places, m \in Nat : Holds(u, p, m)' => p = "task" /\ m = 0
    BY <2>2, <2>3
  <2> QED
    BY <2>1, <2>4, Appears DEF Places
<1>10. CASE u # r
  <2>1. \A p \in Places, m \in Nat : Holds(u, p, m)' => Holds(u, p, m)
    BY <1>1, <1>6, <1>7, <1>10, ZenonT(30) DEF Holds
  <2> QED
    BY <1>2, <1>8, <2>1, StaysThere
<1> QED
  BY <1>9, <1>10

LEMMA NothingMovesOnce ==
    ASSUME OneAnswer,
           UNCHANGED <<pending_chats, collected_tool_results, kind, widget, tool, messages,
                       events, chats>>
    PROVE  OneAnswer'
BY DEF OneAnswer, Once, Holds, IsNew

LEMMA PressOnce ==
    ASSUME ChatInv, OneAnswer,
           PressToCancel \/ Disarm \/ \E t \in ToolIds : PressToRefuse(t)
    PROVE  OneAnswer'
<1>1. CASE PressToCancel \/ Disarm
  BY <1>1, NothingMovesOnce
  DEF PressToCancel, Disarm, chatVars, batchVars, widgetVars, taskVars
<1>2. ASSUME NEW t \in ToolIds, PressToRefuse(t)
      PROVE  OneAnswer'
  <2>1. CASE CancelTool(t, "CtrlC") \/ RejectHunk(t, "CtrlC")
    BY <2>1, CancelToolOnce, RejectHunkOnce
  <2>2. CASE UNCHANGED <<chatVars, widgetVars, grantVars, cancel_token, fires, prompts,
                         events, taskVars, messages, app, ghostVars>>
    BY <2>2, NothingMovesOnce DEF chatVars, batchVars, widgetVars, taskVars
  <2> QED
    BY <1>2, <2>1, <2>2 DEF PressToRefuse
<1> QED
  BY <1>1, <1>2

-----------------------------------------------------------------------------
(* No tool use has two answers *)

LEMMA OneAnswerNextKeeps ==
    ASSUME ChatInv, OneAnswer, [Next]_vars
    PROVE  OneAnswer'
<1>1. CASE UNCHANGED vars
  BY <1>1, NothingMovesOnce DEF vars, chatVars, batchVars, widgetVars, taskVars
<1>2. ASSUME NEW t \in Uses, ToolStep(t) \/ ComboProgresses(t)
      PROVE  OneAnswer'
  BY <1>2, ToolTasksOnce
<1>3. ASSUME NEW n \in DOMAIN chats, ChatStep(n)
      PROVE  OneAnswer'
  BY <1>3, ChatStartsOnce, ChatFailsOnce, ChatAnswersOnce, ChatExecutesOnce DEF ChatStep
<1>4. CASE HandleEvent
  BY <1>4, HandleStateOnce, HandleBotOnce, HandleAsksUserOnce, HandleToolResultOnce
  DEF HandleEvent
<1>5. CASE UserStep
  BY <1>5, SubmitOnce, GrantOnce, CancelToolOnce, ApplyHunkOnce, RejectHunkOnce,
     ExecuteManualOnce, PressOnce DEF UserStep
<1> QED
  BY <1>1, <1>2, <1>3, <1>4, <1>5, PressOnce DEF Next, Running

LEMMA OneAnswerInvariant == Spec => []OneAnswer
<1>1. Init => OneAnswer
  <2>1. NoTask.pc = "none"
    BY DEF NoTask
  <2> QED
    BY <2>1 DEF Init, OneAnswer, Once, Holds, IsNew, Uses
<1>2. ChatInv /\ OneAnswer /\ [Next]_vars => OneAnswer'
  BY OneAnswerNextKeeps
<1> QED
  BY <1>1, <1>2, ChatInvariant, PTL DEF Spec

LEMMA AtMostOne ==
    ASSUME NEW S, \A x, y \in S : x = y
    PROVE  Cardinality(S) \in {0, 1} /\ (Cardinality(S) = 0 <=> S = {})
<1>1. CASE S = {}
  BY <1>1, FS_EmptySet
<1>2. CASE S # {}
  <2>1. PICK x : S = {x}
    BY <1>2
  <2> QED
    BY <2>1, FS_Singleton
<1> QED
  BY <1>1, <1>2

\* Whatever is granted, rejected, cancelled, collected or sent in between: no tool use
\* is answered twice.
THEOREM AnswersCorrect == Spec => []AnsweredAtMostOnce
<1>1. ChatInv /\ OneAnswer => AnsweredAtMostOnce
  <2> SUFFICES ASSUME ChatInv, OneAnswer, NEW t \in Uses
               PROVE  Cardinality({n \in DOMAIN messages : t \in messages[n].results})
                      + Cardinality({n \in DOMAIN chats : t \in chats[n].results})
                      + Cardinality({x \in {pending_chats, collected_tool_results} : t \in x})
                      <= 1
    BY DEF AnsweredAtMostOnce
  <2> DEFINE A == {n \in DOMAIN messages : t \in messages[n].results}
             B == {n \in DOMAIN chats : t \in chats[n].results}
             C == {x \in {pending_chats, collected_tool_results} : t \in x}
  <2>1. \A p, q \in Places, m, n \in Nat : Holds(t, p, m) /\ Holds(t, q, n) => p = q /\ m = n
    BY DEF OneAnswer, Once
  <2>2. \A n \in A : n \in Nat /\ Holds(t, "message", n)
    BY TypeParts DEF ChatInv, MessagesTypeOK, Holds
  <2>3. \A n \in B : n \in Nat /\ Holds(t, "results", n)
    BY TypeParts DEF ChatInv, ChatsTypeOK, Holds
  <2>4. \A x \in C : \/ x = pending_chats /\ Holds(t, "pending", 0)
                     \/ x = collected_tool_results /\ Holds(t, "collected", 0)
    BY DEF Holds
  <2> HIDE DEF A, B, C
  <2>5. /\ \A x, y \in A : x = y
        /\ \A x, y \in B : x = y
        /\ \A x, y \in C : x = y
    BY <2>1, <2>2, <2>3, <2>4 DEF Places
  <2>6. /\ A # {} => B = {} /\ C = {}
        /\ B # {} => C = {}
    BY <2>1, <2>2, <2>3, <2>4 DEF Places
  <2>7. /\ Cardinality(A) \in {0, 1} /\ (Cardinality(A) = 0 <=> A = {})
        /\ Cardinality(B) \in {0, 1} /\ (Cardinality(B) = 0 <=> B = {})
        /\ Cardinality(C) \in {0, 1} /\ (Cardinality(C) = 0 <=> C = {})
    BY <2>5, AtMostOne
  <2> QED
    BY <2>6, <2>7 DEF A, B, C
<1> QED
  BY <1>1, ChatInvariant, OneAnswerInvariant, PTL

-----------------------------------------------------------------------------
(* A turn that nobody disturbs *)

Calm == ~interfered /\ ~batch_cancelled

Many(uses) == Cardinality(uses) > 1

\* What the last message of the history asks for, and what the component ran of it
Asked == IF messages = <<>> THEN {} ELSE messages[Len(messages)].uses
Open  == IF messages = <<>> THEN {} ELSE messages[Len(messages)].execute

InQueue(type) == \E n \in DOMAIN events : events[n].type = type

AllDone == \A n \in DOMAIN chats : chats[n].pc = "done"

FromChat == {"AskBot", "Bot", "Pending"}

\* The result of t is being worked for, or was collected.
AtWork(t) ==
    \/ tool[t].pc \in {"running", "applying"}
    \/ tool[t].pc = "spawned" /\ ~Unknown(t, kind)
    \/ \E n \in DOMAIN events : /\ events[n].type \in {"Permission", "TextEdit", "ToolResult"}
                                /\ t \in events[n].ids
    \/ t \in ToolIds /\ widget[t] = "waiting"
    \/ t \in collected_tool_results

\* Only the last request is under way; then nothing else is, and it was spawned with the
\* answers to the last message.
RequestInv ==
    \A n \in DOMAIN chats : chats[n].pc # "done" =>
       /\ n = Len(chats) /\ chats[n].token = cancel_token
       /\ pending_chats = {} /\ pending_tool_ids = {} /\ \A t \in Uses : ~AtWork(t)
       /\ ~InQueue("Pending")
       /\ chats[n].pc = "spawned" =>
             /\ ~InQueue("AskBot") /\ ~InQueue("Bot")
             /\ Open \subseteq chats[n].results /\ chats[n].results \subseteq Asked
       /\ chats[n].pc = "asking" =>
             /\ ~InQueue("Bot") /\ Open = {}
             /\ messages # <<>> /\ messages[Len(messages)].role = "user"
             /\ state = "Processing" \/ InQueue("AskBot")
       /\ chats[n].pc = "responded" => Open = chats[n].execute

\* What a request has to say comes before the results of the tools it started.
QueueInv ==
    /\ ~InQueue("Cancelled")
    /\ \A n \in DOMAIN events :
          /\ events[n].type = "Bot" /\ events[n].ids = {} => Open = {}
          /\ events[n].type = "Pending" =>
                /\ events[n].ids = Open /\ Many(Open)
                /\ pending_tool_ids = {} /\ collected_tool_results = {}
    /\ \A m, n \in DOMAIN events :
          /\ events[m].type \in FromChat /\ events[n].type = "ToolResult" => m < n
          /\ events[m].type = "Pending" /\ events[n].type = "Pending" => m = n

WorkInv == \A t \in Uses : AtWork(t) => t \in Open

\* A batch is collected until it is complete; nobody refuses one of its members.
BatchInv ==
    /\ pending_tool_ids \subseteq Open
    /\ AllDone /\ Many(Open) /\ ~InQueue("Pending") =>
          pending_tool_ids \cup collected_tool_results = Open
    /\ ~Many(Open) => pending_tool_ids = {} /\ collected_tool_results = {}
    /\ Many(Open) => pending_chats \cap Open = {}

\* The component is ready if the answers are known, or not yet aware of the request.
ReadyInv ==
    /\ state = "Ready" /\ ~InQueue("AskBot")
    /\ \A n \in DOMAIN chats : chats[n].pc # "spawned"
    => Open \subseteq pending_chats

MessageInv ==
    /\ pending_chats \subseteq Asked
    /\ Open \subseteq Asked /\ IsFiniteSet(Open)
    /\ Open = {} \/ \A t \in Asked \cap ToolIds : kind[t] # "reply" => t \in Open
    /\ \A t \in ToolIds : kind[t] # "none" => messages # <<>>

TurnInv ==
    RequestInv /\ QueueInv /\ WorkInv /\ BatchInv /\ ReadyInv /\ MessageInv
    /\ EveryUseIsAnswered

LEMMA ManyFacts ==
    /\ ~Many({}) /\ \A t : ~Many({t})
    /\ \A S, t : IsFiniteSet(S) /\ t \in S /\ ~Many(S) => S = {t}
<1>1. ~Many({}) /\ \A t : ~Many({t})
  BY FS_EmptySet, FS_Singleton DEF Many
<1>2. ASSUME NEW S, NEW t \in S, IsFiniteSet(S), ~Many(S)
      PROVE  S = {t}
  <2>1. Cardinality(S) \in Nat /\ Cardinality(S) \in {0, 1}
    BY <1>2, FS_CardinalityType DEF Many
  <2>2. Cardinality(S) # 0
    BY <1>2, FS_EmptySet
  <2>3. PICK x : S = {x}
    BY <1>2, <2>1, <2>2, FS_Singleton
  <2> QED
    BY <2>3
<1> QED
  BY <1>1, <1>2

\* Who is at work has a place, and not that of a collected result.
LEMMA AtWorkHolds ==
    ASSUME ChatInv, NEW t \in Uses, AtWork(t)
    PROVE  \/ t \in collected_tool_results
           \/ \E p \in {"task", "event", "widget"}, n \in Nat : Holds(t, p, n)
<1>1. \A n \in DOMAIN events : n \in Nat
  BY TypeParts DEF ChatInv, EventsTypeOK
<1> QED
  BY <1>1 DEF AtWork, Holds, Carried

LEMMA OpenStays ==
    ASSUME UNCHANGED messages
    PROVE  Open' = Open /\ Asked' = Asked
BY DEF Open, Asked

LEMMA OpenAppended ==
    ASSUME MessagesTypeOK, NEW m \in Message, messages' = Append(messages, m)
    PROVE  Open' = m.execute /\ Asked' = m.uses /\ messages' # <<>>
           /\ messages'[Len(messages')] = m
<1>1. /\ messages' # <<>> /\ messages'[Len(messages')] = m
  BY DEF MessagesTypeOK
<1> QED
  BY <1>1 DEF Open, Asked

\* The answers to a message come in the next one.
LEMMA NextAnswers ==
    ASSUME MessagesTypeOK, EveryUseIsAnswered, NEW m \in Message,
           messages' = Append(messages, m),
           messages # <<>> /\ messages[Len(messages)].role = "assistant" =>
              Open \subseteq m.results /\ m.results \subseteq Asked
    PROVE  EveryUseIsAnswered'
<1>1. /\ Len(messages) \in Nat /\ Len(messages') = Len(messages) + 1
      /\ \A n \in 1..Len(messages) : messages'[n] = messages[n]
      /\ messages'[Len(messages) + 1] = m
      /\ Len(messages) # 0 => messages # <<>>
  BY DEF MessagesTypeOK
<1>2. ASSUME NEW n \in 1..(Len(messages') - 1), messages'[n].role = "assistant"
      PROVE  /\ messages'[n].execute \subseteq messages'[n + 1].results
             /\ messages'[n + 1].results \subseteq messages'[n].uses
  <2>1. CASE n = Len(messages)
    BY <1>1, <1>2, <2>1 DEF Open, Asked
  <2>2. CASE n # Len(messages)
    <3>1. n \in 1..(Len(messages) - 1) /\ n + 1 \in 1..Len(messages)
      BY <1>1, <1>2, <2>2
    <3> QED
      BY <1>1, <1>2, <3>1 DEF EveryUseIsAnswered
  <2> QED
    BY <2>1, <2>2
<1> QED
  BY <1>2 DEF EveryUseIsAnswered

\* The turn goes on: a step that neither starts nor ends a request, and hands nobody's
\* result to anybody.
LEMMA GoesOn ==
    ASSUME ChatInv, EventsTypeOK', TurnInv, NEW k \in {0, 1},
           UNCHANGED <<pending_chats, pending_tool_ids, collected_tool_results, kind, chats,
                       messages>>,
           cancel_token' = cancel_token \/ AllDone,
           \A t \in Uses : AtWork(t)' => AtWork(t),
           \A m \in DOMAIN events' :
              \/ m + k \in DOMAIN events /\ events'[m] = events[m + k]
              \/ /\ \A n \in DOMAIN events : n < m + k
                 /\ events'[m].type \notin FromChat \cup {"Cancelled"},
           InQueue("Pending") => InQueue("Pending")',
           \/ (state = "Processing" \/ InQueue("AskBot"))
              => (state' = "Processing" \/ InQueue("AskBot")')
           \/ Open = {} /\ \A n \in DOMAIN chats : chats[n].pc # "asking"
    PROVE  TurnInv'
<1>1. /\ \A n \in DOMAIN events : n \in Nat
      /\ \A n \in DOMAIN events' : n \in Nat
      /\ state \in {"Ready", "Processing"}
  <2>1. EventsTypeOK /\ StateTypeOK
    BY TypeParts DEF ChatInv
  <2> QED
    BY <2>1 DEF EventsTypeOK, StateTypeOK
<1>2. Open' = Open /\ Asked' = Asked
  BY OpenStays
<1>3. \A type \in FromChat \cup {"Cancelled"} : InQueue(type)' => InQueue(type)
  BY DEF InQueue
<1>4. RequestInv'
  <2> SUFFICES ASSUME NEW n \in DOMAIN chats, chats[n].pc # "done"
               PROVE  RequestInv!(n)'
    BY DEF RequestInv
  <2> QED
    BY <1>2, <1>3 DEF TurnInv, RequestInv, FromChat, AllDone
<1>5. QueueInv'
  <2>1. \A m \in DOMAIN events' : events'[m].type \in FromChat =>
           m + k \in DOMAIN events /\ events'[m] = events[m + k]
    OBVIOUS
  <2>2. ~InQueue("Cancelled")'
    BY <1>3 DEF TurnInv, QueueInv
  <2>3. ASSUME NEW n \in DOMAIN events'
        PROVE  /\ events'[n].type = "Bot" /\ events'[n].ids = {} => Open' = {}
               /\ events'[n].type = "Pending" =>
                     /\ events'[n].ids = Open' /\ Many(Open')
                     /\ pending_tool_ids' = {} /\ collected_tool_results' = {}
    BY <1>2, <2>1 DEF TurnInv, QueueInv, FromChat
  <2>4. ASSUME NEW m \in DOMAIN events', NEW n \in DOMAIN events'
        PROVE  /\ events'[m].type \in FromChat /\ events'[n].type = "ToolResult" => m < n
               /\ events'[m].type = "Pending" /\ events'[n].type = "Pending" => m = n
    BY <1>1, <2>1 DEF TurnInv, QueueInv, FromChat
  <2> QED
    BY <2>2, <2>3, <2>4 DEF QueueInv
<1>6. WorkInv' /\ BatchInv' /\ MessageInv'
  BY <1>2 DEF TurnInv, WorkInv, BatchInv, MessageInv, AllDone
<1>7. ReadyInv'
  BY <1>1, <1>2 DEF TurnInv, ReadyInv
<1>8. EveryUseIsAnswered'
  BY DEF TurnInv, EveryUseIsAnswered
<1> QED
  BY <1>4, <1>5, <1>6, <1>7, <1>8 DEF TurnInv

LEMMA TypeAfter ==
    ASSUME ChatInv'
    PROVE  /\ EventsTypeOK' /\ ChatsTypeOK' /\ MessagesTypeOK' /\ ToolTypeOK' /\ WidgetTypeOK'
           /\ StateTypeOK' /\ BatchTypeOK'
BY DEF ChatInv, TypeOK, EventsTypeOK, ChatsTypeOK, MessagesTypeOK, ToolTypeOK, WidgetTypeOK,
       StateTypeOK, BatchTypeOK

-----------------------------------------------------------------------------
(* The tasks of the tools *)

\* A tool's task reports about itself only.
LEMMA TaskGoesOn ==
    ASSUME ChatInv, ChatInv', TurnInv, NEW t \in Uses, tool[t].pc # "spawned" \/ ~Unknown(t, kind),
           tool[t].pc \in {"spawned", "running", "applying"},
           UNCHANGED <<chatVars, kind, widget, cancel_token, chats, messages>>,
           \A u \in Uses : u # t => tool'[u] = tool[u],
           \A m \in DOMAIN events' :
              \/ m \in DOMAIN events /\ events'[m] = events[m]
              \/ /\ \A n \in DOMAIN events : n < m
                 /\ events'[m].type \notin FromChat \cup {"Cancelled"}
                 /\ events'[m].ids \subseteq {t},
           \A m \in DOMAIN events : m \in DOMAIN events' /\ events'[m] = events[m]
    PROVE  TurnInv'
<1>1. UNCHANGED <<pending_chats, pending_tool_ids, collected_tool_results, state>>
  BY DEF chatVars, batchVars
<1>2. EventsTypeOK' /\ EventsTypeOK
  BY TypeAfter, TypeParts DEF ChatInv
<1>3. AtWork(t)
  BY DEF AtWork
<1>4. \A u \in Uses : AtWork(u)' => AtWork(u)
  <2> SUFFICES ASSUME NEW u \in Uses, u # t, AtWork(u)'
               PROVE  AtWork(u)
    BY <1>3
  <2>1. \A m \in DOMAIN events' : u \in events'[m].ids =>
           m \in DOMAIN events /\ events'[m] = events[m]
    OBVIOUS
  <2> QED
    BY <1>1, <2>1 DEF AtWork
<1>5. \A m \in DOMAIN events' :
         \/ m + 0 \in DOMAIN events /\ events'[m] = events[m + 0]
         \/ /\ \A n \in DOMAIN events : n < m + 0
            /\ events'[m].type \notin FromChat \cup {"Cancelled"}
  BY <1>2 DEF EventsTypeOK
<1>6. \A type : InQueue(type) => InQueue(type)'
  BY DEF InQueue
<1> QED
  BY <1>1, <1>2, <1>4, <1>5, <1>6, GoesOn

LEMMA ToolEndsTurn ==
    ASSUME ChatInv, ChatInv', TurnInv, NEW t \in Uses, ToolDone(t),
           tool[t].pc # "spawned" \/ ~Unknown(t, kind),
           tool[t].pc \in {"spawned", "running", "applying"},
           NEW type \in {"Permission", "TextEdit", "ToolResult"},
           UNCHANGED events \/ Send(type, {t}),
           UNCHANGED <<chatVars, kind, widget, guardVars, chats, messages>>
    PROVE  TurnInv'
<1>1. EventsTypeOK /\ ToolTypeOK
  BY TypeParts DEF ChatInv
<1>2. \A u \in Uses : u # t => tool'[u] = tool[u]
  BY <1>1 DEF ToolDone, ToolTypeOK
<1>3. UNCHANGED cancel_token
  BY DEF guardVars
<1>4. CASE UNCHANGED events
  BY <1>2, <1>3, <1>4, TaskGoesOn
<1>5. CASE Send(type, {t})
  <2> DEFINE e == [type |-> type, ids |-> {t}]
  <2>1. e \in Event /\ events' = Append(events, e)
    BY <1>5 DEF Send, Event
  <2>2. e.type \notin FromChat \cup {"Cancelled"} /\ e.ids \subseteq {t}
    BY DEF FromChat
  <2> HIDE DEF e
  <2>3. /\ \A m \in DOMAIN events' :
              \/ m \in DOMAIN events /\ events'[m] = events[m]
              \/ (\A n \in DOMAIN events : n < m) /\ events'[m] = e
        /\ \A m \in DOMAIN events : m \in DOMAIN events' /\ events'[m] = events[m]
    BY <1>1, <2>1 DEF EventsTypeOK
  <2>4. \A m \in DOMAIN events' :
           \/ m \in DOMAIN events /\ events'[m] = events[m]
           \/ /\ \A n \in DOMAIN events : n < m
              /\ events'[m].type \notin FromChat \cup {"Cancelled"}
              /\ events'[m].ids \subseteq {t}
    BY <2>2, <2>3
  <2> QED
    BY <1>2, <1>3, <2>3, <2>4, TaskGoesOn
<1> QED
  BY <1>4, <1>5

\* A step that is not about messages, events or requests, and after which nobody is at
\* work who was not before
LEMMA StillGoesOn ==
    ASSUME ChatInv, ChatInv', TurnInv,
           UNCHANGED <<pending_chats, pending_tool_ids, collected_tool_results, kind, chats,
                       messages, events>>,
           cancel_token' = cancel_token \/ AllDone,
           \A t \in Uses : AtWork(t)' => AtWork(t),
           state' \in {state, "Processing"}
    PROVE  TurnInv'
<1>1. EventsTypeOK /\ EventsTypeOK'
  BY TypeAfter, TypeParts DEF ChatInv
<1>2. \A m \in DOMAIN events' : m + 0 \in DOMAIN events /\ events'[m] = events[m + 0]
  BY <1>1 DEF EventsTypeOK
<1>3. \A type : InQueue(type) => InQueue(type)'
  BY DEF InQueue
<1>4. (state = "Processing" \/ InQueue("AskBot")) => (state' = "Processing" \/ InQueue("AskBot")')
  BY <1>3
<1> QED
  BY <1>1, <1>2, <1>3, <1>4, GoesOn

LEMMA ToolStartsTurn ==
    ASSUME ChatInv, ChatInv', TurnInv, NEW t \in Uses, ToolStarts(t)
    PROVE  TurnInv'
<1>1. /\ tool[t].pc = "spawned" /\ ToolTypeOK /\ EventsTypeOK
      /\ UNCHANGED <<chatVars, kind, widget, guardVars, cancel_token, chats, messages>>
      /\ UNCHANGED <<pending_chats, pending_tool_ids, collected_tool_results, state>>
  BY TypeParts DEF ToolStarts, widgetVars, guardVars, chatVars, batchVars, ChatInv
<1>2. CASE Unknown(t, kind)
  <2>1. ToolDone(t) /\ UNCHANGED events
    BY <1>2 DEF ToolStarts, Unknown
  <2>2. tool'[t].pc = "done" /\ \A u \in Uses : u # t => tool'[u] = tool[u]
    BY <1>1, <2>1, DoneTask DEF ToolDone, ToolTypeOK
  <2>3. \A u \in Uses : AtWork(u)' => AtWork(u)
    BY <1>1, <2>1, <2>2 DEF AtWork
  <2> QED
    BY <1>1, <2>1, <2>3, StillGoesOn
<1>3. CASE ~Unknown(t, kind) /\ ToolDone(t) /\ (UNCHANGED events \/ Send("Permission", {t}))
  BY <1>1, <1>3, ToolEndsTurn
<1>4. CASE /\ ~Unknown(t, kind)
           /\ tool' = [tool EXCEPT ![t].pc = "running"] /\ UNCHANGED events
  <2>1. \A u \in Uses : u # t => tool'[u] = tool[u]
    BY <1>1, <1>4 DEF ToolTypeOK
  <2>2. \A u \in Uses : AtWork(u)' => AtWork(u)
    BY <1>1, <1>4, <2>1 DEF AtWork
  <2> QED
    BY <1>1, <1>4, <2>2, StillGoesOn
<1> QED
  BY <1>2, <1>3, <1>4 DEF ToolStarts, Unknown

LEMMA EditProposedTurn ==
    ASSUME ChatInv, ChatInv', TurnInv, NEW t \in Uses, NEW h, NEW auto,
           EditProposed(t, h, auto)
    PROVE  TurnInv'
<1>1. /\ tool[t].pc = "running" /\ ToolDone(t) /\ ToolTypeOK /\ EventsTypeOK
      /\ UNCHANGED <<chatVars, kind, widget, guardVars, cancel_token, chats, messages>>
  BY TypeParts DEF EditProposed, guardVars, ChatInv
<1>2. CASE Send("TextEdit", {t})
  BY <1>1, <1>2, ToolEndsTurn
<1>3. CASE events' = events \o <<[type |-> "AutoEdit", ids |-> {t}],
                                 [type |-> "ToolResult", ids |-> {t}]>>
  <2> DEFINE a == [type |-> "AutoEdit", ids |-> {t}]
             b == [type |-> "ToolResult", ids |-> {t}]
  <2>1. /\ a \in Event /\ b \in Event /\ a.ids \subseteq {t} /\ b.ids \subseteq {t}
        /\ {a.type, b.type} \cap (FromChat \cup {"Cancelled"}) = {}
    BY DEF Event, FromChat
  <2>2. events' = events \o <<a, b>>
    BY <1>3
  <2> HIDE DEF a, b
  <2>3. <<a, b>> \in Seq(Event) /\ Len(<<a, b>>) = 2
        /\ <<a, b>>[1] = a /\ <<a, b>>[2] = b
    BY <2>1
  <2>4. /\ \A m \in DOMAIN events' :
              \/ m \in DOMAIN events /\ events'[m] = events[m]
              \/ (\A n \in DOMAIN events : n < m) /\ events'[m] \in {a, b}
        /\ \A m \in DOMAIN events : m \in DOMAIN events' /\ events'[m] = events[m]
    BY <1>1, <2>2, <2>3 DEF EventsTypeOK
  <2>5. \A m \in DOMAIN events' :
           \/ m \in DOMAIN events /\ events'[m] = events[m]
           \/ /\ \A n \in DOMAIN events : n < m
              /\ events'[m].type \notin FromChat \cup {"Cancelled"}
              /\ events'[m].ids \subseteq {t}
    BY <2>1, <2>4
  <2>6. \A u \in Uses : u # t => tool'[u] = tool[u]
    BY <1>1 DEF ToolDone, ToolTypeOK
  <2> QED
    BY <1>1, <2>4, <2>5, <2>6, TaskGoesOn
<1> QED
  BY <1>2, <1>3 DEF EditProposed

LEMMA ComboProgressesTurn ==
    ASSUME ChatInv, ChatInv', TurnInv, NEW t \in Uses, ComboProgresses(t)
    PROVE  TurnInv'
<1> DEFINE e == [type |-> "ComboProgress", ids |-> {t}]
<1>1. /\ tool[t].pc = "running" /\ EventsTypeOK
      /\ UNCHANGED <<chatVars, kind, widget, cancel_token, chats, messages, tool>>
  BY TypeParts DEF ComboProgresses, widgetVars, guardVars, taskVars, ChatInv
<1>2. /\ e \in Event /\ events' = Append(events, e)
      /\ e.type \notin FromChat \cup {"Cancelled"} /\ e.ids \subseteq {t}
  BY DEF ComboProgresses, Send, Event, FromChat
<1> HIDE DEF e
<1>3. /\ \A m \in DOMAIN events' :
            \/ m \in DOMAIN events /\ events'[m] = events[m]
            \/ (\A n \in DOMAIN events : n < m) /\ events'[m] = e
      /\ \A m \in DOMAIN events : m \in DOMAIN events' /\ events'[m] = events[m]
  BY <1>1, <1>2 DEF EventsTypeOK
<1>4. \A m \in DOMAIN events' :
         \/ m \in DOMAIN events /\ events'[m] = events[m]
         \/ /\ \A n \in DOMAIN events : n < m
            /\ events'[m].type \notin FromChat \cup {"Cancelled"}
            /\ events'[m].ids \subseteq {t}
  BY <1>2, <1>3
<1> QED
  BY <1>1, <1>3, <1>4, TaskGoesOn

LEMMA ToolTasksTurn ==
    ASSUME ChatInv, ChatInv', TurnInv, NEW t \in Uses, ToolStep(t) \/ ComboProgresses(t)
    PROVE  TurnInv'
<1>1. CASE ToolFinishes(t)
  BY <1>1, ToolEndsTurn DEF ToolFinishes, widgetVars
<1>2. CASE ToolStopsSilently(t)
  BY <1>2, ToolEndsTurn DEF ToolStopsSilently, widgetVars
<1>3. CASE \E failed \in BOOLEAN : HunkApplied(t, failed)
  BY <1>3, ToolEndsTurn DEF HunkApplied
<1> QED
  BY <1>1, <1>2, <1>3, ToolStartsTurn, EditProposedTurn, ComboProgressesTurn DEF ToolStep

-----------------------------------------------------------------------------
(* Events that only show something *)

LEMMA OthersStay ==
    ASSUME EventsTypeOK, NEW type, Receive(type)
    PROVE  \A any : any # type /\ InQueue(any) => InQueue(any)'
<1> SUFFICES ASSUME NEW any, any # type, NEW m \in DOMAIN events, events[m].type = any
             PROVE  InQueue(any)'
  BY DEF InQueue
<1>1. events[1].type = type
  BY ReceivedPlaces
<1>2. m - 1 \in DOMAIN events' /\ events'[m - 1] = events[m]
  BY <1>1 DEF Receive, EventsTypeOK
<1> QED
  BY <1>2 DEF InQueue

LEMMA HandleStateTurn ==
    ASSUME ChatInv, ChatInv', TurnInv,
           \/ HandleAskBot \/ HandleCancelled \/ HandleAutoEdit \/ HandleComboProgress
    PROVE  TurnInv'
<1>1. EventsTypeOK /\ EventsTypeOK' /\ WidgetTypeOK
  BY TypeAfter, TypeParts DEF ChatInv
<1>2. PICK type \in {"AskBot", "AutoEdit", "ComboProgress", "Cancelled"} : Receive(type)
  BY DEF HandleAskBot, HandleCancelled, HandleAutoEdit, HandleComboProgress
<1>3. /\ 1 \in DOMAIN events /\ events[1].type = type
      /\ \A m \in DOMAIN events' : m + 1 \in DOMAIN events /\ events'[m] = events[m + 1]
  BY <1>1, <1>2, ReceivedPlaces
<1>4. type # "Cancelled"
  BY <1>3 DEF TurnInv, QueueInv, InQueue
<1>5. ~HandleCancelled
  BY <1>2, <1>4 DEF HandleCancelled, Receive
<1>6. /\ UNCHANGED <<pending_chats, pending_tool_ids, collected_tool_results, kind, chats,
                     messages, cancel_token, tool>>
      /\ type = "AutoEdit" => state' = state
      /\ type # "AutoEdit" => state' = "Processing"
      /\ \A t \in Uses : widget'[t] \in {widget[t], "executing"}
  BY <1>1, <1>2, <1>5
  DEF HandleAskBot, HandleAutoEdit, HandleComboProgress, Receive, chatVars, batchVars,
      widgetVars, guardVars, taskVars, set_processing, WidgetTypeOK
<1>7. \A t \in Uses : AtWork(t)' => AtWork(t)
  BY <1>3, <1>6 DEF AtWork, Uses
<1>8. \A any : any # type /\ InQueue(any) => InQueue(any)'
  BY <1>1, <1>2, OthersStay
<1>9. (state = "Processing" \/ InQueue("AskBot")) => (state' = "Processing" \/ InQueue("AskBot")')
  BY <1>2, <1>6, <1>8
<1> QED
  BY <1>1, <1>3, <1>6, <1>7, <1>8, <1>9, GoesOn

\* The component becomes ready only if the answer has no tool uses.
LEMMA HandleBotTurn ==
    ASSUME ChatInv, ChatInv', TurnInv, HandleBot
    PROVE  TurnInv'
<1>1. EventsTypeOK /\ EventsTypeOK' /\ WidgetTypeOK
  BY TypeAfter, TypeParts DEF ChatInv
<1>2. Receive("Bot")
  BY DEF HandleBot
<1>3. /\ 1 \in DOMAIN events /\ events[1] = Head(events) /\ events[1].type = "Bot"
      /\ \A m \in DOMAIN events' : m + 1 \in DOMAIN events /\ events'[m] = events[m + 1]
  BY <1>1, <1>2, ReceivedPlaces
<1>4. /\ UNCHANGED <<pending_chats, pending_tool_ids, collected_tool_results, kind, chats,
                     messages, cancel_token, tool>>
      /\ \A t \in Uses : widget'[t] \in {widget[t], "initing"}
      /\ events[1].ids # {} => state' = state
  BY <1>1, <1>3 DEF HandleBot, batchVars, taskVars, WidgetTypeOK
<1>5. \A t \in Uses : AtWork(t)' => AtWork(t)
  BY <1>3, <1>4 DEF AtWork, Uses
<1>6. \A any : any # "Bot" /\ InQueue(any) => InQueue(any)'
  BY <1>1, <1>2, OthersStay
<1>7. \A n \in DOMAIN chats : chats[n].pc # "asking"
  BY <1>3 DEF TurnInv, RequestInv, InQueue
<1>8. events[1].ids = {} => Open = {}
  BY <1>3 DEF TurnInv, QueueInv
<1>9. \/ (state = "Processing" \/ InQueue("AskBot"))
         => (state' = "Processing" \/ InQueue("AskBot")')
      \/ Open = {} /\ \A n \in DOMAIN chats : chats[n].pc # "asking"
  BY <1>4, <1>6, <1>7, <1>8
<1> QED
  BY <1>1, <1>3, <1>4, <1>5, <1>6, <1>9, GoesOn

LEMMA HandleAsksUserTurn ==
    ASSUME ChatInv, ChatInv', TurnInv, HandleAsksUser
    PROVE  TurnInv'
<1>1. EventsTypeOK /\ EventsTypeOK' /\ WidgetTypeOK
  BY TypeAfter, TypeParts DEF ChatInv
<1>2. PICK type \in {"Permission", "TextEdit"} : Receive(type)
  BY DEF HandleAsksUser
<1>3. /\ 1 \in DOMAIN events /\ events[1] = Head(events) /\ events[1].type = type
      /\ \A m \in DOMAIN events' : m + 1 \in DOMAIN events /\ events'[m] = events[m + 1]
  BY <1>1, <1>2, ReceivedPlaces
<1>4. /\ UNCHANGED <<pending_chats, pending_tool_ids, collected_tool_results, kind, chats,
                     messages, cancel_token, tool, state>>
      /\ \A t \in Uses : widget'[t] = IF t \in events[1].ids THEN "waiting" ELSE widget[t]
  BY <1>1, <1>3 DEF HandleAsksUser, batchVars, taskVars, guardVars, WidgetTypeOK
<1>5. \A t \in Uses : AtWork(t)' => AtWork(t)
  <2> SUFFICES ASSUME NEW t \in Uses, AtWork(t)'
               PROVE  AtWork(t)
    OBVIOUS
  <2>1. CASE t \in events[1].ids
    BY <1>2, <1>3, <2>1 DEF AtWork
  <2>2. CASE t \notin events[1].ids
    BY <1>3, <1>4, <2>2 DEF AtWork
  <2> QED
    BY <2>1, <2>2
<1>6. \A any : any # type /\ InQueue(any) => InQueue(any)'
  BY <1>1, <1>2, OthersStay
<1>7. (state = "Processing" \/ InQueue("AskBot")) => (state' = "Processing" \/ InQueue("AskBot")')
  BY <1>2, <1>4, <1>6
<1> QED
  BY <1>1, <1>2, <1>3, <1>4, <1>5, <1>6, <1>7, GoesOn

-----------------------------------------------------------------------------
(* Keys that only let something go on *)

LEMMA GrantTurn ==
    ASSUME ChatInv, ChatInv', TurnInv, NEW t \in ToolIds, Grant(t) \/ GrantSession(t)
    PROVE  TurnInv'
<1>1. /\ UNCHANGED <<pending_chats, pending_tool_ids, collected_tool_results, kind, chats,
                     messages, events, cancel_token>>
      /\ state' = "Processing" /\ Decidable(t)
      /\ widget' = [widget EXCEPT ![t] = "executing"]
  BY DEF Grant, GrantSession, batchVars, guardVars, set_processing
<1>2. WidgetTypeOK /\ ToolTypeOK /\ t \in Uses
  BY TypeParts DEF ChatInv, Uses
<1>3. \A u \in Uses : /\ u # t => tool'[u] = tool[u] /\ widget'[u] = widget[u]
                      /\ u = t => tool'[u].pc = "spawned" /\ widget'[u] = "executing"
  BY <1>1, <1>2 DEF Grant, GrantSession, spawn_tool_use, ToolTypeOK, WidgetTypeOK
<1>4. widget[t] = "waiting" \/ Unknown(t, kind)
  BY <1>1 DEF Decidable, Unknown
<1>5. \A u \in Uses : AtWork(u)' => AtWork(u)
  <2> SUFFICES ASSUME NEW u \in Uses, AtWork(u)'
               PROVE  AtWork(u)
    OBVIOUS
  <2>1. CASE u = t
    BY <1>1, <1>3, <1>4, <2>1 DEF AtWork
  <2>2. CASE u # t
    BY <1>1, <1>3, <2>2 DEF AtWork
  <2> QED
    BY <2>1, <2>2
<1> QED
  BY <1>1, <1>5, StillGoesOn

LEMMA ApplyHunkTurn ==
    ASSUME ChatInv, ChatInv', TurnInv, NEW t \in ToolIds, ApplyHunk(t)
    PROVE  TurnInv'
<1>1. /\ UNCHANGED <<pending_chats, pending_tool_ids, collected_tool_results, kind, chats,
                     messages, events, cancel_token>>
      /\ state' = "Processing" /\ widget[t] = "waiting"
      /\ widget' = [widget EXCEPT ![t] = "executing"]
      /\ tool' = [tool EXCEPT ![t].pc = "applying"]
  BY DEF ApplyHunk, batchVars, guardVars, set_processing
<1>2. WidgetTypeOK /\ ToolTypeOK /\ t \in Uses
  BY TypeParts DEF ChatInv, Uses
<1>3. AtWork(t)
  BY <1>1 DEF AtWork
<1>4. \A u \in Uses : u # t => tool'[u] = tool[u] /\ widget'[u] = widget[u]
  BY <1>1, <1>2 DEF ToolTypeOK, WidgetTypeOK
<1>5. \A u \in Uses : AtWork(u)' => AtWork(u)
  <2> SUFFICES ASSUME NEW u \in Uses, AtWork(u)', u # t
               PROVE  AtWork(u)
    BY <1>3
  <2> QED
    BY <1>1, <1>4 DEF AtWork
<1> QED
  BY <1>1, <1>5, StillGoesOn

LEMMA NextHunkTurn ==
    ASSUME ChatInv, ChatInv', TurnInv, NEW t \in ToolIds, NEW key, RejectHunk(t, key),
           hunks[t] # 1
    PROVE  TurnInv'
<1> DEFINE e == [type |-> "TextEdit", ids |-> {t}]
<1>1. /\ UNCHANGED <<pending_chats, pending_tool_ids, collected_tool_results, kind, chats,
                     messages, cancel_token, tool, state>>
      /\ widget[t] = "waiting" /\ widget' = [widget EXCEPT ![t] = "cancelled"]
      /\ events' = Append(events, e)
  BY DEF RejectHunk, batchVars, taskVars, Send
<1>2. WidgetTypeOK /\ EventsTypeOK /\ EventsTypeOK' /\ t \in Uses
  BY TypeAfter, TypeParts DEF ChatInv, Uses
<1>3. e \in Event /\ e.type \notin FromChat \cup {"Cancelled"} /\ e.ids = {t}
  BY <1>2 DEF Event, FromChat
<1> HIDE DEF e
<1>4. /\ \A m \in DOMAIN events' :
            \/ m \in DOMAIN events /\ events'[m] = events[m]
            \/ (\A n \in DOMAIN events : n < m) /\ events'[m] = e
      /\ \A m \in DOMAIN events : m \in DOMAIN events' /\ events'[m] = events[m]
  BY <1>1, <1>2, <1>3 DEF EventsTypeOK
<1>5. \A m \in DOMAIN events' :
         \/ m + 0 \in DOMAIN events /\ events'[m] = events[m + 0]
         \/ /\ \A n \in DOMAIN events : n < m + 0
            /\ events'[m].type \notin FromChat \cup {"Cancelled"}
  BY <1>2, <1>3, <1>4 DEF EventsTypeOK
<1>6. \A type : InQueue(type) => InQueue(type)'
  BY <1>4 DEF InQueue
<1>7. AtWork(t)
  BY <1>1 DEF AtWork
<1>8. \A u \in Uses : AtWork(u)' => AtWork(u)
  <2> SUFFICES ASSUME NEW u \in Uses, AtWork(u)', u # t
               PROVE  AtWork(u)
    BY <1>7
  <2>1. widget'[u] = widget[u]
    BY <1>1, <1>2 DEF WidgetTypeOK
  <2>2. \A m \in DOMAIN events' : u \in events'[m].ids =>
           m \in DOMAIN events /\ events'[m] = events[m]
    BY <1>3, <1>4
  <2> QED
    BY <1>1, <2>1, <2>2 DEF AtWork
<1> QED
  BY <1>1, <1>2, <1>5, <1>6, <1>8, GoesOn

\* Cancelling while a request is under way would be an interference.
LEMMA PressTurn ==
    ASSUME ChatInv, ChatInv', TurnInv, Calm',
           \/ PressToCancel \/ Disarm \/ UNCHANGED vars
           \/ UNCHANGED <<chatVars, widgetVars, grantVars, cancel_token, fires, prompts,
                          events, taskVars, messages, app, ghostVars>>
    PROVE  TurnInv'
<1>1. /\ UNCHANGED <<pending_chats, pending_tool_ids, collected_tool_results, kind, chats,
                     messages, events, state, tool, widget>>
      /\ cancel_token' = cancel_token \/ AllDone
  BY DEF PressToCancel, Disarm, vars, chatVars, batchVars, widgetVars, taskVars, guardVars,
         Calm, AllDone
<1>2. \A u \in Uses : AtWork(u)' => AtWork(u)
  BY <1>1 DEF AtWork
<1> QED
  BY <1>1, <1>2, StillGoesOn

-----------------------------------------------------------------------------
(* The steps of a request *)

\* The request that is under way, and what that says of the rest
LEMMA UnderWay ==
    ASSUME ChatInv, TurnInv, NEW n \in DOMAIN chats, chats[n].pc # "done"
    PROVE  /\ n \in Nat /\ n = Len(chats) /\ chats[n] \in ChatTask /\ ~Cancelled(chats[n].token)
           /\ \A m \in DOMAIN chats : m # n => chats[m].pc = "done"
           /\ ~AllDone
           /\ pending_chats = {} /\ pending_tool_ids = {} /\ collected_tool_results = {}
           /\ \A t \in Uses : ~AtWork(t)
           /\ ~InQueue("Pending") /\ ~InQueue("ToolResult")
<1>1. ChatsTypeOK /\ BatchTypeOK /\ GuardTypeOK /\ EventsInv
  BY TypeParts DEF ChatInv
<1>2. /\ n = Len(chats) /\ chats[n].token = cancel_token
      /\ pending_chats = {} /\ pending_tool_ids = {} /\ \A t \in Uses : ~AtWork(t)
      /\ ~InQueue("Pending")
      /\ \A m \in DOMAIN chats : m # n => chats[m].pc = "done"
  BY DEF TurnInv, RequestInv
<1>3. ~Cancelled(chats[n].token)
  BY <1>1, <1>2 DEF Cancelled, GuardTypeOK, Tokens
<1>4. collected_tool_results = {}
  BY <1>1, <1>2 DEF AtWork, BatchTypeOK, Uses
<1>5. ~InQueue("ToolResult")
  <2> SUFFICES ASSUME NEW m \in DOMAIN events, events[m].type = "ToolResult"
               PROVE  FALSE
    BY DEF InQueue
  <2>1. PICK t \in Uses : events[m].ids = {t}
    BY <1>1 DEF EventsInv, EventOK
  <2> QED
    BY <1>2, <2>1 DEF AtWork
<1> QED
  BY <1>1, <1>2, <1>3, <1>4, <1>5 DEF ChatsTypeOK, AllDone

\* An event at the end of the queue
LEMMA QueueAppended ==
    ASSUME EventsTypeOK, NEW e \in Event, events' = Append(events, e)
    PROVE  /\ \A m \in DOMAIN events' :
                 \/ m \in DOMAIN events /\ events'[m] = events[m]
                 \/ m = Len(events) + 1 /\ (\A k \in DOMAIN events : k < m) /\ events'[m] = e
           /\ \A m \in DOMAIN events : m \in DOMAIN events' /\ events'[m] = events[m]
           /\ InQueue(e.type)'
           /\ \A type : type # e.type /\ InQueue(type)' => InQueue(type)
<1>1. /\ \A m \in DOMAIN events' :
            \/ m \in DOMAIN events /\ events'[m] = events[m]
            \/ m = Len(events) + 1 /\ (\A k \in DOMAIN events : k < m) /\ events'[m] = e
      /\ \A m \in DOMAIN events : m \in DOMAIN events' /\ events'[m] = events[m]
      /\ Len(events) + 1 \in DOMAIN events' /\ events'[Len(events) + 1] = e
  BY DEF EventsTypeOK
<1> QED
  BY <1>1 DEF InQueue

LEMMA ChatStartsTurn ==
    ASSUME ChatInv, ChatInv', TurnInv, NEW n \in DOMAIN chats, ChatStarts(n)
    PROVE  TurnInv'
<1> DEFINE e == [type |-> "AskBot", ids |-> {}]
           c == [chats[n] EXCEPT !.pc = "asking", !.results = {}]
           message == user(chats[n].results)
<1>1. /\ EventsTypeOK /\ ChatsTypeOK /\ MessagesTypeOK /\ MessagesTypeOK' /\ BatchTypeOK
      /\ chats[n].pc = "spawned"
  BY TypeAfter, TypeParts DEF ChatInv, ChatStarts
<1>2. /\ n \in Nat /\ n = Len(chats) /\ chats[n] \in ChatTask /\ ~Cancelled(chats[n].token)
      /\ \A m \in DOMAIN chats : m # n => chats[m].pc = "done"
      /\ pending_chats = {} /\ pending_tool_ids = {} /\ collected_tool_results = {}
      /\ \A t \in Uses : ~AtWork(t)
      /\ ~InQueue("Pending") /\ ~InQueue("ToolResult")
  BY <1>1, UnderWay
<1>3. /\ ~InQueue("AskBot") /\ ~InQueue("Bot")
      /\ Open \subseteq chats[n].results /\ chats[n].results \subseteq Asked
      /\ chats[n].token = cancel_token
  BY <1>1 DEF TurnInv, RequestInv
<1>4. /\ UNCHANGED <<state, pending_chats, pending_tool_ids, collected_tool_results, kind,
                     widget, cancel_token, tool>>
      /\ chats' = [chats EXCEPT ![n] = c]
      /\ messages' = Append(messages, message)
      /\ events' = Append(events, e)
  BY <1>1, <1>2 DEF ChatStarts, chatVars, batchVars, widgetVars, guardVars, Send, ChatsTypeOK
<1>5. /\ e \in Event /\ e.type = "AskBot" /\ e.ids = {}
      /\ message \in Message /\ message.role = "user" /\ message.execute = {}
      /\ message.uses = {} /\ message.results = chats[n].results
      /\ c.pc = "asking" /\ c.token = chats[n].token
  BY <1>2 DEF Event, user, Message, ChatTask
<1> HIDE DEF e, c, message
<1>6. /\ Open' = {} /\ Asked' = {} /\ messages' # <<>>
      /\ messages'[Len(messages')].role = "user"
  BY <1>1, <1>4, <1>5, OpenAppended
<1>7. /\ \A m \in DOMAIN events' :
            \/ m \in DOMAIN events /\ events'[m] = events[m]
            \/ m = Len(events) + 1 /\ (\A k \in DOMAIN events : k < m) /\ events'[m] = e
      /\ InQueue("AskBot")'
      /\ \A type : type # "AskBot" /\ InQueue(type)' => InQueue(type)
  BY <1>1, <1>4, <1>5, QueueAppended
<1>8. \A t \in Uses : ~AtWork(t)'
  <2> SUFFICES ASSUME NEW t \in Uses, AtWork(t)'
               PROVE  FALSE
    OBVIOUS
  <2>1. \A m \in DOMAIN events' : t \in events'[m].ids =>
           m \in DOMAIN events /\ events'[m] = events[m]
    BY <1>5, <1>7
  <2>2. AtWork(t)
    BY <1>4, <2>1 DEF AtWork
  <2> QED
    BY <1>2, <2>2
<1>9. RequestInv'
  <2> SUFFICES ASSUME NEW m \in DOMAIN chats', chats'[m].pc # "done"
               PROVE  RequestInv!(m)'
    BY DEF RequestInv
  <2>1. m = n /\ chats'[m] = c /\ Len(chats') = Len(chats)
    BY <1>1, <1>2, <1>4 DEF ChatsTypeOK
  <2>2. ~InQueue("Pending")' /\ ~InQueue("Bot")'
    BY <1>2, <1>3, <1>7
  <2> QED
    BY <1>2, <1>3, <1>4, <1>5, <1>6, <1>7, <1>8, <2>1, <2>2
<1>10. QueueInv'
  <2>1. ~InQueue("Cancelled")' /\ ~InQueue("Bot")' /\ ~InQueue("Pending")' /\ ~InQueue("ToolResult")'
    BY <1>2, <1>3, <1>7 DEF TurnInv, QueueInv
  <2> QED
    BY <2>1 DEF QueueInv, InQueue
<1>11. WorkInv' /\ BatchInv'
  BY <1>2, <1>4, <1>6, <1>8, ManyFacts DEF WorkInv, BatchInv
<1>12. MessageInv' /\ ReadyInv'
  BY <1>2, <1>4, <1>6, FS_EmptySet DEF MessageInv, ReadyInv
<1>13. EveryUseIsAnswered'
  BY <1>1, <1>3, <1>4, <1>5, NextAnswers DEF TurnInv
<1> QED
  BY <1>9, <1>10, <1>11, <1>12, <1>13 DEF TurnInv

LEMMA ChatFailsTurn ==
    ASSUME ChatInv, ChatInv', TurnInv, NEW n \in DOMAIN chats, ChatFails(n)
    PROVE  TurnInv'
<1> DEFINE e == [type |-> "Bot", ids |-> {}]
<1>1. /\ EventsTypeOK /\ ChatsTypeOK /\ chats[n].pc = "asking"
  BY TypeAfter, TypeParts DEF ChatInv, ChatFails
<1>2. /\ n \in Nat /\ n = Len(chats) /\ ~Cancelled(chats[n].token)
      /\ \A m \in DOMAIN chats : m # n => chats[m].pc = "done"
      /\ pending_chats = {} /\ pending_tool_ids = {} /\ collected_tool_results = {}
      /\ \A t \in Uses : ~AtWork(t)
      /\ ~InQueue("Pending") /\ ~InQueue("ToolResult")
  BY <1>1, UnderWay
<1>3. Open = {} /\ ~InQueue("Bot")
  BY <1>1 DEF TurnInv, RequestInv
<1>4. /\ UNCHANGED <<state, pending_chats, pending_tool_ids, collected_tool_results, kind,
                     widget, cancel_token, tool, messages>>
      /\ chats' = [chats EXCEPT ![n] = ChatDone(n)] /\ ChatDone(n).pc = "done"
      /\ events' = Append(events, e)
  BY <1>1, <1>2, DoneChat
  DEF ChatFails, chatVars, batchVars, widgetVars, guardVars, Send
<1>5. e \in Event /\ e.type = "Bot" /\ e.ids = {}
  BY DEF Event
<1> HIDE DEF e
<1>6. Open' = {} /\ Asked' = Asked
  BY <1>3, <1>4, OpenStays
<1>7. /\ \A m \in DOMAIN events' :
            \/ m \in DOMAIN events /\ events'[m] = events[m]
            \/ m = Len(events) + 1 /\ (\A k \in DOMAIN events : k < m) /\ events'[m] = e
      /\ \A type : type # "Bot" /\ InQueue(type)' => InQueue(type)
  BY <1>1, <1>4, <1>5, QueueAppended
<1>8. \A t \in Uses : ~AtWork(t)'
  <2> SUFFICES ASSUME NEW t \in Uses, AtWork(t)'
               PROVE  FALSE
    OBVIOUS
  <2>1. \A m \in DOMAIN events' : t \in events'[m].ids =>
           m \in DOMAIN events /\ events'[m] = events[m]
    BY <1>5, <1>7
  <2>2. AtWork(t)
    BY <1>4, <2>1 DEF AtWork
  <2> QED
    BY <1>2, <2>2
<1>9. RequestInv'
  BY <1>1, <1>2, <1>4 DEF RequestInv, ChatsTypeOK
<1>10. QueueInv'
  <2>1. ~InQueue("Cancelled")' /\ ~InQueue("Pending")' /\ ~InQueue("ToolResult")'
    BY <1>2, <1>7 DEF TurnInv, QueueInv
  <2> QED
    BY <1>6, <2>1 DEF QueueInv, InQueue
<1>11. WorkInv' /\ BatchInv'
  BY <1>2, <1>4, <1>6, <1>8, ManyFacts DEF WorkInv, BatchInv
<1>12. MessageInv' /\ ReadyInv'
  BY <1>2, <1>4, <1>6, FS_EmptySet DEF MessageInv, ReadyInv, TurnInv
<1>13. EveryUseIsAnswered'
  BY <1>4 DEF TurnInv, EveryUseIsAnswered
<1> QED
  BY <1>9, <1>10, <1>11, <1>12, <1>13 DEF TurnInv

LEMMA ChatAnswersTurn ==
    ASSUME ChatInv, ChatInv', TurnInv, NEW n \in DOMAIN chats, NEW uses \in SUBSET ToolIds,
           NEW stopped \in BOOLEAN, ChatAnswers(n, uses, stopped)
    PROVE  TurnInv'
<1> DEFINE e == [type |-> "Bot", ids |-> uses]
           message == assistant(uses, ToExecute(uses, stopped))
           c == [chats[n] EXCEPT !.pc = "responded", !.execute = ToExecute(uses, stopped)]
<1>1. /\ EventsTypeOK /\ ChatsTypeOK /\ MessagesTypeOK /\ WidgetTypeOK /\ ToolsInv
      /\ chats[n].pc = "asking"
  BY TypeParts DEF ChatInv, ChatAnswers
<1>2. /\ n \in Nat /\ n = Len(chats) /\ chats[n] \in ChatTask
      /\ \A m \in DOMAIN chats : m # n => chats[m].pc = "done"
      /\ pending_chats = {} /\ pending_tool_ids = {} /\ collected_tool_results = {}
      /\ \A t \in Uses : ~AtWork(t)
      /\ ~InQueue("Pending") /\ ~InQueue("ToolResult")
  BY <1>1, UnderWay
<1>3. /\ Open = {} /\ ~InQueue("Bot")
      /\ messages # <<>> /\ messages[Len(messages)].role = "user"
      /\ state = "Processing" \/ InQueue("AskBot")
      /\ chats[n].token = cancel_token
  BY <1>1 DEF TurnInv, RequestInv
<1>4. /\ UNCHANGED <<state, pending_chats, pending_tool_ids, collected_tool_results, widget,
                     cancel_token, tool>>
      /\ chats' = [chats EXCEPT ![n] = c]
      /\ messages' = Append(messages, message)
      /\ events' = Append(events, e)
      /\ \A t \in uses : kind[t] = "none"
      /\ \A t \in ToolIds : t \notin uses => kind'[t] = kind[t]
  BY <1>1 DEF ChatAnswers, chatVars, batchVars, guardVars, Send, ChatsTypeOK
<1>5. PICK execute \in SUBSET uses : /\ execute = ToExecute(uses, stopped)
                                     /\ execute = {} \/ execute = {t \in uses : kind'[t] # "reply"}
  BY DEF ToExecute
<1>6. /\ e \in Event /\ e.type = "Bot" /\ e.ids = uses
      /\ message \in Message /\ message.execute = execute /\ message.uses = uses
      /\ c.pc = "responded" /\ c.token = chats[n].token /\ c.execute = execute
  BY <1>2, <1>5 DEF Event, assistant, Message, ChatTask, Uses
<1> HIDE DEF e, c, message
<1>7. /\ Open' = execute /\ Asked' = uses /\ messages' # <<>>
  BY <1>1, <1>4, <1>6, OpenAppended
<1>8. /\ \A m \in DOMAIN events' :
            \/ m \in DOMAIN events /\ events'[m] = events[m]
            \/ m = Len(events) + 1 /\ (\A k \in DOMAIN events : k < m) /\ events'[m] = e
      /\ \A m \in DOMAIN events : m \in DOMAIN events' /\ events'[m] = events[m]
      /\ \A type : type # "Bot" /\ InQueue(type)' => InQueue(type)
  BY <1>1, <1>4, <1>6, QueueAppended
<1>9. \A t \in Uses : ~AtWork(t)'
  <2> SUFFICES ASSUME NEW t \in Uses, AtWork(t)'
               PROVE  FALSE
    OBVIOUS
  <2>1. \A m \in DOMAIN events' :
           events'[m].type \in {"Permission", "TextEdit", "ToolResult"} =>
              m \in DOMAIN events /\ events'[m] = events[m]
    BY <1>6, <1>8
  <2>2. t \in uses => tool[t].pc = "none"
    BY <1>1, <1>4 DEF ToolsInv
  <2>3. t \notin uses => Unknown(t, kind') = Unknown(t, kind)
    BY <1>4 DEF Unknown
  <2>4. AtWork(t)
    BY <1>4, <2>1, <2>2, <2>3 DEF AtWork
  <2> QED
    BY <1>2, <2>4
<1>10. RequestInv'
  <2> SUFFICES ASSUME NEW m \in DOMAIN chats', chats'[m].pc # "done"
               PROVE  RequestInv!(m)'
    BY DEF RequestInv
  <2>1. m = n /\ chats'[m] = c /\ Len(chats') = Len(chats)
    BY <1>1, <1>2, <1>4 DEF ChatsTypeOK
  <2>2. ~InQueue("Pending")'
    BY <1>2, <1>8
  <2> QED
    BY <1>2, <1>3, <1>4, <1>6, <1>7, <1>9, <2>1, <2>2
<1>11. QueueInv'
  <2>1. ~InQueue("Cancelled")' /\ ~InQueue("Pending")' /\ ~InQueue("ToolResult")'
    BY <1>2, <1>8 DEF TurnInv, QueueInv
  <2>2. \A m \in DOMAIN events' : events'[m].type = "Bot" => events'[m].ids = uses
    BY <1>3, <1>6, <1>8 DEF InQueue
  <2> QED
    BY <1>7, <2>1, <2>2 DEF QueueInv, InQueue
<1>12. ~AllDone'
  BY <1>1, <1>4, <1>6 DEF AllDone, ChatsTypeOK
<1>13. WorkInv' /\ BatchInv'
  BY <1>2, <1>4, <1>7, <1>9, <1>12 DEF WorkInv, BatchInv
<1>14. IsFiniteSet(execute)
  BY IdsAssumption, FS_Subset
<1>15. MessageInv'
  <2>1. execute = {} \/ \A t \in uses : kind'[t] # "reply" => t \in execute
    BY <1>5
  <2> QED
    BY <1>2, <1>4, <1>7, <1>14, <2>1 DEF MessageInv
<1>16. ReadyInv'
  <2>1. InQueue("AskBot") => InQueue("AskBot")'
    BY <1>8 DEF InQueue
  <2> QED
    BY <1>3, <1>4, <2>1 DEF ReadyInv
<1>17. EveryUseIsAnswered'
  BY <1>1, <1>3, <1>4, <1>6, NextAnswers DEF TurnInv
<1> QED
  BY <1>10, <1>11, <1>13, <1>15, <1>16, <1>17 DEF TurnInv

LEMMA ChatExecutesTurn ==
    ASSUME ChatInv, ChatInv', TurnInv, NEW n \in DOMAIN chats, ChatExecutes(n)
    PROVE  TurnInv'
<1> PICK ids : ids = Open
  OBVIOUS
<1> DEFINE e == [type |-> "Pending", ids |-> ids]
<1>1. /\ EventsTypeOK /\ EventsTypeOK' /\ ChatsTypeOK /\ ToolTypeOK /\ StateTypeOK
      /\ chats[n].pc = "responded"
  BY TypeAfter, TypeParts DEF ChatInv, ChatExecutes
<1>2. /\ n \in Nat /\ n = Len(chats) /\ chats[n] \in ChatTask /\ ~Cancelled(chats[n].token)
      /\ \A m \in DOMAIN chats : m # n => chats[m].pc = "done"
      /\ pending_chats = {} /\ pending_tool_ids = {} /\ collected_tool_results = {}
      /\ \A t \in Uses : ~AtWork(t)
      /\ ~InQueue("Pending") /\ ~InQueue("ToolResult")
  BY <1>1, UnderWay
<1>3. Open = chats[n].execute /\ Open \subseteq Uses
  BY <1>1, <1>2 DEF TurnInv, RequestInv, ChatTask, Uses
<1>4. /\ UNCHANGED <<state, pending_chats, pending_tool_ids, collected_tool_results, kind,
                     widget, cancel_token, messages>>
      /\ chats' = [chats EXCEPT ![n] = ChatDone(n)] /\ ChatDone(n).pc = "done"
      /\ events' = events \o PendingEvents(Open)
      /\ \A t \in Uses : t \notin Open => tool'[t] = tool[t]
  BY <1>1, <1>2, <1>3, DoneChat
  DEF ChatExecutes, chatVars, batchVars, widgetVars, guardVars
<1>5. e \in Event /\ e.type = "Pending" /\ e.ids = Open
  BY <1>3 DEF Event
<1>6. PendingEvents(Open) = IF Many(Open) THEN <<e>> ELSE <<>>
  BY DEF PendingEvents, Many
<1> HIDE DEF e
<1>7. Open' = Open /\ Asked' = Asked
  BY <1>4, OpenStays
<1>8. /\ \A m \in DOMAIN events' :
            \/ m \in DOMAIN events /\ events'[m] = events[m]
            \/ m = Len(events) + 1 /\ events'[m] = e /\ Many(Open)
      /\ \A type : type # "Pending" /\ InQueue(type)' => InQueue(type)
      /\ \A type : InQueue(type) => InQueue(type)'
      /\ Many(Open) => InQueue("Pending")'
  <2>1. CASE Many(Open)
    <3>1. events' = Append(events, e)
      BY <1>1, <1>4, <1>5, <1>6, <2>1 DEF EventsTypeOK
    <3>2. /\ \A m \in DOMAIN events' :
               \/ m \in DOMAIN events /\ events'[m] = events[m]
               \/ m = Len(events) + 1 /\ (\A k \in DOMAIN events : k < m) /\ events'[m] = e
          /\ \A m \in DOMAIN events : m \in DOMAIN events' /\ events'[m] = events[m]
          /\ InQueue(e.type)'
          /\ \A type : type # e.type /\ InQueue(type)' => InQueue(type)
      BY <1>1, <1>5, <3>1, QueueAppended
    <3>3. \A type : InQueue(type) => InQueue(type)'
      BY <3>2 DEF InQueue
    <3> QED
      BY <1>5, <2>1, <3>2, <3>3
  <2>2. CASE ~Many(Open)
    <3>1. events' = events
      BY <1>1, <1>4, <1>6, <2>2 DEF EventsTypeOK
    <3> QED
      BY <2>2, <3>1 DEF InQueue
  <2> QED
    BY <2>1, <2>2
<1>9. WorkInv'
  <2> SUFFICES ASSUME NEW t \in Uses, AtWork(t)', t \notin Open
               PROVE  FALSE
    BY <1>7 DEF WorkInv
  <2>1. \A m \in DOMAIN events' :
           events'[m].type \in {"Permission", "TextEdit", "ToolResult"} =>
              m \in DOMAIN events /\ events'[m] = events[m]
    BY <1>5, <1>8
  <2>2. AtWork(t)
    BY <1>4, <2>1 DEF AtWork
  <2> QED
    BY <1>2, <2>2
<1>10. RequestInv'
  BY <1>1, <1>2, <1>4 DEF RequestInv, ChatsTypeOK
<1>11. QueueInv'
  <2>1. ~InQueue("Cancelled")' /\ ~InQueue("ToolResult")'
    BY <1>2, <1>8 DEF TurnInv, QueueInv
  <2>2. \A m \in DOMAIN events' : events'[m].type = "Pending" =>
           m = Len(events) + 1 /\ events'[m] = e /\ Many(Open)
    BY <1>2, <1>8 DEF InQueue
  <2>3. \A m \in DOMAIN events' : events'[m].type = "Bot" =>
           m \in DOMAIN events /\ events'[m] = events[m]
    BY <1>5, <1>8
  <2>4. \A m \in DOMAIN events' : events'[m].type = "Bot" /\ events'[m].ids = {} => Open' = {}
    BY <1>7, <2>3 DEF TurnInv, QueueInv
  <2>5. \A m \in DOMAIN events' : events'[m].type = "Pending" =>
           /\ events'[m].ids = Open' /\ Many(Open')
           /\ pending_tool_ids' = {} /\ collected_tool_results' = {}
    BY <1>2, <1>4, <1>5, <1>7, <2>2
  <2>6. \A m \in DOMAIN events' : events'[m].type # "ToolResult"
    BY <2>1 DEF InQueue
  <2>7. \A m, k \in DOMAIN events' :
           /\ events'[m].type \in FromChat /\ events'[k].type = "ToolResult" => m < k
           /\ events'[m].type = "Pending" /\ events'[k].type = "Pending" => m = k
    BY <2>2, <2>6
  <2> QED
    BY <2>1, <2>4, <2>5, <2>7 DEF QueueInv
<1>12. BatchInv'
  BY <1>2, <1>4, <1>7, <1>8 DEF BatchInv
<1>13. MessageInv'
  BY <1>2, <1>4, <1>7 DEF MessageInv, TurnInv
<1>14. ReadyInv'
  <2>1. \A m \in DOMAIN chats : chats[m].pc # "spawned"
    BY <1>1, <1>2
  <2> QED
    BY <1>4, <1>7, <1>8, <2>1 DEF ReadyInv, TurnInv
<1>15. EveryUseIsAnswered'
  BY <1>4 DEF TurnInv, EveryUseIsAnswered
<1> QED
  BY <1>9, <1>10, <1>11, <1>12, <1>13, <1>14, <1>15 DEF TurnInv

-----------------------------------------------------------------------------
(* The results of a batch *)

LEMMA HandlePendingTurn ==
    ASSUME ChatInv, ChatInv', TurnInv, HandlePending
    PROVE  TurnInv'
<1>1. EventsTypeOK /\ Receive("Pending")
  BY TypeParts DEF ChatInv, HandlePending
<1>2. /\ 1 \in DOMAIN events /\ events[1] = Head(events) /\ events[1].type = "Pending"
      /\ \A m \in DOMAIN events' : /\ m \in Nat /\ m + 1 \in DOMAIN events /\ m + 1 # 1
                                   /\ events'[m] = events[m + 1]
  BY <1>1, ReceivedPlaces DEF EventsTypeOK, Receive
<1>3. /\ Head(events).ids = Open /\ Many(Open) /\ collected_tool_results = {}
      /\ AllDone /\ InQueue("Pending")
  BY <1>2 DEF TurnInv, QueueInv, RequestInv, InQueue, AllDone
<1>4. /\ UNCHANGED <<state, pending_chats, kind, widget, cancel_token, chats, tool, messages>>
      /\ pending_tool_ids' = Open /\ collected_tool_results' = {}
  BY <1>3 DEF HandlePending, widgetVars, guardVars, taskVars
<1>5. Open' = Open /\ Asked' = Asked
  BY <1>4, OpenStays
<1>6. ~InQueue("Pending")'
  BY <1>2 DEF TurnInv, QueueInv, InQueue
<1>7. \A type : InQueue(type)' => InQueue(type)
  BY <1>2 DEF InQueue
<1>8. \A t \in Uses : AtWork(t)' => AtWork(t)
  BY <1>2, <1>3, <1>4 DEF AtWork
<1>9. RequestInv'
  BY <1>3, <1>4 DEF RequestInv, AllDone
<1>10. QueueInv'
  <2>1. \A m \in DOMAIN events' : events'[m].type # "Pending"
    BY <1>6 DEF InQueue
  <2>2. \A m \in DOMAIN events' : events'[m].type = "Bot" /\ events'[m].ids = {} => Open' = {}
    BY <1>2, <1>5 DEF TurnInv, QueueInv
  <2>3. ASSUME NEW m \in DOMAIN events', NEW k \in DOMAIN events',
               events'[m].type \in FromChat, events'[k].type = "ToolResult"
        PROVE  m < k
    <3>1. m + 1 < k + 1
      BY <1>2, <2>3 DEF TurnInv, QueueInv
    <3> QED
      BY <1>2, <3>1
  <2>4. ~InQueue("Cancelled")'
    BY <1>7 DEF TurnInv, QueueInv
  <2> QED
    BY <2>1, <2>2, <2>3, <2>4 DEF QueueInv
<1>11. WorkInv' /\ MessageInv'
  BY <1>4, <1>5, <1>8 DEF WorkInv, MessageInv, TurnInv
<1>12. BatchInv'
  BY <1>3, <1>4, <1>5 DEF BatchInv, TurnInv
<1>13. ReadyInv'
  <2>1. InQueue("AskBot") => InQueue("AskBot")'
    BY <1>1, OthersStay
  <2> QED
    BY <1>4, <1>5, <2>1 DEF ReadyInv, TurnInv
<1>14. EveryUseIsAnswered'
  BY <1>4 DEF TurnInv, EveryUseIsAnswered
<1> QED
  BY <1>9, <1>10, <1>11, <1>12, <1>13, <1>14 DEF TurnInv

\* A request is spawned with all answers, and nothing is left to wait for.
LEMMA SpawnsTurn ==
    ASSUME ChatInv, ChatInv', TurnInv, AllDone, NEW results \in SUBSET Uses,
           spawn_chat_task(results), UNCHANGED <<messages, kind>>,
           Open \subseteq pending_chats \cup results, results \subseteq Asked,
           pending_tool_ids' = {}, collected_tool_results' = {},
           \A u \in Uses : ~AtWork(u)',
           \A type \in FromChat \cup {"Cancelled"} : ~InQueue(type)'
    PROVE  TurnInv'
<1> DEFINE c == [pc |-> "spawned", token |-> cancel_token + 1,
                 results |-> pending_chats \cup results, execute |-> {},
                 once |-> tools_once_pcl, allow |-> bash_session_allowlist]
<1>1. ChatsTypeOK /\ ChatsTypeOK' /\ StateTypeOK /\ GrantTypeOK /\ GuardTypeOK
  BY TypeAfter, TypeParts DEF ChatInv
<1>2. /\ chats' = Append(chats, c) /\ c \in ChatTask
      /\ pending_chats' = {} /\ cancel_token' = cancel_token + 1
  BY <1>1 DEF spawn_chat_task, ChatTask, StateTypeOK, GrantTypeOK, GuardTypeOK, Tokens
<1>3. /\ c.pc = "spawned" /\ c.token = cancel_token + 1
      /\ c.results = pending_chats \cup results
  OBVIOUS
<1> HIDE DEF c
<1>4. /\ Len(chats') \in DOMAIN chats' /\ chats'[Len(chats')] = c
      /\ \A m \in DOMAIN chats' : m # Len(chats') => m \in DOMAIN chats /\ chats'[m] = chats[m]
  BY <1>1, <1>2 DEF ChatsTypeOK
<1>5. Open' = Open /\ Asked' = Asked
  BY OpenStays
<1>6. pending_chats \subseteq Asked
  BY DEF TurnInv, MessageInv
<1>7. ~InQueue("AskBot")' /\ ~InQueue("Bot")' /\ ~InQueue("Pending")' /\ ~InQueue("Cancelled")'
  BY DEF FromChat
<1>8. RequestInv'
  <2> SUFFICES ASSUME NEW m \in DOMAIN chats', chats'[m].pc # "done"
               PROVE  RequestInv!(m)'
    BY DEF RequestInv
  <2>1. m = Len(chats') /\ chats'[m] = c
    BY <1>4 DEF AllDone
  <2> QED
    BY <1>2, <1>3, <1>5, <1>6, <1>7, <2>1
<1>9. ~InQueue("ToolResult")'
  <2> SUFFICES ASSUME NEW m \in DOMAIN events', events'[m].type = "ToolResult"
               PROVE  FALSE
    BY DEF InQueue
  <2>1. PICK t \in Uses : events'[m].ids = {t}
    BY DEF ChatInv, EventsInv, EventOK
  <2> QED
    BY <2>1 DEF AtWork
<1>10. QueueInv' /\ WorkInv'
  BY <1>7, <1>9 DEF QueueInv, WorkInv, InQueue
<1>11. BatchInv'
  <2>1. ~AllDone'
    BY <1>3, <1>4 DEF AllDone
  <2> QED
    BY <1>2, <2>1 DEF BatchInv
<1>12. ReadyInv'
  BY <1>3, <1>4 DEF ReadyInv
<1>13. MessageInv' /\ EveryUseIsAnswered'
  BY <1>2, <1>5 DEF MessageInv, EveryUseIsAnswered, TurnInv
<1> QED
  BY <1>8, <1>10, <1>11, <1>12, <1>13 DEF TurnInv

LEMMA HandleToolResultTurn ==
    ASSUME ChatInv, ChatInv', TurnInv, OneAnswer, HandleToolResult
    PROVE  TurnInv'
<1>1. EventsTypeOK /\ WidgetTypeOK /\ BatchTypeOK /\ Receive("ToolResult") /\ EventsInv
  BY TypeParts DEF ChatInv, HandleToolResult
<1>2. /\ 1 \in DOMAIN events /\ events[1] = Head(events) /\ events[1].type = "ToolResult"
      /\ \A m \in DOMAIN events' : /\ m \in Nat /\ m + 1 \in DOMAIN events /\ m + 1 # 1
                                   /\ events'[m] = events[m + 1]
  BY <1>1, ReceivedPlaces DEF EventsTypeOK, Receive
<1>3. PICK t \in Uses : Head(events).ids = {t}
  BY <1>1, <1>2 DEF EventsInv, EventOK
<1>4. /\ widget' = [widget EXCEPT ![t] = "finished"]
      /\ pending_tool_ids' = pending_tool_ids \ {t}
      /\ IF BatchIsOpen(t)
         THEN /\ collected_tool_results' = collected_tool_results \cup {t}
              /\ UNCHANGED <<pending_chats, chats, cancel_token>>
         ELSE /\ collected_tool_results' =
                    IF Collected(t) THEN {} ELSE collected_tool_results
              /\ spawn_chat_task(IF Collected(t)
                                 THEN collected_tool_results \cup {t} ELSE {t})
      /\ UNCHANGED <<state, kind, tool, messages>>
  BY <1>3 DEF HandleToolResult
<1>5. Holds(t, "event", 1) /\ AtWork(t)
  BY <1>2, <1>3 DEF Holds, Carried, AtWork
<1>6. \A p \in Places, n \in Nat : Holds(t, p, n) => p = "event" /\ n = 1
  BY <1>5, OnlyThere DEF OneAnswer, Places
<1>7. t \notin collected_tool_results /\ t \in Open /\ AllDone
  <2>1. t \notin collected_tool_results
    BY <1>6 DEF Holds, Places
  <2> QED
    BY <1>5, <2>1 DEF TurnInv, WorkInv, RequestInv, AllDone
<1>8. \A type : InQueue(type)' => InQueue(type)
  BY <1>2 DEF InQueue
<1>9. \A type \in FromChat \cup {"Cancelled"} : ~InQueue(type)
  <2>1. \A m \in DOMAIN events : events[m].type \in FromChat => m < 1
    BY <1>2 DEF TurnInv, QueueInv
  <2>2. \A m \in DOMAIN events : ~(m < 1)
    BY <1>1 DEF EventsTypeOK
  <2>3. ~InQueue("Cancelled")
    BY DEF TurnInv, QueueInv
  <2> QED
    BY <2>1, <2>2, <2>3 DEF InQueue
<1>10. Open' = Open /\ Asked' = Asked
  BY <1>4, OpenStays
\* Who is at work after the step was so before, and is not t.
<1>11. ASSUME NEW u \in Uses, AtWork(u)', u \notin collected_tool_results'
       PROVE  /\ u # t
              /\ \E p \in {"task", "event", "widget"}, n \in Nat : Holds(u, p, n)
              /\ AtWork(u)
  <2>1. u \in ToolIds => (widget'[u] = "waiting" => u # t /\ widget[u] = "waiting")
    BY <1>1, <1>4 DEF WidgetTypeOK
  <2>2. \E p \in {"task", "event", "widget"}, n \in Nat :
           Holds(u, p, n) /\ (p # "event" \/ n # 1)
    BY <1>2, <1>4, <1>11, <2>1 DEF AtWork, Holds, Carried
  <2>3. u # t
    BY <1>6, <2>2 DEF Places
  <2>4. AtWork(u)
    BY <1>2, <1>4, <1>11, <2>1 DEF AtWork
  <2> QED
    BY <2>2, <2>3, <2>4
<1>12. Many(Open) =>
          /\ pending_tool_ids \cup collected_tool_results = Open /\ t \in pending_tool_ids
          /\ pending_chats \cap Open = {}
  BY <1>7, <1>9 DEF TurnInv, BatchInv, FromChat
<1>13. ~Many(Open) =>
          pending_tool_ids = {} /\ collected_tool_results = {} /\ Open = {t}
  BY <1>7, ManyFacts DEF TurnInv, BatchInv, MessageInv
<1>14. CASE BatchIsOpen(t)
  <2>1. /\ Many(Open) /\ collected_tool_results' = collected_tool_results \cup {t}
        /\ UNCHANGED <<pending_chats, chats, cancel_token>>
    BY <1>4, <1>13, <1>14 DEF BatchIsOpen, Collected
  <2>2. RequestInv'
    BY <1>7, <2>1 DEF RequestInv, AllDone
  <2>3. QueueInv'
    BY <1>8, <1>9 DEF QueueInv, InQueue, FromChat
  <2>4. WorkInv'
    <3> SUFFICES ASSUME NEW u \in Uses, AtWork(u)'
                 PROVE  u \in Open
      BY <1>10 DEF WorkInv
    <3>1. CASE u \in collected_tool_results'
      BY <1>7, <1>12, <2>1, <3>1
    <3>2. CASE u \notin collected_tool_results'
      BY <1>11, <3>2 DEF TurnInv, WorkInv
    <3> QED
      BY <3>1, <3>2
  <2>5. BatchInv'
    BY <1>4, <1>7, <1>10, <1>12, <2>1 DEF BatchInv
  <2>6. ReadyInv'
    BY <1>4, <1>9, <1>10, <2>1 DEF ReadyInv, TurnInv, FromChat
  <2>7. MessageInv' /\ EveryUseIsAnswered'
    BY <1>4, <1>10, <2>1 DEF MessageInv, EveryUseIsAnswered, TurnInv
  <2> QED
    BY <2>2, <2>3, <2>4, <2>5, <2>6, <2>7 DEF TurnInv
<1>15. CASE ~BatchIsOpen(t)
  <2>1. PICK results \in SUBSET Uses : /\ results = collected_tool_results \cup {t}
    BY <1>1 DEF BatchTypeOK, Uses
  <2>2. /\ Open = results /\ pending_tool_ids' = {}
        /\ collected_tool_results' = {}
        /\ spawn_chat_task(results)
    <3>1. CASE Many(Open)
      BY <1>4, <1>12, <1>15, <2>1, <3>1 DEF BatchIsOpen, Collected
    <3>2. CASE ~Many(Open)
      BY <1>4, <1>13, <1>15, <2>1, <3>2 DEF Collected
    <3> QED
      BY <3>1, <3>2
  <2>3. ASSUME NEW u \in Uses, AtWork(u)'
        PROVE  FALSE
    <3>1. /\ u # t /\ AtWork(u)
          /\ \E p \in {"task", "event", "widget"}, n \in Nat : Holds(u, p, n)
      BY <1>11, <2>2, <2>3
    <3>2. u \in collected_tool_results
      BY <2>1, <2>2, <3>1 DEF TurnInv, WorkInv
    <3>3. Holds(u, "collected", 0)
      BY <3>2 DEF Holds
    <3> QED
      BY <3>1, <3>3, OnlyThere DEF OneAnswer, Places
  <2>4. \A type \in FromChat \cup {"Cancelled"} : ~InQueue(type)'
    BY <1>8, <1>9
  <2>5. results \subseteq Asked
    BY <2>2 DEF TurnInv, MessageInv
  <2> QED
    BY <1>4, <1>7, <2>2, <2>3, <2>4, <2>5, SpawnsTurn
<1> QED
  BY <1>14, <1>15

-----------------------------------------------------------------------------
(* What the user does while nothing is under way *)

LEMMA SubmitTurn ==
    ASSUME ChatInv, ChatInv', TurnInv, Calm', Submit
    PROVE  TurnInv'
<1>1. /\ state = "Ready" /\ spawn_chat_task({}) /\ ~InFlight
      /\ UNCHANGED <<pending_tool_ids, collected_tool_results, kind, widget, tool, messages,
                     events>>
  BY DEF Submit, batchVars, widgetVars, Calm
<1>2. AllDone /\ \A type : ~InQueue(type)
  BY <1>1 DEF InFlight, AllDone, InQueue
<1>3. Open \subseteq pending_chats
  BY <1>1, <1>2 DEF TurnInv, ReadyInv, AllDone
<1>4. ~Many(Open)
  <2> SUFFICES ASSUME Many(Open)
               PROVE  FALSE
    OBVIOUS
  <2>1. Open = {}
    BY <1>3 DEF TurnInv, BatchInv
  <2> QED
    BY <2>1, ManyFacts
<1>5. pending_tool_ids' = {} /\ collected_tool_results' = {}
  BY <1>1, <1>4 DEF TurnInv, BatchInv
<1>6. \A u \in Uses : ~AtWork(u)'
  BY <1>1, <1>5 DEF AtWork, InFlight
<1>7. \A type : ~InQueue(type)'
  BY <1>1, <1>2 DEF InQueue
<1> QED
  BY <1>1, <1>2, <1>3, <1>5, <1>6, <1>7, SpawnsTurn

\* Refusing a member of a batch would spoil it, refusing a tool use that was already
\* answered, or is about to be, would answer it twice.
LEMMA RefusedTurn ==
    ASSUME ChatInv, ChatInv', TurnInv, Calm', NEW t \in ToolIds, Refuse(t),
           kind[t] \in {"bash", "edit", "unknown"},
           UNCHANGED <<pending_tool_ids, collected_tool_results, kind, messages, events, chats,
                       cancel_token, tool>>
    PROVE  TurnInv'
<1>1. WidgetTypeOK /\ t \in Uses /\ MessagesTypeOK
  BY TypeParts DEF ChatInv, Uses
<1>2. /\ pending_chats' = pending_chats \cup {t} /\ state' = "Ready"
      /\ widget' = [widget EXCEPT ![t] = "cancelled"]
      /\ ~IsLate(t) /\ ~InBatch(t)
  BY DEF Refuse, Calm
<1>3. AllDone /\ messages # <<>> /\ t \in Asked
  BY <1>2 DEF IsLate, AllDone, TurnInv, MessageInv, Asked
<1>4. Open = {} \/ Open = {t}
  <2> SUFFICES ASSUME Open # {}
               PROVE  Open = {t}
    OBVIOUS
  <2>1. t \in Open /\ IsFiniteSet(Open)
    BY <1>3 DEF TurnInv, MessageInv
  <2>2. Len(messages) \in DOMAIN messages /\ Open = messages[Len(messages)].execute
    BY <1>1, <1>3 DEF MessagesTypeOK, Open
  <2>3. ~Many(Open)
    BY <1>2, <2>1, <2>2 DEF InBatch, Many
  <2> QED
    BY <2>1, <2>3, ManyFacts
<1>5. Open' = Open /\ Asked' = Asked
  BY OpenStays
<1>6. \A u \in Uses : AtWork(u)' => AtWork(u)
  <2> SUFFICES ASSUME NEW u \in Uses, AtWork(u)'
               PROVE  AtWork(u)
    OBVIOUS
  <2>1. widget'[u] = "waiting" => widget[u] = "waiting"
    BY <1>1, <1>2 DEF WidgetTypeOK
  <2> QED
    BY <2>1 DEF AtWork
<1>7. \A type : InQueue(type)' = InQueue(type)
  BY DEF InQueue
<1>8. RequestInv'
  BY <1>3 DEF RequestInv, AllDone
<1>9. QueueInv'
  BY <1>5, <1>7 DEF QueueInv, TurnInv
<1>10. WorkInv'
  BY <1>5, <1>6 DEF WorkInv, TurnInv
<1>11. BatchInv'
  <2>1. ~Many(Open)
    BY <1>4, ManyFacts
  <2>2. ~Many(Open)'
    BY <1>5, <2>1 DEF Many
  <2> QED
    BY <1>5, <2>1, <2>2 DEF BatchInv, TurnInv
<1>12. ReadyInv'
  BY <1>2, <1>4, <1>5 DEF ReadyInv, TurnInv
<1>13. MessageInv'
  BY <1>2, <1>3, <1>5 DEF MessageInv, TurnInv
<1>14. EveryUseIsAnswered'
  BY <1>2, <1>3, <1>5 DEF EveryUseIsAnswered, TurnInv
<1> QED
  BY <1>8, <1>9, <1>10, <1>11, <1>12, <1>13, <1>14 DEF TurnInv

LEMMA CancelToolTurn ==
    ASSUME ChatInv, ChatInv', TurnInv, Calm', NEW t \in ToolIds, NEW key, CancelTool(t, key)
    PROVE  TurnInv'
<1>1. kind[t] \in {"bash", "unknown"} /\ Refuse(t)
  BY DEF CancelTool, Decidable
<1> QED
  BY <1>1, RefusedTurn DEF CancelTool, batchVars, taskVars

LEMMA RejectHunkTurn ==
    ASSUME ChatInv, ChatInv', TurnInv, Calm', NEW t \in ToolIds, NEW key, RejectHunk(t, key)
    PROVE  TurnInv'
<1>1. CASE hunks[t] = 1
  <2>1. Refuse(t) /\ kind[t] = "edit" /\ UNCHANGED events
    BY <1>1 DEF RejectHunk
  <2> QED
    BY <2>1, RefusedTurn DEF RejectHunk, batchVars, taskVars
<1> QED
  BY <1>1, NextHunkTurn

\* The prompt and the call of a combo the user starts go behind a message that is
\* answered, or asks for nothing.
LEMMA ExecuteManualTurn ==
    ASSUME ChatInv, ChatInv', TurnInv, Calm', NEW r \in ManualRuns, ExecuteManual(r)
    PROVE  TurnInv'
<1> DEFINE prompt == user({})
           call == assistant({r}, {r})
<1>1. /\ WidgetTypeOK /\ ToolTypeOK /\ MessagesTypeOK /\ MessagesTypeOK' /\ StateTypeOK
      /\ r \in Uses /\ r \notin ToolIds
  BY TypeAfter, TypeParts, IdsAssumption DEF ChatInv, Uses
<1>2. /\ state # "Processing" /\ pending_chats = {} /\ ~InFlight /\ state' = "Processing"
      /\ UNCHANGED <<pending_chats, pending_tool_ids, collected_tool_results, kind, events,
                     chats, cancel_token>>
      /\ widget' = [widget EXCEPT ![r] = "executing"]
      /\ messages' = messages \o <<prompt, call>>
  BY DEF ExecuteManual, Calm, batchVars, set_processing
<1>3. /\ prompt \in Message /\ prompt.role = "user" /\ prompt.execute = {}
      /\ prompt.results = {}
      /\ call \in Message /\ call.uses = {r} /\ call.execute = {r}
  BY <1>1 DEF user, assistant, Message
<1> HIDE DEF prompt, call
<1>4. /\ <<prompt, call>> \in Seq(Message) /\ Len(<<prompt, call>>) = 2
      /\ <<prompt, call>>[1] = prompt /\ <<prompt, call>>[2] = call
  BY <1>3
<1>5. /\ Len(messages) \in Nat /\ Len(messages') = Len(messages) + 2
      /\ \A n \in 1..Len(messages) : messages'[n] = messages[n]
      /\ messages'[Len(messages) + 1] = prompt /\ messages'[Len(messages) + 2] = call
      /\ messages' # <<>>
      /\ Len(messages) # 0 => messages # <<>>
  BY <1>1, <1>2, <1>4 DEF MessagesTypeOK
<1>6. AllDone /\ \A type : ~InQueue(type) /\ ~InQueue(type)'
  BY <1>2 DEF InFlight, AllDone, InQueue
<1>7. Open = {}
  BY <1>1, <1>2, <1>6 DEF TurnInv, ReadyInv, AllDone, StateTypeOK
<1>8. Open' = {r} /\ Asked' = {r}
  BY <1>3, <1>5 DEF Open, Asked
<1>9. pending_tool_ids = {} /\ collected_tool_results = {}
  BY <1>7, ManyFacts DEF TurnInv, BatchInv
<1>10. RequestInv' /\ QueueInv'
  BY <1>2, <1>6 DEF RequestInv, QueueInv, AllDone, InQueue
<1>11. WorkInv'
  <2> SUFFICES ASSUME NEW u \in Uses, u # r, AtWork(u)'
               PROVE  FALSE
    BY <1>8 DEF WorkInv
  <2>1. tool'[u] = tool[u] /\ widget'[u] = widget[u]
    BY <1>1, <1>2 DEF ExecuteManual, spawn_tool_use, ToolTypeOK, WidgetTypeOK
  <2> QED
    BY <1>2, <1>9, <2>1 DEF AtWork, InFlight
<1>12. BatchInv' /\ ReadyInv'
  BY <1>2, <1>8, <1>9, ManyFacts DEF BatchInv, ReadyInv
<1>13. MessageInv'
  BY <1>1, <1>2, <1>5, <1>8, FS_Singleton DEF MessageInv
<1>14. EveryUseIsAnswered'
  <2> SUFFICES ASSUME NEW n \in 1..(Len(messages') - 1), messages'[n].role = "assistant"
               PROVE  /\ messages'[n].execute \subseteq messages'[n + 1].results
                      /\ messages'[n + 1].results \subseteq messages'[n].uses
    BY DEF EveryUseIsAnswered
  <2>1. n \in 1..(Len(messages) + 1) /\ n # Len(messages) + 1
    BY <1>3, <1>5
  <2>2. CASE n = Len(messages)
    BY <1>3, <1>5, <1>7, <2>1, <2>2 DEF Open
  <2>3. CASE n # Len(messages)
    <3>1. n \in 1..(Len(messages) - 1) /\ n + 1 \in 1..Len(messages)
      BY <1>5, <2>1, <2>3
    <3> QED
      BY <1>5, <3>1 DEF TurnInv, EveryUseIsAnswered
  <2> QED
    BY <2>2, <2>3
<1> QED
  BY <1>10, <1>11, <1>12, <1>13, <1>14 DEF TurnInv

-----------------------------------------------------------------------------
(* The history is one the providers accept *)

LEMMA TurnNextKeeps ==
    ASSUME ChatInv, ChatInv', OneAnswer, TurnInv, Calm', [Next]_vars
    PROVE  TurnInv'
<1>1. ASSUME NEW t \in Uses, ToolStep(t) \/ ComboProgresses(t)
      PROVE  TurnInv'
  BY <1>1, ToolTasksTurn
<1>2. ASSUME NEW n \in DOMAIN chats, ChatStep(n)
      PROVE  TurnInv'
  BY <1>2, ChatStartsTurn, ChatFailsTurn, ChatAnswersTurn, ChatExecutesTurn DEF ChatStep
<1>3. CASE HandleEvent
  BY <1>3, HandleStateTurn, HandleBotTurn, HandleAsksUserTurn, HandlePendingTurn,
     HandleToolResultTurn DEF HandleEvent
<1>4. ASSUME NEW t \in ToolIds, PressToRefuse(t)
      PROVE  TurnInv'
  BY <1>4, CancelToolTurn, RejectHunkTurn, PressTurn DEF PressToRefuse
<1>5. CASE UserStep
  BY <1>4, <1>5, SubmitTurn, GrantTurn, CancelToolTurn, ApplyHunkTurn, RejectHunkTurn,
     ExecuteManualTurn, PressTurn DEF UserStep
<1> QED
  BY <1>1, <1>2, <1>3, <1>5, PressTurn DEF Next, Running

\* Once disturbed, always disturbed.
LEMMA CalmBefore ==
    ASSUME ChatInv, [Next]_vars, Calm'
    PROVE  Calm
<1>1. interfered \in BOOLEAN /\ batch_cancelled \in BOOLEAN
  BY DEF ChatInv, TypeOK
<1>2. CASE UNCHANGED vars
  BY <1>2 DEF vars, ghostVars, Calm
<1> QED
  BY <1>1, <1>2, ZenonT(60)
  DEF Next, Running, Calm, ghostVars, ToolStep, ToolStarts, ToolFinishes, ToolStopsSilently,
      EditProposed, HunkApplied, ComboProgresses, ChatStep, ChatStarts, ChatFails, ChatAnswers,
      ChatExecutes, HandleEvent, HandleAskBot, HandleBot, HandleCancelled, HandleAsksUser,
      HandleAutoEdit, HandlePending, HandleToolResult, HandleComboProgress, UserStep, Submit,
      Grant, GrantSession, CancelTool, Refuse, ApplyHunk, RejectHunk, ExecuteManual,
      PressToCancel, PressToRefuse, Disarm

LEMMA TurnInvariant == Spec => [](Calm => TurnInv)
<1>1. Init => TurnInv
  <2> SUFFICES ASSUME Init
               PROVE  TurnInv
    OBVIOUS
  <2>1. /\ events = <<>> /\ chats = <<>> /\ messages = <<>> /\ pending_chats = {}
        /\ pending_tool_ids = {} /\ collected_tool_results = {}
        /\ \A t \in Uses : widget[t] = "none" /\ tool[t].pc = "none"
        /\ \A t \in ToolIds : kind[t] = "none"
    BY DEF Init, NoTask
  <2>2. Open = {} /\ Asked = {}
    BY <2>1 DEF Open, Asked
  <2>3. \A t \in Uses : ~AtWork(t)
    BY <2>1 DEF AtWork
  <2> QED
    BY <2>1, <2>2, <2>3, ManyFacts, FS_EmptySet
    DEF TurnInv, RequestInv, QueueInv, WorkInv, BatchInv, ReadyInv, MessageInv,
        EveryUseIsAnswered, InQueue
<1>2. ChatInv /\ ChatInv' /\ OneAnswer /\ (Calm => TurnInv) /\ [Next]_vars => (Calm => TurnInv)'
  BY TurnNextKeeps, CalmBefore
<1> QED
  BY <1>1, <1>2, ChatInvariant, OneAnswerInvariant, PTL DEF Spec

\* The history the providers see is one they accept (EveryUseIsAnswered: HandleToolResult
\* collects a batch, build_user_content adds what the user refused), unless the user
\* disturbed a turn; and no tool use has two answers whatever the user does.
THEOREM UsesCorrect == Spec => []UsesAreAnsweredOnce
<1>1. (Calm => TurnInv) /\ AnsweredAtMostOnce => UsesAreAnsweredOnce
  BY DEF UsesAreAnsweredOnce, HistoryIsAnswered, TurnInv, Calm
<1> QED
  BY <1>1, TurnInvariant, AnswersCorrect, PTL

-----------------------------------------------------------------------------
(* A turn that nobody disturbs is not lost *)

\* The types of the events with which a tool's task goes to the user, or ends
FromTool == {"Permission", "TextEdit", "ToolResult"}

\* No task that was started has a token that was cancelled.
TokenInv ==
    \A t \in Uses : tool[t].pc \in {"spawned", "running"} => tool[t].token = cancel_token

\* Between two requests, everything the component has to run is at work, was collected, or
\* was refused.
StillInv == AllDone => \A t \in Open : AtWork(t) \/ t \in pending_chats

\* A batch is complete only when its results are sent.
MissingInv ==
    /\ pending_tool_ids \cap collected_tool_results = {}
    /\ AllDone /\ Many(Open) => ~(Open \subseteq collected_tool_results)

\* The component hears of the request, then of the answer, then of the tools.
OrderInv ==
    /\ \A m, n \in DOMAIN events :
          /\ events[m].type \in {"AskBot", "Bot"} /\ events[n].type \in FromTool => m < n
          /\ events[m].type = "AskBot" /\ events[n].type = "Bot" => m < n
    /\ InQueue("AskBot") \/ InQueue("Bot") => WaitingTools = {}

\* Who reports will still end: t is running, or its result comes later in the queue.
WillEnd(m, t) ==
    \/ events[m].type = "ComboProgress" /\ t \in ManualRuns /\ tool[t].pc = "running"
    \/ \E n \in DOMAIN events : m < n /\ events[n].type = "ToolResult" /\ t \in events[n].ids

ReportInv ==
    \A m \in DOMAIN events : events[m].type \in {"AutoEdit", "ComboProgress"} =>
       events[m].ids # {} /\ \A t \in events[m].ids : WillEnd(m, t)

NothingToRun == \E n \in DOMAIN events : events[n].type = "Bot" /\ events[n].ids = {}

\* The component, once the model has answered, has a reason to be at work.
ReasonInv ==
    /\ \A n \in DOMAIN chats : chats[n].pc \in {"responded", "done"}
    /\ state = "Processing" \/ InQueue("AskBot")
    => IF Open = {} THEN NothingToRun ELSE Open \cap pending_chats = {}

LossInv == TokenInv /\ StillInv /\ MissingInv /\ OrderInv /\ ReportInv /\ ReasonInv

\* What holds before and after a step of a turn that nobody disturbs
Turning == ChatInv /\ OneAnswer /\ TurnInv /\ Undisturbed

LEMMA NobodyUnknown ==
    ASSUME Undisturbed, NEW t
    PROVE  ~Unknown(t, kind)
BY DEF Undisturbed, Unknown

LEMMA TurningTypes ==
    ASSUME Turning
    PROVE  /\ StateTypeOK /\ BatchTypeOK /\ WidgetTypeOK /\ GuardTypeOK /\ EventsTypeOK
           /\ ChatsTypeOK /\ ToolTypeOK /\ MessagesTypeOK
           /\ \A n \in DOMAIN events : n \in Nat
<1>1. TypeOK
  BY DEF Turning, ChatInv
<1>2. EventsTypeOK
  BY <1>1, TypeParts
<1> QED
  BY <1>1, <1>2, TypeParts DEF EventsTypeOK

LEMMA TurningTypesAfter ==
    ASSUME Turning'
    PROVE  /\ StateTypeOK' /\ BatchTypeOK' /\ WidgetTypeOK' /\ EventsTypeOK'
           /\ ChatsTypeOK' /\ ToolTypeOK' /\ MessagesTypeOK'
           /\ \A n \in DOMAIN events' : n \in Nat
<1>1. ChatInv'
  BY DEF Turning
<1> QED
  BY <1>1, TypeAfter DEF EventsTypeOK

\* Where a tool use is at work the component waits for it.
LEMMA WorkerIsAwaited ==
    ASSUME Turning, NEW t \in Uses, AtWork(t), t \notin collected_tool_results
    PROVE  Open # {} /\ Open \cap pending_chats = {}
<1>1. t \in Open
  BY DEF Turning, TurnInv, WorkInv
<1>2. t \notin pending_chats
  <2> SUFFICES ASSUME t \in pending_chats
               PROVE  FALSE
    OBVIOUS
  <2>1. Holds(t, "pending", 0)
    BY DEF Holds
  <2>2. PICK p \in {"task", "event", "widget"}, n \in Nat : Holds(t, p, n)
    BY AtWorkHolds DEF Turning
  <2> QED
    BY <2>1, <2>2, OnlyThere DEF Turning, OneAnswer, Places
<1>3. CASE Many(Open)
  BY <1>1, <1>3 DEF Turning, TurnInv, BatchInv
<1>4. CASE ~Many(Open)
  <2>1. Open = {t}
    BY <1>1, <1>4, ManyFacts DEF Turning, TurnInv, MessageInv
  <2> QED
    BY <1>2, <2>1
<1> QED
  BY <1>1, <1>3, <1>4

\* A step that is not about requests, messages or what was collected, and after which
\* everybody who was at work is so
LEMMA WorkGoesOn ==
    ASSUME Turning, Turning', LossInv, NEW k \in {0, 1},
           UNCHANGED <<pending_chats, pending_tool_ids, collected_tool_results, chats,
                       messages>>,
           TokenInv', ReportInv',
           \A t \in Uses : AtWork(t) => AtWork(t)',
           \A m \in DOMAIN events' :
              \/ m + k \in DOMAIN events /\ events'[m] = events[m + k]
              \/ /\ \A n \in DOMAIN events : n < m + k
                 /\ events'[m].type \notin {"AskBot", "Bot"},
           \/ WaitingTools' \subseteq WaitingTools
           \/ ~InQueue("AskBot") /\ ~InQueue("Bot"),
           state' = "Processing" \/ InQueue("AskBot")' =>
              /\ NothingToRun => NothingToRun'
              /\ \/ state = "Processing" \/ InQueue("AskBot")
                 \/ Open # {} /\ Open \cap pending_chats = {}
    PROVE  LossInv'
<1>1. Open' = Open /\ AllDone' = AllDone
  BY DEF Open, AllDone
<1>2. /\ \A n \in DOMAIN events : n \in Nat
      /\ \A n \in DOMAIN events' : n \in Nat
      /\ Open \subseteq Uses
  <2>1. MessagesTypeOK
    BY TurningTypes
  <2>2. messages # <<>> => messages[Len(messages)] \in Message
    BY <2>1 DEF MessagesTypeOK
  <2>3. Open \subseteq Uses
    BY <2>2 DEF Message, Open
  <2> QED
    BY <2>3, TurningTypes, TurningTypesAfter
<1>3. StillInv' /\ MissingInv'
  BY <1>1, <1>2 DEF LossInv, StillInv, MissingInv
<1>4. \A m \in DOMAIN events' : events'[m].type \in {"AskBot", "Bot"} =>
         m + k \in DOMAIN events /\ events'[m] = events[m + k]
  OBVIOUS
<1>5. \A type \in {"AskBot", "Bot"} : InQueue(type)' => InQueue(type)
  BY <1>4 DEF InQueue
<1>6. OrderInv'
  <2>1. ASSUME NEW m \in DOMAIN events', NEW n \in DOMAIN events'
        PROVE  /\ events'[m].type \in {"AskBot", "Bot"} /\ events'[n].type \in FromTool => m < n
               /\ events'[m].type = "AskBot" /\ events'[n].type = "Bot" => m < n
    BY <1>2, <1>4 DEF LossInv, OrderInv, FromTool
  <2>2. InQueue("AskBot")' \/ InQueue("Bot")' => WaitingTools' = {}
    BY <1>5 DEF LossInv, OrderInv
  <2> QED
    BY <2>1, <2>2 DEF OrderInv
<1>7. ReasonInv'
  BY <1>1 DEF LossInv, ReasonInv
<1> QED
  BY <1>3, <1>6, <1>7 DEF LossInv

-----------------------------------------------------------------------------
(* No task of a tool ends without a word *)

\* A tool's task that reports and stays at work, or ends with an event about its tool use
LEMMA TaskReports ==
    ASSUME Turning, Turning', LossInv, NEW t \in Uses,
           UNCHANGED <<chatVars, widget, cancel_token, chats, messages>>,
           \A u \in Uses : u # t => tool'[u] = tool[u],
           tool'[t].pc \in {"spawned", "running"} =>
              tool[t].pc \in {"spawned", "running"} /\ tool'[t].token = tool[t].token,
           AtWork(t)',
           \A m \in DOMAIN events : m \in DOMAIN events' /\ events'[m] = events[m],
           \A m \in DOMAIN events' : m \notin DOMAIN events =>
              /\ \A n \in DOMAIN events : n < m
              /\ events'[m].type \notin {"AskBot", "Bot"}
              /\ events'[m].type \in {"AutoEdit", "ComboProgress"} =>
                    events'[m].ids = {t} /\ WillEnd(m, t)',
           t \in ManualRuns /\ tool[t].pc = "running" =>
              \/ tool'[t].pc = "running"
              \/ \E n \in DOMAIN events' : /\ \A m \in DOMAIN events : m < n
                                           /\ events'[n].type = "ToolResult"
                                           /\ t \in events'[n].ids
    PROVE  LossInv'
<1>1. UNCHANGED <<pending_chats, pending_tool_ids, collected_tool_results, state>>
  BY DEF chatVars, batchVars
<1>2. TokenInv'
  BY DEF LossInv, TokenInv
<1>3. ReportInv'
  <2> SUFFICES ASSUME NEW m \in DOMAIN events',
                      events'[m].type \in {"AutoEdit", "ComboProgress"}
               PROVE  events'[m].ids # {} /\ \A u \in events'[m].ids : WillEnd(m, u)'
    BY DEF ReportInv
  <2>1. CASE m \notin DOMAIN events
    BY <2>1
  <2>2. CASE m \in DOMAIN events
    <3>1. /\ events'[m] = events[m] /\ events[m].ids # {}
          /\ \A u \in events[m].ids : WillEnd(m, u)
      BY <2>2 DEF LossInv, ReportInv
    <3>2. ASSUME NEW u \in events[m].ids
          PROVE  WillEnd(m, u)'
      <4>1. CASE \E n \in DOMAIN events : /\ m < n /\ events[n].type = "ToolResult"
                                          /\ u \in events[n].ids
        BY <4>1 DEF WillEnd
      <4>2. CASE /\ events[m].type = "ComboProgress" /\ u \in ManualRuns
                 /\ tool[u].pc = "running"
        <5>1. u \in Uses
          BY <4>2 DEF Uses
        <5> QED
          BY <2>2, <3>1, <4>2, <5>1 DEF WillEnd
      <4> QED
        BY <3>1, <4>1, <4>2 DEF WillEnd
    <3> QED
      BY <3>1, <3>2
  <2> QED
    BY <2>1, <2>2
<1>4. \A u \in Uses : AtWork(u) => AtWork(u)'
  <2> SUFFICES ASSUME NEW u \in Uses, u # t, AtWork(u)
               PROVE  AtWork(u)'
    OBVIOUS
  <2>1. ~Unknown(u, kind) /\ ~Unknown(u, kind)'
    BY NobodyUnknown DEF Turning, Undisturbed, Unknown
  <2> QED
    BY <1>1, <2>1 DEF AtWork
<1>5. \A m \in DOMAIN events' :
         \/ m + 0 \in DOMAIN events /\ events'[m] = events[m + 0]
         \/ /\ \A n \in DOMAIN events : n < m + 0
            /\ events'[m].type \notin {"AskBot", "Bot"}
  BY TurningTypesAfter
<1>6. NothingToRun => NothingToRun'
  BY DEF NothingToRun
<1>7. state' = "Processing" \/ InQueue("AskBot")' => state = "Processing" \/ InQueue("AskBot")
  BY <1>1 DEF InQueue
<1>8. WaitingTools' = WaitingTools
  BY DEF WaitingTools
<1> QED
  BY <1>1, <1>2, <1>3, <1>4, <1>5, <1>6, <1>7, <1>8, WorkGoesOn

LEMMA ToolEndsLoud ==
    ASSUME Turning, Turning', LossInv, NEW t \in Uses, ToolDone(t),
           NEW type \in FromTool, Send(type, {t}),
           t \in ManualRuns => type = "ToolResult",
           UNCHANGED <<chatVars, widget, cancel_token, chats, messages>>
    PROVE  LossInv'
<1> DEFINE e == [type |-> type, ids |-> {t}]
<1>1. e \in Event /\ events' = Append(events, e) /\ e.type = type /\ e.ids = {t}
  BY DEF Send, Event, FromTool
<1>2. e.type \notin {"AskBot", "Bot", "AutoEdit", "ComboProgress"}
  BY DEF FromTool
<1> HIDE DEF e
<1>3. /\ \A m \in DOMAIN events' :
            \/ m \in DOMAIN events /\ events'[m] = events[m]
            \/ (\A n \in DOMAIN events : n < m) /\ events'[m] = e
      /\ \A m \in DOMAIN events : m \in DOMAIN events' /\ events'[m] = events[m]
      /\ \E n \in DOMAIN events' : (\A m \in DOMAIN events : m < n) /\ events'[n] = e
  BY <1>1, TurningTypes DEF EventsTypeOK
<1>4. /\ tool'[t].pc = "done"
      /\ \A u \in Uses : u # t => tool'[u] = tool[u]
  BY TurningTypes, DoneTask DEF ToolDone, ToolTypeOK
<1>5. AtWork(t)'
  BY <1>1, <1>3 DEF AtWork, FromTool
<1>6. \A m \in DOMAIN events' : m \notin DOMAIN events =>
         /\ \A n \in DOMAIN events : n < m
         /\ events'[m].type \notin {"AskBot", "Bot", "AutoEdit", "ComboProgress"}
  BY <1>2, <1>3
<1>7. t \in ManualRuns =>
         \E n \in DOMAIN events' : /\ \A m \in DOMAIN events : m < n
                                   /\ events'[n].type = "ToolResult" /\ t \in events'[n].ids
  BY <1>1, <1>3
<1> QED
  BY <1>3, <1>4, <1>5, <1>6, <1>7, TaskReports

LEMMA ToolStartsLoud ==
    ASSUME Turning, Turning', LossInv, NEW t \in Uses, ToolStarts(t)
    PROVE  LossInv'
<1>1. /\ tool[t].pc = "spawned" /\ ToolTypeOK /\ GuardTypeOK /\ EventsTypeOK
      /\ UNCHANGED <<chatVars, widget, cancel_token, chats, messages>>
  BY TurningTypes DEF ToolStarts, widgetVars, guardVars
<1>2. ~Cancelled(tool[t].token) /\ ~Unknown(t, kind) /\ ~Unknown(t, kind)'
  BY <1>1, NobodyUnknown DEF LossInv, TokenInv, Cancelled, GuardTypeOK, Tokens, Turning,
                             Undisturbed, Unknown
<1>3. CASE t \in ToolIds /\ ToolDone(t) /\ Send("Permission", {t})
  <2>1. t \notin ManualRuns
    BY <1>3, IdsAssumption
  <2> QED
    BY <1>1, <1>3, <2>1, ToolEndsLoud DEF FromTool
<1>4. CASE tool' = [tool EXCEPT ![t].pc = "running"] /\ UNCHANGED events
  <2>1. /\ tool'[t].pc = "running" /\ tool'[t].token = tool[t].token
        /\ \A u \in Uses : u # t => tool'[u] = tool[u]
    BY <1>1, <1>4 DEF ToolTypeOK, Task
  <2>2. AtWork(t)'
    BY <2>1 DEF AtWork
  <2> QED
    BY <1>1, <1>4, <2>1, <2>2, TaskReports
<1> QED
  BY <1>2, <1>3, <1>4 DEF ToolStarts, Unknown

LEMMA EditProposedLoud ==
    ASSUME Turning, Turning', LossInv, NEW t \in Uses, NEW h, NEW auto,
           EditProposed(t, h, auto)
    PROVE  LossInv'
<1>1. /\ t \in ToolIds /\ t \notin ManualRuns /\ ToolDone(t)
      /\ ToolTypeOK /\ EventsTypeOK /\ EventsTypeOK'
      /\ UNCHANGED <<chatVars, widget, cancel_token, chats, messages>>
  BY TurningTypes, TurningTypesAfter, IdsAssumption DEF EditProposed, guardVars
<1>2. CASE Send("TextEdit", {t})
  BY <1>1, <1>2, ToolEndsLoud DEF FromTool
<1>3. CASE events' = events \o <<[type |-> "AutoEdit", ids |-> {t}],
                                 [type |-> "ToolResult", ids |-> {t}]>>
  <2> DEFINE a == [type |-> "AutoEdit", ids |-> {t}]
             b == [type |-> "ToolResult", ids |-> {t}]
  <2>1. /\ a \in Event /\ b \in Event /\ a.ids = {t} /\ b.ids = {t}
        /\ a.type = "AutoEdit" /\ b.type = "ToolResult" /\ events' = events \o <<a, b>>
    BY <1>3 DEF Event
  <2> HIDE DEF a, b
  <2>2. <<a, b>> \in Seq(Event) /\ Len(<<a, b>>) = 2
        /\ <<a, b>>[1] = a /\ <<a, b>>[2] = b
    BY <2>1
  <2>3. PICK last \in DOMAIN events' :
           /\ events'[last] = b /\ \A n \in DOMAIN events : n < last
           /\ \A m \in DOMAIN events' : m \notin DOMAIN events =>
                 /\ \A n \in DOMAIN events : n < m
                 /\ \/ events'[m] = a /\ m < last
                    \/ events'[m] = b
           /\ \A m \in DOMAIN events : m \in DOMAIN events' /\ events'[m] = events[m]
    <3>1. /\ Len(events') = Len(events) + 2 /\ Len(events) \in Nat
          /\ DOMAIN events = 1..Len(events) /\ DOMAIN events' = 1..Len(events')
          /\ \A m \in 1..Len(events) : events'[m] = events[m]
          /\ events'[Len(events) + 1] = a /\ events'[Len(events) + 2] = b
      BY <1>1, <2>1, <2>2 DEF EventsTypeOK
    <3>2. Len(events) + 2 \in DOMAIN events'
      BY <3>1
    <3> QED
      BY <3>1, <3>2
  <2>4. AtWork(t)'
    BY <2>1, <2>3 DEF AtWork
  <2>5. \A m \in DOMAIN events' : m \notin DOMAIN events =>
           /\ \A n \in DOMAIN events : n < m
           /\ events'[m].type \notin {"AskBot", "Bot"}
           /\ events'[m].type \in {"AutoEdit", "ComboProgress"} =>
                 events'[m].ids = {t} /\ WillEnd(m, t)'
    BY <2>1, <2>3 DEF WillEnd
  <2>6. /\ tool'[t].pc = "done"
        /\ \A u \in Uses : u # t => tool'[u] = tool[u]
    BY <1>1, DoneTask DEF ToolDone, ToolTypeOK
  <2> QED
    BY <1>1, <2>3, <2>4, <2>5, <2>6, TaskReports
<1> QED
  BY <1>2, <1>3 DEF EditProposed

LEMMA ComboProgressesLoud ==
    ASSUME Turning, Turning', LossInv, NEW t \in Uses, ComboProgresses(t)
    PROVE  LossInv'
<1> DEFINE e == [type |-> "ComboProgress", ids |-> {t}]
<1>1. /\ tool[t].pc = "running" /\ t \in ManualRuns /\ EventsTypeOK
      /\ UNCHANGED <<chatVars, widget, cancel_token, chats, messages, tool>>
  BY TurningTypes DEF ComboProgresses, widgetVars, guardVars, taskVars
<1>2. /\ e \in Event /\ events' = Append(events, e) /\ e.type = "ComboProgress" /\ e.ids = {t}
  BY DEF ComboProgresses, Send, Event
<1> HIDE DEF e
<1>3. /\ \A m \in DOMAIN events' :
            \/ m \in DOMAIN events /\ events'[m] = events[m]
            \/ (\A n \in DOMAIN events : n < m) /\ events'[m] = e
      /\ \A m \in DOMAIN events : m \in DOMAIN events' /\ events'[m] = events[m]
  BY <1>1, <1>2 DEF EventsTypeOK
<1>4. AtWork(t)'
  BY <1>1 DEF AtWork
<1>5. \A m \in DOMAIN events' : m \notin DOMAIN events =>
         /\ \A n \in DOMAIN events : n < m
         /\ events'[m].type \notin {"AskBot", "Bot"}
         /\ events'[m].ids = {t} /\ WillEnd(m, t)'
  BY <1>1, <1>2, <1>3 DEF WillEnd
<1> QED
  BY <1>1, <1>3, <1>4, <1>5, TaskReports

\* A task is dropped silently only when its token was cancelled.
LEMMA ToolTasksLoud ==
    ASSUME Turning, Turning', LossInv, NEW t \in Uses, ToolStep(t) \/ ComboProgresses(t)
    PROVE  LossInv'
<1>1. CASE ToolFinishes(t)
  BY <1>1, ToolEndsLoud DEF ToolFinishes, widgetVars, guardVars, FromTool
<1>2. ~ToolStopsSilently(t)
  BY TurningTypes
  DEF ToolStopsSilently, LossInv, TokenInv, Cancelled, GuardTypeOK, Tokens
<1>3. CASE \E failed \in BOOLEAN : HunkApplied(t, failed)
  <2>1. t \notin ManualRuns
    BY <1>3, IdsAssumption DEF HunkApplied
  <2> QED
    BY <1>3, <2>1, ToolEndsLoud DEF HunkApplied, guardVars, FromTool
<1> QED
  BY <1>1, <1>2, <1>3, ToolStartsLoud, EditProposedLoud, ComboProgressesLoud DEF ToolStep

-----------------------------------------------------------------------------
(* No event is the last one, unless it makes the component ready *)

LEMMA TokenStays ==
    ASSUME LossInv, UNCHANGED <<tool, cancel_token>>
    PROVE  TokenInv'
BY DEF LossInv, TokenInv

LEMMA ReportsReceived ==
    ASSUME Turning, LossInv, NEW type, Receive(type), UNCHANGED tool
    PROVE  ReportInv'
<1>1. EventsTypeOK
  BY TurningTypes
<1>2. \A m \in DOMAIN events' : /\ m + 1 \in DOMAIN events /\ m \in Nat
                                /\ events'[m] = events[m + 1]
  BY <1>1, ReceivedPlaces DEF EventsTypeOK, Receive
<1>3. \A n \in DOMAIN events : n # 1 => /\ n \in Nat /\ n - 1 \in DOMAIN events'
                                        /\ events'[n - 1] = events[n]
  BY <1>1 DEF EventsTypeOK, Receive
<1> SUFFICES ASSUME NEW m \in DOMAIN events', events'[m].type \in {"AutoEdit", "ComboProgress"}
             PROVE  events'[m].ids # {} /\ \A u \in events'[m].ids : WillEnd(m, u)'
  BY DEF ReportInv
<1>4. /\ events'[m] = events[m + 1] /\ events[m + 1].ids # {}
      /\ \A u \in events[m + 1].ids : WillEnd(m + 1, u)
  BY <1>2 DEF LossInv, ReportInv
<1>5. ASSUME NEW u \in events[m + 1].ids
      PROVE  WillEnd(m, u)'
  <2>1. CASE \E n \in DOMAIN events : /\ m + 1 < n /\ events[n].type = "ToolResult"
                                      /\ u \in events[n].ids
    <3>1. PICK n \in DOMAIN events : /\ m + 1 < n /\ events[n].type = "ToolResult"
                                     /\ u \in events[n].ids
      BY <2>1
    <3>2. n # 1 /\ m < n - 1
      BY <1>2, <1>3, <3>1
    <3> QED
      BY <1>3, <3>1, <3>2 DEF WillEnd
  <2> QED
    BY <1>4, <2>1 DEF WillEnd
<1> QED
  BY <1>4, <1>5

\* What is first in the queue comes before the rest of it.
LEMMA FirstInOrder ==
    ASSUME Turning, LossInv, NEW type, Receive(type)
    PROVE  /\ type \in FromTool => ~InQueue("AskBot") /\ ~InQueue("Bot")
           /\ type = "Bot" => ~InQueue("AskBot")
<1>1. EventsTypeOK /\ 1 \in DOMAIN events /\ events[1].type = type
  BY TurningTypes, ReceivedPlaces
<1>2. \A m \in DOMAIN events : ~(m < 1)
  BY <1>1 DEF EventsTypeOK
<1> QED
  BY <1>1, <1>2 DEF LossInv, OrderInv, InQueue

LEMMA NothingToRunStays ==
    ASSUME EventsTypeOK, NEW type, Receive(type), type # "Bot" \/ Head(events).ids # {}
    PROVE  NothingToRun => NothingToRun'
<1> SUFFICES ASSUME NEW m \in DOMAIN events, events[m].type = "Bot", events[m].ids = {}
             PROVE  NothingToRun'
  BY DEF NothingToRun
<1>1. events[1] = Head(events) /\ events[1].type = type
  BY ReceivedPlaces
<1>2. m - 1 \in DOMAIN events' /\ events'[m - 1] = events[m]
  BY <1>1 DEF Receive, EventsTypeOK
<1> QED
  BY <1>2 DEF NothingToRun

\* Who is at work with an event that stays in the queue is still so.
LEMMA OthersAtWork ==
    ASSUME EventsTypeOK, NEW type, Receive(type), NEW u \in Uses, AtWork(u),
           u \notin Head(events).ids \/ type \notin FromTool,
           UNCHANGED tool, Unknown(u, kind)' = Unknown(u, kind),
           collected_tool_results \subseteq collected_tool_results',
           u \in ToolIds /\ widget[u] = "waiting" => widget'[u] = "waiting"
    PROVE  AtWork(u)'
<1>1. 1 \in DOMAIN events /\ events[1] = Head(events) /\ events[1].type = type
  BY ReceivedPlaces
<1>2. \A m \in DOMAIN events : m # 1 => m - 1 \in DOMAIN events' /\ events'[m - 1] = events[m]
  BY DEF Receive, EventsTypeOK
<1>3. ASSUME NEW m \in DOMAIN events, events[m].type \in FromTool, u \in events[m].ids
      PROVE  AtWork(u)'
  BY <1>1, <1>2, <1>3 DEF AtWork, FromTool
<1> QED
  BY <1>3 DEF AtWork, FromTool

LEMMA HandleStateLoud ==
    ASSUME Turning, Turning', LossInv,
           \/ HandleAskBot \/ HandleCancelled \/ HandleAutoEdit \/ HandleComboProgress
    PROVE  LossInv'
<1>1. EventsTypeOK /\ EventsTypeOK' /\ WidgetTypeOK
  BY TurningTypes, TurningTypesAfter
<1>2. PICK type \in {"AskBot", "AutoEdit", "ComboProgress", "Cancelled"} :
         /\ Receive(type)
         /\ type = "AutoEdit" => HandleAutoEdit
  BY DEF HandleAskBot, HandleCancelled, HandleAutoEdit, HandleComboProgress
<1>3. /\ 1 \in DOMAIN events /\ events[1] = Head(events) /\ events[1].type = type
      /\ \A m \in DOMAIN events' : m + 1 \in DOMAIN events /\ events'[m] = events[m + 1]
  BY <1>1, <1>2, ReceivedPlaces
<1>4. type # "Cancelled"
  BY <1>3 DEF Turning, TurnInv, QueueInv, InQueue
<1>5. ~HandleCancelled
  BY <1>2, <1>4 DEF HandleCancelled, Receive
<1>6. /\ UNCHANGED <<pending_chats, pending_tool_ids, collected_tool_results, kind, chats,
                     messages, cancel_token, tool>>
      /\ type = "AutoEdit" => state' = state
      /\ \A t \in Uses : widget'[t] \in {widget[t], "executing"}
      /\ \A t \in Uses : widget'[t] # widget[t] => type = "AutoEdit" /\ t \in events[1].ids
  BY <1>1, <1>2, <1>3, <1>5
  DEF HandleAskBot, HandleAutoEdit, HandleComboProgress, Receive, chatVars, batchVars,
      widgetVars, guardVars, taskVars, set_processing, WidgetTypeOK
<1>7. TokenInv' /\ ReportInv'
  BY <1>2, <1>6, TokenStays, ReportsReceived
<1>8. ASSUME NEW t \in Uses, AtWork(t)
      PROVE  AtWork(t)'
  <2>1. type \notin FromTool /\ Unknown(t, kind)' = Unknown(t, kind)
    BY <1>6 DEF FromTool, Unknown
  <2>2. CASE widget'[t] = widget[t]
    BY <1>1, <1>2, <1>6, <1>8, <2>1, <2>2, OthersAtWork
  <2>3. CASE widget'[t] # widget[t]
    <3>1. type = "AutoEdit" /\ t \in events[1].ids
      BY <1>6, <2>3
    <3>2. WillEnd(1, t)
      BY <1>3, <3>1 DEF LossInv, ReportInv
    <3>3. PICK n \in DOMAIN events : 1 < n /\ events[n].type = "ToolResult" /\ t \in events[n].ids
      BY <1>3, <3>1, <3>2 DEF WillEnd
    <3>4. n - 1 \in DOMAIN events' /\ events'[n - 1] = events[n]
      BY <1>1, <1>2, <3>3 DEF Receive, EventsTypeOK
    <3> QED
      BY <3>3, <3>4 DEF AtWork
  <2> QED
    BY <2>2, <2>3
<1>9. NothingToRun => NothingToRun'
  BY <1>1, <1>2, NothingToRunStays
<1>10. \/ type = "AutoEdit" /\ state' = state
       \/ state = "Processing" \/ InQueue("AskBot")
       \/ Open # {} /\ Open \cap pending_chats = {}
  <2>1. CASE type = "ComboProgress"
    <3>1. PICK t : t \in events[1].ids /\ WillEnd(1, t)
      BY <1>3, <2>1 DEF LossInv, ReportInv
    <3>2. t \in Uses
      BY <1>1, <1>3, <3>1, ReceivedPlaces, <1>2 DEF Event
    <3>3. Holds(t, "task", 0) \/ \E n \in Nat : Holds(t, "event", n)
      BY <1>1, <3>1 DEF WillEnd, Holds, Carried, EventsTypeOK
    <3>4. AtWork(t)
      BY <3>1 DEF WillEnd, AtWork
    <3>5. t \notin collected_tool_results
      <4> SUFFICES ASSUME Holds(t, "collected", 0)
                   PROVE  FALSE
        BY DEF Holds
      <4> QED
        BY <3>2, <3>3, OnlyThere DEF Turning, OneAnswer, Places
    <3> QED
      BY <3>2, <3>4, <3>5, WorkerIsAwaited
  <2> QED
    BY <1>2, <1>3, <1>4, <1>6, <2>1 DEF InQueue
<1>11. InQueue("AskBot")' => InQueue("AskBot")
  BY <1>3 DEF InQueue
<1>12. WaitingTools' \subseteq WaitingTools
  BY <1>6 DEF WaitingTools, Uses
<1> QED
  BY <1>3, <1>6, <1>7, <1>8, <1>9, <1>10, <1>11, <1>12, WorkGoesOn

LEMMA HandleBotLoud ==
    ASSUME Turning, Turning', LossInv, HandleBot
    PROVE  LossInv'
<1>1. EventsTypeOK /\ EventsTypeOK' /\ WidgetTypeOK /\ Receive("Bot")
  BY TurningTypes, TurningTypesAfter DEF HandleBot
<1>2. /\ 1 \in DOMAIN events /\ events[1] = Head(events) /\ events[1].type = "Bot"
      /\ \A m \in DOMAIN events' : m + 1 \in DOMAIN events /\ events'[m] = events[m + 1]
  BY <1>1, ReceivedPlaces
<1>3. WaitingTools = {} /\ ~InQueue("AskBot")
  BY <1>1, <1>2, FirstInOrder DEF LossInv, OrderInv, InQueue
<1>4. /\ UNCHANGED <<pending_chats, pending_tool_ids, collected_tool_results, kind, chats,
                     messages, cancel_token, tool>>
      /\ \A t \in Uses : widget'[t] \in {widget[t], "initing"}
      /\ Head(events).ids # {} => state' = state
      /\ Head(events).ids = {} => state' = "Ready"
  BY <1>1 DEF HandleBot, batchVars, taskVars, set_ready, WidgetTypeOK
<1>5. TokenInv' /\ ReportInv'
  BY <1>1, <1>4, TokenStays, ReportsReceived
<1>6. ASSUME NEW t \in Uses, AtWork(t)
      PROVE  AtWork(t)'
  <2>1. "Bot" \notin FromTool /\ Unknown(t, kind)' = Unknown(t, kind)
    BY <1>4 DEF FromTool, Unknown
  <2>2. t \in ToolIds => widget[t] # "waiting"
    BY <1>3 DEF WaitingTools
  <2> QED
    BY <1>1, <1>4, <1>6, <2>1, <2>2, OthersAtWork
<1>7. InQueue("AskBot")' => InQueue("AskBot")
  BY <1>2 DEF InQueue
<1>8. Head(events).ids # {} => (NothingToRun => NothingToRun')
  BY <1>1, NothingToRunStays
<1>9. WaitingTools' \subseteq WaitingTools
  BY <1>4 DEF WaitingTools, Uses
<1> QED
  BY <1>2, <1>3, <1>4, <1>5, <1>6, <1>7, <1>8, <1>9, WorkGoesOn

LEMMA HandleAsksUserLoud ==
    ASSUME Turning, Turning', LossInv, HandleAsksUser
    PROVE  LossInv'
<1>1. EventsTypeOK /\ EventsTypeOK' /\ WidgetTypeOK /\ EventsInv
  BY TurningTypes, TurningTypesAfter DEF Turning, ChatInv
<1>2. PICK type \in {"Permission", "TextEdit"} : Receive(type)
  BY DEF HandleAsksUser
<1>3. /\ 1 \in DOMAIN events /\ events[1] = Head(events) /\ events[1].type = type
      /\ \A m \in DOMAIN events' : m + 1 \in DOMAIN events /\ events'[m] = events[m + 1]
  BY <1>1, <1>2, ReceivedPlaces
<1>4. /\ UNCHANGED <<pending_chats, pending_tool_ids, collected_tool_results, kind, chats,
                     messages, cancel_token, tool, state>>
      /\ \A t \in Uses : widget'[t] = IF t \in events[1].ids THEN "waiting" ELSE widget[t]
  BY <1>1, <1>3 DEF HandleAsksUser, batchVars, taskVars, guardVars, WidgetTypeOK
<1>5. events[1].ids \subseteq ToolIds
  BY <1>1, <1>2, <1>3 DEF EventsInv, EventOK
<1>6. TokenInv' /\ ReportInv'
  BY <1>2, <1>4, TokenStays, ReportsReceived
<1>7. ASSUME NEW t \in Uses, AtWork(t)
      PROVE  AtWork(t)'
  <2>1. CASE t \in events[1].ids
    BY <1>4, <1>5, <2>1 DEF AtWork
  <2>2. CASE t \notin events[1].ids
    <3>1. Unknown(t, kind)' = Unknown(t, kind)
      BY <1>4 DEF Unknown
    <3> QED
      BY <1>1, <1>2, <1>3, <1>4, <1>7, <2>2, <3>1, OthersAtWork
  <2> QED
    BY <2>1, <2>2
<1>8. ~InQueue("AskBot") /\ ~InQueue("Bot")
  BY <1>2, FirstInOrder DEF FromTool
<1>9. InQueue("AskBot")' => InQueue("AskBot")
  BY <1>3 DEF InQueue
<1>10. NothingToRun => NothingToRun'
  BY <1>1, <1>2, NothingToRunStays
<1> QED
  BY <1>3, <1>4, <1>6, <1>7, <1>8, <1>9, <1>10, WorkGoesOn

\* The answers go to the model at once: nobody is at work while the request is under way.
LEMMA SpawnsLoud ==
    ASSUME Turning, Turning', NEW c, c.pc = "spawned", chats' = Append(chats, c),
           ReportInv'
    PROVE  LossInv'
<1> DEFINE n == Len(chats')
<1>1. n \in DOMAIN chats' /\ chats'[n].pc = "spawned"
  BY TurningTypes, TurningTypesAfter DEF ChatsTypeOK
<1>2. /\ \A t \in Uses : ~AtWork(t)'
      /\ ~InQueue("AskBot")' /\ ~InQueue("Bot")' /\ pending_tool_ids' = {}
  BY <1>1 DEF Turning, TurnInv, RequestInv
<1>3. TokenInv'
  <2>1. \A t : ~Unknown(t, kind)'
    BY DEF Turning, Undisturbed, Unknown
  <2> QED
    BY <1>2, <2>1 DEF TokenInv, AtWork
<1>4. StillInv' /\ MissingInv' /\ ReasonInv'
  BY <1>1, <1>2 DEF StillInv, MissingInv, ReasonInv, AllDone
<1>5. OrderInv'
  BY <1>2 DEF OrderInv, InQueue
<1> QED
  BY <1>3, <1>4, <1>5 DEF LossInv

LEMMA HandlePendingLoud ==
    ASSUME Turning, Turning', LossInv, HandlePending
    PROVE  LossInv'
<1>1. EventsTypeOK /\ EventsTypeOK' /\ Receive("Pending") /\ BatchTypeOK
  BY TurningTypes, TurningTypesAfter DEF HandlePending
<1>2. /\ 1 \in DOMAIN events /\ events[1] = Head(events) /\ events[1].type = "Pending"
      /\ \A m \in DOMAIN events' : /\ m + 1 \in DOMAIN events /\ m \in Nat
                                   /\ events'[m] = events[m + 1]
  BY <1>1, ReceivedPlaces DEF EventsTypeOK
<1>3. collected_tool_results = {} /\ events[1].ids = Open /\ Many(Open)
  BY <1>2 DEF Turning, TurnInv, QueueInv
<1>4. /\ UNCHANGED <<pending_chats, collected_tool_results, kind, widget, chats, messages,
                     cancel_token, tool, state>>
      /\ collected_tool_results' = {}
  BY <1>3 DEF HandlePending, taskVars, widgetVars, guardVars
<1>5. Open' = Open /\ AllDone' = AllDone /\ Open # {}
  BY <1>3, <1>4, OpenStays, ManyFacts DEF AllDone
<1>6. TokenInv' /\ ReportInv'
  BY <1>1, <1>4, TokenStays, ReportsReceived
<1>7. \A t \in Uses : AtWork(t) => AtWork(t)'
  <2>1. "Pending" \notin FromTool
    BY DEF FromTool
  <2>2. \A t \in Uses : Unknown(t, kind)' = Unknown(t, kind)
    BY <1>4 DEF Unknown
  <2> QED
    BY <1>1, <1>4, <2>1, <2>2, OthersAtWork
<1>8. Open \subseteq Uses
  <2>1. Head(events) \in Event
    BY <1>1, ReceivedPlaces
  <2> QED
    BY <1>2, <1>3, <2>1 DEF Event
<1>9. StillInv' /\ MissingInv'
  BY <1>4, <1>5, <1>7, <1>8 DEF LossInv, StillInv, MissingInv
<1>10. \A type : InQueue(type)' => InQueue(type)
  BY <1>2 DEF InQueue
<1>11. OrderInv'
  <2>1. WaitingTools' = WaitingTools
    BY <1>4 DEF WaitingTools
  <2>2. ASSUME NEW m \in DOMAIN events', NEW n \in DOMAIN events', m + 1 < n + 1
        PROVE  m < n
    BY <1>2, <2>2
  <2> QED
    BY <1>2, <1>10, <2>1, <2>2 DEF LossInv, OrderInv
<1>12. ReasonInv'
  BY <1>4, <1>5, <1>10 DEF LossInv, ReasonInv
<1> QED
  BY <1>6, <1>9, <1>11, <1>12 DEF LossInv

\* The result of a batch member waits for others, which are still at work; every other one
\* is sent at once.
LEMMA HandleToolResultLoud ==
    ASSUME Turning, Turning', LossInv, HandleToolResult
    PROVE  LossInv'
<1>1. /\ EventsTypeOK /\ EventsTypeOK' /\ WidgetTypeOK /\ BatchTypeOK
      /\ Receive("ToolResult") /\ EventsInv
  BY TurningTypes, TurningTypesAfter DEF HandleToolResult, Turning, ChatInv
<1>2. /\ 1 \in DOMAIN events /\ events[1] = Head(events) /\ events[1].type = "ToolResult"
      /\ \A m \in DOMAIN events' : /\ m + 1 \in DOMAIN events /\ m \in Nat
                                   /\ events'[m] = events[m + 1]
  BY <1>1, ReceivedPlaces DEF EventsTypeOK
<1>3. PICK t \in Uses : Head(events).ids = {t}
  BY <1>1, <1>2 DEF EventsInv, EventOK
<1>4. /\ widget' = [widget EXCEPT ![t] = "finished"]
      /\ pending_tool_ids' = pending_tool_ids \ {t}
      /\ IF BatchIsOpen(t)
         THEN /\ collected_tool_results' = collected_tool_results \cup {t}
              /\ UNCHANGED <<pending_chats, chats, cancel_token>>
         ELSE spawn_chat_task(IF Collected(t)
                              THEN collected_tool_results \cup {t} ELSE {t})
      /\ UNCHANGED <<state, kind, tool, messages>>
  BY <1>3 DEF HandleToolResult
<1>5. ReportInv'
  BY <1>1, <1>4, ReportsReceived
<1>6. CASE ~BatchIsOpen(t)
  <2>1. PICK c : c.pc = "spawned" /\ chats' = Append(chats, c)
    BY <1>4, <1>6 DEF spawn_chat_task
  <2> QED
    BY <1>5, <2>1, SpawnsLoud
<1>7. CASE BatchIsOpen(t)
  <2>1. /\ collected_tool_results' = collected_tool_results \cup {t}
        /\ UNCHANGED <<pending_chats, chats, cancel_token>>
        /\ t \in pending_tool_ids /\ pending_tool_ids' # {}
    BY <1>4, <1>7 DEF BatchIsOpen, Collected
  <2>2. TokenInv'
    BY <1>4, <2>1, TokenStays
  <2>3. \A u \in Uses : AtWork(u) => AtWork(u)'
    <3> SUFFICES ASSUME NEW u \in Uses, u # t, AtWork(u)
                 PROVE  AtWork(u)'
      BY <2>1 DEF AtWork
    <3>1. Unknown(u, kind)' = Unknown(u, kind) /\ widget'[u] = widget[u]
      BY <1>1, <1>4 DEF Unknown, WidgetTypeOK
    <3> QED
      BY <1>1, <1>3, <1>4, <2>1, <3>1, OthersAtWork
  <2>4. Open' = Open /\ AllDone' = AllDone /\ Open \subseteq Uses
    <3>1. MessagesTypeOK
      BY TurningTypes
    <3>2. messages # <<>> => messages[Len(messages)] \in Message
      BY <3>1 DEF MessagesTypeOK
    <3> QED
      BY <1>4, <2>1, <3>2 DEF Open, AllDone, Message
  <2>5. StillInv'
    BY <2>1, <2>3, <2>4 DEF LossInv, StillInv
  <2>6. MissingInv'
    <3>1. pending_tool_ids' \cap collected_tool_results' = {}
      BY <1>4, <2>1 DEF LossInv, MissingInv
    <3>2. pending_tool_ids' \subseteq Open'
      BY DEF Turning, TurnInv, BatchInv
    <3> QED
      BY <2>1, <3>1, <3>2 DEF MissingInv
  <2>7. ~InQueue("AskBot") /\ ~InQueue("Bot")
    BY <1>1, FirstInOrder DEF FromTool
  <2>8. ~InQueue("AskBot")' /\ ~InQueue("Bot")'
    BY <1>2, <2>7 DEF InQueue
  <2>9. OrderInv'
    BY <2>8 DEF OrderInv, InQueue
  <2>10. ReasonInv'
    <3>1. ~NothingToRun
      BY <2>7 DEF NothingToRun, InQueue
    <3> QED
      BY <1>4, <2>1, <2>4, <2>8, <3>1 DEF LossInv, ReasonInv
  <2> QED
    BY <1>5, <2>2, <2>5, <2>6, <2>9, <2>10 DEF LossInv
<1> QED
  BY <1>6, <1>7

-----------------------------------------------------------------------------
(* Keys *)

LEMMA DecidableWaits ==
    ASSUME Turning, NEW t \in ToolIds, Decidable(t)
    PROVE  widget[t] = "waiting"
BY DEF Turning, Undisturbed, Decidable

\* A tool that waits is awaited, and the component has heard of its request.
LEMMA WaiterIsAwaited ==
    ASSUME Turning, LossInv, NEW t \in ToolIds, widget[t] = "waiting"
    PROVE  /\ Open # {} /\ Open \cap pending_chats = {}
           /\ ~InQueue("AskBot") /\ ~InQueue("Bot")
<1>1. t \in Uses /\ AtWork(t) /\ Holds(t, "widget", 0)
  BY DEF Uses, AtWork, Holds
<1>2. t \notin collected_tool_results
  <2> SUFFICES ASSUME Holds(t, "collected", 0)
               PROVE  FALSE
    BY DEF Holds
  <2> QED
    BY <1>1, OnlyThere DEF Turning, OneAnswer, Places
<1>3. ~InQueue("AskBot") /\ ~InQueue("Bot")
  BY DEF LossInv, OrderInv, WaitingTools
<1> QED
  BY <1>1, <1>2, <1>3, WorkerIsAwaited

\* A report of a combo is not about the tool the user decides about.
LEMMA ReportsStay ==
    ASSUME ReportInv, UNCHANGED events,
           \A u \in ManualRuns : tool[u].pc = "running" => tool'[u].pc = "running"
    PROVE  ReportInv'
<1> SUFFICES ASSUME NEW m \in DOMAIN events, events[m].type \in {"AutoEdit", "ComboProgress"}
             PROVE  events[m].ids # {} /\ \A u \in events[m].ids : WillEnd(m, u)'
  BY DEF ReportInv
<1>1. events[m].ids # {} /\ \A u \in events[m].ids : WillEnd(m, u)
  BY DEF ReportInv
<1> QED
  BY <1>1 DEF WillEnd

LEMMA GrantLoud ==
    ASSUME Turning, Turning', LossInv, NEW t \in ToolIds,
           Grant(t) \/ GrantSession(t) \/ ApplyHunk(t)
    PROVE  LossInv'
<1>1. /\ UNCHANGED <<pending_chats, pending_tool_ids, collected_tool_results, kind, chats,
                     messages, events, cancel_token>>
      /\ widget' = [widget EXCEPT ![t] = "executing"]
  BY DEF Grant, GrantSession, ApplyHunk, batchVars, guardVars
<1>2. WidgetTypeOK /\ ToolTypeOK /\ t \in Uses /\ t \notin ManualRuns /\ ManualRuns \subseteq Uses
  BY TurningTypes, IdsAssumption DEF Uses
<1>3. widget[t] = "waiting"
  BY DecidableWaits DEF Grant, GrantSession, ApplyHunk
<1>4. \A u \in Uses : u # t => tool'[u] = tool[u] /\ widget'[u] = widget[u]
  BY <1>1, <1>2
  DEF Grant, GrantSession, ApplyHunk, spawn_tool_use, ToolTypeOK, WidgetTypeOK
<1>5. \/ tool'[t].pc = "spawned" /\ tool'[t].token = cancel_token
      \/ tool'[t].pc = "applying"
  <2>1. CASE ApplyHunk(t)
    BY <1>2, <2>1 DEF ApplyHunk, ToolTypeOK, Task
  <2>2. CASE Grant(t) \/ GrantSession(t)
    BY <1>2, <2>2 DEF Grant, GrantSession, spawn_tool_use, ToolTypeOK
  <2> QED
    BY <2>1, <2>2
<1>6. TokenInv'
  BY <1>1, <1>4, <1>5 DEF LossInv, TokenInv
<1>7. ReportInv'
  BY <1>1, <1>2, <1>4, ReportsStay DEF LossInv
<1>8. ASSUME NEW u \in Uses, AtWork(u)
      PROVE  AtWork(u)'
  <2>1. ~Unknown(u, kind)'
    BY DEF Turning, Undisturbed, Unknown
  <2>2. CASE u = t
    BY <1>5, <2>1, <2>2 DEF AtWork
  <2>3. CASE u # t
    BY <1>1, <1>4, <1>8, <2>1, <2>3 DEF AtWork
  <2> QED
    BY <2>2, <2>3
<1>9. \A m \in DOMAIN events' : m + 0 \in DOMAIN events /\ events'[m] = events[m + 0]
  BY <1>1, TurningTypes
<1>10. Open # {} /\ Open \cap pending_chats = {} /\ ~InQueue("AskBot") /\ ~InQueue("Bot")
  BY <1>3, WaiterIsAwaited
<1>11. NothingToRun => NothingToRun'
  BY <1>1 DEF NothingToRun
<1> QED
  BY <1>1, <1>6, <1>7, <1>8, <1>9, <1>10, <1>11, WorkGoesOn

LEMMA NextHunkLoud ==
    ASSUME Turning, Turning', LossInv, NEW t \in ToolIds, NEW key, RejectHunk(t, key),
           hunks[t] # 1
    PROVE  LossInv'
<1> DEFINE e == [type |-> "TextEdit", ids |-> {t}]
<1>1. /\ UNCHANGED <<pending_chats, pending_tool_ids, collected_tool_results, kind, chats,
                     messages, cancel_token, tool, state>>
      /\ widget[t] = "waiting" /\ widget' = [widget EXCEPT ![t] = "cancelled"]
      /\ events' = Append(events, e)
  BY DEF RejectHunk, batchVars, taskVars, Send
<1>2. WidgetTypeOK /\ EventsTypeOK /\ EventsTypeOK' /\ t \in Uses
  BY TurningTypes, TurningTypesAfter DEF Uses
<1>3. e \in Event /\ e.type = "TextEdit" /\ e.ids = {t}
  BY <1>2 DEF Event
<1> HIDE DEF e
<1>4. /\ \A m \in DOMAIN events' :
            \/ m \in DOMAIN events /\ events'[m] = events[m]
            \/ (\A n \in DOMAIN events : n < m) /\ events'[m] = e
      /\ \A m \in DOMAIN events : m \in DOMAIN events' /\ events'[m] = events[m]
      /\ \E m \in DOMAIN events' : events'[m] = e
  BY <1>1, <1>2, <1>3 DEF EventsTypeOK
<1>5. \A m \in DOMAIN events' :
         \/ m + 0 \in DOMAIN events /\ events'[m] = events[m + 0]
         \/ /\ \A n \in DOMAIN events : n < m + 0
            /\ events'[m].type \notin {"AskBot", "Bot"}
  BY <1>2, <1>3, <1>4 DEF EventsTypeOK
<1>6. TokenInv'
  BY <1>1, TokenStays
<1>7. ReportInv'
  <2> SUFFICES ASSUME NEW m \in DOMAIN events', events'[m].type \in {"AutoEdit", "ComboProgress"}
               PROVE  events'[m].ids # {} /\ \A u \in events'[m].ids : WillEnd(m, u)'
    BY DEF ReportInv
  <2>1. m \in DOMAIN events /\ events'[m] = events[m]
    BY <1>3, <1>4
  <2>2. events[m].ids # {} /\ \A u \in events[m].ids : WillEnd(m, u)
    BY <2>1 DEF LossInv, ReportInv
  <2> QED
    BY <1>1, <1>4, <2>1, <2>2 DEF WillEnd
<1>8. ASSUME NEW u \in Uses, AtWork(u)
      PROVE  AtWork(u)'
  <2>1. Unknown(u, kind)' = Unknown(u, kind)
    BY <1>1 DEF Unknown
  <2>2. CASE u = t
    BY <1>3, <1>4, <2>2 DEF AtWork
  <2>3. CASE u # t
    <3>1. widget'[u] = widget[u]
      BY <1>1, <1>2, <2>3 DEF WidgetTypeOK
    <3> QED
      BY <1>1, <1>4, <1>8, <2>1, <3>1 DEF AtWork
  <2> QED
    BY <2>2, <2>3
<1>9. InQueue("AskBot")' => InQueue("AskBot")
  BY <1>3, <1>4 DEF InQueue
<1>10. NothingToRun => NothingToRun'
  BY <1>4 DEF NothingToRun
<1>11. WaitingTools' \subseteq WaitingTools
  BY <1>1, <1>2 DEF WaitingTools, WidgetTypeOK, Uses
<1> QED
  BY <1>1, <1>5, <1>6, <1>7, <1>8, <1>9, <1>10, <1>11, WorkGoesOn

\* Who refuses is ready for the next prompt.
LEMMA RefusedLoud ==
    ASSUME Turning, Turning', LossInv, NEW t \in ToolIds, widget[t] = "waiting", Refuse(t),
           UNCHANGED <<pending_tool_ids, collected_tool_results, kind, messages, events, chats,
                       cancel_token, tool>>
    PROVE  LossInv'
<1>1. WidgetTypeOK /\ t \in Uses
  BY TurningTypes DEF Uses
<1>2. /\ pending_chats' = pending_chats \cup {t} /\ state' = "Ready"
      /\ widget' = [widget EXCEPT ![t] = "cancelled"]
  BY DEF Refuse
<1>3. ~InQueue("AskBot") /\ ~InQueue("AskBot")' /\ ~InQueue("Bot")'
  BY WaiterIsAwaited DEF InQueue
<1>4. TokenInv' /\ ReportInv'
  BY TokenStays, ReportsStay DEF LossInv
<1>5. Open' = Open /\ AllDone' = AllDone /\ Open \subseteq Uses
  <2>1. MessagesTypeOK
    BY TurningTypes
  <2>2. messages # <<>> => messages[Len(messages)] \in Message
    BY <2>1 DEF MessagesTypeOK
  <2> QED
    BY <2>2 DEF Open, AllDone, Message
<1>6. \A u \in Uses : u # t /\ AtWork(u) => AtWork(u)'
  <2> SUFFICES ASSUME NEW u \in Uses, u # t, AtWork(u)
               PROVE  AtWork(u)'
    OBVIOUS
  <2>1. Unknown(u, kind)' = Unknown(u, kind) /\ widget'[u] = widget[u]
    BY <1>1, <1>2 DEF Unknown, WidgetTypeOK
  <2> QED
    BY <2>1 DEF AtWork
<1>7. StillInv' /\ MissingInv'
  BY <1>2, <1>5, <1>6 DEF LossInv, StillInv, MissingInv
<1>8. OrderInv'
  BY <1>3 DEF OrderInv, InQueue
<1>9. ReasonInv'
  BY <1>2, <1>3 DEF ReasonInv
<1> QED
  BY <1>4, <1>7, <1>8, <1>9 DEF LossInv

LEMMA CancelLoud ==
    ASSUME Turning, Turning', LossInv, NEW t \in ToolIds, NEW key,
           CancelTool(t, key) \/ RejectHunk(t, key)
    PROVE  LossInv'
<1>1. CASE CancelTool(t, key)
  <2>1. widget[t] = "waiting" /\ Refuse(t)
    BY <1>1, DecidableWaits DEF CancelTool
  <2> QED
    BY <1>1, <2>1, RefusedLoud DEF CancelTool, batchVars, taskVars
<1>2. CASE RejectHunk(t, key) /\ hunks[t] = 1
  <2>1. Refuse(t) /\ widget[t] = "waiting" /\ UNCHANGED events
    BY <1>2 DEF RejectHunk
  <2> QED
    BY <1>2, <2>1, RefusedLoud DEF RejectHunk, batchVars, taskVars
<1> QED
  BY <1>1, <1>2, NextHunkLoud

LEMMA SubmitLoud ==
    ASSUME Turning, Turning', LossInv, Submit
    PROVE  LossInv'
<1>1. PICK c : c.pc = "spawned" /\ chats' = Append(chats, c)
  BY DEF Submit, spawn_chat_task
<1>2. ReportInv'
  BY ReportsStay DEF Submit, LossInv
<1> QED
  BY <1>1, <1>2, SpawnsLoud

LEMMA ExecuteManualLoud ==
    ASSUME Turning, Turning', LossInv, NEW r \in ManualRuns, ExecuteManual(r)
    PROVE  LossInv'
<1>1. ToolTypeOK /\ MessagesTypeOK /\ MessagesTypeOK' /\ BatchTypeOK' /\ r \in Uses
  BY TurningTypes, TurningTypesAfter DEF Uses
<1>2. /\ pending_chats = {} /\ ~InFlight
      /\ UNCHANGED <<pending_chats, events, chats, cancel_token>>
      /\ messages' = messages \o <<user({}), assistant({r}, {r})>>
      /\ tool' = [tool EXCEPT ![r] = [pc |-> "spawned", token |-> cancel_token,
                                      once |-> tools_once_pcl, allow |-> bash_session_allowlist]]
  BY DEF ExecuteManual, Turning, Undisturbed, batchVars, spawn_tool_use
<1>3. AllDone' /\ events' = <<>>
  BY <1>2 DEF InFlight, AllDone
<1>4. Open' = {r}
  <2> DEFINE prompt == user({})
             call == assistant({r}, {r})
  <2>1. prompt \in Message /\ call \in Message /\ call.execute = {r}
    BY <1>1 DEF user, assistant, Message
  <2>2. messages' = messages \o <<prompt, call>>
    BY <1>2
  <2> HIDE DEF prompt, call
  <2>3. <<prompt, call>> \in Seq(Message) /\ Len(<<prompt, call>>) = 2 /\ <<prompt, call>>[2] = call
    BY <2>1
  <2>4. messages' # <<>> /\ messages'[Len(messages')] = call
    BY <1>1, <2>2, <2>3 DEF MessagesTypeOK
  <2> QED
    BY <2>1, <2>4 DEF Open
<1>5. /\ tool'[r].pc = "spawned" /\ tool'[r].token = cancel_token
      /\ \A u \in Uses : u # r => tool'[u].pc \notin {"spawned", "running"}
  BY <1>1, <1>2 DEF ToolTypeOK, InFlight
<1>6. TokenInv'
  BY <1>2, <1>5 DEF TokenInv
<1>7. AtWork(r)'
  BY <1>5 DEF AtWork, Turning, Undisturbed, Unknown
<1>8. pending_tool_ids' = {} /\ ~Many(Open)' /\ ~Many(Open')
  BY <1>4, ManyFacts DEF Turning, TurnInv, BatchInv
<1>9. StillInv' /\ MissingInv' /\ ReasonInv'
  BY <1>2, <1>4, <1>7, <1>8 DEF StillInv, MissingInv, ReasonInv
<1>10. OrderInv' /\ ReportInv'
  BY <1>3 DEF OrderInv, ReportInv, InQueue
<1> QED
  BY <1>6, <1>9, <1>10 DEF LossInv

\* The token is cancelled only if the guard fires.
LEMMA PressLoud ==
    ASSUME Turning, Turning', LossInv,
           \/ PressToCancel \/ Disarm \/ UNCHANGED vars
           \/ UNCHANGED <<chatVars, widgetVars, grantVars, cancel_token, fires, prompts,
                          events, taskVars, messages, app, ghostVars>>
    PROVE  LossInv'
<1>1. fires = 0 /\ fires' = 0
  BY DEF Turning, Undisturbed
<1>2. /\ UNCHANGED <<pending_chats, pending_tool_ids, collected_tool_results, kind, chats,
                     messages, events, state, tool, widget>>
      /\ UNCHANGED cancel_token
  BY <1>1 DEF PressToCancel, Disarm, vars, chatVars, batchVars, widgetVars, taskVars, guardVars
<1>3. \A u \in Uses : AtWork(u)' = AtWork(u)
  BY <1>2 DEF AtWork
<1>4. TokenInv' /\ ReportInv'
  BY <1>2, TokenStays, ReportsStay DEF LossInv
<1>5. \A m \in DOMAIN events' : m + 0 \in DOMAIN events /\ events'[m] = events[m + 0]
  BY <1>2, TurningTypes
<1>6. WaitingTools' = WaitingTools /\ NothingToRun' = NothingToRun
      /\ InQueue("AskBot")' = InQueue("AskBot")
  BY <1>2 DEF WaitingTools, NothingToRun, InQueue
<1> QED
  BY <1>2, <1>3, <1>4, <1>5, <1>6, WorkGoesOn

-----------------------------------------------------------------------------
(* The steps of a request *)

\* The request that is under way: the tools have nothing to say.
LEMMA NobodySpeaks ==
    ASSUME Turning, NEW n \in DOMAIN chats, chats[n].pc # "done"
    PROVE  /\ WaitingTools = {}
           /\ \A type \in FromTool : ~InQueue(type)
           /\ \A t \in Uses : tool[t].pc \notin {"spawned", "running"}
<1>1. /\ \A t \in Uses : ~AtWork(t)
      /\ EventsInv
  BY DEF Turning, TurnInv, RequestInv, ChatInv
<1>2. WaitingTools = {}
  BY <1>1 DEF WaitingTools, AtWork, Uses
<1>3. \A m \in DOMAIN events : events[m].type \notin FromTool
  <2> SUFFICES ASSUME NEW m \in DOMAIN events, events[m].type \in FromTool
               PROVE  FALSE
    OBVIOUS
  <2>1. PICK t \in Uses : events[m].ids = {t}
    BY <1>1 DEF EventsInv, EventOK, FromTool
  <2> QED
    BY <1>1, <2>1 DEF AtWork, FromTool
<1>4. \A t \in Uses : tool[t].pc \notin {"spawned", "running"}
  BY <1>1 DEF AtWork, Turning, Undisturbed, Unknown
<1> QED
  BY <1>2, <1>3, <1>4 DEF InQueue

\* It may say something at the end of the queue.
LEMMA RequestSpeaks ==
    ASSUME Turning, Turning', LossInv, NEW e \in Event, events' = Append(events, e),
           e.type \in {"AskBot", "Bot"}, e.type = "AskBot" => ~InQueue("Bot"),
           NEW n \in DOMAIN chats, chats[n].pc # "done", UNCHANGED <<tool, widget, cancel_token>>
    PROVE  TokenInv' /\ OrderInv' /\ ReportInv' /\ InQueue(e.type)'
<1>1. EventsTypeOK
  BY TurningTypes
<1>2. /\ \A m \in DOMAIN events' :
            \/ m \in DOMAIN events /\ events'[m] = events[m]
            \/ (\A k \in DOMAIN events : k < m) /\ events'[m] = e
      /\ \A m \in DOMAIN events : m \in DOMAIN events' /\ events'[m] = events[m]
      /\ InQueue(e.type)'
  BY <1>1, QueueAppended
<1>3. WaitingTools' = {} /\ \A m \in DOMAIN events' : events'[m].type \notin FromTool
  BY <1>2, NobodySpeaks DEF WaitingTools, FromTool, InQueue
<1>4. \A m, k \in DOMAIN events' :
         events'[m].type = "AskBot" /\ events'[k].type = "Bot" => m < k
  <2> SUFFICES ASSUME NEW m \in DOMAIN events', NEW k \in DOMAIN events',
                      events'[m].type = "AskBot", events'[k].type = "Bot"
               PROVE  m < k
    OBVIOUS
  <2>1. m \in DOMAIN events /\ events'[m] = events[m]
    BY <1>2 DEF InQueue
  <2> QED
    BY <1>2, <2>1 DEF LossInv, OrderInv
<1>5. OrderInv'
  BY <1>3, <1>4 DEF OrderInv
<1>6. ReportInv'
  <2> SUFFICES ASSUME NEW m \in DOMAIN events', events'[m].type \in {"AutoEdit", "ComboProgress"}
               PROVE  events'[m].ids # {} /\ \A u \in events'[m].ids : WillEnd(m, u)'
    BY DEF ReportInv
  <2>1. m \in DOMAIN events /\ events'[m] = events[m]
    BY <1>2
  <2>2. events[m].ids # {} /\ \A u \in events[m].ids : WillEnd(m, u)
    BY <2>1 DEF LossInv, ReportInv
  <2> QED
    BY <1>2, <2>1, <2>2 DEF WillEnd
<1> QED
  BY <1>2, <1>5, <1>6, TokenStays

LEMMA ChatStartsLoud ==
    ASSUME Turning, Turning', LossInv, NEW n \in DOMAIN chats, ChatStarts(n)
    PROVE  LossInv'
<1> DEFINE e == [type |-> "AskBot", ids |-> {}]
<1>1. chats[n].pc = "spawned" /\ ChatsTypeOK /\ ~Cancelled(chats[n].token)
  BY TurningTypes, UnderWay DEF ChatStarts, Turning
<1>2. /\ UNCHANGED <<pending_tool_ids, collected_tool_results, tool, widget, cancel_token>>
      /\ chats' = [chats EXCEPT ![n].pc = "asking", ![n].results = {}]
      /\ events' = Append(events, e)
  BY <1>1 DEF ChatStarts, Send, chatVars, batchVars, widgetVars, guardVars
<1>3. e \in Event /\ e.type = "AskBot"
  BY DEF Event
<1> HIDE DEF e
<1>4. ~InQueue("Bot") /\ pending_tool_ids = {} /\ collected_tool_results = {}
  BY <1>1, UnderWay DEF Turning, TurnInv, RequestInv
<1>5. TokenInv' /\ OrderInv' /\ ReportInv'
  BY <1>1, <1>2, <1>3, <1>4, RequestSpeaks
<1>6. n \in DOMAIN chats' /\ chats'[n].pc = "asking"
  <2> DEFINE c == [chats[n] EXCEPT !.pc = "asking", !.results = {}]
  <2>1. chats' = [chats EXCEPT ![n] = c]
    BY <1>1, <1>2 DEF ChatsTypeOK
  <2>2. c.pc = "asking"
    BY <1>1 DEF ChatsTypeOK, ChatTask
  <2> HIDE DEF c
  <2> QED
    BY <1>1, <2>1, <2>2 DEF ChatsTypeOK
<1>7. StillInv' /\ MissingInv' /\ ReasonInv'
  BY <1>2, <1>4, <1>6 DEF StillInv, MissingInv, ReasonInv, AllDone
<1> QED
  BY <1>5, <1>7 DEF LossInv

\* A failure is told like an answer that uses no tool.
LEMMA ChatFailsLoud ==
    ASSUME Turning, Turning', LossInv, NEW n \in DOMAIN chats, ChatFails(n)
    PROVE  LossInv'
<1> DEFINE e == [type |-> "Bot", ids |-> {}]
<1>1. chats[n].pc = "asking" /\ ChatsTypeOK /\ ~Cancelled(chats[n].token) /\ Open = {}
  BY TurningTypes, UnderWay DEF ChatFails, Turning, TurnInv, RequestInv
<1>2. /\ UNCHANGED <<pending_tool_ids, collected_tool_results, tool, widget, cancel_token,
                     messages>>
      /\ events' = Append(events, e)
  BY <1>1 DEF ChatFails, Send, chatVars, batchVars, widgetVars, guardVars
<1>3. e \in Event /\ e.type = "Bot" /\ e.ids = {}
  BY DEF Event
<1> HIDE DEF e
<1>4. TokenInv' /\ OrderInv' /\ ReportInv'
  BY <1>1, <1>2, <1>3, RequestSpeaks
<1>5. NothingToRun'
  <2>1. \E m \in DOMAIN events' : events'[m] = e
    BY <1>2, <1>3, TurningTypes DEF EventsTypeOK
  <2> QED
    BY <1>3, <2>1 DEF NothingToRun
<1>6. Open' = {} /\ ~Many(Open)' /\ pending_tool_ids = {}
  BY <1>1, <1>2, OpenStays, ManyFacts, UnderWay DEF Turning
<1>7. StillInv' /\ MissingInv' /\ ReasonInv'
  BY <1>2, <1>5, <1>6 DEF StillInv, MissingInv, ReasonInv
<1> QED
  BY <1>4, <1>7 DEF LossInv

LEMMA ChatAnswersLoud ==
    ASSUME Turning, Turning', LossInv, NEW n \in DOMAIN chats, NEW uses \in SUBSET ToolIds,
           NEW stopped \in BOOLEAN, ChatAnswers(n, uses, stopped)
    PROVE  LossInv'
<1> DEFINE e == [type |-> "Bot", ids |-> uses]
<1>1. /\ chats[n].pc = "asking" /\ ChatsTypeOK /\ MessagesTypeOK /\ MessagesTypeOK'
      /\ pending_tool_ids = {} /\ pending_chats = {}
  BY TurningTypes, TurningTypesAfter, UnderWay DEF ChatAnswers, Turning
<1>2. PICK execute \in SUBSET uses : execute = ToExecute(uses, stopped)
  BY DEF ToExecute
<1>3. /\ UNCHANGED <<pending_chats, pending_tool_ids, tool, widget, cancel_token>>
      /\ chats' = [chats EXCEPT ![n].pc = "responded", ![n].execute = execute]
      /\ messages' = Append(messages, assistant(uses, execute))
      /\ events' = Append(events, e)
  BY <1>2 DEF ChatAnswers, Send, chatVars, batchVars, guardVars
<1>4. e \in Event /\ e.type = "Bot" /\ e.ids = uses
  BY DEF Event, Uses
<1> HIDE DEF e
<1>5. TokenInv' /\ OrderInv' /\ ReportInv'
  BY <1>1, <1>3, <1>4, RequestSpeaks
<1>6. n \in DOMAIN chats' /\ chats'[n].pc = "responded"
  <2> DEFINE c == [chats[n] EXCEPT !.pc = "responded", !.execute = execute]
  <2>1. chats' = [chats EXCEPT ![n] = c]
    BY <1>1, <1>3 DEF ChatsTypeOK
  <2>2. c.pc = "responded"
    BY <1>1 DEF ChatsTypeOK, ChatTask
  <2> HIDE DEF c
  <2> QED
    BY <1>1, <2>1, <2>2 DEF ChatsTypeOK
<1>7. Open' = uses
  <2> DEFINE message == assistant(uses, execute)
  <2>1. message \in Message /\ message.execute = execute /\ message.uses = uses
    BY DEF assistant, Message, Uses
  <2>2. messages' = Append(messages, message)
    BY <1>3
  <2> HIDE DEF message
  <2>3. /\ Open' = execute /\ messages' # <<>> /\ messages'[Len(messages')] = message
    BY <1>1, <2>1, <2>2, OpenAppended
  <2>4. Len(messages') \in DOMAIN messages'
    BY <1>1, <2>3 DEF MessagesTypeOK
  <2>5. message.execute = message.uses
    BY <2>3, <2>4 DEF Turning, Undisturbed
  <2> QED
    BY <2>1, <2>3, <2>5
<1>8. uses = {} => NothingToRun'
  <2>1. \E m \in DOMAIN events' : events'[m] = e
    BY <1>3, <1>4, TurningTypes DEF EventsTypeOK
  <2> QED
    BY <1>4, <2>1 DEF NothingToRun
<1>9. StillInv' /\ MissingInv' /\ ReasonInv'
  BY <1>1, <1>3, <1>6, <1>7, <1>8 DEF StillInv, MissingInv, ReasonInv, AllDone
<1> QED
  BY <1>5, <1>9 DEF LossInv

\* Every tool use that is to run has a task from then on.
LEMMA ChatExecutesLoud ==
    ASSUME Turning, Turning', LossInv, NEW n \in DOMAIN chats, ChatExecutes(n)
    PROVE  LossInv'
<1>1. /\ chats[n].pc = "responded" /\ ChatsTypeOK /\ EventsTypeOK /\ EventsTypeOK' /\ ToolTypeOK
      /\ pending_tool_ids = {} /\ collected_tool_results = {} /\ pending_chats = {}
      /\ chats[n].token = cancel_token /\ chats[n].execute = Open
      /\ chats[n] \in ChatTask /\ ~Cancelled(chats[n].token)
      /\ \A m \in DOMAIN chats : m # n => chats[m].pc = "done"
  BY TurningTypes, TurningTypesAfter, UnderWay
  DEF ChatExecutes, Turning, TurnInv, RequestInv
<1>2. PICK more : /\ events' = events \o more
                  /\ more = PendingEvents(Open)
  BY <1>1 DEF ChatExecutes
<1>3. /\ UNCHANGED <<pending_chats, pending_tool_ids, collected_tool_results, widget, kind,
                     state, cancel_token, messages>>
      /\ \A t \in Uses : /\ t \in Open => /\ tool'[t].pc = "spawned"
                                          /\ tool'[t].token = cancel_token
                         /\ t \notin Open => tool'[t] = tool[t]
  BY <1>1 DEF ChatExecutes, chatVars, batchVars, widgetVars, guardVars
<1>4. Open' = Open /\ Open \subseteq ToolIds
  BY <1>1, <1>3, OpenStays DEF ChatTask
<1>5. /\ \A m \in DOMAIN events' : \/ m \in DOMAIN events /\ events'[m] = events[m]
                                   \/ events'[m].type = "Pending"
      /\ \A m \in DOMAIN events : m \in DOMAIN events' /\ events'[m] = events[m]
  <2>1. CASE more = <<>>
    BY <1>1, <1>2, <2>1 DEF EventsTypeOK
  <2>2. CASE more = <<[type |-> "Pending", ids |-> Open]>>
    <3> DEFINE e == [type |-> "Pending", ids |-> Open]
    <3>1. e \in Event /\ e.type = "Pending"
      BY <1>4 DEF Event, Uses
    <3>2. events' = events \o <<e>>
      BY <1>2, <2>2
    <3> HIDE DEF e
    <3>3. events' = Append(events, e)
      BY <1>1, <3>1, <3>2 DEF EventsTypeOK
    <3> QED
      BY <1>1, <3>1, <3>3 DEF EventsTypeOK
  <2> QED
    BY <1>2, <2>1, <2>2 DEF PendingEvents
<1>6. TokenInv'
  BY <1>3 DEF LossInv, TokenInv
<1>7. StillInv' /\ MissingInv'
  <2>1. \A t \in Open : AtWork(t)'
    BY <1>3, <1>4 DEF AtWork, Turning, Undisturbed, Unknown, Uses
  <2>2. Many(Open) => Open # {}
    BY ManyFacts
  <2>3. Many(Open)' = Many(Open)
    BY <1>4 DEF Many
  <2> QED
    BY <1>1, <1>3, <1>4, <2>1, <2>2, <2>3 DEF StillInv, MissingInv
<1>8. OrderInv'
  <2>1. WaitingTools' = {} /\ \A m \in DOMAIN events' : events'[m].type \notin FromTool
    BY <1>1, <1>3, <1>5, NobodySpeaks DEF WaitingTools, FromTool, InQueue
  <2>2. \A m \in DOMAIN events' : events'[m].type \in {"AskBot", "Bot"} =>
           m \in DOMAIN events /\ events'[m] = events[m]
    BY <1>5
  <2> QED
    BY <2>1, <2>2 DEF LossInv, OrderInv
<1>9. ReportInv'
  <2> SUFFICES ASSUME NEW m \in DOMAIN events', events'[m].type \in {"AutoEdit", "ComboProgress"}
               PROVE  events'[m].ids # {} /\ \A u \in events'[m].ids : WillEnd(m, u)'
    BY DEF ReportInv
  <2>1. m \in DOMAIN events /\ events'[m] = events[m]
    BY <1>5
  <2>2. events[m].ids # {} /\ \A u \in events[m].ids : WillEnd(m, u)
    BY <2>1 DEF LossInv, ReportInv
  <2>3. \A u \in ManualRuns : u \in Uses /\ u \notin Open
    BY <1>4, IdsAssumption DEF Uses
  <2> QED
    BY <1>3, <1>5, <2>1, <2>2, <2>3 DEF WillEnd
<1>10. ReasonInv'
  <2>1. \A m \in DOMAIN chats : chats[m].pc \in {"responded", "done"}
    BY <1>1
  <2>2. InQueue("AskBot")' => InQueue("AskBot")
    BY <1>5 DEF InQueue
  <2>3. NothingToRun => NothingToRun'
    BY <1>5 DEF NothingToRun
  <2> QED
    BY <1>3, <1>4, <2>1, <2>2, <2>3 DEF LossInv, ReasonInv
<1> QED
  BY <1>6, <1>7, <1>8, <1>9, <1>10 DEF LossInv

-----------------------------------------------------------------------------
(* Nobody disturbs a turn that is found undisturbed *)

LEMMA LossNextKeeps ==
    ASSUME Turning, Turning', LossInv, [Next]_vars
    PROVE  LossInv'
<1>1. ASSUME NEW t \in Uses, ToolStep(t) \/ ComboProgresses(t)
      PROVE  LossInv'
  BY <1>1, ToolTasksLoud
<1>2. ASSUME NEW n \in DOMAIN chats, ChatStep(n)
      PROVE  LossInv'
  BY <1>2, ChatStartsLoud, ChatFailsLoud, ChatAnswersLoud, ChatExecutesLoud DEF ChatStep
<1>3. CASE HandleEvent
  BY <1>3, HandleStateLoud, HandleBotLoud, HandleAsksUserLoud, HandlePendingLoud,
     HandleToolResultLoud DEF HandleEvent
<1>4. ASSUME NEW t \in ToolIds, PressToRefuse(t)
      PROVE  LossInv'
  BY <1>4, CancelLoud, PressLoud DEF PressToRefuse
<1>5. CASE UserStep
  BY <1>4, <1>5, SubmitLoud, GrantLoud, CancelLoud, ExecuteManualLoud, PressLoud DEF UserStep
<1> QED
  BY <1>1, <1>2, <1>3, <1>5, PressLoud DEF Next, Running

\* What a step leaves of the history of the messages, of the tools and of the guard
LEMMA HistoryStays ==
    ASSUME ChatInv, [Next]_vars
    PROVE  /\ \A n \in DOMAIN messages : n \in DOMAIN messages' /\ messages'[n] = messages[n]
           /\ \A t \in ToolIds : kind[t] # "none" => kind'[t] = kind[t]
           /\ fires' = 0 => fires = 0
<1>1. MessagesTypeOK /\ GuardTypeOK /\ WidgetTypeOK
  BY TypeParts DEF ChatInv
<1>2. CASE UNCHANGED <<messages, kind, fires>>
  BY <1>2
<1>3. ASSUME NEW n \in DOMAIN chats, ChatStarts(n)
      PROVE  UNCHANGED <<kind, fires>> /\ (UNCHANGED messages \/
                \E m \in Message : messages' = Append(messages, m))
  <2>1. ChatsTypeOK
    BY TypeParts DEF ChatInv
  <2>2. chats[n] \in ChatTask
    BY <2>1 DEF ChatsTypeOK
  <2>3. chats[n].results \in SUBSET Uses
    BY <2>2 DEF ChatTask
  <2>4. user(chats[n].results) \in Message
    BY <2>3 DEF user, Message
  <2> QED
    BY <1>3, <2>4 DEF ChatStarts, widgetVars, guardVars
<1>4. ASSUME NEW n \in DOMAIN chats, NEW uses \in SUBSET ToolIds, NEW stopped \in BOOLEAN,
             ChatAnswers(n, uses, stopped)
      PROVE  /\ UNCHANGED fires /\ \A t \in ToolIds : kind[t] # "none" => kind'[t] = kind[t]
             /\ \E m \in Message : messages' = Append(messages, m)
  <2>1. assistant(uses, ToExecute(uses, stopped)) \in Message
    BY DEF assistant, ToExecute, Message, Uses
  <2>2. \A t \in ToolIds : kind[t] # "none" => kind'[t] = kind[t]
    BY <1>4 DEF ChatAnswers
  <2> QED
    BY <1>4, <2>1, <2>2 DEF ChatAnswers, guardVars
<1>5. ASSUME NEW r \in ManualRuns, ExecuteManual(r)
      PROVE  UNCHANGED <<kind, fires>> /\ \E s \in Seq(Message) : messages' = messages \o s
  <2>1. user({}) \in Message /\ assistant({r}, {r}) \in Message
    BY DEF user, assistant, Message, Uses
  <2>2. <<user({}), assistant({r}, {r})>> \in Seq(Message)
    BY <2>1
  <2> QED
    BY <1>5, <2>2 DEF ExecuteManual, guardVars
<1>6. CASE PressToCancel
  BY <1>1, <1>6 DEF PressToCancel, GuardTypeOK, widgetVars
<1>7. \/ UNCHANGED <<messages, kind, fires>>
      \/ PressToCancel
      \/ \E n \in DOMAIN chats :
            \/ ChatStarts(n)
            \/ \E uses \in SUBSET ToolIds, stopped \in BOOLEAN : ChatAnswers(n, uses, stopped)
      \/ \E r \in ManualRuns : ExecuteManual(r)
  BY ZenonT(60)
  DEF Next, Running, vars, widgetVars, guardVars, ToolStep, ToolStarts, ToolFinishes,
      ToolStopsSilently, EditProposed, HunkApplied, ComboProgresses, ChatStep, ChatFails,
      ChatExecutes, HandleEvent, HandleAskBot, HandleBot, HandleCancelled, HandleAsksUser,
      HandleAutoEdit, HandlePending, HandleToolResult, HandleComboProgress, UserStep, Submit,
      Grant, GrantSession, CancelTool, ApplyHunk, RejectHunk, PressToRefuse, Disarm
<1>8. ASSUME \E m \in Message : messages' = Append(messages, m)
      PROVE  \A n \in DOMAIN messages : n \in DOMAIN messages' /\ messages'[n] = messages[n]
  BY <1>1, <1>8 DEF MessagesTypeOK
<1>9. ASSUME \E s \in Seq(Message) : messages' = messages \o s
      PROVE  \A n \in DOMAIN messages : n \in DOMAIN messages' /\ messages'[n] = messages[n]
  BY <1>1, <1>9 DEF MessagesTypeOK
<1> QED
  BY <1>2, <1>3, <1>4, <1>5, <1>6, <1>7, <1>8, <1>9

LEMMA UndisturbedBefore ==
    ASSUME ChatInv, [Next]_vars, Undisturbed'
    PROVE  Undisturbed
<1>1. Calm
  BY CalmBefore DEF Undisturbed, Calm
<1>2. \A n \in DOMAIN messages : messages[n].execute = messages[n].uses
  BY HistoryStays DEF Undisturbed
<1>3. \A t \in ToolIds : kind[t] # "unknown"
  BY HistoryStays DEF Undisturbed
<1> QED
  BY <1>1, <1>2, <1>3, HistoryStays DEF Undisturbed, Calm

LEMMA LossInvariant == Spec => [](Undisturbed => LossInv)
<1>1. Init => LossInv
  <2> SUFFICES ASSUME Init
               PROVE  LossInv
    OBVIOUS
  <2>1. /\ events = <<>> /\ messages = <<>> /\ state = "Ready"
        /\ pending_tool_ids = {} /\ collected_tool_results = {}
        /\ \A t \in Uses : tool[t].pc = "none"
    BY DEF Init, NoTask
  <2>2. Open = {}
    BY <2>1 DEF Open
  <2> QED
    BY <2>1, <2>2, ManyFacts
    DEF LossInv, TokenInv, StillInv, MissingInv, OrderInv, ReportInv, ReasonInv, InQueue
<1>2. Undisturbed => Calm
  BY DEF Undisturbed, Calm
<1>3. /\ ChatInv /\ ChatInv' /\ OneAnswer /\ OneAnswer'
      /\ (Calm => TurnInv) /\ (Calm => TurnInv)'
      /\ (Undisturbed => LossInv) /\ [Next]_vars
      => (Undisturbed => LossInv)'
  <2> SUFFICES ASSUME ChatInv, ChatInv', OneAnswer, OneAnswer', Calm => TurnInv,
                      (Calm => TurnInv)', Undisturbed => LossInv, [Next]_vars, Undisturbed'
               PROVE  LossInv'
    OBVIOUS
  <2>1. Undisturbed
    BY UndisturbedBefore
  <2>2. Calm /\ Calm'
    BY <2>1 DEF Undisturbed, Calm
  <2>3. Turning /\ Turning'
    BY <2>1, <2>2 DEF Turning
  <2> QED
    BY <2>1, <2>3, LossNextKeeps
<1> QED
  BY <1>1, <1>3, ChatInvariant, OneAnswerInvariant, TurnInvariant, PTL DEF Spec

\* A turn nobody disturbs is never lost: once every task has ended and every event was
\* handled, the component takes the next prompt, or a tool waits for the user (handle_event,
\* HandleToolResult, task_tool_use).
THEOREM TurnsCorrect == Spec => []TurnIsNotLost
<1>1. ASSUME ChatInv, OneAnswer, Calm => TurnInv, Undisturbed => LossInv
      PROVE  TurnIsNotLost
  <2> SUFFICES ASSUME Undisturbed, Quiescent, state # "Ready"
               PROVE  WaitingTools # {}
    BY DEF TurnIsNotLost
  <2>1. Turning /\ LossInv /\ state = "Processing" /\ AllDone
    BY <1>1, TypeParts DEF Turning, Undisturbed, Calm, Quiescent, AllDone, ChatInv, StateTypeOK
  <2>2. ~NothingToRun
    BY DEF Quiescent, NothingToRun
  <2>3. Open # {} /\ Open \cap pending_chats = {}
    BY <2>1, <2>2 DEF LossInv, ReasonInv, AllDone
  <2>4. \A t \in Open : AtWork(t)
    BY <2>1, <2>3 DEF LossInv, StillInv
  <2>5. PICK t \in Open : t \notin collected_tool_results
    <3>1. CASE Many(Open)
      BY <2>1, <3>1 DEF LossInv, MissingInv
    <3>2. CASE ~Many(Open)
      BY <2>1, <2>3, <3>2 DEF Turning, TurnInv, BatchInv
    <3> QED
      BY <3>1, <3>2
  <2>6. t \in Uses
    <3>1. messages # <<>> => messages[Len(messages)] \in Message
      BY <2>1, TurningTypes DEF MessagesTypeOK
    <3> QED
      BY <3>1 DEF Open, Message
  <2> QED
    BY <2>4, <2>5, <2>6 DEF AtWork, Quiescent, WaitingTools
<1> QED
  BY <1>1, ChatInvariant, OneAnswerInvariant, TurnInvariant, LossInvariant, PTL
=============================================================================
