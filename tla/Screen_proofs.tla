---------------------------- MODULE Screen_proofs ----------------------------
(****************************************************************************)
(* Theorems about what the terminal shows: the loop that draws (AppLoop),   *)
(* the text of a message that is highlighted beside it (MessageText), the   *)
(* focus of the chat, where what waits for the user is (ChatFocus), the     *)
(* lists of the command palette (CommandPalette), what the user is told     *)
(* when looking elsewhere (Notifications), and which rows of a long list    *)
(* are in view (MessageList).                                               *)
(****************************************************************************)
EXTENDS AppLoop, MessageText, ChatFocus, CommandPalette, Notifications, MessageList,
        SequenceLemmas

-----------------------------------------------------------------------------
(* AppLoop *)

AppEvents == {"Key", "Render", "Other", "Dirty", "FullRefresh"}

\* What ratatui believes to be on the screen is there, except while a shell
\* has the terminal: that is what makes a drawn picture the one that is seen.
AppInv ==
    /\ event_rx \in Seq(AppEvents)
    /\ place # "shell" => terminal = buffer
    /\ ScreenIsKept

\* The queue has a change the application has not looked at.
Told(queue) == \E i \in DOMAIN queue : queue[i] = "Dirty"

\* Signalling adds to the queue and hides nothing that is in it.
LEMMA SignalledTells ==
    ASSUME NEW queue \in Seq(AppEvents), NEW event \in AppEvents
    PROVE  /\ Signalled(queue, event) \in Seq(AppEvents)
           /\ Told(queue) => Told(Signalled(queue, event))
           /\ event = "Dirty" => Told(Signalled(queue, event))
<1>1. CASE /\ Signalled(queue, event) = queue
           /\ queue # <<>> /\ Last(queue) = event
  BY <1>1 DEF Told, Last
<1>2. CASE Signalled(queue, event) = Append(queue, event)
  <2>1. /\ Append(queue, event) \in Seq(AppEvents)
        /\ Len(queue) + 1 \in DOMAIN Append(queue, event)
        /\ Append(queue, event)[Len(queue) + 1] = event
        /\ \A i \in DOMAIN queue : /\ i \in DOMAIN Append(queue, event)
                                   /\ Append(queue, event)[i] = queue[i]
    OBVIOUS
  <2> QED
    BY <1>2, <2>1 DEF Told
<1> QED
  BY <1>1, <1>2 DEF Signalled

\* A component that changes the picture says so.
LEMMA WritesTells ==
    ASSUME NEW queue \in Seq(AppEvents), Writes(queue)
    PROVE  /\ event_rx' \in Seq(AppEvents)
           /\ Told(queue) => Told(event_rx')
           /\ UNCHANGED picture \/ Told(event_rx')
BY SignalledTells DEF Writes, AppEvents

\* Taking an event that is no Dirty leaves the Dirty ones.
LEMMA TakenTells ==
    ASSUME event_rx \in Seq(AppEvents), NEW event, NextEvent(event)
    PROVE  /\ Tail(event_rx) \in Seq(AppEvents)
           /\ event # "Dirty" /\ Told(event_rx) => Told(Tail(event_rx))
<1>1. /\ event_rx # <<>> /\ Head(event_rx) = event
      /\ Tail(event_rx) \in Seq(AppEvents)
  BY DEF NextEvent
<1>2. ASSUME NEW i \in DOMAIN event_rx, event_rx[i] = "Dirty", event # "Dirty"
      PROVE  Told(Tail(event_rx))
  <2>1. i - 1 \in DOMAIN Tail(event_rx) /\ Tail(event_rx)[i - 1] = event_rx[i]
    BY <1>1, <1>2
  <2> QED
    BY <1>2, <2>1 DEF Told
<1> QED
  BY <1>1, <1>2 DEF Told

LEMMA AppNextKeeps ==
    ASSUME AppInv, [AppNext]_appVars
    PROVE  AppInv'
<1> USE DEF AppInv, ScreenIsKept, ScreenIsCurrent, TerminalIsGivenBack
<1>1. \A queue : Told(queue) <=> \E i \in DOMAIN queue : queue[i] = "Dirty"
  BY DEF Told
<1>2. CASE LoopSends \/ TaskSends
  <2>1. PICK event \in AppEvents : event_rx' = Append(event_rx, event)
    BY <1>2 DEF LoopSends, TaskSends, AppEvents
  <2>2. event_rx' \in Seq(AppEvents) /\ (Told(event_rx) => Told(event_rx'))
    BY <2>1 DEF Told
  <2> QED
    BY <1>1, <1>2, <2>2 DEF LoopSends, TaskSends, terminalVars
<1>3. CASE ComponentEvent
  <2>1. PICK event \in {"Key", "Other"} : NextEvent(event)
    BY <1>3 DEF ComponentEvent
  <2>2. /\ event_rx' \in Seq(AppEvents)
        /\ Told(event_rx) => Told(event_rx')
        /\ UNCHANGED picture \/ Told(event_rx')
    BY <1>3, <2>1, TakenTells, WritesTells DEF ComponentEvent
  <2> QED
    BY <1>1, <1>3, <2>1, <2>2 DEF ComponentEvent, EventHandled, NextEvent
<1>4. CASE KeyRefreshes
  <2>1. /\ Tail(event_rx) \in Seq(AppEvents)
        /\ Told(event_rx) => Told(Tail(event_rx))
    BY <1>4, TakenTells DEF KeyRefreshes
  <2>2. event_rx' \in Seq(AppEvents) /\ (Told(event_rx) => Told(event_rx'))
    BY <1>4, <2>1, SignalledTells DEF KeyRefreshes, AppEvents
  <2> QED
    BY <1>1, <1>4, <2>2 DEF KeyRefreshes, EventHandled, NextEvent
<1>5. CASE EventRender
  <2>1. event_rx' \in Seq(AppEvents) /\ (Told(event_rx) => Told(event_rx'))
    BY <1>5, TakenTells DEF EventRender
  <2> QED
    BY <1>1, <1>5, <2>1 DEF EventRender, EventHandled, NextEvent
<1>6. CASE EventDirty
  <2>1. event_rx' \in Seq(AppEvents)
    BY <1>6, TakenTells DEF EventDirty
  <2> QED
    BY <1>6, <2>1 DEF EventDirty, EventHandled, NextEvent
<1>7. CASE ActionOther \/ ActionShell
  <2>1. /\ event_rx' \in Seq(AppEvents)
        /\ Told(event_rx) => Told(event_rx')
        /\ UNCHANGED picture \/ Told(event_rx')
    BY <1>7, WritesTells DEF ActionOther, ActionShell
  <2> QED
    BY <1>1, <1>7, <2>1 DEF ActionOther, ActionShell, NextAction
<1>8. CASE render
  <2>1. terminal' = picture /\ buffer' = picture /\ UNCHANGED picture
    BY <1>8 DEF render, NextAction, Written
  <2> QED
    BY <1>8, <2>1 DEF render, NextAction
<1>9. CASE ShellIsLeft
  <2>1. event_rx' \in Seq(AppEvents)
    BY <1>9 DEF ShellIsLeft, AppEvents
  <2> QED
    BY <1>9, <2>1 DEF ShellIsLeft, enter
<1>10. CASE ActionQuit \/ ActionsAreDone
  BY <1>10 DEF ActionQuit, ActionsAreDone, NextAction, terminalVars
<1>11. CASE LoopIsGone \/ cancel \/ stop \/ run_shell
  BY <1>11 DEF LoopIsGone, cancel, stop, run_shell, Stopping, terminalVars
<1>12. CASE UNCHANGED appVars
  BY <1>12 DEF appVars
<1> QED
  BY <1>2, <1>3, <1>4, <1>5, <1>6, <1>7, <1>8, <1>9, <1>10, <1>11, <1>12
  DEF AppNext

\* Whatever events come in whatever order, and however often a shell takes the
\* terminal: what the user sees is what the chat shows or is about to be
\* drawn, and no one reads the terminal once it is given away (app.rs, run,
\* handle_event, handle_action, run_shell).
THEOREM ScreenCorrect == AppSpec => []ScreenIsKept
<1>1. AppInit => AppInv
  BY DEF AppInit, AppInv, AppEvents, ScreenIsKept, ScreenIsCurrent,
         TerminalIsGivenBack
<1>2. AppInv /\ [AppNext]_appVars => AppInv'
  BY AppNextKeeps
<1>3. AppInv => ScreenIsKept
  BY DEF AppInv
<1> QED
  BY <1>1, <1>2, <1>3, PTL DEF AppSpec

-----------------------------------------------------------------------------
(* MessageText *)

Builds == [at : {"none", "running", "built", "failed", "panicked"},
           source : Nat, overlays : BOOLEAN, width : Nat]

Highlighters ==
    [source : Nat, overlays : BOOLEAN, pending : Builds, last_width : Nat,
     source_dirty : BOOLEAN, theme_dirty : BOOLEAN,
     widget : [source : Nat, overlays : BOOLEAN, width : Nat]]

\* The widget of a highlighter has the text; it is only clean when it was
\* built, and nothing is built without a width.
GoodCode(c, text) ==
    /\ c \in Highlighters
    /\ c.source = text /\ c.widget.source = text
    /\ c.pending.at # "none" => c.pending.width # 0
    /\ c.pending.at = "none" /\ ~c.source_dirty =>
          c.widget.width # 0 /\ c.widget.width = c.last_width

TextInv == received \in Nat /\ GoodCode(code, received)

LEMMA TryNewIsGood ==
    ASSUME NEW text \in Nat, NEW overlays \in BOOLEAN
    PROVE  GoodCode(try_new(text, overlays), text)
BY DEF GoodCode, try_new, Highlighters, Builds, NoBuild

LEMMA SpawnIsGood ==
    ASSUME NEW text, NEW c, GoodCode(c, text), NEW width \in Nat \ {0}
    PROVE  GoodCode(spawn_build(c, width), text)
BY DEF GoodCode, spawn_build, Highlighters, Builds

LEMMA AppendIsGood ==
    ASSUME NEW text, NEW c, GoodCode(c, text)
    PROVE  GoodCode(append_source(c), text + 1)
<1> DEFINE d == [c EXCEPT !.source = @ + 1, !.widget.source = @ + 1,
                          !.source_dirty = TRUE]
<1> DEFINE w == [c.widget EXCEPT !.source = @ + 1]
<1>1. d = [c EXCEPT !.source = @ + 1, !.widget = w, !.source_dirty = TRUE]
  BY DEF GoodCode, Highlighters
<1>2. /\ w \in [source : Nat, overlays : BOOLEAN, width : Nat]
      /\ w.source = c.widget.source + 1
  BY DEF GoodCode, Highlighters
<1> HIDE DEF w
<1>3. GoodCode(d, text + 1) /\ d.last_width \in Nat
  BY <1>1, <1>2, ZenonT(30) DEF GoodCode, Highlighters
<1> HIDE DEF d
<1> QED
  BY <1>3, SpawnIsGood DEF append_source, Rebuilt, d

LEMMA ClearIsGood ==
    ASSUME NEW text, NEW c, GoodCode(c, text)
    PROVE  GoodCode(clear_overlays(c), text)
<1> DEFINE d == [c EXCEPT !.overlays = FALSE, !.source_dirty = TRUE]
<1>1. GoodCode(d, text) /\ d.last_width \in Nat
  BY DEF GoodCode, Highlighters
<1> QED
  BY <1>1, SpawnIsGood DEF clear_overlays, Rebuilt

LEMMA PollIsGood ==
    ASSUME NEW text, NEW c, GoodCode(c, text)
    PROVE  GoodCode(poll_pending(c), text)
<1>1. CASE c.pending.at \notin {"built", "failed"}
  BY <1>1 DEF poll_pending
<1>2. CASE c.pending.at \in {"built", "failed"}
  <2>1. CASE c.pending.at = "built" /\ c.pending.source = c.source
    BY <2>1 DEF poll_pending, Stale, GoodCode, Highlighters, Builds, NoBuild
  <2>2. CASE ~(c.pending.at = "built" /\ c.pending.source = c.source)
    BY <1>2, <2>2
    DEF poll_pending, Stale, GoodCode, Highlighters, Builds, NoBuild
  <2> QED
    BY <2>1, <2>2
<1> QED
  BY <1>1, <1>2

LEMMA MaybeSpawnIsGood ==
    ASSUME NEW text, NEW c, GoodCode(c, text), NEW width \in Nat \ {0}
    PROVE  GoodCode(maybe_spawn(c, width), text)
<1>1. GoodCode([c EXCEPT !.theme_dirty = FALSE], text)
  BY DEF GoodCode, Highlighters
<1> QED
  BY <1>1, SpawnIsGood DEF maybe_spawn

LEMMA TextNextKeeps ==
    ASSUME TextInv, [TextNext]_textVars
    PROVE  TextInv'
<1> USE DEF TextInv
<1>1. CASE BuildEnds
  <2>1. PICK at \in {"built", "failed", "panicked"} :
                code' = [code EXCEPT !.pending.at = at]
    BY <1>1 DEF BuildEnds
  <2>2. GoodCode(code', received)
    BY <1>1, <2>1 DEF BuildEnds, GoodCode, Highlighters, Builds
  <2> QED
    BY <1>1, <2>2 DEF BuildEnds
<1>2. CASE append_text
  BY <1>2, AppendIsGood DEF append_text
<1>3. CASE finalize_stream
  BY <1>3, TryNewIsGood DEF finalize_stream
<1>4. CASE StreamForgotten \/ ExternalEnds
  BY <1>4 DEF StreamForgotten, ExternalEnds
<1>5. ASSUME NEW value \in BOOLEAN, set_requiring_confirmation(value)
      PROVE  TextInv'
  BY <1>5, TryNewIsGood, ClearIsGood DEF set_requiring_confirmation
<1>6. CASE on_tick
  BY <1>6, PollIsGood DEF on_tick
<1>7. CASE switch_theme
  <2>1. GoodCode(code', received)
    BY <1>7 DEF switch_theme, GoodCode, Highlighters
  <2> QED
    BY <1>7, <2>1 DEF switch_theme
<1>8. ASSUME NEW width \in Widths, DrawText(width)
      PROVE  TextInv'
  <2>1. width \in Nat \ {0}
    BY TextAssumption
  <2> QED
    BY <1>8, <2>1, PollIsGood, MaybeSpawnIsGood DEF DrawText
<1>9. CASE UNCHANGED textVars
  BY <1>9 DEF textVars
<1> QED
  BY <1>1, <1>2, <1>3, <1>4, <1>5, <1>6, <1>7, <1>8, <1>9 DEF TextNext

\* Whenever a build of the highlighted text ends and whatever arrived in the
\* meantime, the widget has the text the message has, and it is clean only
\* when it was built for the width it is drawn with (code_highlight.rs,
\* append_source, poll_pending, maybe_spawn).
THEOREM TextCorrect == TextSpec => []WidgetHasTheText
<1>1. TextInit => TextInv
  <2> SUFFICES ASSUME TextInit PROVE TextInv
    OBVIOUS
  <2>1. received \in Nat
    BY DEF TextInit
  <2>2. (~streaming) = TRUE \/ (~streaming) = FALSE
    OBVIOUS
  <2>3. code = try_new(received, TRUE) \/ code = try_new(received, FALSE)
    BY <2>2, Zenon DEF TextInit
  <2> QED
    BY <2>1, <2>3, TryNewIsGood DEF TextInv
<1>2. TextInv /\ [TextNext]_textVars => TextInv'
  BY TextNextKeeps
<1>3. TextInv => WidgetHasTheText
  BY DEF TextInv, GoodCode, WidgetHasTheText
<1> QED
  BY <1>1, <1>2, <1>3, PTL DEF TextSpec
-----------------------------------------------------------------------------
(* ChatFocus: the invariant *)

IsListed(u, content) == \E i \in DOMAIN u.list : u.list[i] = content
IsPending(u, k)      == \E i \in DOMAIN u.pending : u.pending[i] = [kind |-> k]

\* What waits as a message waits in the queue too.
ActionOf(asker) == IF asker = "combo" THEN "reply" ELSE asker

\* Until the session is left, each tool and the combo that were shown have one message;
\* then none has.
ListInv(u) ==
    IF u.left = "no"
    THEN /\ \A a \in Askers : u.shows[a] # "none" <=> IsListed(u, a)
         /\ \A i, j \in DOMAIN u.list : u.list[i] = u.list[j] /\ u.list[i] \in Askers => i = j
    ELSE \A a \in Askers : ~IsListed(u, a)

\* What is in the queue shows as waiting, except an edit that was accepted or comes again.
QueueInv(u) ==
    u.left = "no" =>
       /\ IsPending(u, "bash") <=> u.shows["bash"] = "asks"
       /\ IsPending(u, "reply") <=> u.shows["combo"] = "asks"
       /\ u.shows["edit"] = "asks" => IsPending(u, "edit")
       /\ u.shows["combo"] = "asks" => u.sock

DataInv(u) ==
    /\ u \in UIs
    /\ ListInv(u) /\ QueueInv(u)
    /\ IsPending(u, "feedback") => u.sock

InList(u) == "Messages" \in {u.focus, u.prev_focus}

\* The keys have a message, and the overlays are where they were.
PlaceInv(u) ==
    /\ u \in UIs
    /\ u.selected <= Len(u.list)
    /\ InList(u) /\ u.left # "restored" => u.selected # 0
    /\ (u.focus = "ShortcutHints") = (u.prev_focus # NoFocus)
    /\ u.view = "Transcript" => u.focus \notin {"CommandPalette", "ShortcutHints"}

\* Until the user looks away, a selected message has the focus, and what waits is in sight.
Sighted(u) ==
    /\ u.selected # 0 => InList(u)
    /\ WaitingAt(u) # {} =>
          \/ InList(u) /\ (SelectedWaits(u) \/ u.list[u.selected] = "edit")
          \/ IsPending(u, "feedback")

FocusInv == DataInv(ui) /\ PlaceInv(ui) /\ astray \in BOOLEAN /\ (~astray => Sighted(ui))

-----------------------------------------------------------------------------
(* ChatFocus: the operators *)

\* What an operator on the chat leaves alone
SamePlace(u, v) ==
    /\ v.focus = u.focus /\ v.prev_focus = u.prev_focus
    /\ v.view = u.view /\ v.selected = u.selected
SameList(u, v) == v.list = u.list /\ v.left = u.left
SameData(u, v) ==
    SameList(u, v) /\ v.shows = u.shows /\ v.pending = u.pending /\ v.sock = u.sock

LEMMA PendingKinds ==
    /\ \A p \in Pending : /\ p.kind \in {"bash", "edit", "reply", "feedback"}
                          /\ p = [kind |-> p.kind]
    /\ \A k, l : [kind |-> k] = [kind |-> l] => k = l
BY DEF Pending

\* Equal parts have equal invariants.
LEMMA DataStays ==
    ASSUME NEW u, NEW v \in UIs, DataInv(u), SameData(u, v)
    PROVE  /\ DataInv(v) /\ WaitingAt(v) = WaitingAt(u)
           /\ \A k : IsPending(v, k) <=> IsPending(u, k)
BY DEF SameData, SameList, DataInv, ListInv, QueueInv, IsListed, IsPending, WaitingAt

LEMMA PlaceStays ==
    ASSUME NEW u, NEW v \in UIs, PlaceInv(u), SamePlace(u, v), SameList(u, v)
    PROVE  PlaceInv(v) /\ (InList(v) <=> InList(u))
BY DEF SamePlace, SameList, PlaceInv, InList

LEMMA SightStays ==
    ASSUME NEW u, NEW v, Sighted(u), SamePlace(u, v), SameList(u, v),
           \A a \in Askers : v.shows[a] = "asks" <=> u.shows[a] = "asks",
           IsPending(u, "feedback") => IsPending(v, "feedback")
    PROVE  Sighted(v)
BY DEF SamePlace, SameList, Sighted, SelectedWaits, WaitingAt, InList

\* The fields of the chat
LEMMA Fields ==
    ASSUME NEW u \in UIs
    PROVE  /\ u.focus \in Foci /\ u.prev_focus \in Foci \cup {NoFocus}
           /\ u.view \in {"Chat", "Transcript"} /\ u.list \in Seq(Contents)
           /\ DOMAIN u.list = 1..Len(u.list) /\ Len(u.list) \in Nat
           /\ u.selected \in Nat /\ u.shows \in [Askers -> Shows]
           /\ u.pending \in Seq(Pending) /\ u.sock \in BOOLEAN
           /\ u.left \in {"no", "new", "restored"}
BY DEF UIs

LEMMA WithFlags ==
    ASSUME NEW u \in UIs, NEW r \in BOOLEAN, NEW a \in BOOLEAN,
           NEW v \in {u, [u EXCEPT !.ready = r, !.armed = a], [u EXCEPT !.ready = r],
                      [u EXCEPT !.armed = a], [u EXCEPT !.offload = r]}
    PROVE  v \in UIs /\ SamePlace(u, v) /\ SameData(u, v)
<1>1. CASE v = u
  BY <1>1 DEF SamePlace, SameData, SameList
<1>2. CASE v = [u EXCEPT !.ready = r, !.armed = a]
  BY <1>2 DEF UIs, SamePlace, SameData, SameList
<1>3. CASE v = [u EXCEPT !.ready = r] \/ v = [u EXCEPT !.offload = r]
  BY <1>3 DEF UIs, SamePlace, SameData, SameList
<1>4. CASE v = [u EXCEPT !.armed = a]
  BY <1>4 DEF UIs, SamePlace, SameData, SameList
<1> QED
  BY <1>1, <1>2, <1>3, <1>4

LEMMA WithSock ==
    ASSUME NEW u \in UIs, NEW b \in BOOLEAN, NEW o \in BOOLEAN,
           NEW v \in {[u EXCEPT !.sock = b], [u EXCEPT !.sock = b, !.offload = o]}
    PROVE  /\ v \in UIs /\ SamePlace(u, v) /\ SameList(u, v)
           /\ v.shows = u.shows /\ v.pending = u.pending /\ v.sock = b
<1>1. CASE v = [u EXCEPT !.sock = b]
  BY <1>1 DEF UIs, SamePlace, SameList
<1>2. CASE v = [u EXCEPT !.sock = b, !.offload = o]
  BY <1>2 DEF UIs, SamePlace, SameList
<1> QED
  BY <1>1, <1>2

LEMMA WithShow ==
    ASSUME NEW u \in UIs, NEW asker \in Askers, NEW show \in Shows,
           NEW v, v = Showing(u, asker, show)
    PROVE  /\ v \in UIs /\ SamePlace(u, v) /\ SameList(u, v)
           /\ v.pending = u.pending /\ v.sock = u.sock
           /\ v.shows[asker] = show
           /\ \A a \in Askers : a # asker => v.shows[a] = u.shows[a]
BY DEF UIs, Showing, SamePlace, SameList

Added(u, k) == WithPending(u, [kind |-> k])
Taken(u, k) == WithoutPending(u, {[kind |-> k]})

LEMMA PendingAdded ==
    ASSUME NEW u \in UIs, NEW k \in {"bash", "edit", "reply", "feedback"},
           NEW v, v = Added(u, k)
    PROVE  /\ v \in UIs /\ SamePlace(u, v) /\ SameList(u, v)
           /\ v.shows = u.shows /\ v.sock = u.sock
           /\ \A l : IsPending(v, l) <=> IsPending(u, l) \/ l = k
<1> DEFINE action == [kind |-> k]
           kept == Excluding(u.pending, {action})
<1>1. action \in Pending /\ u.pending \in Seq(Pending)
  BY DEF Pending, UIs
<1>2. /\ kept \in Seq(Pending)
      /\ \A e : (\E i \in DOMAIN kept : kept[i] = e)
                <=> e \notin {action} /\ \E i \in DOMAIN u.pending : u.pending[i] = e
  <2> DEFINE removed == {action}
  <2> HIDE DEF action, removed
  <2>1. /\ Excluding(u.pending, removed) \in Seq(Pending)
        /\ \A e : (\E i \in DOMAIN Excluding(u.pending, removed) :
                      Excluding(u.pending, removed)[i] = e)
                  <=> e \notin removed /\ \E i \in DOMAIN u.pending : u.pending[i] = e
    <3>1. /\ Excluding(u.pending, removed) \in Seq(Pending)
          /\ \A e : Has(Excluding(u.pending, removed), e) <=> Has(u.pending, e) /\ e \notin removed
      BY <1>1, ExcludingHas
    <3> QED
      BY <3>1 DEF Has
  <2> QED
    BY <2>1 DEF removed
<1> HIDE DEF kept, action
<1>3. v = [u EXCEPT !.pending = Append(kept, action)]
  BY DEF Added, WithPending, kept, action
<1>4. /\ Append(kept, action) \in Seq(Pending)
      /\ \A e : (\E i \in DOMAIN Append(kept, action) : Append(kept, action)[i] = e)
                <=> e = action \/ \E i \in DOMAIN kept : kept[i] = e
  <2>1. /\ Append(kept, action) \in Seq(Pending) /\ Len(kept) \in Nat
        /\ Len(Append(kept, action)) = Len(kept) + 1
        /\ \A i \in 1..Len(kept) : Append(kept, action)[i] = kept[i]
        /\ Append(kept, action)[Len(kept) + 1] = action
    BY <1>1, <1>2, AppendProperties
  <2>2. /\ DOMAIN kept = 1..Len(kept)
        /\ DOMAIN Append(kept, action) = 1..Len(kept) \cup {Len(kept) + 1}
    BY <1>2, <2>1
  <2> QED
    BY <2>1, <2>2
<1>5. /\ v \in UIs /\ SamePlace(u, v) /\ SameList(u, v)
      /\ v.shows = u.shows /\ v.sock = u.sock /\ v.pending = Append(kept, action)
  BY <1>3, <1>4 DEF UIs, SamePlace, SameList
<1>6. ASSUME NEW l
      PROVE  IsPending(v, l) <=> IsPending(u, l) \/ l = k
  <2>1. [kind |-> l] = action <=> l = k
    BY PendingKinds DEF action
  <2>2. IsPending(v, l) <=> [kind |-> l] = action \/ \E i \in DOMAIN kept : kept[i] = [kind |-> l]
    <3>1. IsPending(v, l) <=> \E i \in DOMAIN Append(kept, action) :
                                 Append(kept, action)[i] = [kind |-> l]
      BY <1>5 DEF IsPending
    <3> QED
      BY <1>4, <3>1
  <2>3. (\E i \in DOMAIN kept : kept[i] = [kind |-> l])
        <=> [kind |-> l] # action /\ IsPending(u, l)
    BY <1>2 DEF IsPending
  <2> QED
    BY <2>1, <2>2, <2>3
<1> QED
  BY <1>5, <1>6

LEMMA PendingRemoved ==
    ASSUME NEW u \in UIs, NEW actions, NEW v, v = WithoutPending(u, actions)
    PROVE  /\ v \in UIs /\ SamePlace(u, v) /\ SameList(u, v)
           /\ v.shows = u.shows /\ v.sock = u.sock
           /\ \A l : IsPending(v, l) <=> IsPending(u, l) /\ [kind |-> l] \notin actions
<1>1. u.pending \in Seq(Pending)
  BY DEF UIs
<1>2. /\ Excluding(u.pending, actions) \in Seq(Pending)
      /\ \A e : (\E i \in DOMAIN Excluding(u.pending, actions) :
                    Excluding(u.pending, actions)[i] = e)
                <=> e \notin actions /\ \E i \in DOMAIN u.pending : u.pending[i] = e
  <2>1. /\ Excluding(u.pending, actions) \in Seq(Pending)
        /\ \A e : Has(Excluding(u.pending, actions), e) <=> Has(u.pending, e) /\ e \notin actions
    BY <1>1, ExcludingHas
  <2> QED
    BY <2>1 DEF Has
<1>3. /\ v \in UIs /\ SamePlace(u, v) /\ SameList(u, v)
      /\ v.shows = u.shows /\ v.sock = u.sock /\ v.pending = Excluding(u.pending, actions)
  BY <1>2 DEF WithoutPending, UIs, SamePlace, SameList
<1> QED
  BY <1>2, <1>3 DEF IsPending

LEMMA PendingTaken ==
    ASSUME NEW u \in UIs, NEW k, NEW v, v = Taken(u, k)
    PROVE  /\ v \in UIs /\ SamePlace(u, v) /\ SameList(u, v)
           /\ v.shows = u.shows /\ v.sock = u.sock
           /\ \A l : IsPending(v, l) <=> IsPending(u, l) /\ l # k
<1> DEFINE actions == {[kind |-> k]}
<1>1. \A l : [kind |-> l] \notin actions <=> l # k
  BY PendingKinds
<1>2. v = WithoutPending(u, actions)
  BY DEF Taken
<1> HIDE DEF actions
<1>3. /\ v \in UIs /\ SamePlace(u, v) /\ SameList(u, v)
      /\ v.shows = u.shows /\ v.sock = u.sock
      /\ \A l : IsPending(v, l) <=> IsPending(u, l) /\ [kind |-> l] \notin actions
  BY <1>2, PendingRemoved
<1> QED
  BY <1>1, <1>3

LEMMA ComboTaken ==
    ASSUME NEW u \in UIs, NEW v, v = WithoutPending(u, OfCombo)
    PROVE  /\ v \in UIs /\ SamePlace(u, v) /\ SameList(u, v)
           /\ v.shows = u.shows /\ v.sock = u.sock
           /\ \A l : IsPending(v, l) <=> IsPending(u, l) /\ l \notin {"reply", "feedback"}
<1>1. \A l : [kind |-> l] \notin OfCombo <=> l \notin {"reply", "feedback"}
  BY PendingKinds DEF OfCombo
<1>2. /\ v \in UIs /\ SamePlace(u, v) /\ SameList(u, v)
      /\ v.shows = u.shows /\ v.sock = u.sock
      /\ \A l : IsPending(v, l) <=> IsPending(u, l) /\ [kind |-> l] \notin OfCombo
  BY PendingRemoved
<1> QED
  BY <1>1, <1>2

\* Where a message is
LEMMA LocatedIs ==
    ASSUME NEW u \in UIs, NEW content
    PROVE  IF IsListed(u, content)
           THEN Located(u, content) \in DOMAIN u.list /\ u.list[Located(u, content)] = content
                /\ Located(u, content) # 0
           ELSE Located(u, content) = 0
<1> DEFINE S == {i \in DOMAIN u.list : u.list[i] = content}
<1>1. DOMAIN u.list = 1..Len(u.list) /\ Len(u.list) \in Nat
  BY Fields
<1>2. CASE IsListed(u, content)
  <2>1. S \in SUBSET Nat /\ S # {}
    BY <1>1, <1>2 DEF IsListed
  <2>2. Min(S) \in S
    BY <2>1, MinIsIn
  <2>3. Located(u, content) = Min(S)
    BY <1>2 DEF Located, IsListed
  <2> QED
    BY <1>1, <1>2, <2>2, <2>3
<1>3. CASE ~IsListed(u, content)
  BY <1>3 DEF Located, IsListed
<1> QED
  BY <1>2, <1>3

LEMMA WaitingAtIs ==
    ASSUME NEW u \in UIs
    PROVE  /\ WaitingAt(u) \subseteq DOMAIN u.list /\ WaitingAt(u) \in SUBSET Nat
           /\ 0 \notin WaitingAt(u)
           /\ \A i : i \in WaitingAt(u) <=>
                 i \in DOMAIN u.list /\ u.list[i] \in Askers /\ u.shows[u.list[i]] = "asks"
BY Fields DEF WaitingAt

\* The focus goes to a message.
LEMMA LooksAtIs ==
    ASSUME NEW u, PlaceInv(u), NEW i \in DOMAIN u.list, NEW v, v = LooksAt(u, i)
    PROVE  /\ PlaceInv(v) /\ SameData(u, v)
           /\ v.focus = "Messages" /\ v.selected = i /\ v.view = u.view
<1>1. u \in UIs /\ DOMAIN u.list = 1..Len(u.list) /\ Len(u.list) \in Nat
  BY Fields DEF PlaceInv
<1>2. /\ v \in UIs /\ SameData(u, v) /\ v.view = u.view
      /\ v.focus = "Messages" /\ v.selected = i
      /\ v.prev_focus = IF u.focus = "ShortcutHints" THEN NoFocus ELSE u.prev_focus
  <2> DEFINE w == MovesFocus(u, "Messages")
  <2>1. /\ w \in UIs /\ SameData(u, w) /\ w.view = u.view /\ w.focus = "Messages"
        /\ w.prev_focus = IF u.focus = "ShortcutHints" THEN NoFocus ELSE u.prev_focus
    <3>1. CASE u.focus = "Messages"
      BY <1>1, <3>1 DEF MovesFocus, SameData, SameList
    <3>2. CASE u.focus # "Messages"
      <4>1. w = [u EXCEPT !.focus = "Messages",
                          !.prev_focus = IF u.focus = "ShortcutHints" THEN NoFocus ELSE @]
        BY <3>2 DEF MovesFocus
      <4> QED
        BY <1>1, <3>2, <4>1 DEF UIs, SameData, SameList, Foci
    <3> QED
      BY <3>1, <3>2
  <2>2. v = [w EXCEPT !.selected = i] /\ i \in Nat
    BY <1>1 DEF LooksAt
  <2> HIDE DEF w
  <2> QED
    BY <2>1, <2>2 DEF UIs, SameData, SameList
<1> QED
  BY <1>1, <1>2 DEF PlaceInv, InList, SameData, SameList

\* The focus goes elsewhere, with or without the selection.
LEMMA MovesFocusIs ==
    ASSUME NEW u, PlaceInv(u), NEW f \in {"Input", "InputBlur", "CommandPalette"},
           u.view = "Chat" \/ f # "CommandPalette", NEW v, v = MovesFocus(u, f)
    PROVE  /\ PlaceInv(v) /\ SameData(u, v)
           /\ v.focus = f /\ v.selected = u.selected /\ v.view = u.view
           /\ v.prev_focus = NoFocus
<1>1. u \in UIs /\ NoFocus \notin Foci
  BY ShownAssumption DEF PlaceInv
<1>2. /\ v \in UIs /\ SameData(u, v) /\ v.view = u.view
      /\ v.focus = f /\ v.selected = u.selected
      /\ v.prev_focus = IF u.focus = f THEN u.prev_focus
                        ELSE IF u.focus = "ShortcutHints" THEN NoFocus ELSE u.prev_focus
  BY <1>1 DEF MovesFocus, UIs, SameData, SameList, Foci
<1> QED
  BY <1>1, <1>2 DEF PlaceInv, InList, SameData, SameList, Foci

LEMMA DeselectedIs ==
    ASSUME NEW u, PlaceInv(u), ~InList(u), NEW v, v = Deselected(u)
    PROVE  /\ PlaceInv(v) /\ SameData(u, v) /\ v.selected = 0
           /\ v.focus = u.focus /\ v.prev_focus = u.prev_focus /\ v.view = u.view
<1>1. u \in UIs /\ Len(u.list) \in Nat
  BY Fields DEF PlaceInv
<1>2. /\ v \in UIs /\ SameData(u, v) /\ v.selected = 0
      /\ v.focus = u.focus /\ v.prev_focus = u.prev_focus /\ v.view = u.view
  BY <1>1 DEF Deselected, UIs, SameData, SameList
<1> QED
  BY <1>1, <1>2 DEF PlaceInv, InList, SameData, SameList

LEMMA LeavesListIs ==
    ASSUME NEW u, PlaceInv(u), NEW f \in {"Input", "InputBlur"},
           NEW v \in {Deselected(MovesFocus(u, f)), MovesFocus(Deselected(u), f)}
    PROVE  /\ PlaceInv(v) /\ SameData(u, v) /\ v.selected = 0
           /\ v.focus = f /\ v.prev_focus = NoFocus /\ v.view = u.view
<1>1. CASE v = Deselected(MovesFocus(u, f))
  <2> DEFINE w == MovesFocus(u, f)
  <2>1. /\ PlaceInv(w) /\ SameData(u, w) /\ w.focus = f /\ w.view = u.view
        /\ w.prev_focus = NoFocus
    BY MovesFocusIs
  <2>2. ~InList(w) /\ v = Deselected(w)
    BY <1>1, <2>1, ShownAssumption DEF InList, Foci
  <2> HIDE DEF w
  <2>3. /\ PlaceInv(v) /\ SameData(w, v) /\ v.selected = 0
        /\ v.focus = f /\ v.prev_focus = NoFocus /\ v.view = w.view
    BY <2>1, <2>2, DeselectedIs
  <2> QED
    BY <2>1, <2>3 DEF SameData, SameList
<1>2. CASE v = MovesFocus(Deselected(u), f)
  <2>1. u \in UIs /\ Len(u.list) \in Nat
    BY Fields DEF PlaceInv
  <2>2. /\ v \in UIs /\ SameData(u, v) /\ v.selected = 0 /\ v.view = u.view
        /\ v.focus = f
        /\ v.prev_focus = IF u.focus = f THEN u.prev_focus
                          ELSE IF u.focus = "ShortcutHints" THEN NoFocus ELSE u.prev_focus
    BY <1>2, <2>1 DEF MovesFocus, Deselected, UIs, SameData, SameList, Foci
  <2>3. v.prev_focus = NoFocus
    BY <2>2, ShownAssumption DEF PlaceInv, Foci
  <2> QED
    BY <2>1, <2>2, <2>3, ShownAssumption DEF PlaceInv, InList, SameData, SameList, Foci
<1> QED
  BY <1>1, <1>2

\* What waits in the queue and is listed can be reached.
LEMMA NothingReachable ==
    ASSUME NEW u \in UIs, Reachable(u) = {}
    PROVE  /\ ~IsPending(u, "feedback")
           /\ \A i \in WaitingAt(u) : ~IsPending(u, ActionOf(u.list[i]))
<1>1. ~IsPending(u, "feedback")
  BY DEF Reachable, IsPending
<1>2. ASSUME NEW i \in WaitingAt(u), IsPending(u, ActionOf(u.list[i]))
      PROVE  FALSE
  <2>1. PICK n \in DOMAIN u.pending : u.pending[n].kind = ActionOf(u.list[i])
    BY <1>2 DEF IsPending
  <2>2. i \in DOMAIN u.list /\ u.list[i] \in Askers
    BY WaitingAtIs
  <2>3. Located(u, u.list[i]) # 0
    BY <2>2, LocatedIs DEF IsListed
  <2>4. ShownFor(u, u.pending[n]) = Located(u, u.list[i])
    BY <2>1, <2>2 DEF ShownFor, ActionOf, Askers
  <2> QED
    BY <2>1, <2>3, <2>4 DEF Reachable
<1> QED
  BY <1>1, <1>2

\* The next that waits is another than the selected one.
LEMMA NextWaitingIs ==
    ASSUME NEW u \in UIs
    PROVE  IF NextWaiting(u) = 0 THEN WaitingAt(u) \subseteq {u.selected}
           ELSE NextWaiting(u) \in WaitingAt(u) /\ NextWaiting(u) # u.selected
<1> DEFINE after == {i \in WaitingAt(u) : i > u.selected}
           before == {i \in WaitingAt(u) : i < u.selected}
<1>1. /\ WaitingAt(u) \in SUBSET Nat /\ 0 \notin WaitingAt(u) /\ u.selected \in Nat
      /\ after \in SUBSET Nat /\ before \in SUBSET Nat
  BY WaitingAtIs, Fields
<1>2. NextWaiting(u) = IF after # {} THEN Min(after) ELSE IF before # {} THEN Min(before) ELSE 0
  BY DEF NextWaiting
<1>3. CASE after # {}
  <2>1. Min(after) \in after
    BY <1>1, <1>3, MinIsIn
  <2> QED
    BY <1>1, <1>2, <1>3, <2>1
<1>4. CASE after = {} /\ before # {}
  <2>1. Min(before) \in before
    BY <1>1, <1>4, MinIsIn
  <2> QED
    BY <1>1, <1>2, <1>4, <2>1
<1>5. CASE after = {} /\ before = {}
  BY <1>1, <1>2, <1>5
<1> QED
  BY <1>3, <1>4, <1>5

\* Whom the chat turns to when something was decided, or came back
TurnsTo(u, n) ==
    /\ PlaceInv(n) /\ SameData(u, n) /\ n.view = u.view
    /\ \/ Reachable(u) = {} /\ WaitingAt(u) \subseteq {u.selected}
       \/ IsPending(u, "feedback")
       \/ /\ n.focus = "Messages" /\ n.selected \in DOMAIN u.list
          /\ \E asker \in Askers : /\ u.list[n.selected] = asker
                                   /\ IsPending(u, ActionOf(asker))
       \/ /\ n.focus = "Messages" /\ Reachable(u) = {}
          /\ n.selected \in WaitingAt(u) /\ n.selected # u.selected

LEMMA NextIs ==
    ASSUME NEW u, PlaceInv(u), NEW n, n = focus_next_pending_user_action(u)
    PROVE  /\ TurnsTo(u, n)
           /\ \/ n.selected # 0 => InList(n)
              \/ n = u /\ Reachable(u) = {} /\ NextWaiting(u) = 0
<1>1. u \in UIs /\ u.pending \in Seq(Pending) /\ DOMAIN u.pending \in SUBSET Nat
  BY Fields DEF PlaceInv
<1>2. CASE Reachable(u) # {}
  <2> DEFINE m == Min(Reachable(u))
             action == u.pending[m]
  <2>1. Reachable(u) \in SUBSET Nat
    BY <1>1 DEF Reachable
  <2>2. m \in Reachable(u)
    BY <1>2, <2>1, MinIsIn
  <2>3. m \in DOMAIN u.pending /\ (action.kind = "feedback" \/ ShownFor(u, action) # 0)
    BY <2>2 DEF Reachable
  <2> HIDE DEF m
  <2>4. action \in Pending
    BY <1>1, <2>3
  <2>5. /\ action.kind \in {"bash", "edit", "reply", "feedback"}
        /\ action = [kind |-> action.kind]
    BY <2>4, PendingKinds
  <2>6. IsPending(u, action.kind)
    BY <2>3, <2>5 DEF IsPending
  <2>7. n = IF action.kind = "feedback" THEN Deselected(MovesFocus(u, "Input"))
            ELSE LooksAt(u, ShownFor(u, action))
    BY <1>2 DEF focus_next_pending_user_action, m
  <2>8. CASE action.kind = "feedback"
    <3>1. /\ PlaceInv(n) /\ SameData(u, n) /\ n.selected = 0 /\ n.view = u.view
      BY <2>7, <2>8, LeavesListIs
    <3> QED
      BY <2>6, <2>8, <3>1 DEF TurnsTo
  <2>9. CASE action.kind # "feedback"
    <3> DEFINE asker == IF action.kind = "reply" THEN "combo" ELSE action.kind
    <3>1. ShownFor(u, action) = Located(u, asker)
      BY <2>9 DEF ShownFor
    <3>2. asker \in Askers /\ ActionOf(asker) = action.kind
      BY <2>5, <2>9 DEF Askers, ActionOf
    <3> HIDE DEF asker
    <3>3. Located(u, asker) \in DOMAIN u.list /\ u.list[Located(u, asker)] = asker
      BY <1>1, <2>3, <2>9, <3>1, LocatedIs
    <3>4. n = LooksAt(u, Located(u, asker))
      BY <2>7, <2>9, <3>1
    <3>5. /\ PlaceInv(n) /\ SameData(u, n) /\ n.view = u.view
          /\ n.focus = "Messages" /\ n.selected = Located(u, asker)
      BY <3>3, <3>4, LooksAtIs
    <3> QED
      BY <2>6, <3>2, <3>3, <3>5 DEF TurnsTo, InList
  <2> QED
    BY <2>8, <2>9
<1>3. CASE Reachable(u) = {} /\ NextWaiting(u) # 0
  <2>1. n = LooksAt(u, NextWaiting(u))
    BY <1>3 DEF focus_next_pending_user_action
  <2>2. /\ NextWaiting(u) \in WaitingAt(u) /\ NextWaiting(u) # u.selected
        /\ NextWaiting(u) \in DOMAIN u.list
    BY <1>1, <1>3, NextWaitingIs, WaitingAtIs
  <2>3. /\ PlaceInv(n) /\ SameData(u, n) /\ n.view = u.view
        /\ n.focus = "Messages" /\ n.selected = NextWaiting(u)
    BY <2>1, <2>2, LooksAtIs
  <2> QED
    BY <1>3, <2>2, <2>3 DEF TurnsTo, InList
<1>4. CASE Reachable(u) = {} /\ NextWaiting(u) = 0
  <2>1. n = u
    BY <1>4 DEF focus_next_pending_user_action
  <2>2. WaitingAt(u) \subseteq {u.selected}
    BY <1>1, <1>4, NextWaitingIs
  <2> QED
    BY <1>4, <2>1, <2>2 DEF TurnsTo, SameData, SameList
<1> QED
  BY <1>2, <1>3, <1>4

LEMMA NextOrInputIs ==
    ASSUME NEW u, PlaceInv(u), NEW n, n = focus_next_pending_user_action_or_input(u)
    PROVE  TurnsTo(u, n) /\ (n.selected # 0 => InList(n))
<1>1. u \in UIs
  BY DEF PlaceInv
<1>2. CASE Reachable(u) = {} /\ NextWaiting(u) = 0
  <2>1. n = Deselected(MovesFocus(u, "Input"))
    BY <1>2 DEF focus_next_pending_user_action_or_input
  <2>2. /\ PlaceInv(n) /\ SameData(u, n) /\ n.selected = 0 /\ n.view = u.view
    BY <2>1, LeavesListIs
  <2>3. WaitingAt(u) \subseteq {u.selected}
    BY <1>1, <1>2, NextWaitingIs
  <2> QED
    BY <1>2, <2>2, <2>3 DEF TurnsTo
<1>3. CASE ~(Reachable(u) = {} /\ NextWaiting(u) = 0)
  <2>1. n = focus_next_pending_user_action(u)
    BY <1>3 DEF focus_next_pending_user_action_or_input
  <2>2. /\ TurnsTo(u, n)
        /\ \/ n.selected # 0 => InList(n)
           \/ n = u /\ Reachable(u) = {} /\ NextWaiting(u) = 0
    BY <2>1, NextIs
  <2> QED
    BY <1>3, <2>2
<1> QED
  BY <1>2, <1>3

\* What it turns to is in sight, also when the tool it turned from has ended since.
LEMMA TurnsToSight ==
    ASSUME NEW u \in UIs, NEW n, TurnsTo(u, n), n.selected # 0 => InList(n),
           NEW v \in UIs, SamePlace(n, v), SameList(n, v),
           IsPending(u, "feedback") => IsPending(v, "feedback"),
           \A a \in Askers : v.shows[a] = "asks" =>
              u.shows[a] = "asks" /\ IsPending(u, ActionOf(a)),
           \A a \in {"bash", "combo"} : IsPending(u, ActionOf(a)) => v.shows[a] = "asks"
    PROVE  PlaceInv(v) /\ Sighted(v)
<1>1. PlaceInv(n) /\ SameData(u, n) /\ SameList(u, v)
  BY DEF TurnsTo, SameData, SameList
<1>2. PlaceInv(v) /\ (InList(v) <=> InList(n)) /\ v.selected = n.selected
  BY <1>1, PlaceStays DEF SamePlace
<1>3. v.selected # 0 => InList(v)
  BY <1>2
<1>4. CASE Reachable(u) = {}
  <2>1. ASSUME NEW i \in WaitingAt(v)
        PROVE  FALSE
    <3>1. /\ i \in DOMAIN v.list /\ v.list[i] \in Askers /\ v.shows[v.list[i]] = "asks"
          /\ v.list = u.list
      BY <1>1, WaitingAtIs DEF SameList
    <3>2. u.shows[u.list[i]] = "asks" /\ IsPending(u, ActionOf(u.list[i]))
      BY <3>1
    <3>3. i \in WaitingAt(u)
      BY <3>1, <3>2, WaitingAtIs
    <3> QED
      BY <1>4, <3>2, <3>3, NothingReachable
  <2> QED
    BY <1>2, <1>3, <2>1 DEF Sighted
<1>5. CASE IsPending(u, "feedback")
  BY <1>2, <1>3, <1>5 DEF Sighted
<1>6. ASSUME n.focus = "Messages", n.selected \in DOMAIN u.list, NEW asker \in Askers,
             u.list[n.selected] = asker, IsPending(u, ActionOf(asker))
      PROVE  Sighted(v)
  <2>1. InList(v) /\ v.list[v.selected] = asker /\ v.selected \in DOMAIN v.list
    BY <1>1, <1>2, <1>6 DEF SamePlace, SameList, InList
  <2>2. CASE asker = "edit"
    BY <1>3, <2>1, <2>2 DEF Sighted
  <2>3. CASE asker # "edit"
    <3>1. v.shows[asker] = "asks"
      BY <1>6, <2>3 DEF Askers
    <3>2. SelectedWaits(v)
      BY <2>1, <3>1, WaitingAtIs DEF SelectedWaits
    <3> QED
      BY <1>3, <2>1, <3>2 DEF Sighted
  <2> QED
    BY <2>2, <2>3
<1> QED
  BY <1>2, <1>4, <1>5, <1>6 DEF TurnsTo

-----------------------------------------------------------------------------
(* ChatFocus: the steps *)

\* What happens leaves in sight what was, or shows what waits.
LEMMA HappensKeeps ==
    ASSUME FocusInv, NEW v, Happens(v), DataInv(v), PlaceInv(v),
           ~astray /\ Sighted(ui) => Sighted(v)
    PROVE  FocusInv'
<1>1. ui' = v /\ astray' \in BOOLEAN
      /\ (~astray' => ~astray \/ (v.focus = "Messages" /\ SelectedWaits(v)))
  BY DEF Happens, FocusInv
<1>2. v.focus = "Messages" /\ SelectedWaits(v) => Sighted(v)
  BY DEF Sighted, InList
<1>3. ~astray' => Sighted(v)
  BY <1>1, <1>2 DEF FocusInv
<1> QED
  BY <1>1, <1>3 DEF FocusInv

LEMMA UserMovesKeeps ==
    ASSUME NEW v, UserMoves(v), DataInv(v), PlaceInv(v)
    PROVE  FocusInv'
BY DEF UserMoves, FocusInv

\* The list grows at its end.
LEMMA ListGrows ==
    ASSUME NEW u, DataInv(u), PlaceInv(u), NEW content \in Contents,
           content \in Askers => u.left = "no" /\ u.shows[content] = "none",
           NEW v \in UIs, SamePlace(u, v), v.list = Append(u.list, content), v.left = u.left,
           v.pending = u.pending, v.sock = u.sock,
           \A a \in Askers : IF a = content THEN v.shows[a] \in {"initing", "executing"}
                               ELSE v.shows[a] = u.shows[a]
    PROVE  DataInv(v) /\ PlaceInv(v) /\ (Sighted(u) => Sighted(v))
<1>1. content \in Askers => u.shows[content] = "none"
  OBVIOUS
<1>2. u \in UIs /\ DataInv(u) /\ PlaceInv(u)
  BY DEF DataInv
<1>3. /\ u.list \in Seq(Contents) /\ Len(u.list) \in Nat /\ DOMAIN u.list = 1..Len(u.list)
  BY <1>2, Fields
<1>4. v \in UIs
  OBVIOUS
<1>5. /\ SamePlace(u, v) /\ v.list = Append(u.list, content) /\ v.left = u.left
      /\ v.pending = u.pending /\ v.sock = u.sock
      /\ \A a \in Askers : IF a = content THEN v.shows[a] \in {"initing", "executing"}
                           ELSE v.shows[a] = u.shows[a]
  OBVIOUS
<1>6. /\ Len(v.list) = Len(u.list) + 1 /\ DOMAIN v.list = 1..(Len(u.list) + 1)
      /\ \A i \in 1..Len(u.list) : v.list[i] = u.list[i]
      /\ v.list[Len(u.list) + 1] = content
  BY <1>3, <1>5
<1>7. WaitingAt(v) = WaitingAt(u)
  <2>1. \A i \in DOMAIN v.list : i \in WaitingAt(v) <=> i \in WaitingAt(u)
    <3> TAKE i \in DOMAIN v.list
    <3>1. CASE i = Len(u.list) + 1
      BY <1>2, <1>3, <1>4, <1>5, <1>6, <3>1, WaitingAtIs
    <3>2. CASE i \in 1..Len(u.list)
      <4>1. v.list[i] = u.list[i] /\ i \in DOMAIN u.list
        BY <1>3, <1>6, <3>2
      <4>2. u.list[i] \in Askers => (v.shows[u.list[i]] = "asks" <=> u.shows[u.list[i]] = "asks")
        BY <1>1, <1>5
      <4> QED
        BY <1>2, <1>4, <4>1, <4>2, WaitingAtIs
    <3> QED
      BY <1>3, <1>6, <3>1, <3>2
  <2>2. /\ WaitingAt(v) \subseteq DOMAIN v.list /\ WaitingAt(u) \subseteq DOMAIN u.list
        /\ DOMAIN u.list \subseteq DOMAIN v.list
    BY <1>2, <1>3, <1>4, <1>6, WaitingAtIs
  <2> QED
    BY <2>1, <2>2
<1>8. \A k : IsPending(v, k) <=> IsPending(u, k)
  BY <1>5 DEF IsPending
<1>9. \A a : IsListed(v, a) <=> IsListed(u, a) \/ a = content
  BY <1>3, <1>6 DEF IsListed
<1>10. ListInv(v)
  <2>1. CASE u.left = "no"
    <3>1. \A a \in Askers : v.shows[a] # "none" <=> IsListed(v, a)
      BY <1>2, <1>5, <1>9, <2>1 DEF DataInv, ListInv
    <3>2. content \in Askers => \A i \in DOMAIN u.list : u.list[i] # content
      BY <1>1, <1>2, <2>1 DEF DataInv, ListInv, IsListed
    <3>3. ASSUME NEW i \in DOMAIN v.list, NEW j \in DOMAIN v.list, v.list[i] = v.list[j],
                 v.list[i] \in Askers
          PROVE  i = j
      <4>1. \A m \in DOMAIN v.list : /\ (m \in 1..Len(u.list) \/ m = Len(u.list) + 1)
                                     /\ m \in 1..Len(u.list) => v.list[m] = u.list[m]
                                     /\ m = Len(u.list) + 1 => v.list[m] = content
        BY <1>3, <1>6
      <4>2. \A m, n \in DOMAIN u.list :
               u.list[m] = u.list[n] /\ u.list[m] \in Askers => m = n
        BY <1>2, <2>1 DEF DataInv, ListInv
      <4>3. CASE i = Len(u.list) + 1 /\ j # i
        <5>1. j \in DOMAIN u.list /\ v.list[j] = u.list[j] /\ v.list[i] = content
          BY <1>3, <3>3, <4>1, <4>3
        <5> QED
          BY <3>2, <3>3, <5>1
      <4>4. CASE j = Len(u.list) + 1 /\ j # i
        <5>1. i \in DOMAIN u.list /\ v.list[i] = u.list[i] /\ v.list[j] = content
          BY <1>3, <3>3, <4>1, <4>4
        <5> QED
          BY <3>2, <3>3, <5>1
      <4>5. CASE i # Len(u.list) + 1 /\ j # Len(u.list) + 1
        <5>1. /\ i \in DOMAIN u.list /\ v.list[i] = u.list[i]
              /\ j \in DOMAIN u.list /\ v.list[j] = u.list[j]
          BY <1>3, <3>3, <4>1, <4>5
        <5> QED
          BY <3>3, <4>2, <5>1
      <4> QED
        BY <4>3, <4>4, <4>5
    <3> QED
      BY <1>5, <2>1, <3>1, <3>3 DEF ListInv
  <2>2. CASE u.left # "no"
    BY <1>1, <1>2, <1>5, <1>9, <2>2 DEF DataInv, ListInv
  <2> QED
    BY <2>1, <2>2
<1>11. DataInv(v)
  <2>1. \A a \in Askers : v.shows[a] = "asks" <=> u.shows[a] = "asks"
    BY <1>1, <1>5
  <2>2. {"bash", "edit", "combo"} \subseteq Askers
    BY DEF Askers
  <2> QED
    BY <1>2, <1>4, <1>5, <1>8, <1>10, <2>1, <2>2 DEF DataInv, QueueInv
<1>12. PlaceInv(v)
  BY <1>2, <1>3, <1>4, <1>5, <1>6 DEF PlaceInv, SamePlace, InList, UIs
<1>13. Sighted(u) => Sighted(v)
  <2>1. InList(v) <=> InList(u)
    BY <1>5 DEF SamePlace, InList
  <2>2. u.selected # 0 => v.list[u.selected] = u.list[u.selected]
    BY <1>2, <1>3, <1>6, Fields DEF PlaceInv
  <2>3. v.selected = u.selected
    BY <1>5 DEF SamePlace
  <2>4. ASSUME Sighted(u), WaitingAt(v) # {}
        PROVE  \/ InList(v) /\ (SelectedWaits(v) \/ v.list[v.selected] = "edit")
               \/ IsPending(v, "feedback")
    <3>1. InList(u) => u.selected # 0
      <4>1. u.left = "no"
        BY <1>2, <1>7, <2>4 DEF DataInv, ListInv, IsListed, WaitingAt
      <4> QED
        BY <1>2, <4>1 DEF PlaceInv
    <3> QED
      BY <1>7, <1>8, <2>1, <2>2, <2>3, <2>4, <3>1 DEF Sighted, SelectedWaits
  <2> QED
    BY <2>1, <2>3, <2>4 DEF Sighted
<1> QED
  BY <1>11, <1>12, <1>13

\* A message of its own is pushed for each tool.
LEMMA PushedKeeps ==
    ASSUME FocusInv, MessageIsPushed
    PROVE  FocusInv'
<1>1. PICK content \in Contents :
         /\ content \in Askers => ui.shows[content] = "none"
         /\ LET pushed == [ui EXCEPT !.list = Append(@, content)]
            IN Happens(IF content = "combo"
                       THEN Processes(Showing(pushed, content, "executing"))
                       ELSE IF content \in Askers THEN Showing(pushed, content, "initing")
                       ELSE pushed)
  BY DEF MessageIsPushed
<1> DEFINE pushed == [ui EXCEPT !.list = Append(@, content)]
           shown == IF content = "combo" THEN Showing(pushed, content, "executing")
                    ELSE IF content \in Askers THEN Showing(pushed, content, "initing")
                    ELSE pushed
           v == IF content = "combo" THEN Processes(shown) ELSE shown
<1>2. Happens(v)
  BY <1>1 DEF Askers
<1>3. ui \in UIs /\ DataInv(ui) /\ PlaceInv(ui) /\ ui.left = "no"
  BY DEF FocusInv, DataInv, MessageIsPushed
<1>4. /\ ui.list \in Seq(Contents) /\ Len(ui.list) \in Nat /\ DOMAIN ui.list = 1..Len(ui.list)
  BY <1>3, Fields
<1>5. /\ pushed \in UIs /\ SamePlace(ui, pushed) /\ pushed.list = Append(ui.list, content)
      /\ pushed.left = "no" /\ pushed.shows = ui.shows /\ pushed.pending = ui.pending
      /\ pushed.sock = ui.sock
  <2>1. Append(ui.list, content) \in Seq(Contents)
    BY <1>4
  <2> QED
    BY <1>3, <2>1 DEF UIs, SamePlace
<1> HIDE DEF pushed
<1>6. /\ shown \in UIs /\ SamePlace(pushed, shown) /\ SameList(pushed, shown)
      /\ shown.pending = pushed.pending /\ shown.sock = pushed.sock
      /\ \A a \in Askers : IF a = content THEN shown.shows[a] \in {"initing", "executing"}
                           ELSE shown.shows[a] = ui.shows[a]
  <2>1. CASE content \in Askers
    <3>1. PICK show \in {"initing", "executing"} : shown = Showing(pushed, content, show)
      BY <2>1
    <3> HIDE DEF shown
    <3>2. show \in Shows
      BY DEF Shows
    <3>3. /\ shown \in UIs /\ SamePlace(pushed, shown) /\ SameList(pushed, shown)
          /\ shown.pending = pushed.pending /\ shown.sock = pushed.sock
          /\ shown.shows[content] = show
          /\ \A a \in Askers : a # content => shown.shows[a] = pushed.shows[a]
      BY <1>5, <2>1, <3>1, <3>2, WithShow
    <3> QED
      BY <1>5, <3>3
  <2>2. CASE content \notin Askers
    BY <1>5, <2>2 DEF SamePlace, SameList, Askers
  <2> QED
    BY <2>1, <2>2
<1> HIDE DEF shown
<1>7. v \in UIs /\ SamePlace(shown, v) /\ SameData(shown, v)
  <2>1. v \in {shown, [shown EXCEPT !.ready = FALSE]}
    BY DEF Processes
  <2> HIDE DEF v
  <2> QED
    BY <1>6, <2>1, WithFlags
<1> HIDE DEF v
<1>8. /\ SamePlace(ui, v) /\ v.list = Append(ui.list, content) /\ v.left = "no"
      /\ v.pending = ui.pending /\ v.sock = ui.sock
      /\ \A a \in Askers : IF a = content THEN v.shows[a] \in {"initing", "executing"}
                           ELSE v.shows[a] = ui.shows[a]
  BY <1>5, <1>6, <1>7 DEF SamePlace, SameList, SameData
<1> QED
  BY <1>1, <1>2, <1>3, <1>7, <1>8, ListGrows, HappensKeeps

\* A session that was left shows nothing that waits.
LEMMA LeftShowsNone ==
    ASSUME NEW u, DataInv(u), u.left # "no"
    PROVE  WaitingAt(u) = {} /\ \A a \in Askers : ~IsListed(u, a) /\ Located(u, a) = 0
BY LocatedIs DEF DataInv, ListInv, WaitingAt, IsListed

LEMMA AskersAre == Askers = {"bash", "edit", "combo"}
BY DEF Askers

\* The list stays, and what was shown is.
LEMMA DataFrom ==
    ASSUME NEW u, DataInv(u), NEW v \in UIs, SameList(u, v), QueueInv(v),
           \A a \in Askers : v.shows[a] # "none" <=> u.shows[a] # "none",
           IsPending(v, "feedback") => v.sock
    PROVE  DataInv(v)
BY DEF DataInv, ListInv, SameList, IsListed

LEMMA PermissionKeeps ==
    ASSUME FocusInv, PermissionIsAsked
    PROVE  FocusInv'
<1>1. PICK asker \in {"bash", "edit"} :
         /\ ui.shows[asker] = "initing"
         /\ LET asked == Showing(WithPending(ui, [kind |-> asker]), asker, "asks")
            IN Happens(IF Located(ui, asker) # 0 THEN LooksAt(asked, Located(ui, asker))
                       ELSE asked)
  BY DEF PermissionIsAsked
<1> DEFINE queued == Added(ui, asker)
           asked  == Showing(queued, asker, "asks")
<1>2. ui \in UIs /\ DataInv(ui) /\ PlaceInv(ui) /\ asker \in Askers
  BY AskersAre DEF FocusInv, DataInv
<1>3. /\ queued \in UIs /\ SamePlace(ui, queued) /\ SameList(ui, queued)
      /\ queued.shows = ui.shows /\ queued.sock = ui.sock
      /\ \A l : IsPending(queued, l) <=> IsPending(ui, l) \/ l = asker
  BY <1>2, PendingAdded
<1> HIDE DEF queued
<1>4. /\ asked \in UIs /\ SamePlace(queued, asked) /\ SameList(queued, asked)
      /\ asked.pending = queued.pending /\ asked.sock = queued.sock
      /\ asked.shows[asker] = "asks"
      /\ \A a \in Askers : a # asker => asked.shows[a] = queued.shows[a]
  <2>1. "asks" \in Shows
    BY DEF Shows
  <2> QED
    BY <1>2, <1>3, <2>1, WithShow
<1> HIDE DEF asked
<1>5. /\ SamePlace(ui, asked) /\ SameList(ui, asked) /\ asked.sock = ui.sock
      /\ \A l : IsPending(asked, l) <=> IsPending(ui, l) \/ l = asker
      /\ \A a \in Askers : a # asker => asked.shows[a] = ui.shows[a]
  BY <1>3, <1>4 DEF SamePlace, SameList, IsPending
<1>6. DataInv(asked) /\ PlaceInv(asked)
  <2>1. QueueInv(asked)
    BY <1>1, <1>2, <1>4, <1>5, AskersAre DEF QueueInv, DataInv, SameList
  <2>2. DataInv(asked)
    BY <1>1, <1>2, <1>4, <1>5, <2>1, DataFrom DEF DataInv
  <2> QED
    BY <1>2, <1>4, <1>5, <2>2, PlaceStays
<1>7. CASE Located(ui, asker) # 0
  <2> DEFINE v == LooksAt(asked, Located(ui, asker))
  <2>1. Happens(v)
    BY <1>1, <1>7 DEF asked, queued, Added
  <2>2. Located(ui, asker) \in DOMAIN asked.list /\ asked.list[Located(ui, asker)] = asker
    BY <1>2, <1>5, <1>7, LocatedIs DEF SameList
  <2>3. /\ PlaceInv(v) /\ SameData(asked, v)
        /\ v.focus = "Messages" /\ v.selected = Located(ui, asker)
    BY <1>6, <2>2, LooksAtIs
  <2> HIDE DEF v
  <2>4. DataInv(v) /\ WaitingAt(v) = WaitingAt(asked)
    BY <1>6, <2>3, DataStays DEF PlaceInv
  <2>5. v.selected \in WaitingAt(v)
    BY <1>2, <1>4, <2>2, <2>3, <2>4, WaitingAtIs
  <2>6. Sighted(v)
    BY <2>3, <2>5 DEF Sighted, SelectedWaits, InList
  <2> QED
    BY <2>1, <2>3, <2>4, <2>6, HappensKeeps
<1>8. CASE Located(ui, asker) = 0
  <2>1. Happens(asked)
    BY <1>1, <1>8 DEF asked, queued, Added
  <2>2. ui.left # "no"
    BY <1>1, <1>2, <1>8, LocatedIs DEF DataInv, ListInv
  <2>3. WaitingAt(asked) = {}
    BY <1>5, <1>6, <2>2, LeftShowsNone DEF SameList
  <2>4. Sighted(ui) => Sighted(asked)
    BY <1>5, <2>3 DEF Sighted, SamePlace, InList
  <2> QED
    BY <1>6, <2>1, <2>4, HappensKeeps
<1> QED
  BY <1>7, <1>8

\* What does not wait moves on, and nothing is turned to.
LEMMA ShowMoves ==
    ASSUME NEW u, DataInv(u), PlaceInv(u), NEW asker \in Askers, NEW show \in Shows,
           u.shows[asker] # "none", show \notin {"none", "asks"},
           u.shows[asker] = "asks" => asker = "edit",
           NEW v, v = Showing(u, asker, show)
    PROVE  /\ DataInv(v) /\ PlaceInv(v) /\ SamePlace(u, v) /\ SameList(u, v)
           /\ u.shows[asker] # "asks" => (Sighted(u) => Sighted(v))
           /\ \A l : IsPending(v, l) <=> IsPending(u, l)
<1>1. /\ v \in UIs /\ SamePlace(u, v) /\ SameList(u, v)
      /\ v.pending = u.pending /\ v.sock = u.sock /\ v.shows[asker] = show
      /\ \A a \in Askers : a # asker => v.shows[a] = u.shows[a]
  BY WithShow DEF DataInv
<1>2. \A l : IsPending(v, l) <=> IsPending(u, l)
  BY <1>1 DEF IsPending
<1>3. QueueInv(v)
  BY <1>1, <1>2, AskersAre DEF DataInv, QueueInv, SameList
<1>4. DataInv(v)
  BY <1>1, <1>2, <1>3, DataFrom DEF DataInv
<1>5. u.shows[asker] # "asks" => (Sighted(u) => Sighted(v))
  BY <1>1, <1>2, SightStays
<1> QED
  BY <1>1, <1>2, <1>4, <1>5, PlaceStays

LEMMA EditKeeps ==
    ASSUME FocusInv, EditIsAccepted
    PROVE  FocusInv'
<1> DEFINE v == Showing(ui, "edit", "executing")
<1>1. Happens(v) /\ ui.shows["edit"] = "initing" /\ DataInv(ui) /\ PlaceInv(ui)
  BY DEF EditIsAccepted, FocusInv
<1>2. "executing" \in Shows /\ "edit" \in Askers
  BY AskersAre DEF Shows
<1> HIDE DEF v
<1>3. DataInv(v) /\ PlaceInv(v) /\ (Sighted(ui) => Sighted(v))
  BY <1>1, <1>2, ShowMoves DEF v
<1> QED
  BY <1>1, <1>3, HappensKeeps

\* A flag of the chat changes.
LEMMA FlagsKeep ==
    ASSUME FocusInv, TurnSettles \/ ReminderExpires
    PROVE  FocusInv'
<1>1. PICK v \in {ui, [ui EXCEPT !.ready = TRUE, !.armed = FALSE], [ui EXCEPT !.armed = FALSE]} :
         Happens(v)
  BY DEF TurnSettles, ReminderExpires, BecomesReady
<1>2. ui \in UIs /\ DataInv(ui) /\ PlaceInv(ui)
  BY DEF FocusInv, DataInv
<1>3. v \in UIs /\ SamePlace(ui, v) /\ SameData(ui, v)
  BY <1>2, WithFlags
<1>4. /\ DataInv(v) /\ PlaceInv(v)
      /\ \A k : IsPending(v, k) <=> IsPending(ui, k)
  BY <1>2, <1>3, DataStays, PlaceStays DEF SameData
<1>5. Sighted(ui) => Sighted(v)
  BY <1>3, <1>4, SightStays DEF SameData
<1> QED
  BY <1>1, <1>4, <1>5, HappensKeeps

\* A tool that is done is turned from if it was selected.
LEMMA ToolDoneKeeps ==
    ASSUME FocusInv, ToolIsDone
    PROVE  FocusInv'
<1>1. PICK asker \in {"bash", "edit"}, is_error \in BOOLEAN :
         /\ ui.shows[asker] \in {"initing", "executing"}
         /\ LET done == Showing(WithoutPending(ui, {[kind |-> asker]}), asker, "over")
            IN Happens(Processes(
                  IF ~is_error /\ Located(ui, asker) # 0 /\ ui.selected = Located(ui, asker)
                  THEN focus_next_pending_user_action_or_input(done) ELSE done))
  BY DEF ToolIsDone
<1> DEFINE removed == Taken(ui, asker)
           done == Showing(removed, asker, "over")
           turns == ~is_error /\ Located(ui, asker) # 0 /\ ui.selected = Located(ui, asker)
           n == IF turns THEN focus_next_pending_user_action_or_input(done) ELSE done
           v == [n EXCEPT !.ready = FALSE]
<1>2. ui \in UIs /\ DataInv(ui) /\ PlaceInv(ui) /\ asker \in Askers
  BY AskersAre DEF FocusInv, DataInv
<1>3. Happens(v)
  BY <1>1 DEF Processes, Taken
<1>4. /\ removed \in UIs /\ SamePlace(ui, removed) /\ SameList(ui, removed)
      /\ removed.shows = ui.shows /\ removed.sock = ui.sock
      /\ \A l : IsPending(removed, l) <=> IsPending(ui, l) /\ l # asker
  BY <1>2, PendingTaken
<1> HIDE DEF removed
<1>5. /\ done \in UIs /\ SamePlace(removed, done) /\ SameList(removed, done)
      /\ done.pending = removed.pending /\ done.sock = removed.sock
      /\ done.shows[asker] = "over"
      /\ \A a \in Askers : a # asker => done.shows[a] = removed.shows[a]
  <2>1. "over" \in Shows
    BY DEF Shows
  <2> QED
    BY <1>2, <1>4, <2>1, WithShow
<1> HIDE DEF done
<1>6. /\ SamePlace(ui, done) /\ SameList(ui, done) /\ done.sock = ui.sock
      /\ \A l : IsPending(done, l) <=> IsPending(ui, l) /\ l # asker
      /\ \A a \in Askers : a # asker => done.shows[a] = ui.shows[a]
  BY <1>4, <1>5 DEF SamePlace, SameList, IsPending
<1>7. DataInv(done) /\ PlaceInv(done)
  <2>1. QueueInv(done)
    BY <1>1, <1>2, <1>5, <1>6, AskersAre DEF QueueInv, DataInv, SameList
  <2>2. DataInv(done)
    BY <1>1, <1>2, <1>5, <1>6, <2>1, DataFrom DEF DataInv
  <2> QED
    BY <1>2, <1>5, <1>6, <2>2, PlaceStays
<1>8. CASE turns
  <2>1. n = focus_next_pending_user_action_or_input(done)
    BY <1>8
  <2> HIDE DEF n
  <2>2. TurnsTo(done, n) /\ (n.selected # 0 => InList(n))
    BY <1>7, <2>1, NextOrInputIs
  <2>3. n \in UIs /\ SameData(done, n)
    BY <2>2 DEF TurnsTo, PlaceInv
  <2>4. v \in UIs /\ SamePlace(n, v) /\ SameData(n, v)
    BY <2>3, WithFlags
  <2> HIDE DEF v
  <2>5. DataInv(v) /\ SameData(done, v) /\ \A k : IsPending(v, k) <=> IsPending(done, k)
    <3>1. SameData(done, v)
      BY <2>3, <2>4 DEF SameData, SameList
    <3> QED
      BY <1>7, <2>4, <3>1, DataStays
  <2>6. done.left = "no"
    BY <1>2, <1>6, <1>8, LeftShowsNone DEF SameList
  <2>7. \A a \in Askers : done.shows[a] = "asks" => IsPending(done, ActionOf(a))
    BY <1>7, <2>6, AskersAre DEF DataInv, QueueInv, ActionOf
  <2>8. \A a \in {"bash", "combo"} : IsPending(done, ActionOf(a)) => done.shows[a] = "asks"
    BY <1>7, <2>6 DEF DataInv, QueueInv, ActionOf
  <2>9. PlaceInv(v) /\ Sighted(v)
    BY <1>5, <2>2, <2>4, <2>5, <2>7, <2>8, TurnsToSight DEF SameData
  <2> QED
    BY <1>3, <2>5, <2>9, HappensKeeps
<1>9. CASE ~turns
  <2>1. v = [done EXCEPT !.ready = FALSE]
    BY <1>9
  <2> HIDE DEF v
  <2>2. v \in UIs /\ SamePlace(done, v) /\ SameData(done, v)
    BY <1>5, <2>1, WithFlags
  <2>3. DataInv(v) /\ PlaceInv(v) /\ \A k : IsPending(v, k) <=> IsPending(done, k)
    BY <1>7, <2>2, DataStays, PlaceStays DEF SameData
  <2>4. Sighted(ui) => Sighted(v)
    <3>1. SamePlace(ui, v) /\ SameList(ui, v) /\ v.shows = done.shows
      BY <1>6, <2>2 DEF SamePlace, SameList, SameData
    <3>2. \A a \in Askers : v.shows[a] = "asks" <=> ui.shows[a] = "asks"
      BY <1>1, <1>5, <1>6, <3>1
    <3> QED
      BY <1>1, <1>6, <2>3, <3>1, <3>2, SightStays
  <2> QED
    BY <1>3, <2>3, <2>4, HappensKeeps
<1> QED
  BY <1>8, <1>9

LEMMA PromptedKeeps ==
    ASSUME FocusInv, ComboIsPrompted
    PROVE  FocusInv'
<1> DEFINE queued == [ui EXCEPT !.sock = TRUE]
           asked == Added(queued, "feedback")
           v == [asked EXCEPT !.ready = FALSE]
<1>1. Happens(v)
  BY DEF ComboIsPrompted, Processes, Added
<1>2. ui \in UIs /\ DataInv(ui) /\ PlaceInv(ui)
  BY DEF FocusInv, DataInv
<1>3. /\ queued \in UIs /\ SamePlace(ui, queued) /\ SameList(ui, queued)
      /\ queued.shows = ui.shows /\ queued.pending = ui.pending /\ queued.sock
  BY <1>2, WithSock
<1> HIDE DEF queued
<1>4. /\ asked \in UIs /\ SamePlace(queued, asked) /\ SameList(queued, asked)
      /\ asked.shows = queued.shows /\ asked.sock = queued.sock
      /\ \A l : IsPending(asked, l) <=> IsPending(queued, l) \/ l = "feedback"
  BY <1>3, PendingAdded
<1> HIDE DEF asked
<1>5. v \in UIs /\ SamePlace(asked, v) /\ SameData(asked, v)
  BY <1>4, WithFlags
<1> HIDE DEF v
<1>6. /\ SamePlace(ui, v) /\ SameList(ui, v) /\ v.shows = ui.shows /\ v.sock
      /\ \A l : IsPending(v, l) <=> IsPending(ui, l) \/ l = "feedback"
  BY <1>3, <1>4, <1>5 DEF SamePlace, SameList, SameData, IsPending
<1>7. DataInv(v) /\ PlaceInv(v)
  <2>1. QueueInv(v)
    BY <1>2, <1>6 DEF QueueInv, DataInv, SameList
  <2> QED
    BY <1>2, <1>5, <1>6, <2>1, DataFrom, PlaceStays
<1>8. Sighted(ui) => Sighted(v)
  BY <1>6 DEF Sighted, SamePlace, InList
<1> QED
  BY <1>1, <1>7, <1>8, HappensKeeps

\* A reply takes the place of the feedback.
LEMMA ReplyNeedsKeeps ==
    ASSUME FocusInv, ReplyNeedsUser
    PROVE  FocusInv'
<1> DEFINE known == [ui EXCEPT !.offload = TRUE]
           cleared == Taken(known, "feedback")
           asked == Added(cleared, "reply")
           seen == IF Located(ui, "combo") = 0 THEN asked
                   ELSE LooksAt(asked, Located(ui, "combo"))
           shown == Showing(seen, "combo", "asks")
           v == [shown EXCEPT !.ready = FALSE]
<1>1. Happens(v) /\ ui.shows["combo"] = "executing" /\ ui.sock
  BY DEF ReplyNeedsUser, Processes, Added, Taken
<1>2. ui \in UIs /\ DataInv(ui) /\ PlaceInv(ui) /\ "combo" \in Askers /\ "asks" \in Shows
  BY AskersAre DEF FocusInv, DataInv, Shows
<1>3. known \in UIs /\ SamePlace(ui, known) /\ SameData(ui, known)
  BY <1>2, WithFlags
<1> HIDE DEF known
<1>4. /\ cleared \in UIs /\ SamePlace(known, cleared) /\ SameList(known, cleared)
      /\ cleared.shows = known.shows /\ cleared.sock = known.sock
      /\ \A l : IsPending(cleared, l) <=> IsPending(known, l) /\ l # "feedback"
  BY <1>3, PendingTaken
<1> HIDE DEF cleared
<1>5. /\ asked \in UIs /\ SamePlace(cleared, asked) /\ SameList(cleared, asked)
      /\ asked.shows = cleared.shows /\ asked.sock = cleared.sock
      /\ \A l : IsPending(asked, l) <=> IsPending(cleared, l) \/ l = "reply"
  BY <1>4, PendingAdded
<1> HIDE DEF asked
<1>6. /\ SamePlace(ui, asked) /\ SameList(ui, asked)
      /\ asked.shows = ui.shows /\ asked.sock = ui.sock
      /\ \A l : IsPending(asked, l) <=> (IsPending(ui, l) /\ l # "feedback") \/ l = "reply"
  BY <1>3, <1>4, <1>5 DEF SamePlace, SameList, SameData, IsPending
<1>7. PlaceInv(asked)
  BY <1>2, <1>5, <1>6, PlaceStays
<1>8. /\ PlaceInv(seen) /\ SameData(asked, seen)
      /\ Located(ui, "combo") # 0 =>
            seen.focus = "Messages" /\ seen.selected = Located(ui, "combo")
      /\ Located(ui, "combo") = 0 => seen = asked
  <2>1. CASE Located(ui, "combo") = 0
    BY <1>7, <2>1 DEF SameData, SameList
  <2>2. CASE Located(ui, "combo") # 0
    <3>1. Located(ui, "combo") \in DOMAIN asked.list
      BY <1>2, <1>6, <2>2, LocatedIs DEF SameList
    <3>2. seen = LooksAt(asked, Located(ui, "combo"))
      BY <2>2
    <3> HIDE DEF seen
    <3> QED
      BY <1>7, <2>2, <3>1, <3>2, LooksAtIs
  <2> QED
    BY <2>1, <2>2
<1> HIDE DEF seen
<1>9. /\ shown \in UIs /\ SamePlace(seen, shown) /\ SameList(seen, shown)
      /\ shown.pending = seen.pending /\ shown.sock = seen.sock
      /\ shown.shows["combo"] = "asks"
      /\ \A a \in Askers : a # "combo" => shown.shows[a] = seen.shows[a]
  BY <1>2, <1>8, WithShow DEF PlaceInv
<1> HIDE DEF shown
<1>10. v \in UIs /\ SamePlace(shown, v) /\ SameData(shown, v)
  BY <1>9, WithFlags
<1> HIDE DEF v
<1>11. /\ SamePlace(seen, v) /\ SameList(seen, v) /\ SameList(ui, v) /\ v.sock = ui.sock
       /\ v.shows["combo"] = "asks"
       /\ \A a \in Askers : a # "combo" => v.shows[a] = ui.shows[a]
       /\ \A l : IsPending(v, l) <=> (IsPending(ui, l) /\ l # "feedback") \/ l = "reply"
  BY <1>6, <1>8, <1>9, <1>10 DEF SamePlace, SameList, SameData, IsPending
<1>12. DataInv(v) /\ PlaceInv(v)
  <2>1. QueueInv(v)
    BY <1>1, <1>2, <1>11, AskersAre DEF QueueInv, DataInv, SameList
  <2>2. DataInv(v)
    BY <1>1, <1>2, <1>10, <1>11, <2>1, DataFrom
  <2> QED
    BY <1>8, <1>10, <1>11, <2>2, PlaceStays
<1>13. Sighted(ui) => Sighted(v)
  <2>1. CASE Located(ui, "combo") = 0
    <3>1. ui.left # "no"
      BY <1>1, <1>2, <2>1, LocatedIs DEF DataInv, ListInv
    <3>2. WaitingAt(v) = {}
      BY <1>11, <1>12, <3>1, LeftShowsNone DEF SameList
    <3> QED
      BY <1>6, <1>8, <1>11, <2>1, <3>2 DEF Sighted, SamePlace, InList
  <2>2. CASE Located(ui, "combo") # 0
    <3>1. v.focus = "Messages" /\ v.selected = Located(ui, "combo")
      BY <1>8, <1>11, <2>2 DEF SamePlace
    <3>2. v.selected \in DOMAIN v.list /\ v.list[v.selected] = "combo"
      BY <1>2, <1>11, <2>2, <3>1, LocatedIs DEF SameList
    <3>3. v.selected \in WaitingAt(v)
      BY <1>2, <1>10, <1>11, <3>2, WaitingAtIs
    <3> QED
      BY <3>1, <3>3 DEF Sighted, SelectedWaits, InList
  <2> QED
    BY <2>1, <2>2
<1> QED
  BY <1>1, <1>12, <1>13, HappensKeeps

LEMMA ReplyDoneKeeps ==
    ASSUME FocusInv, ReplyIsDone
    PROVE  FocusInv'
<1> DEFINE known == [ui EXCEPT !.offload = FALSE]
           v == Taken(known, "reply")
<1>1. Happens(v) /\ ui.shows["combo"] = "executing"
  BY DEF ReplyIsDone, Taken
<1>2. ui \in UIs /\ DataInv(ui) /\ PlaceInv(ui)
  BY DEF FocusInv, DataInv
<1>3. known \in UIs /\ SamePlace(ui, known) /\ SameData(ui, known)
  BY <1>2, WithFlags
<1> HIDE DEF known
<1>4. /\ v \in UIs /\ SamePlace(known, v) /\ SameList(known, v)
      /\ v.shows = known.shows /\ v.sock = known.sock
      /\ \A l : IsPending(v, l) <=> IsPending(known, l) /\ l # "reply"
  BY <1>3, PendingTaken
<1> HIDE DEF v
<1>5. /\ SamePlace(ui, v) /\ SameList(ui, v) /\ v.shows = ui.shows /\ v.sock = ui.sock
      /\ \A l : IsPending(v, l) <=> IsPending(ui, l) /\ l # "reply"
  BY <1>3, <1>4 DEF SamePlace, SameList, SameData, IsPending
<1>6. DataInv(v) /\ PlaceInv(v)
  <2>1. QueueInv(v)
    BY <1>1, <1>2, <1>5 DEF QueueInv, DataInv, SameList
  <2>2. DataInv(v)
    BY <1>2, <1>4, <1>5, <2>1, DataFrom DEF DataInv
  <2> QED
    BY <1>2, <1>4, <1>5, <2>2, PlaceStays
<1>7. Sighted(ui) => Sighted(v)
  BY <1>5, SightStays
<1> QED
  BY <1>1, <1>6, <1>7, HappensKeeps

\* The combo ends: what waited with it waits no more.
LEMMA ComboOverKeeps ==
    ASSUME FocusInv, ComboIsExecuted \/ ComboIsCancelled
    PROVE  FocusInv'
<1>1. PICK u : /\ ComboIsOver(u)
               /\ u \in UIs /\ SamePlace(ui, u) /\ SameList(ui, u) /\ u.shows = ui.shows
               /\ \A l : IsPending(u, l) <=> IsPending(ui, l) /\ l \notin {"reply", "feedback"}
  <2>1. ui \in UIs
    BY DEF FocusInv, DataInv
  <2>2. ASSUME NEW w \in {[ui EXCEPT !.sock = FALSE],
                          [ui EXCEPT !.sock = FALSE, !.offload = FALSE]},
               NEW taken, taken = WithoutPending(w, OfCombo),
               NEW u \in {taken, [taken EXCEPT !.ready = TRUE, !.armed = FALSE]}
        PROVE  /\ u \in UIs /\ SamePlace(ui, u) /\ SameList(ui, u) /\ u.shows = ui.shows
               /\ \A l : IsPending(u, l) <=>
                            IsPending(ui, l) /\ l \notin {"reply", "feedback"}
    <3>1. /\ w \in UIs /\ SamePlace(ui, w) /\ SameList(ui, w)
          /\ w.shows = ui.shows /\ w.pending = ui.pending
      BY <2>1, WithSock
    <3>2. /\ taken \in UIs /\ SamePlace(w, taken) /\ SameList(w, taken)
          /\ taken.shows = w.shows
          /\ \A l : IsPending(taken, l) <=> IsPending(w, l) /\ l \notin {"reply", "feedback"}
      BY <2>2, <3>1, ComboTaken
    <3>3. u \in UIs /\ SamePlace(taken, u) /\ SameData(taken, u)
      BY <3>2, WithFlags
    <3> QED
      BY <3>1, <3>2, <3>3 DEF SamePlace, SameList, SameData, IsPending
  <2>3. CASE ComboIsExecuted
    <3> DEFINE u == WithoutPending([ui EXCEPT !.sock = FALSE], OfCombo)
    <3>1. ComboIsOver(u)
      BY <2>3 DEF ComboIsExecuted
    <3> QED
      BY <2>2, <3>1
  <2>4. CASE ComboIsCancelled
    <3> DEFINE taken == WithoutPending([ui EXCEPT !.sock = FALSE, !.offload = FALSE], OfCombo)
    <3>1. ComboIsOver(BecomesReady(taken))
      BY <2>4 DEF ComboIsCancelled
    <3>2. BecomesReady(taken) \in {taken, [taken EXCEPT !.ready = TRUE, !.armed = FALSE]}
      BY DEF BecomesReady
    <3> QED
      BY <2>2, <3>1, <3>2
  <2> QED
    BY <2>3, <2>4
<1> DEFINE v == Showing(u, "combo", "over")
<1>2. /\ ui.shows["combo"] \in {"asks", "executing"} /\ ui' = v
      /\ astray' = (astray \/ ~SelectedWaits(v))
  BY <1>1 DEF ComboIsOver
<1>3. DataInv(ui) /\ PlaceInv(ui) /\ "combo" \in Askers /\ "over" \in Shows
  BY AskersAre DEF FocusInv, Shows
<1>4. /\ v \in UIs /\ SamePlace(u, v) /\ SameList(u, v) /\ v.pending = u.pending
      /\ v.shows["combo"] = "over"
      /\ \A a \in Askers : a # "combo" => v.shows[a] = u.shows[a]
  BY <1>1, <1>3, WithShow
<1> HIDE DEF v
<1>5. /\ SamePlace(ui, v) /\ SameList(ui, v) /\ v.shows["combo"] = "over"
      /\ \A a \in Askers : a # "combo" => v.shows[a] = ui.shows[a]
      /\ \A l : IsPending(v, l) <=> IsPending(ui, l) /\ l \notin {"reply", "feedback"}
  BY <1>1, <1>4 DEF SamePlace, SameList, IsPending
<1>6. DataInv(v) /\ PlaceInv(v)
  <2>1. QueueInv(v)
    BY <1>3, <1>5, AskersAre DEF QueueInv, DataInv, SameList
  <2>2. \A a \in Askers : v.shows[a] # "none" <=> ui.shows[a] # "none"
    BY <1>2, <1>5
  <2>3. DataInv(v)
    BY <1>3, <1>4, <1>5, <2>1, <2>2, DataFrom
  <2> QED
    BY <1>3, <1>4, <1>5, <2>3, PlaceStays
<1>7. astray' \in BOOLEAN /\ (~astray' => Sighted(ui) /\ SelectedWaits(v))
  BY <1>2 DEF FocusInv
<1>8. Sighted(ui) /\ SelectedWaits(v) => Sighted(v)
  <2>1. SelectedWaits(v) => v.selected # 0
    BY <1>4, WaitingAtIs DEF SelectedWaits
  <2>2. v.selected = ui.selected /\ (InList(v) <=> InList(ui))
    BY <1>5 DEF SamePlace, InList
  <2> QED
    BY <2>1, <2>2 DEF Sighted
<1> QED
  BY <1>2, <1>6, <1>7, <1>8 DEF FocusInv

\* The user decided about what asked: it is no longer in the queue.
Decided(u, asker, t) ==
    /\ t \in UIs /\ SameList(u, t) /\ t.sock = u.sock
    /\ \A a \in Askers : a # asker => t.shows[a] = u.shows[a]
    /\ \A l : l # "feedback" => (IsPending(t, l) <=> IsPending(u, l) /\ l # ActionOf(asker))
    /\ IsPending(t, "feedback") => t.sock

LEMMA DecidedSight ==
    ASSUME NEW u, DataInv(u), NEW asker \in Askers, u.left = "no", u.shows[asker] = "asks",
           NEW t, Decided(u, asker, t),
           NEW n, TurnsTo(t, n), n.selected # 0 => InList(n),
           NEW show \in {"executing", "over"}, NEW v, v = Showing(n, asker, show)
    PROVE  DataInv(v) /\ PlaceInv(v) /\ Sighted(v)
<1>1. /\ n \in UIs /\ SameData(t, n) /\ show \in Shows /\ t \in UIs
  BY DEF TurnsTo, PlaceInv, Shows, Decided
<1>2. /\ v \in UIs /\ SamePlace(n, v) /\ SameList(n, v)
      /\ v.pending = n.pending /\ v.sock = n.sock /\ v.shows[asker] = show
      /\ \A a \in Askers : a # asker => v.shows[a] = n.shows[a]
  BY <1>1, WithShow
<1>3. /\ SameList(u, v) /\ v.sock = u.sock /\ t.sock = u.sock
      /\ v.shows[asker] \in {"executing", "over"}
      /\ \A a \in Askers : a # asker => v.shows[a] = u.shows[a] /\ t.shows[a] = u.shows[a]
      /\ \A l : IsPending(v, l) <=> IsPending(t, l)
      /\ \A l : l # "feedback" => (IsPending(t, l) <=> IsPending(u, l) /\ l # ActionOf(asker))
      /\ IsPending(v, "feedback") => v.sock
  BY <1>1, <1>2 DEF Decided, SameList, SameData, IsPending
<1>4. /\ IsPending(u, "bash") <=> u.shows["bash"] = "asks"
      /\ IsPending(u, "reply") <=> u.shows["combo"] = "asks"
      /\ u.shows["edit"] = "asks" => IsPending(u, "edit")
      /\ u.shows["combo"] = "asks" => u.sock
  BY DEF DataInv, QueueInv
<1>5. QueueInv(v)
  BY <1>3, <1>4, AskersAre DEF QueueInv, ActionOf
<1>6. DataInv(v)
  <2>1. \A a \in Askers : v.shows[a] # "none" <=> u.shows[a] # "none"
    BY <1>3
  <2> QED
    BY <1>2, <1>3, <1>5, <2>1, DataFrom
<1>7. ASSUME NEW a \in Askers, v.shows[a] = "asks"
      PROVE  t.shows[a] = "asks" /\ IsPending(t, ActionOf(a))
  <2>1. a # asker /\ u.shows[a] = "asks" /\ t.shows[a] = "asks"
    BY <1>3, <1>7
  <2>2. IsPending(u, ActionOf(a))
    BY <1>4, <2>1, AskersAre DEF ActionOf
  <2>3. ActionOf(a) # ActionOf(asker) /\ ActionOf(a) # "feedback"
    BY <2>1, AskersAre DEF ActionOf
  <2> QED
    BY <1>3, <2>1, <2>2, <2>3
<1>8. ASSUME NEW a \in {"bash", "combo"}, IsPending(t, ActionOf(a))
      PROVE  v.shows[a] = "asks"
  <2>1. ActionOf(a) # "feedback" /\ a \in Askers
    BY AskersAre DEF ActionOf
  <2>2. IsPending(u, ActionOf(a)) /\ a # asker
    BY <1>3, <1>8, <2>1
  <2>3. u.shows[a] = "asks"
    BY <1>4, <2>2 DEF ActionOf
  <2> QED
    BY <1>3, <2>1, <2>2, <2>3
<1>9. PlaceInv(v) /\ Sighted(v)
  BY <1>1, <1>2, <1>3, <1>7, <1>8, TurnsToSight
<1> QED
  BY <1>6, <1>9

\* What asks is the selected message.
LEMMA SelectedAsks ==
    ASSUME NEW u, DataInv(u), u.selected \in WaitingAt(u)
    PROVE  /\ u.selected \in DOMAIN u.list /\ u.list[u.selected] \in Askers
           /\ u.shows[u.list[u.selected]] = "asks" /\ u.left = "no" /\ u.selected # 0
<1>1. u \in UIs
  BY DEF DataInv
<1>2. /\ u.selected \in DOMAIN u.list /\ u.list[u.selected] \in Askers
      /\ u.shows[u.list[u.selected]] = "asks" /\ u.selected # 0
  BY <1>1, WaitingAtIs
<1>3. u.left = "no"
  BY LeftShowsNone
<1> QED
  BY <1>2, <1>3

LEMMA DecisionIs ==
    ASSUME NEW u, DataInv(u), PlaceInv(u), NEW asker \in Askers, u.shows[asker] = "asks",
           u.left = "no", NEW w,
           IF asker = "combo"
           THEN \/ w = Showing(u, asker, "executing")
                \/ w = [Showing(u, asker, "executing") EXCEPT !.offload = FALSE]
           ELSE w = u,
           NEW t, t = Taken(w, ActionOf(asker))
    PROVE  Decided(u, asker, t) /\ PlaceInv(t) /\ SamePlace(u, t)
<1>1. /\ w \in UIs /\ SamePlace(u, w) /\ SameList(u, w)
      /\ w.pending = u.pending /\ w.sock = u.sock
      /\ \A a \in Askers : a # asker => w.shows[a] = u.shows[a]
  <2>1. u \in UIs /\ "executing" \in Shows
    BY DEF DataInv, Shows
  <2>2. CASE asker = "combo"
    <3> DEFINE s == Showing(u, asker, "executing")
    <3>1. /\ s \in UIs /\ SamePlace(u, s) /\ SameList(u, s)
          /\ s.pending = u.pending /\ s.sock = u.sock
          /\ \A a \in Askers : a # asker => s.shows[a] = u.shows[a]
      BY <2>1, WithShow
    <3>2. w \in {s, [s EXCEPT !.offload = FALSE]}
      BY <2>2
    <3> HIDE DEF s
    <3>3. w \in UIs /\ SamePlace(s, w) /\ SameData(s, w)
      BY <3>1, <3>2, WithFlags
    <3> QED
      BY <3>1, <3>3 DEF SamePlace, SameData, SameList
  <2>3. CASE asker # "combo"
    BY <2>1, <2>3 DEF SamePlace, SameList
  <2> QED
    BY <2>2, <2>3
<1>2. /\ t \in UIs /\ SamePlace(w, t) /\ SameList(w, t)
      /\ t.shows = w.shows /\ t.sock = w.sock
      /\ \A l : IsPending(t, l) <=> IsPending(w, l) /\ l # ActionOf(asker)
  BY <1>1, PendingTaken
<1>3. /\ SamePlace(u, t) /\ SameList(u, t) /\ t.sock = u.sock
      /\ \A a \in Askers : a # asker => t.shows[a] = u.shows[a]
      /\ \A l : IsPending(t, l) <=> IsPending(u, l) /\ l # ActionOf(asker)
  BY <1>1, <1>2 DEF SamePlace, SameList, IsPending
<1>4. Decided(u, asker, t)
  BY <1>2, <1>3 DEF Decided, DataInv
<1> QED
  BY <1>2, <1>3, <1>4, PlaceStays

LEMMA RefusedIs ==
    ASSUME NEW u, DataInv(u), PlaceInv(u), u.selected \in WaitingAt(u),
           NEW v, v = Refused(u)
    PROVE  DataInv(v) /\ PlaceInv(v) /\ Sighted(v)
<1> DEFINE asker == u.list[u.selected]
           w == IF asker = "combo"
                THEN [Showing(u, asker, "executing") EXCEPT !.offload = FALSE] ELSE u
           without == Taken(w, ActionOf(asker))
           left == Deselected(MovesFocus(without, "Input"))
           back == IF asker = "combo" THEN Added(left, "feedback") ELSE left
           ready == BecomesReady(back)
           n == focus_next_pending_user_action(ready)
           show == IF asker = "combo" THEN "executing" ELSE "over"
<1>1. v = Showing(n, asker, show)
  BY DEF Refused, Taken, Added, ActionOf
<1>2. /\ asker \in Askers /\ u.shows[asker] = "asks" /\ u.left = "no"
  BY SelectedAsks
<1> HIDE DEF asker
<1>3. Decided(u, asker, without) /\ PlaceInv(without)
  BY <1>2, DecisionIs
<1> HIDE DEF w, without
<1>4. PlaceInv(left) /\ SameData(without, left) /\ left.selected = 0
  BY <1>3, LeavesListIs
<1> HIDE DEF left
<1>5. /\ PlaceInv(back) /\ back.selected = 0 /\ SameList(without, back)
      /\ back.shows = without.shows /\ back.sock = without.sock
      /\ \A l : l # "feedback" => (IsPending(back, l) <=> IsPending(without, l))
      /\ IsPending(back, "feedback") => IsPending(without, "feedback") \/ asker = "combo"
  <2>1. CASE asker = "combo"
    <3>1. back = Added(left, "feedback") /\ left \in UIs
      BY <1>4, <2>1 DEF PlaceInv
    <3> HIDE DEF back
    <3>2. /\ back \in UIs /\ SamePlace(left, back) /\ SameList(left, back)
          /\ back.shows = left.shows /\ back.sock = left.sock
          /\ \A l : IsPending(back, l) <=> IsPending(left, l) \/ l = "feedback"
      BY <3>1, PendingAdded
    <3>3. PlaceInv(back)
      BY <1>4, <3>2, PlaceStays
    <3> QED
      BY <1>4, <2>1, <3>2, <3>3 DEF SamePlace, SameList, SameData, IsPending
  <2>2. CASE asker # "combo"
    BY <1>4, <2>2 DEF SameList, SameData, IsPending
  <2> QED
    BY <2>1, <2>2
<1> HIDE DEF back
<1>6. ready \in UIs /\ SamePlace(back, ready) /\ SameData(back, ready)
  <2>1. back \in UIs /\ ready \in {back, [back EXCEPT !.ready = TRUE, !.armed = FALSE]}
    BY <1>5 DEF BecomesReady, PlaceInv
  <2> HIDE DEF ready
  <2> QED
    BY <2>1, WithFlags
<1> HIDE DEF ready
<1>7. PlaceInv(ready) /\ ready.selected = 0
  BY <1>5, <1>6, PlaceStays DEF SamePlace, SameData
<1>8. Decided(u, asker, ready)
  <2>1. \A l : IsPending(ready, l) <=> IsPending(back, l)
    BY <1>6 DEF SameData, IsPending
  <2>2. asker = "combo" => u.sock
    BY <1>2 DEF DataInv, QueueInv
  <2> QED
    BY <1>3, <1>5, <1>6, <2>1, <2>2 DEF Decided, SameData, SameList
<1>9. TurnsTo(ready, n) /\ (n.selected # 0 => InList(n))
  <2>1. /\ TurnsTo(ready, n)
        /\ (n.selected # 0 => InList(n)) \/ n = ready
    BY <1>7, NextIs
  <2> QED
    BY <1>7, <2>1
<1> HIDE DEF n
<1> QED
  BY <1>1, <1>2, <1>8, <1>9, DecidedSight

LEMMA AcceptedIs ==
    ASSUME NEW u, DataInv(u), PlaceInv(u), u.selected \in WaitingAt(u), InList(u),
           NEW v, v = Accepted(u)
    PROVE  DataInv(v) /\ PlaceInv(v) /\ Sighted(v)
<1> DEFINE asker == u.list[u.selected]
           w == IF asker = "combo" THEN Showing(u, asker, "executing") ELSE u
           without == Taken(w, ActionOf(asker))
           n == focus_next_pending_user_action_or_input(without)
<1>1. /\ asker \in Askers /\ u.shows[asker] = "asks" /\ u.left = "no"
      /\ u.selected # 0
  BY SelectedAsks
<1>2. CASE asker = "edit"
  <2> DEFINE s == Showing(u, "edit", "executing")
  <2>1. v = [s EXCEPT !.ready = FALSE]
    BY <1>2 DEF Accepted, Processes
  <2>2. "edit" \in Askers /\ "executing" \in Shows /\ u.shows["edit"] = "asks"
    BY <1>1, <1>2, AskersAre DEF Shows
  <2>3. /\ DataInv(s) /\ PlaceInv(s) /\ SamePlace(u, s) /\ SameList(u, s)
    BY <2>2, ShowMoves
  <2> HIDE DEF s
  <2>4. v \in UIs /\ SamePlace(s, v) /\ SameData(s, v)
    BY <2>1, <2>3, WithFlags DEF DataInv
  <2>5. DataInv(v) /\ PlaceInv(v)
    BY <2>3, <2>4, DataStays, PlaceStays DEF SameData
  <2>6. InList(v) /\ v.list[v.selected] = "edit"
    BY <1>2, <2>3, <2>4 DEF SamePlace, SameData, SameList, InList
  <2> QED
    BY <2>5, <2>6 DEF Sighted
<1>3. CASE asker # "edit"
  <2>1. v = Showing(n, asker, "executing")
    BY <1>3 DEF Accepted, Taken, ActionOf
  <2> HIDE DEF asker
  <2>2. Decided(u, asker, without) /\ PlaceInv(without)
    BY <1>1, DecisionIs
  <2> HIDE DEF w, without
  <2>3. TurnsTo(without, n) /\ (n.selected # 0 => InList(n))
    BY <2>2, NextOrInputIs
  <2> HIDE DEF n
  <2> QED
    BY <1>1, <2>1, <2>2, <2>3, DecidedSight
<1> QED
  BY <1>2, <1>3

\* Enter, A or Esc on what waits
LEMMA DecisionKeeps ==
    ASSUME FocusInv, KeyAccepts \/ KeyRefuses
    PROVE  FocusInv'
<1>1. DataInv(ui) /\ PlaceInv(ui)
  BY DEF FocusInv
<1>2. ui.selected \in WaitingAt(ui) /\ InList(ui)
  BY DEF KeyAccepts, KeyRefuses, Typing, SelectedWaits, InList
<1>3. CASE KeyAccepts
  <2> DEFINE v == Accepted(ui)
  <2>1. Happens(v)
    BY <1>3 DEF KeyAccepts
  <2>2. DataInv(v) /\ PlaceInv(v) /\ Sighted(v)
    BY <1>1, <1>2, AcceptedIs
  <2> HIDE DEF v
  <2> QED
    BY <2>1, <2>2, HappensKeeps
<1>4. CASE KeyRefuses
  <2> DEFINE v == Refused(ui)
  <2>1. Happens(v)
    BY <1>4 DEF KeyRefuses
  <2>2. DataInv(v) /\ PlaceInv(v) /\ Sighted(v)
    BY <1>1, <1>2, RefusedIs
  <2> HIDE DEF v
  <2> QED
    BY <2>1, <2>2, HappensKeeps
<1> QED
  BY <1>3, <1>4

\* The edit whose hunk was refused keeps the focus.
LEMMA HunkKeeps ==
    ASSUME FocusInv, KeyRefusesHunk
    PROVE  FocusInv'
<1> DEFINE v == Showing(ui, "edit", "initing")
<1>1. /\ Happens(v) /\ ui.selected \in WaitingAt(ui) /\ ui.list[ui.selected] = "edit"
      /\ ui.focus = "Messages" /\ DataInv(ui) /\ PlaceInv(ui)
  BY DEF KeyRefusesHunk, Typing, SelectedWaits, FocusInv
<1>2. ui.shows["edit"] = "asks" /\ "edit" \in Askers /\ "initing" \in Shows
  BY <1>1, SelectedAsks, AskersAre DEF Shows
<1> HIDE DEF v
<1>3. DataInv(v) /\ PlaceInv(v) /\ SamePlace(ui, v) /\ SameList(ui, v)
  BY <1>1, <1>2, ShowMoves DEF v
<1>4. Sighted(v)
  BY <1>1, <1>3 DEF Sighted, InList, SamePlace, SameList
<1> QED
  BY <1>1, <1>3, <1>4, HappensKeeps

\* A list of numbers up to n, and 0
LEMMA LastWaitingIs ==
    ASSUME NEW u \in UIs, NEW waiting,
           waiting = IF SelectedWaits(u) THEN u.selected ELSE Max(WaitingAt(u) \cup {0}),
           waiting # 0
    PROVE  waiting \in WaitingAt(u)
<1>1. /\ WaitingAt(u) \subseteq 1..Len(u.list) /\ Len(u.list) \in Nat
  BY WaitingAtIs, Fields
<1>2. CASE SelectedWaits(u)
  BY <1>2 DEF SelectedWaits
<1>3. CASE ~SelectedWaits(u)
  <2> DEFINE S == WaitingAt(u) \cup {0}
  <2>1. S \in SUBSET (0..Len(u.list)) /\ S # {}
    BY <1>1
  <2>2. waiting = Max(S)
    BY <1>3
  <2>3. Max(S) \in S
    <3> HIDE DEF S
    <3> QED
      BY <1>1, <2>1, MaxIsIn
  <2> QED
    BY <2>2, <2>3
<1> QED
  BY <1>2, <1>3

\* Ctrl-C shows what waits, or refuses it.
LEMMA CtrlCKeeps ==
    ASSUME FocusInv, KeyCtrlC
    PROVE  FocusInv'
<1> DEFINE waiting == IF SelectedWaits(ui) THEN ui.selected ELSE Max(WaitingAt(ui) \cup {0})
           seen == LooksAt(ui, waiting)
           toggled == [ui EXCEPT !.armed = ~@]
           shown == [seen EXCEPT !.armed = TRUE]
           asked == [seen EXCEPT !.armed = FALSE]
<1>1. \/ Happens(toggled)
      \/ waiting # 0 /\ (Happens(shown) \/ Happens(Refused(asked)))
  BY DEF KeyCtrlC
<1>2. ui \in UIs /\ DataInv(ui) /\ PlaceInv(ui)
  BY DEF FocusInv, DataInv
<1>3. CASE Happens(toggled)
  <2>1. (~ui.armed) \in BOOLEAN /\ toggled \in {[ui EXCEPT !.armed = ~ui.armed]}
    OBVIOUS
  <2> HIDE DEF toggled
  <2>2. toggled \in UIs /\ SamePlace(ui, toggled) /\ SameData(ui, toggled)
    BY <1>2, <2>1, WithFlags
  <2>3. /\ DataInv(toggled) /\ PlaceInv(toggled)
        /\ \A k : IsPending(toggled, k) <=> IsPending(ui, k)
    BY <1>2, <2>2, DataStays, PlaceStays DEF SameData
  <2>4. Sighted(ui) => Sighted(toggled)
    BY <2>2, <2>3, SightStays DEF SameData
  <2> QED
    BY <1>3, <2>3, <2>4, HappensKeeps
<1>4. ASSUME waiting # 0, NEW b \in BOOLEAN, NEW v, v = [seen EXCEPT !.armed = b]
      PROVE  /\ DataInv(v) /\ PlaceInv(v) /\ v.selected \in WaitingAt(v)
             /\ v.focus = "Messages"
  <2>1. waiting \in WaitingAt(ui)
    BY <1>2, <1>4, LastWaitingIs
  <2>2. waiting \in DOMAIN ui.list
    BY <1>2, <2>1, WaitingAtIs
  <2> HIDE DEF waiting
  <2>3. /\ PlaceInv(seen) /\ SameData(ui, seen)
        /\ seen.focus = "Messages" /\ seen.selected = waiting
    BY <1>2, <2>2, LooksAtIs
  <2> HIDE DEF seen
  <2>4. v \in UIs /\ SamePlace(seen, v) /\ SameData(seen, v)
    BY <1>4, <2>3, WithFlags DEF PlaceInv
  <2>5. DataInv(seen) /\ WaitingAt(seen) = WaitingAt(ui)
    BY <1>2, <2>3, DataStays DEF PlaceInv
  <2>6. DataInv(v) /\ WaitingAt(v) = WaitingAt(ui)
    BY <2>4, <2>5, DataStays
  <2>7. PlaceInv(v)
    BY <2>3, <2>4, PlaceStays DEF SameData
  <2> QED
    BY <2>1, <2>3, <2>4, <2>6, <2>7 DEF SamePlace
<1>5. CASE waiting # 0 /\ Happens(shown)
  <2>1. /\ DataInv(shown) /\ PlaceInv(shown) /\ shown.selected \in WaitingAt(shown)
        /\ shown.focus = "Messages"
    BY <1>4, <1>5
  <2> HIDE DEF shown
  <2>2. Sighted(shown)
    BY <2>1 DEF Sighted, InList, SelectedWaits
  <2> QED
    BY <1>5, <2>1, <2>2, HappensKeeps
<1>6. CASE waiting # 0 /\ Happens(Refused(asked))
  <2>1. DataInv(asked) /\ PlaceInv(asked) /\ asked.selected \in WaitingAt(asked)
    BY <1>4, <1>6
  <2> DEFINE v == Refused(asked)
  <2> HIDE DEF asked
  <2>2. DataInv(v) /\ PlaceInv(v) /\ Sighted(v)
    BY <2>1, RefusedIs
  <2> HIDE DEF v
  <2>3. Happens(v)
    BY <1>6 DEF v
  <2> QED
    BY <2>2, <2>3, HappensKeeps
<1> QED
  BY <1>1, <1>3, <1>5, <1>6

\* The user moves the focus: what waits is as before.
MovedTo(v) == DataInv(v) /\ PlaceInv(v)

LEMMA SameDataMoves ==
    ASSUME FocusInv, NEW v, PlaceInv(v), SameData(ui, v)
    PROVE  MovedTo(v)
BY DataStays DEF MovedTo, FocusInv, PlaceInv

\* The user moves the focus in the chat.
LEMMA FocusKeysKeep ==
    ASSUME FocusInv, KeyBlurs \/ KeyEdits \/ KeyPalette \/ PaletteCloses
    PROVE  FocusInv'
<1>1. PICK f \in {"Input", "InputBlur", "CommandPalette"} :
         ui.view = "Chat" /\ UserMoves(MovesFocus(ui, f))
  BY DEF KeyBlurs, KeyEdits, KeyPalette, PaletteCloses, Typing
<1> DEFINE v == MovesFocus(ui, f)
<1>2. PlaceInv(v) /\ SameData(ui, v)
  BY <1>1, MovesFocusIs DEF FocusInv
<1>3. UserMoves(v)
  BY <1>1
<1> HIDE DEF v
<1> QED
  BY <1>2, <1>3, SameDataMoves, UserMovesKeeps DEF MovedTo

\* Up goes to the message above.
LEMMA UpKeeps ==
    ASSUME FocusInv, KeyUp
    PROVE  FocusInv'
<1> DEFINE last == IF ui.focus = "InputBlur" THEN Len(ui.list) + 1 ELSE ui.selected
           above == {i \in Selectable(ui) : i < last}
           v == LooksAt(ui, Max(above))
<1>1. above # {} /\ UserMoves(v) /\ ui \in UIs /\ PlaceInv(ui)
  BY DEF KeyUp, FocusInv, DataInv
<1>2. above \subseteq DOMAIN ui.list /\ DOMAIN ui.list = 1..Len(ui.list) /\ Len(ui.list) \in Nat
  BY <1>1, Fields DEF Selectable
<1> HIDE DEF above
<1>3. Max(above) \in above
  <2>1. above \in SUBSET (0..Len(ui.list))
    BY <1>2
  <2> QED
    BY <1>1, <1>2, <2>1, MaxIsIn
<1>4. PlaceInv(v) /\ SameData(ui, v)
  BY <1>1, <1>2, <1>3, LooksAtIs
<1> HIDE DEF v
<1> QED
  BY <1>1, <1>4, SameDataMoves, UserMovesKeeps DEF MovedTo

\* Down goes to the message below, or leaves the list.
LEMMA DownKeeps ==
    ASSUME FocusInv, KeyDown
    PROVE  FocusInv'
<1> DEFINE below == {i \in Selectable(ui) : i > ui.selected}
           v == IF below # {} THEN LooksAt(ui, Min(below))
                ELSE MovesFocus(Deselected(ui), "InputBlur")
<1>1. UserMoves(v) /\ ui \in UIs /\ PlaceInv(ui)
  BY DEF KeyDown, FocusInv, DataInv
<1>2. below \subseteq DOMAIN ui.list /\ DOMAIN ui.list = 1..Len(ui.list)
  BY <1>1, Fields DEF Selectable
<1> HIDE DEF below
<1>3. CASE below # {}
  <2>1. below \in SUBSET Nat
    BY <1>2
  <2>2. Min(below) \in below
    BY <1>3, <2>1, MinIsIn
  <2>3. v = LooksAt(ui, Min(below))
    BY <1>3
  <2> HIDE DEF v
  <2>4. PlaceInv(v) /\ SameData(ui, v)
    BY <1>1, <1>2, <2>2, <2>3, LooksAtIs
  <2> QED
    BY <1>1, <2>4, SameDataMoves, UserMovesKeeps DEF MovedTo
<1>4. CASE below = {}
  <2>1. v = MovesFocus(Deselected(ui), "InputBlur")
    BY <1>4
  <2> HIDE DEF v
  <2>2. PlaceInv(v) /\ SameData(ui, v)
    BY <1>1, <2>1, LeavesListIs
  <2> QED
    BY <1>1, <2>2, SameDataMoves, UserMovesKeeps DEF MovedTo
<1> QED
  BY <1>3, <1>4

\* Esc leaves the list.
LEMMA LeavesKeeps ==
    ASSUME FocusInv, KeyLeaves
    PROVE  FocusInv'
<1> DEFINE v == MovesFocus(Deselected(ui), "InputBlur")
<1>1. UserMoves(v) /\ PlaceInv(ui)
  BY DEF KeyLeaves, FocusInv
<1>2. PlaceInv(v) /\ SameData(ui, v)
  BY <1>1, LeavesListIs
<1> HIDE DEF v
<1> QED
  BY <1>1, <1>2, SameDataMoves, UserMovesKeeps DEF MovedTo

\* A view goes over the other.
LEMMA ViewsKeep ==
    ASSUME FocusInv, open_transcript \/ close_transcript
    PROVE  FocusInv'
<1> DEFINE w == MovesFocus(ui, "InputBlur")
<1>1. PICK view \in {"Chat", "Transcript"} : UserMoves([w EXCEPT !.view = view])
  BY DEF open_transcript, close_transcript
<1> DEFINE v == [w EXCEPT !.view = view]
<1>2. /\ PlaceInv(w) /\ SameData(ui, w) /\ w.focus = "InputBlur" /\ w.prev_focus = NoFocus
  BY MovesFocusIs DEF FocusInv
<1> HIDE DEF w
<1>3. /\ v \in UIs /\ SameData(ui, v) /\ v.focus = "InputBlur" /\ v.prev_focus = NoFocus
      /\ v.selected = w.selected /\ v.list = w.list
  BY <1>2 DEF PlaceInv, UIs, SameData, SameList
<1>4. UserMoves(v)
  BY <1>1
<1> HIDE DEF v
<1>5. PlaceInv(v)
  BY <1>2, <1>3, ShownAssumption DEF PlaceInv, InList, Foci
<1> QED
  BY <1>3, <1>4, <1>5, SameDataMoves, UserMovesKeeps DEF MovedTo

\* The hints open over what had the focus, and give it back.
LEMMA HintsKeep ==
    ASSUME FocusInv, open_shortcut_hints \/ close_shortcut_hints
    PROVE  FocusInv'
<1>1. ui \in UIs /\ DataInv(ui) /\ PlaceInv(ui) /\ NoFocus \notin Foci
  BY ShownAssumption DEF FocusInv, DataInv
<1>2. /\ ui' \in UIs /\ SameData(ui, ui') /\ ui'.selected = ui.selected
      /\ ui'.view = ui.view /\ ui.view = "Chat" /\ astray' = astray
      /\ \/ /\ ui'.focus = "ShortcutHints" /\ ui'.prev_focus = ui.focus
            /\ ui.focus # "ShortcutHints"
         \/ /\ ui'.focus = ui.prev_focus /\ ui'.prev_focus = NoFocus
            /\ ui.focus = "ShortcutHints" /\ ui.prev_focus # "ShortcutHints"
         \/ ui' = ui
  <2>1. CASE open_shortcut_hints
    <3> DEFINE w == MovesFocus(ui, "ShortcutHints")
    <3>1. /\ ui' = [w EXCEPT !.prev_focus = ui.focus] /\ astray' = astray
          /\ ui.focus # "ShortcutHints" /\ ui.view = "Chat"
      BY <2>1 DEF open_shortcut_hints, Typing
    <3>2. /\ w \in UIs /\ SameData(ui, w) /\ w.focus = "ShortcutHints" /\ w.view = ui.view
          /\ w.selected = ui.selected
      <4>1. w = [ui EXCEPT !.focus = "ShortcutHints", !.prev_focus = @]
        BY <3>1 DEF MovesFocus
      <4> QED
        BY <1>1, <4>1 DEF UIs, SameData, SameList, Foci
    <3>3. ui.focus \in Foci
      BY <1>1, Fields
    <3> HIDE DEF w
    <3> QED
      BY <3>1, <3>2, <3>3 DEF UIs, SameData, SameList
  <2>2. CASE close_shortcut_hints
    <3>1. /\ ui.focus = "ShortcutHints" /\ ui.view = "Chat" /\ astray' = astray
          /\ ui' = MovesFocus(ui, IF ui.prev_focus = NoFocus THEN "InputBlur"
                                  ELSE ui.prev_focus)
      BY <2>2 DEF close_shortcut_hints, Typing
    <3>2. ui.prev_focus \in Foci
      BY <1>1, <3>1, Fields DEF PlaceInv
    <3>3. CASE ui.prev_focus = "ShortcutHints"
      <4>1. ui' = ui
        BY <1>1, <3>1, <3>2, <3>3 DEF MovesFocus
      <4> QED
        BY <1>1, <3>1, <4>1 DEF SameData, SameList
    <3>4. CASE ui.prev_focus # "ShortcutHints"
      <4>1. ui' = [ui EXCEPT !.focus = ui.prev_focus, !.prev_focus = NoFocus]
        BY <1>1, <3>1, <3>2, <3>4 DEF MovesFocus
      <4>2. /\ ui' \in UIs /\ SameData(ui, ui') /\ ui'.selected = ui.selected
            /\ ui'.view = ui.view
            /\ ui'.focus = ui.prev_focus /\ ui'.prev_focus = NoFocus
        BY <1>1, <3>2, <4>1 DEF UIs, SameData, SameList
      <4> QED
        BY <3>1, <3>4, <4>2
    <3> QED
      BY <3>3, <3>4
  <2> QED
    BY <2>1, <2>2
<1>3. PlaceInv(ui') /\ (InList(ui') <=> InList(ui))
  <2>1. /\ ui'.list = ui.list /\ ui'.left = ui.left
        /\ (ui.focus = "ShortcutHints") = (ui.prev_focus # NoFocus)
    BY <1>1, <1>2 DEF PlaceInv, SameData, SameList
  <2>2. InList(ui') <=> InList(ui)
    BY <1>1, <1>2, <2>1 DEF InList, Foci
  <2>3. (ui'.focus = "ShortcutHints") = (ui'.prev_focus # NoFocus)
    <3>1. ui.focus \in Foci
      BY <1>1, Fields
    <3> QED
      BY <1>1, <1>2, <2>1, <3>1
  <2> QED
    BY <1>1, <1>2, <2>1, <2>2, <2>3 DEF PlaceInv
<1>4. /\ DataInv(ui') /\ WaitingAt(ui') = WaitingAt(ui)
      /\ \A k : IsPending(ui', k) <=> IsPending(ui, k)
  BY <1>1, <1>2, DataStays
<1>5. Sighted(ui) => Sighted(ui')
  BY <1>2, <1>3, <1>4 DEF Sighted, SelectedWaits, SameData, SameList
<1> QED
  BY <1>2, <1>3, <1>4, <1>5 DEF FocusInv

\* What the user submits is a new message, or goes to the combo that waits for it.
LEMMA SubmitsKeep ==
    ASSUME FocusInv, KeySubmits
    PROVE  FocusInv'
<1> DEFINE grown == [ui EXCEPT !.list = Append(@, "text")]
<1>1. ui \in UIs /\ DataInv(ui) /\ PlaceInv(ui)
  BY DEF FocusInv, DataInv
<1>2. /\ astray' = astray
      /\ ui' \in {ui, [ui EXCEPT !.ready = FALSE], [grown EXCEPT !.ready = FALSE]}
  <2>1. [[ui EXCEPT !.list = @] EXCEPT !.ready = FALSE] = [ui EXCEPT !.ready = FALSE]
    BY <1>1 DEF UIs
  <2> QED
    BY <2>1 DEF KeySubmits, Processes
<1>3. CASE ui' \in {ui, [ui EXCEPT !.ready = FALSE]}
  <2>1. ui' \in UIs /\ SamePlace(ui, ui') /\ SameData(ui, ui')
    BY <1>1, <1>3, WithFlags
  <2>2. /\ DataInv(ui') /\ PlaceInv(ui')
        /\ \A k : IsPending(ui', k) <=> IsPending(ui, k)
    BY <1>1, <2>1, DataStays, PlaceStays DEF SameData
  <2>3. Sighted(ui) => Sighted(ui')
    BY <2>1, <2>2, SightStays DEF SameData
  <2> QED
    BY <1>2, <2>2, <2>3 DEF FocusInv
<1>4. CASE ui' = [grown EXCEPT !.ready = FALSE]
  <2>1. "text" \in Contents /\ "text" \notin Askers
    BY AskersAre DEF Contents
  <2>2. /\ ui' \in UIs /\ SamePlace(ui, ui') /\ ui'.list = Append(ui.list, "text")
        /\ ui'.left = ui.left /\ ui'.pending = ui.pending /\ ui'.sock = ui.sock
        /\ ui'.shows = ui.shows
    <3>1. Append(ui.list, "text") \in Seq(Contents)
      BY <1>1, <2>1, Fields, AppendProperties
    <3> QED
      BY <1>1, <1>4, <3>1 DEF UIs, SamePlace
  <2> DEFINE v == ui'
             content == "text"
  <2>3. \A a \in Askers : IF a = content THEN v.shows[a] \in {"initing", "executing"}
                          ELSE v.shows[a] = ui.shows[a]
    BY <2>1, <2>2
  <2> HIDE DEF v, content
  <2>4. DataInv(v) /\ PlaceInv(v) /\ (Sighted(ui) => Sighted(v))
    <3>1. /\ content \in Contents /\ content \notin Askers
          /\ v \in UIs /\ SamePlace(ui, v) /\ v.list = Append(ui.list, content)
          /\ v.left = ui.left /\ v.pending = ui.pending /\ v.sock = ui.sock
      BY <2>1, <2>2 DEF v, content
    <3> QED
      BY <1>1, <2>3, <3>1, ListGrows
  <2> QED
    BY <1>2, <2>4 DEF FocusInv, v
<1> QED
  BY <1>2, <1>3, <1>4

\* A new list of messages takes the place of the old one.
LEMMA NewSessionKeeps ==
    ASSUME FocusInv, NewSession
    PROVE  FocusInv'
<1> DEFINE v == [ui EXCEPT !.list = <<>>, !.selected = 0, !.focus = "Input", !.ready = TRUE,
                           !.armed = FALSE, !.left = "new"]
<1>1. /\ ui \in UIs /\ DataInv(ui) /\ PlaceInv(ui) /\ UserMoves(v)
      /\ ui.focus = "CommandPalette" /\ ui.view = "Chat"
  BY DEF FocusInv, DataInv, NewSession, Typing
<1>2. /\ v \in UIs /\ v.list = <<>> /\ v.selected = 0 /\ v.focus = "Input"
      /\ v.left = "new" /\ v.pending = ui.pending /\ v.sock = ui.sock
      /\ v.prev_focus = ui.prev_focus /\ v.view = ui.view
  <2>1. <<>> \in Seq(Contents)
    BY EmptySeq
  <2> QED
    BY <1>1, <2>1 DEF UIs, Foci
<1> HIDE DEF v
<1>3. DataInv(v)
  BY <1>1, <1>2 DEF DataInv, ListInv, QueueInv, IsListed, IsPending
<1>4. PlaceInv(v)
  <2>1. ui.prev_focus = NoFocus
    BY <1>1 DEF PlaceInv
  <2> QED
    BY <1>1, <1>2, <2>1, ShownAssumption DEF PlaceInv, InList, Foci
<1> QED
  BY <1>1, <1>3, <1>4, UserMovesKeeps

\* Another session comes with an empty queue.
LEMMA RestoredKeeps ==
    ASSUME FocusInv, SessionIsRestored
    PROVE  FocusInv'
<1>1. ui \in UIs
  BY DEF FocusInv, DataInv
<1>2. PICK list \in {<<>>, <<"text">>}, f \in Foci :
        /\ f # "ShortcutHints"
        /\ UserMoves([ui EXCEPT !.list = list, !.prev_focus = NoFocus, !.view = "Chat",
                !.selected = 0, !.left = "restored", !.focus = f,
                !.pending = <<>>, !.sock = FALSE, !.offload = FALSE, !.armed = FALSE,
                !.ready = TRUE])
  <2>1. PICK list \in {<<>>, <<"text">>}, kept \in Foci :
          UserMoves([ui EXCEPT !.list = list, !.prev_focus = NoFocus, !.view = "Chat",
                !.selected = 0, !.left = "restored",
                !.focus = IF kept = "ShortcutHints" THEN "InputBlur" ELSE kept,
                !.pending = <<>>, !.sock = FALSE, !.offload = FALSE, !.armed = FALSE,
                !.ready = TRUE])
    BY DEF SessionIsRestored
  <2> DEFINE f == IF kept = "ShortcutHints" THEN "InputBlur" ELSE kept
  <2>2. f \in Foci /\ f # "ShortcutHints"
    BY DEF Foci
  <2> QED
    BY <2>1, <2>2
<1> DEFINE v == [ui EXCEPT !.list = list, !.prev_focus = NoFocus, !.view = "Chat",
                !.selected = 0, !.left = "restored", !.focus = f,
                !.pending = <<>>, !.sock = FALSE, !.offload = FALSE, !.armed = FALSE,
                !.ready = TRUE]
<1>3. UserMoves(v)
  BY <1>2
<1>4. /\ v \in UIs /\ v.list = list /\ v.selected = 0 /\ v.focus = f
      /\ v.left = "restored" /\ v.pending = <<>> /\ v.sock = FALSE
      /\ v.prev_focus = NoFocus /\ v.view = "Chat"
  <2>1. <<"text">> \in Seq(Contents)
    <3>1. "text" \in Contents
      BY DEF Contents
    <3> HIDE DEF Contents
    <3> QED
      BY <3>1
  <2>2. <<>> \in Seq(Contents) /\ <<>> \in Seq(Pending)
    BY EmptySeq
  <2>3. list \in Seq(Contents)
    BY <2>1, <2>2
  <2> QED
    BY <1>1, <2>2, <2>3 DEF UIs
<1> HIDE DEF v
<1>5. DataInv(v)
  <2>1. \A a \in Askers : ~IsListed(v, a)
    BY <1>4, AskersAre DEF IsListed
  <2>2. ~IsPending(v, "feedback")
    BY <1>4 DEF IsPending
  <2> QED
    BY <1>4, <2>1, <2>2 DEF DataInv, ListInv, QueueInv
<1>6. PlaceInv(v)
  BY <1>2, <1>4, Fields DEF PlaceInv
<1> QED
  BY <1>3, <1>5, <1>6, UserMovesKeeps

LEMMA FocusBegins ==
    ASSUME FocusInit
    PROVE  FocusInv
<1>1. /\ <<>> \in Seq(Contents) /\ <<>> \in Seq(Pending)
      /\ [a \in Askers |-> "none"] \in [Askers -> Shows]
  BY DEF Shows
<1>2. /\ ui \in UIs /\ ui.list = <<>> /\ ui.pending = <<>> /\ ui.left = "no"
      /\ ui.shows = [a \in Askers |-> "none"] /\ ui.selected = 0
      /\ ui.focus = "Input" /\ ui.prev_focus = NoFocus /\ ui.view = "Chat"
      /\ astray \in BOOLEAN
  BY <1>1 DEF FocusInit, UIs, Foci
<1>3. /\ \A a \in Askers : ~IsListed(ui, a)
      /\ \A k : ~IsPending(ui, k)
      /\ \A a \in Askers : ui.shows[a] = "none"
      /\ DOMAIN ui.list = {}
  BY <1>2 DEF IsListed, IsPending
<1>4. DataInv(ui)
  BY <1>2, <1>3, AskersAre DEF DataInv, ListInv, QueueInv
<1>5. PlaceInv(ui)
  BY <1>2, ShownAssumption DEF PlaceInv, InList, Foci
<1>6. Sighted(ui)
  BY <1>2, <1>3 DEF Sighted, WaitingAt
<1> QED
  BY <1>2, <1>4, <1>5, <1>6 DEF FocusInv

LEMMA FocusNextKeeps ==
    ASSUME FocusInv, [FocusNext]_focusVars
    PROVE  FocusInv'
<1>1. CASE UNCHANGED focusVars
  BY <1>1 DEF focusVars, FocusInv, DataInv, ListInv, QueueInv, PlaceInv, Sighted, IsListed,
              IsPending, InList, WaitingAt, SelectedWaits
<1>2. CASE MessageIsPushed
  BY <1>2, PushedKeeps
<1>3. CASE PermissionIsAsked
  BY <1>3, PermissionKeeps
<1>4. CASE EditIsAccepted
  BY <1>4, EditKeeps
<1>5. CASE ToolIsDone
  BY <1>5, ToolDoneKeeps
<1>6. CASE ComboIsPrompted
  BY <1>6, PromptedKeeps
<1>7. CASE ReplyNeedsUser
  BY <1>7, ReplyNeedsKeeps
<1>8. CASE ReplyIsDone
  BY <1>8, ReplyDoneKeeps
<1>9. CASE ComboIsExecuted \/ ComboIsCancelled
  BY <1>9, ComboOverKeeps
<1>10. CASE TurnSettles \/ ReminderExpires
  BY <1>10, FlagsKeep
<1>11. CASE KeyBlurs \/ KeyEdits \/ KeyPalette \/ PaletteCloses
  BY <1>11, FocusKeysKeep
<1>12. CASE KeySubmits
  BY <1>12, SubmitsKeep
<1>13. CASE KeyUp
  BY <1>13, UpKeeps
<1>14. CASE KeyDown
  BY <1>14, DownKeeps
<1>15. CASE KeyLeaves
  BY <1>15, LeavesKeeps
<1>16. CASE KeyAccepts \/ KeyRefuses
  BY <1>16, DecisionKeeps
<1>17. CASE KeyRefusesHunk
  BY <1>17, HunkKeeps
<1>18. CASE KeyCtrlC
  BY <1>18, CtrlCKeeps
<1>19. CASE open_shortcut_hints \/ close_shortcut_hints
  BY <1>19, HintsKeep
<1>20. CASE NewSession
  BY <1>20, NewSessionKeeps
<1>21. CASE open_transcript \/ close_transcript
  BY <1>21, ViewsKeep
<1>22. CASE SessionIsRestored
  BY <1>22, RestoredKeeps
<1> QED
  BY <1>1, <1>2, <1>3, <1>4, <1>5, <1>6, <1>7, <1>8, <1>9, <1>10, <1>11, <1>12, <1>13,
     <1>14, <1>15, <1>16, <1>17, <1>18, <1>19, <1>20, <1>21, <1>22 DEF FocusNext

\* The keys of the list have a message, the overlays go back to where they were, a feedback has
\* its session, and what waits for the user is in sight until the user looks away or what had
\* the focus ends by itself: for a list of any length, with tools, combos and the model moving
\* the focus at any time (chat.rs, messages.rs).
THEOREM FocusCorrect == FocusSpec => []FocusIsUsable
<1>1. FocusInit => FocusInv
  BY FocusBegins
<1>2. FocusInv /\ [FocusNext]_focusVars => FocusInv'
  BY FocusNextKeeps
<1>3. FocusInv => FocusIsUsable
  <2> SUFFICES ASSUME FocusInv
               PROVE  FocusIsUsable
    OBVIOUS
  <2>1. /\ ui \in UIs /\ DataInv(ui) /\ PlaceInv(ui) /\ astray \in BOOLEAN
        /\ ~astray => Sighted(ui)
    BY DEF FocusInv, DataInv
  <2>2. [kind |-> "feedback"] \in {ui.pending[i] : i \in DOMAIN ui.pending}
        <=> IsPending(ui, "feedback")
    BY DEF IsPending
  <2>3. KeysHaveAMessage
    BY <2>1 DEF PlaceInv, InList, KeysHaveAMessage
  <2>4. OverlaysAreWhereTheyWere
    BY <2>1 DEF PlaceInv, OverlaysAreWhereTheyWere
  <2>5. FeedbackHasASession
    BY <2>1, <2>2 DEF DataInv, FeedbackHasASession
  <2>6. WaitingIsInSight
    BY <2>1, <2>2 DEF Sighted, InList, WaitingIsInSight
  <2> QED
    BY <2>3, <2>4, <2>5, <2>6 DEF FocusIsUsable
<1> QED
  BY <1>1, <1>2, <1>3, PTL DEF FocusSpec

-----------------------------------------------------------------------------
(* CommandPalette: the invariant *)

ModelChoices == Names \cup {NoChoice, "gone"}      \* of a model, with one that is offered no more
Lines   == Modes \cup AtOnce \cup {"No sessions found"} \cup SessionTimes \cup Themes \cup ModelChoices

Palettes ==
    [mode : Modes, lines : Seq(Lines), at : Nat, sessions : Seq(SessionTimes),
     models : Seq(ModelChoices), session : SessionTimes \cup {NoChoice}, override : ModelChoices,
     last : ModelChoices, open : BOOLEAN]

\* The lines are told apart, the cursor is on one of them, and the vector beside them stands
\* for the same things.
GoodPalette(p) ==
    /\ p \in Palettes
    /\ p.at \in DOMAIN p.lines /\ Unrepeated(p.lines)
    /\ ~Has(p.sessions, p.session)
    /\ p.mode = "SwitchSession" => p.sessions \in {p.lines, <<>>}
    /\ p.mode = "SwitchModel" => p.models = p.lines /\ p.lines[1] = NoChoice

PaletteInv ==
    /\ on_disk \in Seq(SessionTimes) /\ Unrepeated(on_disk)
    /\ current \in SessionTimes /\ theme \in Themes
    /\ override \in ModelChoices /\ last_override \in ModelChoices
    /\ GoodPalette(palette)
    /\ palette.open => palette.session \in {current, NoChoice}
    /\ ~surprised

-----------------------------------------------------------------------------
(* CommandPalette: the lists *)

\* What the configuration offers, each once
LEMMA OfferedOnce == Offered \in Seq(Names) /\ Unrepeated(Offered)
<1> DEFINE each == [i \in DOMAIN Offers |->
                      IF Offers[i].models = <<>> THEN <<Offers[i].name>> ELSE Offers[i].models]
<1>1. each \in Seq(Seq(Names))
  <2>1. ASSUME NEW i \in DOMAIN Offers
        PROVE  Offers[i].name \in Names /\ Offers[i].models \in Seq(Names)
    <3> DEFINE R == [name : Names, models : Seq(Names)]
    <3>1. Offers[i] \in R
      <4>1. Offers \in Seq(R)
        BY PaletteAssumption
      <4> HIDE DEF R
      <4> QED
        BY <4>1
    <3> QED
      BY <3>1
  <2>2. \A i \in DOMAIN Offers : each[i] \in Seq(Names)
    BY <2>1
  <2>3. Len(Offers) \in Nat /\ DOMAIN Offers = 1..Len(Offers)
    BY PaletteAssumption
  <2> QED
    BY <2>2, <2>3
<1> HIDE DEF each
<1>2. FlattenSeq(each) \in Seq(Names)
  BY <1>1, FlattenHas
<1>3. Offered = Distinct(FlattenSeq(each))
  BY DEF Offered, each
<1> QED
  BY <1>2, <1>3, DistinctHas

LEMMA LinesAre ==
    /\ Modes \subseteq Lines /\ AtOnce \subseteq Lines /\ "No sessions found" \in Lines
    /\ SessionTimes \subseteq Lines /\ Themes \subseteq Lines /\ ModelChoices \subseteq Lines
BY DEF Lines

LEMMA MainCommands ==
    /\ main_commands \in Seq(Lines) /\ Unrepeated(main_commands)
    /\ 1 \in DOMAIN main_commands /\ FirstLine(main_commands) = 1
<1>1. /\ \A i \in DOMAIN main_commands : main_commands[i] \in Modes \cup AtOnce
      /\ DOMAIN main_commands = 1..8 /\ Len(main_commands) = 8
  BY DEF main_commands, Modes, AtOnce
<1>2. main_commands \in Seq(Modes \cup AtOnce)
  BY DEF main_commands, Modes, AtOnce
<1>3. main_commands \in Seq(Lines)
  BY <1>2, LinesAre, SeqMonotonic
<1>4. Unrepeated(main_commands)
  BY DEF main_commands, Unrepeated
<1>5. main_commands # <<>>
  BY DEF main_commands
<1> QED
  BY <1>1, <1>3, <1>4, <1>5 DEF FirstLine

LEMMA ListingIs ==
    ASSUME NEW p \in Palettes, NEW mode \in Modes, NEW lines \in Seq(Lines),
           FirstLine(lines) = 1
    PROVE  LET q == Listing(p, mode, lines)
           IN  /\ q \in Palettes /\ q.mode = mode /\ q.lines = lines /\ q.at = 1
               /\ q.sessions = p.sessions /\ q.models = p.models
               /\ q.session = p.session /\ q.open = p.open
<1> DEFINE q == Listing(p, mode, lines)
<1>1. q = [p EXCEPT !.mode = mode, !.lines = lines, !.at = 1]
  BY DEF Listing
<1> HIDE DEF q
<1>2. 1 \in Nat
  OBVIOUS
<1>3. q \in Palettes
  BY <1>1, <1>2 DEF Palettes
<1> QED
  BY <1>1, <1>3 DEF Palettes, q

LEMMA MainIsGood ==
    ASSUME NEW p \in Palettes
    PROVE  GoodPalette(open_main(p)) /\ open_main(p).session = p.session
           /\ open_main(p).open = p.open
<1> DEFINE q == Listing(p, "Main", main_commands)
           main == open_main(p)
<1>1. main = [q EXCEPT !.sessions = <<>>, !.models = <<>>]
  BY DEF open_main
<1>2. /\ q \in Palettes /\ q.mode = "Main" /\ q.lines = main_commands /\ q.at = 1
      /\ q.session = p.session /\ q.open = p.open
  BY MainCommands, ListingIs DEF Modes
<1> HIDE DEF q, main
<1>3. /\ main \in Palettes /\ main.mode = "Main" /\ main.lines = main_commands
      /\ main.at = 1 /\ main.sessions = <<>>
      /\ main.session = p.session /\ main.open = p.open
  <2>1. <<>> \in Seq(SessionTimes) /\ <<>> \in Seq(ModelChoices)
    OBVIOUS
  <2> QED
    BY <1>1, <1>2, <2>1 DEF Palettes
<1>4. ~Has(<<>>, p.session)
  BY DEF Has
<1> QED
  BY <1>3, <1>4, MainCommands DEF GoodPalette, main

\* The sessions on disk without that of the palette
LEMMA SessionsAreGood ==
    ASSUME PaletteInv
    PROVE  LET p == OpensSessions(palette)
           IN  GoodPalette(p) /\ p.session = palette.session /\ p.open = palette.open
<1> DEFINE others == Excluding(on_disk, {palette.session})
           entries == build_session_switch_entries(palette)
           lines == IF entries = <<>> THEN <<"No sessions found">> ELSE entries
           p == OpensSessions(palette)
<1>1. /\ others \in Seq(SessionTimes) /\ Unrepeated(others)
      /\ ~Has(others, palette.session)
  BY ExcludingHas DEF PaletteInv
<1>2. entries = SubSeq(others, 1, IF Len(others) < SwitchLimit THEN Len(others) ELSE SwitchLimit)
  BY DEF build_session_switch_entries, FirstN
<1>3. (IF Len(others) < SwitchLimit THEN Len(others) ELSE SwitchLimit) \in 0..Len(others)
  <2>1. Len(others) \in Nat
    BY <1>1
  <2> QED
    BY <2>1, PaletteAssumption
<1> HIDE DEF others, entries
<1>4. /\ entries \in Seq(SessionTimes) /\ Unrepeated(entries)
      /\ ~Has(entries, palette.session)
  BY <1>1, <1>2, <1>3, PrefixHas
<1>5. /\ lines \in Seq(Lines) /\ Unrepeated(lines) /\ FirstLine(lines) = 1
      /\ 1 \in DOMAIN lines
  <2>1. CASE entries = <<>>
    <3> DEFINE found == <<"No sessions found">>
    <3>1. found \in Seq(Lines) /\ Unrepeated(found) /\ 1 \in DOMAIN found
      BY LinesAre, OneHas
    <3>2. FirstLine(found) = 1
      BY DEF FirstLine
    <3> QED
      BY <2>1, <3>1, <3>2
  <2>2. CASE entries # <<>>
    <3>1. entries \in Seq(Lines)
      BY <1>4, LinesAre, SeqMonotonic
    <3> QED
      BY <1>4, <2>2, <3>1 DEF FirstLine
  <2> QED
    BY <2>1, <2>2
<1>6. p = [Listing(palette, "SwitchSession", lines) EXCEPT !.sessions = entries]
  BY DEF OpensSessions, entries
<1>7. entries \in {lines, <<>>}
  OBVIOUS
<1> DEFINE q == Listing(palette, "SwitchSession", lines)
<1> HIDE DEF p, lines
<1>8. /\ q \in Palettes /\ q.mode = "SwitchSession" /\ q.lines = lines /\ q.at = 1
      /\ q.session = palette.session /\ q.open = palette.open
  <2>1. palette \in Palettes /\ "SwitchSession" \in Modes
    BY DEF PaletteInv, GoodPalette, Modes
  <2> QED
    BY <1>5, <2>1, ListingIs
<1> HIDE DEF q
<1>9. /\ p \in Palettes /\ p.mode = "SwitchSession" /\ p.lines = lines /\ p.at = 1
      /\ p.sessions = entries /\ p.session = palette.session /\ p.open = palette.open
  <2>1. p = [q EXCEPT !.sessions = entries]
    BY <1>6 DEF q
  <2> QED
    BY <1>4, <1>8, <2>1 DEF Palettes
<1> QED
  BY <1>4, <1>5, <1>7, <1>9 DEF GoodPalette, p

LEMMA ThemesAreGood ==
    ASSUME PaletteInv
    PROVE  LET p == OpensThemes(palette)
           IN  GoodPalette(p) /\ p.session = palette.session /\ p.open = palette.open
<1> DEFINE rest == SetToSeq(Themes \ {theme})
           lines == <<theme>> \o rest
           p == OpensThemes(palette)
<1>1. theme \in Themes /\ palette \in Palettes /\ ~Has(palette.sessions, palette.session)
  BY DEF PaletteInv, GoodPalette
<1>2. rest \in Seq(Themes \ {theme}) /\ Unrepeated(rest) /\ ~Has(rest, theme)
  <2>1. IsFiniteSet(Themes \ {theme})
    BY PaletteAssumption, FS_Subset
  <2> QED
    BY <2>1, SetToSeqHas
<1> HIDE DEF rest
<1>3. rest \in Seq(Themes) /\ <<theme>> \in Seq(Themes)
  BY <1>1, <1>2
<1>4. Unrepeated(<<theme>>) /\ \A e : Has(<<theme>>, e) <=> e = theme
  BY DEF Unrepeated, Has
<1>5. lines \in Seq(Themes) /\ Unrepeated(lines)
  BY <1>2, <1>3, <1>4, ConcatHas
<1>6. 1 \in DOMAIN lines /\ FirstLine(lines) = 1 /\ lines \in Seq(Lines)
  <2>1. Len(lines) = 1 + Len(rest) /\ Len(rest) \in Nat
    BY <1>3
  <2>2. lines # <<>> /\ 1 \in DOMAIN lines
    BY <1>5, <2>1
  <2> QED
    BY <1>5, <2>2, LinesAre, SeqMonotonic DEF FirstLine
<1>7. p = Listing(palette, "SwitchTheme", lines)
  BY DEF OpensThemes, rest
<1> HIDE DEF p, lines
<1>8. /\ p \in Palettes /\ p.mode = "SwitchTheme" /\ p.lines = lines /\ p.at = 1
      /\ p.sessions = palette.sessions /\ p.session = palette.session /\ p.open = palette.open
  <2>1. "SwitchTheme" \in Modes
    BY DEF Modes
  <2> QED
    BY <1>1, <1>6, <1>7, <2>1, ListingIs
<1> QED
  BY <1>1, <1>5, <1>6, <1>8 DEF GoodPalette, p

\* No override, the last one if it is not offered, and what is offered with the override first
LEMMA ModelsAreGood ==
    ASSUME PaletteInv
    PROVE  LET p == OpensModels(palette)
           IN  GoodPalette(p) /\ p.session = palette.session /\ p.open = palette.open
<1> DEFINE known == {Offered[i] : i \in DOMAIN Offered}
           first == IF palette.override \in known THEN <<palette.override>> ELSE <<>>
           last == IF palette.last # NoChoice /\ palette.last \notin known
                   THEN <<palette.last>> ELSE <<>>
           rest == Excluding(Offered, {palette.override})
           none == <<NoChoice>>
           lines == none \o last \o first \o rest
           p == OpensModels(palette)
<1>1. /\ palette \in Palettes /\ ~Has(palette.sessions, palette.session)
      /\ palette.override \in ModelChoices /\ palette.last \in ModelChoices
  BY DEF PaletteInv, GoodPalette, Palettes
<1>2. NoChoice \in ModelChoices /\ Names \subseteq ModelChoices /\ NoChoice \notin Names
  BY PaletteAssumption DEF ModelChoices
<1>3. known \subseteq Names /\ \A e : Has(Offered, e) <=> e \in known
  BY OfferedOnce DEF Has
<1>4. /\ rest \in Seq(Names) /\ Unrepeated(rest)
      /\ \A e : Has(rest, e) <=> e \in known /\ e # palette.override
  BY <1>3, OfferedOnce, ExcludingHas
<1>5. /\ first \in Seq(ModelChoices) /\ Unrepeated(first)
      /\ \A e : Has(first, e) <=> e = palette.override /\ e \in known
  BY <1>1 DEF Has, Unrepeated
<1>6. /\ last \in Seq(ModelChoices) /\ Unrepeated(last)
      /\ \A e : Has(last, e) => e # NoChoice /\ e \notin known
  BY <1>1 DEF Has, Unrepeated
<1>7. none \in Seq(ModelChoices) /\ Unrepeated(none) /\ \A e : Has(none, e) <=> e = NoChoice
  BY <1>2 DEF Has, Unrepeated
<1>8. p = [Listing(palette, "SwitchModel", lines) EXCEPT !.models = lines]
  BY DEF OpensModels, build_model_entries
<1>9. none[1] = NoChoice /\ Len(none) = 1
  OBVIOUS
<1> HIDE DEF known, first, last, rest, none
<1>10. rest \in Seq(ModelChoices)
  BY <1>2, <1>4
<1>11. /\ none \o last \in Seq(ModelChoices) /\ Unrepeated(none \o last)
       /\ \A e : Has(none \o last, e) => e \notin known
  <2>1. \A e : Has(none \o last, e) <=> Has(none, e) \/ Has(last, e)
    BY <1>6, <1>7, ConcatHas
  <2>2. none \o last \in Seq(ModelChoices) /\ Unrepeated(none \o last)
    BY <1>6, <1>7, ConcatHas
  <2> QED
    BY <1>2, <1>3, <1>6, <1>7, <2>1, <2>2
<1> DEFINE a == none \o last
           b == a \o first
<1>12. a \in Seq(ModelChoices) /\ Unrepeated(a) /\ \A e : Has(a, e) => e \notin known
  BY <1>11
<1> HIDE DEF a
<1>13. /\ b \in Seq(ModelChoices) /\ Unrepeated(b)
       /\ \A e : Has(b, e) => e \notin known \/ e = palette.override
  <2>1. \A e : Has(b, e) <=> Has(a, e) \/ Has(first, e)
    BY <1>5, <1>12, ConcatHas
  <2>2. b \in Seq(ModelChoices) /\ Unrepeated(b)
    BY <1>5, <1>12, ConcatHas
  <2> QED
    BY <1>5, <1>12, <2>1, <2>2
<1>14. lines \in Seq(ModelChoices) /\ Unrepeated(lines) /\ lines[1] = NoChoice /\ lines # <<>>
  <2>1. lines = b \o rest
    BY DEF a
  <2> HIDE DEF b, lines
  <2>2. lines \in Seq(ModelChoices) /\ Unrepeated(lines)
    BY <1>4, <1>10, <1>13, <2>1, ConcatHas
  <2>3. Len(a) >= 1 /\ a[1] = NoChoice
    <3>1. Len(last) \in Nat /\ Len(a) = Len(none) + Len(last)
          /\ \A i \in 1..(Len(none) + Len(last)) :
                a[i] = IF i <= Len(none) THEN none[i] ELSE last[i - Len(none)]
      BY <1>6, <1>7, ConcatProperties DEF a
    <3>2. 1 \in 1..(Len(none) + Len(last)) /\ 1 <= Len(none)
      BY <1>9, <3>1
    <3> QED
      BY <1>9, <3>1, <3>2
  <2>4. Len(b) >= 1 /\ b[1] = NoChoice
    BY <1>5, <1>12, <2>3 DEF b
  <2>5. Len(lines) >= 1 /\ lines[1] = NoChoice
    BY <1>10, <1>13, <2>1, <2>4
  <2> QED
    BY <2>2, <2>5
<1> HIDE DEF b, p, lines
<1>15. 1 \in DOMAIN lines /\ FirstLine(lines) = 1 /\ lines \in Seq(Lines)
  <2>1. Len(lines) \in Nat /\ Len(lines) # 0
    BY <1>14
  <2> QED
    <3>1. FirstLine(lines) = 1
      BY <1>14 DEF FirstLine
    <3>2. lines \in Seq(Lines)
      BY <1>14, LinesAre, SeqMonotonic
    <3>3. 1 \in DOMAIN lines
      BY <1>14, <2>1
    <3> QED
      BY <3>1, <3>2, <3>3
<1>16. /\ p \in Palettes /\ p.mode = "SwitchModel" /\ p.lines = lines /\ p.at = 1
       /\ p.models = lines /\ p.sessions = palette.sessions
       /\ p.session = palette.session /\ p.open = palette.open
  <2> DEFINE q == Listing(palette, "SwitchModel", lines)
  <2>1. "SwitchModel" \in Modes
    BY DEF Modes
  <2>2. /\ q \in Palettes /\ q.mode = "SwitchModel" /\ q.lines = lines /\ q.at = 1
        /\ q.sessions = palette.sessions /\ q.session = palette.session
        /\ q.open = palette.open
    BY <1>1, <1>15, <2>1, ListingIs
  <2> HIDE DEF q
  <2>3. p = [q EXCEPT !.models = lines]
    BY <1>8 DEF q
  <2> QED
    BY <1>14, <2>2, <2>3 DEF Palettes
<1> QED
  BY <1>1, <1>14, <1>15, <1>16 DEF GoodPalette, p

-----------------------------------------------------------------------------
(* CommandPalette: the steps *)

\* What a step that only shows another list, or moves the cursor, has to keep
LEMMA ShownKeeps ==
    ASSUME PaletteInv, NEW p, GoodPalette(p), OnlyShows(p),
           p.open => p.session \in {current, NoChoice}
    PROVE  PaletteInv'
BY DEF PaletteInv, OnlyShows

LEMMA MovesKeep ==
    ASSUME PaletteInv, NEW p, p = [palette EXCEPT !.at = p.at], OnlyShows(p),
           p.at \in DOMAIN palette.lines
    PROVE  PaletteInv'
<1>1. palette \in Palettes /\ p.at \in Nat
  BY DEF PaletteInv, GoodPalette, Palettes
<1>2. /\ p \in Palettes /\ p.mode = palette.mode /\ p.lines = palette.lines
      /\ p.sessions = palette.sessions /\ p.models = palette.models
      /\ p.session = palette.session /\ p.open = palette.open
  BY <1>1 DEF Palettes
<1>3. GoodPalette(p) /\ (p.open => p.session \in {current, NoChoice})
  BY <1>2 DEF PaletteInv, GoodPalette
<1> QED
  BY <1>3, ShownKeeps

\* The palette is closed, with what it shows.
LEMMA ClosedIsGood ==
    ASSUME NEW p, GoodPalette(p)
    PROVE  GoodPalette([p EXCEPT !.open = FALSE]) /\ ~[p EXCEPT !.open = FALSE].open
<1> DEFINE q == [p EXCEPT !.open = FALSE]
<1>1. /\ q \in Palettes /\ q.mode = p.mode /\ q.lines = p.lines /\ q.at = p.at
      /\ q.sessions = p.sessions /\ q.models = p.models /\ q.session = p.session
      /\ q.open = FALSE
  BY DEF GoodPalette, Palettes
<1> HIDE DEF q
<1> QED
  BY <1>1 DEF GoodPalette, q

LEMMA NewIsGood ==
    ASSUME NEW p \in {NewPalette, [NewPalette EXCEPT !.open = TRUE]}
    PROVE  GoodPalette(p) /\ p.session = NoChoice
<1>1. NoChoice \in ModelChoices /\ "Main" \in Modes
  BY DEF ModelChoices, Modes
<1>2. NewPalette \in Palettes /\ NewPalette.mode = "Main" /\ NewPalette.at = 1
      /\ NewPalette.lines = main_commands /\ NewPalette.sessions = <<>>
      /\ NewPalette.session = NoChoice
  BY <1>1, MainCommands DEF NewPalette, Palettes
<1>3. p \in Palettes /\ p.mode = "Main" /\ p.at = 1 /\ p.lines = main_commands
      /\ p.sessions = <<>> /\ p.session = NoChoice
  BY <1>2 DEF Palettes
<1>4. ~Has(<<>>, p.session)
  BY DEF Has
<1> QED
  BY <1>3, <1>4, MainCommands DEF GoodPalette

LEMMA PaletteNextKeeps ==
    ASSUME PaletteInv, [PaletteNext]_paletteVars
    PROVE  PaletteInv'
<1>1. /\ palette \in Palettes /\ GoodPalette(palette)
      /\ palette.open => palette.session \in {current, NoChoice}
      /\ on_disk \in Seq(SessionTimes) /\ Unrepeated(on_disk)
      /\ current \in SessionTimes /\ theme \in Themes
      /\ override \in ModelChoices /\ last_override \in ModelChoices /\ ~surprised
  BY DEF PaletteInv, GoodPalette
<1>2. CASE PaletteOpens
  <2> DEFINE q == [palette EXCEPT !.session = current, !.override = override,
                                  !.last = last_override, !.open = TRUE]
  <2>1. q \in Palettes /\ q.session = current
    BY <1>1 DEF Palettes
  <2> HIDE DEF q
  <2>2. GoodPalette(open_main(q)) /\ open_main(q).session = current
    BY <2>1, MainIsGood
  <2>3. palette' = open_main(q)
        /\ UNCHANGED <<on_disk, current, theme, override, last_override, surprised>>
    BY <1>2 DEF PaletteOpens, q
  <2> QED
    BY <1>1, <2>2, <2>3 DEF PaletteInv
<1>3. CASE PaletteEscapes
  <2>1. CASE OnlyShows(open_main(palette))
    BY <1>1, <2>1, MainIsGood, ShownKeeps
  <2>2. CASE OnlyShows([palette EXCEPT !.open = FALSE])
    <3> DEFINE q == [palette EXCEPT !.open = FALSE]
    <3>1. GoodPalette(q) /\ ~q.open
      BY <1>1, ClosedIsGood
    <3> HIDE DEF q
    <3>2. OnlyShows(q)
      BY <2>2 DEF q
    <3> QED
      BY <1>1, <3>1, <3>2, ShownKeeps
  <2> QED
    BY <1>3, <2>1, <2>2 DEF PaletteEscapes
<1>4. CASE PaletteUp \/ PaletteDown
  <2>1. PICK n \in {palette.at - 1, palette.at + 1} :
           n \in DOMAIN palette.lines /\ OnlyShows([palette EXCEPT !.at = n])
    <3>1. palette.lines \in Seq(Lines) /\ palette.at \in DOMAIN palette.lines
          /\ DOMAIN palette.lines = 1..Len(palette.lines) /\ Len(palette.lines) \in Nat
      BY <1>1 DEF Palettes, GoodPalette
    <3> QED
      BY <1>4, <3>1 DEF PaletteUp, PaletteDown
  <2> DEFINE q == [palette EXCEPT !.at = n]
  <2>2. q.at = n /\ q = [palette EXCEPT !.at = q.at] /\ OnlyShows(q)
    BY <1>1, <2>1 DEF Palettes
  <2> HIDE DEF q
  <2> QED
    BY <2>1, <2>2, MovesKeep
<1>5. CASE PaletteShortcut \/ EnterOpens
  <2>1. PICK p \in {OpensSessions(palette), OpensThemes(palette), OpensModels(palette)} :
           OnlyShows(p)
    BY <1>5 DEF PaletteShortcut, EnterOpens
  <2>2. GoodPalette(p) /\ p.session = palette.session /\ p.open = palette.open
    BY <2>1, SessionsAreGood, ThemesAreGood, ModelsAreGood
  <2> QED
    BY <1>1, <2>1, <2>2, ShownKeeps
<1>6. CASE EnterActs
  <2>1. /\ palette' = [palette EXCEPT !.open = FALSE] /\ ~surprised'
        /\ current' \in SessionTimes
        /\ UNCHANGED <<on_disk, theme, override, last_override>>
    BY <1>1, <1>6 DEF EnterActs, Acts
  <2>2. GoodPalette(palette') /\ ~palette'.open
    BY <1>1, <2>1, ClosedIsGood
  <2> QED
    BY <1>1, <2>1, <2>2 DEF PaletteInv
<1>7. CASE EnterRestores
  <2>1. palette.sessions = palette.lines /\ palette.sessions \in Seq(SessionTimes)
        /\ palette.at \in DOMAIN palette.sessions
    BY <1>1, <1>7 DEF EnterRestores, InMode, GoodPalette, Palettes
  <2>2. /\ current' \in SessionTimes
        /\ UNCHANGED <<on_disk, theme, last_override>>
    BY <1>7, <2>1 DEF EnterRestores
  <2>5. ~surprised'
    <3>1. Selected(palette) = palette.sessions[palette.at]
      BY <2>1 DEF Selected
    <3> QED
      BY <1>1, <1>7, <3>1 DEF EnterRestores
  <2>3. override' \in ModelChoices
    BY <1>1, <1>7 DEF EnterRestores, ModelChoices
  <2>4. GoodPalette(palette') /\ palette'.session = NoChoice
    BY <1>7, NewIsGood DEF EnterRestores
  <2> QED
    BY <1>1, <2>2, <2>3, <2>4, <2>5 DEF PaletteInv
<1>8. CASE EnterSwitchesTheme
  <2>1. /\ palette' = [open_main(palette) EXCEPT !.open = FALSE] /\ ~surprised'
        /\ theme' \in Themes
        /\ UNCHANGED <<on_disk, current, override, last_override>>
    BY <1>1, <1>8 DEF EnterSwitchesTheme, Acts
  <2>2. GoodPalette(palette') /\ ~palette'.open
    BY <1>1, <2>1, MainIsGood, ClosedIsGood
  <2> QED
    BY <1>1, <2>1, <2>2 DEF PaletteInv
<1>9. CASE EnterSwitchesModel
  <2>1. /\ palette.models = palette.lines /\ palette.models \in Seq(ModelChoices)
        /\ palette.at \in DOMAIN palette.models
    BY <1>1, <1>9 DEF EnterSwitchesModel, InMode, GoodPalette, Palettes
  <2>2. /\ palette' = [open_main(palette) EXCEPT !.open = FALSE] /\ ~surprised'
        /\ override' \in ModelChoices /\ last_override' \in ModelChoices
        /\ UNCHANGED <<on_disk, current, theme>>
    <3>1. Selected(palette) = palette.models[palette.at]
          /\ palette.models[palette.at] \in ModelChoices
      BY <2>1 DEF Selected
    <3> QED
      BY <1>1, <1>9, <3>1 DEF EnterSwitchesModel, Acts
  <2>3. GoodPalette(palette') /\ ~palette'.open
    BY <1>1, <2>2, MainIsGood, ClosedIsGood
  <2> QED
    BY <1>1, <2>2, <2>3 DEF PaletteInv
<1>10. CASE SessionIsSaved
  <2> DEFINE rest == Excluding(on_disk, {current})
  <2>1. rest \in Seq(SessionTimes) /\ Unrepeated(rest) /\ ~Has(rest, current)
    BY <1>1, ExcludingHas
  <2> HIDE DEF rest
  <2>2. <<current>> \in Seq(SessionTimes) /\ Unrepeated(<<current>>)
        /\ \A e : Has(<<current>>, e) <=> e = current
    BY <1>1 DEF Unrepeated, Has
  <2>3. <<current>> \o rest \in Seq(SessionTimes) /\ Unrepeated(<<current>> \o rest)
    BY <2>1, <2>2, ConcatHas
  <2>4. on_disk' = <<current>> \o rest
        /\ UNCHANGED <<palette, current, theme, override, last_override, surprised>>
    BY <1>10 DEF SessionIsSaved, rest
  <2> QED
    BY <1>1, <2>3, <2>4 DEF PaletteInv
<1>11. CASE UNCHANGED paletteVars
  BY <1>11 DEF paletteVars, PaletteInv
<1> QED
  BY <1>2, <1>3, <1>4, <1>5, <1>6, <1>7, <1>8, <1>9, <1>10, <1>11 DEF PaletteNext

\* Whatever was saved while the palette is open, however many sessions, providers, models
\* and themes there are and however often lists are opened one from another: Enter does what
\* the line under the cursor says, the cursor is on a line, and each list offers a thing once
\* and never the session the user is in (command_palette.rs, set_commands,
\* build_session_switch_entries, build_model_entries, on_enter).
THEOREM PaletteCorrect == PaletteSpec => []PaletteDoesWhatItShows
<1>1. PaletteInit => PaletteInv
  <2> SUFFICES ASSUME PaletteInit
               PROVE  PaletteInv
    OBVIOUS
  <2>1. PaletteInit
    OBVIOUS
  <2>2. GoodPalette(palette) /\ palette.session = NoChoice
    BY <2>1, NewIsGood DEF PaletteInit
  <2>3. <<>> \in Seq(SessionTimes) /\ Unrepeated(<<>>)
    BY DEF Unrepeated
  <2> QED
    BY <2>2, <2>3 DEF PaletteInit, PaletteInv, ModelChoices
<1>2. PaletteInv /\ [PaletteNext]_paletteVars => PaletteInv'
  BY PaletteNextKeeps
<1>3. PaletteInv => PaletteDoesWhatItShows
  <2> SUFFICES ASSUME PaletteInv
               PROVE  PaletteDoesWhatItShows
    OBVIOUS
  <2>1. EnterDoesWhatTheLineSays /\ CursorIsOnALine
    BY DEF EnterDoesWhatTheLineSays, CursorIsOnALine, PaletteInv, GoodPalette
  <2>2. palette.sessions \in Seq(SessionTimes)
    BY DEF PaletteInv, GoodPalette, Palettes
  <2>3. InMode("SwitchSession") /\ palette.session # NoChoice =>
           current \notin Range(palette.sessions)
    BY <2>2 DEF InMode, PaletteInv, GoodPalette, Has, Range
  <2>4. OffersAreDistinct
    BY <2>3 DEF OffersAreDistinct, InMode, PaletteInv, GoodPalette, Unrepeated
  <2> QED
    BY <2>1, <2>4 DEF PaletteDoesWhatItShows
<1> QED
  BY <1>1, <1>2, <1>3, PTL DEF PaletteSpec

-----------------------------------------------------------------------------
(* Notifications: reminders *)

\* The time since the last reminder is the difference of the ages.
NoticeInv ==
    /\ settings \in SettingsType
    /\ terminal_focused \in BOOLEAN /\ idle_for \in Nat /\ notifications_sent \in Nat
    /\ told \in Seq([idle : Nat, focused : BOOLEAN])
    /\ Len(told) = notifications_sent
    /\ told = <<>> => noticed_for = Never
    /\ told # <<>> => noticed_for \in Nat /\ idle_for = told[Len(told)].idle + noticed_for
    /\ RemindersAreSpaced

LEMMA ReminderIsSpaced ==
    ASSUME NoticeInv, IdleTick
    PROVE  NoticeInv'
<1> USE DEF NoticeInv
<1> DEFINE notice == [idle |-> idle_for, focused |-> terminal_focused]
<1>1. /\ idle_for >= settings.timeout /\ notifications_sent < settings.max
      /\ noticed_for # Never => noticed_for >= settings.interval
      /\ notifications_sent' = notifications_sent + 1 /\ noticed_for' = 0
      /\ told' = Append(told, notice)
      /\ UNCHANGED <<settings, terminal_focused, idle_for>>
  BY DEF IdleTick, Due
<1>2. /\ settings.timeout \in Nat /\ settings.max \in Nat /\ settings.interval \in Nat
      /\ settings.when \in {"Focused", "Unfocused", "Always"}
  BY DEF SettingsType
<1>3. /\ notice \in [idle : Nat, focused : BOOLEAN] /\ notice.idle = idle_for
      /\ notice.focused = terminal_focused
  OBVIOUS
<1>4. settings.when # "Always" => notice.focused = (settings.when = "Focused")
  <2>1. settings.when = "Focused" => terminal_focused
    BY DEF IdleTick, focus_policy_allows
  <2>2. settings.when = "Unfocused" => ~terminal_focused
    BY DEF IdleTick, focus_policy_allows
  <2> QED
    BY <1>2, <1>3, <2>1, <2>2
<1> HIDE DEF notice
<1>5. /\ told' \in Seq([idle : Nat, focused : BOOLEAN]) /\ Len(told) \in Nat
      /\ Len(told') = Len(told) + 1
      /\ \A i \in 1..Len(told) : told'[i] = told[i]
      /\ told'[Len(told) + 1] = notice
  BY <1>1, <1>3, AppendProperties, LenProperties
<1>6. DOMAIN told = 1..Len(told) /\ DOMAIN told' = 1..Len(told')
  BY <1>5
<1>7. told' # <<>>
  BY <1>5, EmptySeq
<1>8. Len(told) > 0 => /\ told # <<>> /\ told[Len(told)].idle \in Nat
                       /\ idle_for >= told[Len(told)].idle + settings.interval
  <2> SUFFICES ASSUME Len(told) > 0
               PROVE  /\ told # <<>> /\ told[Len(told)].idle \in Nat
                      /\ idle_for >= told[Len(told)].idle + settings.interval
    OBVIOUS
  <2>1. told # <<>> /\ noticed_for \in Nat
    BY EmptySeq
  <2>2. told[Len(told)] \in [idle : Nat, focused : BOOLEAN]
    <3>1. told \in Seq([idle : Nat, focused : BOOLEAN]) /\ Len(told) \in 1..Len(told)
      BY <1>5
    <3> QED
      BY <3>1, ElementOfSeq
  <2>3. noticed_for >= settings.interval
    BY <1>1, <2>1, NotificationAssumption
  <2> QED
    BY <1>2, <2>1, <2>2, <2>3
<1>9. RemindersAreSpaced'
  <2>1. Len(told') <= settings'.max
    BY <1>1, <1>2, <1>5
  <2>2. ASSUME NEW i \in DOMAIN told'
        PROVE  /\ told'[i].idle >= settings'.timeout
               /\ settings'.when # "Always" => told'[i].focused = (settings'.when = "Focused")
               /\ i > 1 => told'[i].idle >= told'[i - 1].idle + settings'.interval
    <3>1. CASE i = Len(told) + 1
      <4>1. i > 1 => i - 1 = Len(told) /\ Len(told) > 0 /\ told'[i - 1] = told[Len(told)]
        <5> HIDE DEF NoticeInv
        <5>1. i - 1 = Len(told) /\ (i > 1 => Len(told) > 0)
          BY <1>5, <3>1
        <5>2. Len(told) > 0 => told'[Len(told)] = told[Len(told)]
          <6>1. Len(told) > 0 => Len(told) \in 1..Len(told)
            BY <1>5
          <6> QED
            BY <1>5, <6>1
        <5> QED
          BY <5>1, <5>2
      <4> HIDE DEF NoticeInv
      <4>2. told'[i] = notice /\ UNCHANGED settings
        BY <1>1, <1>5, <3>1
      <4>3. i > 1 => notice.idle >= told'[i - 1].idle + settings.interval
        BY <1>3, <1>8, <4>1
      <4> QED
        BY <1>1, <1>3, <1>4, <4>2, <4>3
    <3>2. CASE i # Len(told) + 1
      <4>1. i \in DOMAIN told /\ told'[i] = told[i] /\ (i > 1 => told'[i - 1] = told[i - 1])
        BY <1>5, <1>6, <3>2
      <4> QED
        BY <1>1, <4>1 DEF RemindersAreSpaced
    <3> QED
      BY <3>1, <3>2
  <2> QED
    BY <2>1, <2>2 DEF RemindersAreSpaced
<1>10. idle_for' = told'[Len(told')].idle + noticed_for'
  BY <1>1, <1>3, <1>5
<1> QED
  BY <1>1, <1>5, <1>7, <1>9, <1>10

\* For all settings, and however long nobody types: between two keys there are at most as
\* many reminders as the settings say, each after the timeout and an interval after the one
\* before, and with the focus the policy asks for (IdleTracker::poll, maybe_notify_idle).
THEOREM RemindersCorrect == NoticeSpec => []RemindersAreSpaced
<1>1. NoticeInit => NoticeInv
  BY NotificationAssumption DEF NoticeInit, NoticeInv, RemindersAreSpaced, SettingsType
<1>2. NoticeInv /\ [NoticeNext]_noticeVars => NoticeInv'
  <2> SUFFICES ASSUME NoticeInv, [NoticeNext]_noticeVars
               PROVE  NoticeInv'
    OBVIOUS
  <2>1. CASE EventIsNoticed \/ UNCHANGED noticeVars
    BY <2>1 DEF EventIsNoticed, noticeVars, NoticeInv, RemindersAreSpaced
  <2>2. CASE IdleTick
    BY <2>2, ReminderIsSpaced
  <2>3. CASE TimePasses
    <3>1. told # <<>> => noticed_for # Never
      BY NotificationAssumption DEF NoticeInv
    <3>2. told # <<>> => told[Len(told)].idle \in Nat
      <4> SUFFICES ASSUME told # <<>>
                   PROVE  told[Len(told)].idle \in Nat
        OBVIOUS
      <4>1. told \in Seq([idle : Nat, focused : BOOLEAN]) /\ Len(told) \in Nat
        BY LenProperties DEF NoticeInv
      <4>2. Len(told) \in 1..Len(told)
        BY <4>1, EmptySeq
      <4>3. told[Len(told)] \in [idle : Nat, focused : BOOLEAN]
        BY <4>1, <4>2, ElementOfSeq
      <4> QED
        BY <4>3
    <3> QED
      BY <2>3, <3>1, <3>2 DEF TimePasses, NoticeInv, RemindersAreSpaced
  <2>4. CASE KeyIsActivity
    BY <2>4 DEF KeyIsActivity, NoticeInv, RemindersAreSpaced, SettingsType
  <2>5. CASE update_terminal_focused
    BY <2>5 DEF update_terminal_focused, NoticeInv, RemindersAreSpaced
  <2> QED
    BY <2>1, <2>2, <2>3, <2>4, <2>5 DEF NoticeNext
<1>3. NoticeInv => RemindersAreSpaced
  BY DEF NoticeInv
<1> QED
  BY <1>1, <1>2, <1>3, PTL DEF NoticeSpec

-----------------------------------------------------------------------------
(* Notifications: what is sent of a title or a body *)

Texts == Seq(LetterType)

\* What holds of a text, whatever is done with its ends.
CleanText(text) ==
    \A i \in DOMAIN text :
       /\ text[i].kind \notin {"control", "newline"}
       /\ settings.osc9 => text[i].kind # "semicolon"
       /\ text[i].kind = "space" /\ i # Len(text) => text[i + 1].kind # "space"

CleanSoFar(acc) ==
    /\ acc \in [out : Texts, length : Nat, full : BOOLEAN]
    /\ acc.length = Total(acc.out, "bytes") /\ acc.length <= FieldLength
    /\ CleanText(acc.out)

LEMMA LettersMeasured == \A c \in LetterType : c["bytes"] \in Nat \ {0}
BY DEF LetterType

LEMMA ReplacedIs ==
    ASSUME NEW c \in LetterType, c.kind # "control"
    PROVE  /\ Replaced(c) \in LetterType /\ Replaced(c)["bytes"] = c.bytes
           /\ Replaced(c).kind \notin {"control", "newline"}
           /\ settings.osc9 => Replaced(c).kind # "semicolon"
           /\ c.kind \in {"plain", "semicolon"} => Replaced(c).kind # "space"
BY DEF Replaced, LetterType

LEMMA CleanIsAppended ==
    ASSUME NEW text \in Texts, CleanText(text), NEW c \in LetterType,
           c.kind \notin {"control", "newline"}, settings.osc9 => c.kind # "semicolon",
           c.kind = "space" => text = <<>> \/ text[Len(text)].kind # "space"
    PROVE  CleanText(Append(text, c))
<1> DEFINE longer == Append(text, c)
<1>1. /\ Len(text) \in Nat /\ DOMAIN text = 1..Len(text) /\ DOMAIN longer = 1..(Len(text) + 1)
      /\ Len(longer) = Len(text) + 1 /\ longer[Len(text) + 1] = c
      /\ \A i \in 1..Len(text) : longer[i] = text[i]
  BY AppendProperties DEF Texts
<1>2. text # <<>> \/ Len(text) = 0
  BY <1>1
<1> HIDE DEF longer
<1>3. ASSUME NEW i \in DOMAIN longer
      PROVE  /\ longer[i].kind \notin {"control", "newline"}
             /\ settings.osc9 => longer[i].kind # "semicolon"
             /\ longer[i].kind = "space" /\ i # Len(longer) => longer[i + 1].kind # "space"
  <2>1. CASE i = Len(text) + 1
    BY <1>1, <2>1
  <2>2. CASE i # Len(text) + 1
    <3>1. i \in DOMAIN text /\ longer[i] = text[i]
      BY <1>1, <2>2
    <3>2. CASE i = Len(text)
      <4>1. text # <<>>
        BY <1>1, <3>1
      <4>2. longer[i + 1] = c
        BY <1>1, <3>2
      <4> QED
        BY <3>1, <3>2, <4>1, <4>2 DEF CleanText
    <3>3. CASE i # Len(text)
      <4>1. longer[i + 1] = text[i + 1]
        BY <1>1, <3>1, <3>3
      <4> QED
        BY <3>1, <3>3, <4>1 DEF CleanText
    <3> QED
      BY <3>2, <3>3
  <2> QED
    BY <2>1, <2>2
<1>4. CleanText(longer)
  BY <1>3 DEF CleanText
<1> QED
  BY <1>4 DEF longer

LEMMA CleanSoFarIs ==
    ASSUME NEW acc, CleanSoFar(acc)
    PROVE  /\ acc.out \in Texts /\ acc.length \in Nat /\ Len(acc.out) \in Nat
           /\ acc.length = Total(acc.out, "bytes") /\ acc.length <= FieldLength
BY DEF CleanSoFar, Texts

LEMMA FullIsClean ==
    ASSUME NEW acc, CleanSoFar(acc), NEW next, next = [acc EXCEPT !.full = TRUE]
    PROVE  CleanSoFar(next) /\ next.out = acc.out
<1>1. acc \in [out : Texts, length : Nat, full : BOOLEAN]
  BY Zenon DEF CleanSoFar
<1>2. /\ next \in [out : Texts, length : Nat, full : BOOLEAN]
      /\ next.out = acc.out /\ next.length = acc.length
  BY <1>1
<1>3. next.length = Total(next.out, "bytes") /\ next.length <= FieldLength
  BY <1>2, CleanSoFarIs, Zenon
<1>4. CleanText(next.out)
  BY <1>2, Zenon DEF CleanSoFar
<1> QED
  BY <1>2, <1>3, <1>4, Zenon DEF CleanSoFar

LEMMA KeptIsClean ==
    ASSUME NEW acc, CleanSoFar(acc), NEW letter \in LetterType, NEW next,
           next = [acc EXCEPT !.out = Append(@, letter), !.length = @ + letter.bytes],
           acc.length + letter.bytes <= FieldLength,
           letter.kind \notin {"control", "newline"}, settings.osc9 => letter.kind # "semicolon",
           letter.kind = "space" => acc.out = <<>> \/ acc.out[Len(acc.out)].kind # "space"
    PROVE  /\ CleanSoFar(next) /\ next.out # <<>>
           /\ acc.out # <<>> => next.out[1] = acc.out[1]
<1> DEFINE longer == Append(acc.out, letter)
           sum == acc.length + letter.bytes
<1>1. acc \in [out : Texts, length : Nat, full : BOOLEAN]
  BY Zenon DEF CleanSoFar
<1>2. /\ acc.out \in Seq(LetterType) /\ acc.length \in Nat /\ Len(acc.out) \in Nat
      /\ letter["bytes"] \in Nat
  BY CleanSoFarIs, LettersMeasured DEF Texts
<1>3. /\ longer \in Texts /\ longer # <<>> /\ \A i \in 1..Len(acc.out) : longer[i] = acc.out[i]
      /\ acc.out # <<>> => 1 \in 1..Len(acc.out)
  BY <1>2, AppendProperties DEF Texts
<1>4. sum \in Nat
  BY <1>2
<1>5. CleanText(longer)
  <2>1. CleanText(acc.out) /\ acc.out \in Texts
    BY Zenon DEF CleanSoFar, Texts
  <2> QED
    BY <2>1, CleanIsAppended
<1>6. sum = Total(longer, "bytes")
  <2>1. Total(longer, "bytes") = Total(acc.out, "bytes") + letter["bytes"]
    BY <1>2, LettersMeasured, TotalAppend
  <2> QED
    BY <2>1, CleanSoFarIs
<1>7. next = [acc EXCEPT !.out = longer, !.length = sum] /\ sum <= FieldLength
  OBVIOUS
<1> HIDE DEF longer, sum
<1>8. /\ next \in [out : Texts, length : Nat, full : BOOLEAN]
      /\ next.out = longer /\ next.length = sum
  BY <1>1, <1>3, <1>4, <1>7
<1>9. CleanSoFar(next)
  BY <1>5, <1>6, <1>7, <1>8, Zenon DEF CleanSoFar
<1> QED
  BY <1>3, <1>8, <1>9

\* Once a character is kept it stays the first.
LEMMA NormalisedKeeps ==
    ASSUME NEW acc, CleanSoFar(acc), NEW c \in LetterType
    PROVE  /\ CleanSoFar(Normalised(acc, c))
           /\ acc.out # <<>> => /\ Normalised(acc, c).out # <<>>
                                /\ Normalised(acc, c).out[1] = acc.out[1]
<1>1. CASE Normalised(acc, c) = acc
  BY <1>1
<1>2. CASE Normalised(acc, c) = [acc EXCEPT !.full = TRUE]
  BY <1>2, FullIsClean
<1>3. CASE /\ c.kind # "control" /\ ~(acc.length + Replaced(c).bytes > FieldLength)
           /\ ~(Replaced(c).kind = "space" /\ acc.out # <<>> /\ Last(acc.out).kind = "space")
           /\ Normalised(acc, c) = [acc EXCEPT !.out = Append(@, Replaced(c)),
                                               !.length = @ + Replaced(c).bytes]
  <2>1. PICK letter : letter = Replaced(c)
    OBVIOUS
  <2>2. /\ letter \in LetterType /\ letter.kind \notin {"control", "newline"}
        /\ settings.osc9 => letter.kind # "semicolon"
    BY <1>3, <2>1, ReplacedIs
  <2>3. acc.length + letter.bytes <= FieldLength
    <3>1. letter["bytes"] \in Nat /\ acc.length \in Nat
      BY <2>2, LettersMeasured, CleanSoFarIs
    <3>2. FieldLength \in Nat
      BY NotificationAssumption
    <3>3. ~(acc.length + letter.bytes > FieldLength)
      BY <1>3, <2>1, Zenon
    <3> QED
      BY <3>1, <3>2, <3>3
  <2>4. letter.kind = "space" => acc.out = <<>> \/ acc.out[Len(acc.out)].kind # "space"
    BY <1>3, <2>1, Zenon DEF Last
  <2>5. PICK next : next = Normalised(acc, c)
    OBVIOUS
  <2>6. next = [acc EXCEPT !.out = Append(@, letter), !.length = @ + letter.bytes]
    BY <1>3, <2>1, <2>5, Zenon
  <2>7. /\ CleanSoFar(next) /\ next.out # <<>>
        /\ acc.out # <<>> => next.out[1] = acc.out[1]
    BY <2>2, <2>3, <2>4, <2>6, KeptIsClean
  <2> QED
    BY <2>5, <2>7, Zenon
<1> QED
  BY <1>1, <1>2, <1>3, Zenon DEF Normalised

\* The first character is kept, if it is to be seen and fits.
LEMMA FirstIsKept ==
    ASSUME NEW c \in LetterType, c.kind \in {"plain", "semicolon"}, c.bytes <= FieldLength
    PROVE  /\ Normalised(NothingYet, c).out # <<>>
           /\ Normalised(NothingYet, c).out[1].kind # "space"
<1>1. /\ Replaced(c).bytes = c.bytes /\ Replaced(c).kind # "space" /\ c.kind # "control"
      /\ Replaced(c) \in LetterType /\ c.bytes \in Nat
  BY ReplacedIs, LettersMeasured
<1>2. ~(0 + Replaced(c).bytes > FieldLength)
  BY <1>1, NotificationAssumption
<1>3. NothingYet.out = <<>> /\ NothingYet.length = 0 /\ NothingYet.full = FALSE
  BY DEF NothingYet
<1>4. Normalised(NothingYet, c) =
        [NothingYet EXCEPT !.out = Append(@, Replaced(c)), !.length = @ + Replaced(c).bytes]
  BY <1>1, <1>2, <1>3 DEF Normalised
<1>5. Normalised(NothingYet, c).out = Append(<<>>, Replaced(c))
  BY <1>3, <1>4 DEF NothingYet
<1>6. Append(<<>>, Replaced(c)) # <<>> /\ Append(<<>>, Replaced(c))[1] = Replaced(c)
  OBVIOUS
<1> QED
  BY <1>1, <1>5, <1>6

NextNormalised(text, upto, n) == IF n = 0 THEN NothingYet ELSE Normalised(upto[n - 1], text[n])

LEMMA NothingYetIsClean == CleanSoFar(NothingYet)
<1>1. Total(NothingYet.out, "bytes") = 0
  BY TotalNone, Zenon DEF NothingYet
<1>2. NothingYet.length = 0 /\ NothingYet.out = <<>> /\ 0 <= FieldLength
  BY NotificationAssumption DEF NothingYet
<1>3. NothingYet \in [out : Texts, length : Nat, full : BOOLEAN]
  <2>1. <<>> \in Texts
    BY DEF Texts
  <2> QED
    BY <2>1 DEF NothingYet
<1>4. CleanText(NothingYet.out)
  BY <1>2 DEF CleanText
<1>5. NothingYet.length = Total(NothingYet.out, "bytes") /\ NothingYet.length <= FieldLength
  BY <1>1, <1>2
<1> QED
  BY <1>3, <1>4, <1>5, Zenon DEF CleanSoFar

LEMMA NormalisedMade ==
    ASSUME NEW text \in Texts
    PROVE  \E upto : /\ normalize_field(text) = Trimmed(upto[Len(text)].out)
                     /\ \A n \in 0..Len(text) : upto[n] = NextNormalised(text, upto, n)
<1> DEFINE T == {acc \in [out : Texts, length : Nat, full : BOOLEAN] : CleanSoFar(acc)}
           step == [p \in (1..Len(text)) \X T |-> Normalised(p[2], text[p[1]])]
           Made(f) == f = [n \in 0..Len(text) |-> NextNormalised(text, f, n)]
<1>1. Len(text) \in Nat /\ \A i \in 1..Len(text) : text[i] \in LetterType
  BY DEF Texts
<1>2. \A acc : CleanSoFar(acc) => acc \in T
  BY Zenon DEF CleanSoFar
<1>3. NothingYet \in T
  BY <1>2, NothingYetIsClean
<1>4. step \in [(1..Len(text)) \X T -> T]
  <2>1. ASSUME NEW p \in (1..Len(text)) \X T
        PROVE  Normalised(p[2], text[p[1]]) \in T
    <3>1. CleanSoFar(p[2]) /\ text[p[1]] \in LetterType
      BY <1>1
    <3> HIDE DEF T
    <3> QED
      BY <1>2, <3>1, NormalisedKeeps
  <2> HIDE DEF T
  <2> QED
    BY <2>1
<1>5. \A i \in 1..Len(text), acc \in T : step[i, acc] = Normalised(acc, text[i])
  OBVIOUS
<1> HIDE DEF step, T
<1>6. PICK g \in [0..Len(text) -> T] : IsMadeBy(step, NothingYet, Len(text), g)
  BY <1>1, <1>3, <1>4, RecursionExists
<1>7. ASSUME NEW n \in 0..Len(text)
      PROVE  g[n] = NextNormalised(text, g, n)
  <2>1. g[n] = IF n = 0 THEN NothingYet ELSE step[n, g[n - 1]]
    BY <1>6 DEF IsMadeBy
  <2>2. n # 0 => n \in 1..Len(text) /\ n - 1 \in 0..Len(text)
    BY <1>1
  <2>3. n # 0 => g[n - 1] \in T
    BY <2>2
  <2> QED
    BY <1>5, <2>1, <2>2, <2>3 DEF NextNormalised
<1>8. Made(g)
  BY <1>7
<1> DEFINE upto == CHOOSE f : Made(f)
<1>9. Made(upto)
  BY <1>8
<1>10. normalize_field(text) = Trimmed(upto[Len(text)].out)
  BY DEF normalize_field, NextNormalised
<1> HIDE DEF upto
<1>11. \A n \in 0..Len(text) : upto[n] = NextNormalised(text, upto, n)
  BY <1>9
<1> QED
  BY <1>10, <1>11

\* What is left when all characters were looked at
LEMMA NormalisedIsClean ==
    ASSUME NEW text \in Texts
    PROVE  \E acc : /\ normalize_field(text) = Trimmed(acc.out) /\ CleanSoFar(acc)
                    /\ text # <<>> /\ Head(text).kind \in {"plain", "semicolon"}
                         /\ Head(text).bytes <= FieldLength
                       => acc.out # <<>> /\ acc.out[1].kind # "space"
<1>1. PICK upto : /\ normalize_field(text) = Trimmed(upto[Len(text)].out)
                  /\ \A n \in 0..Len(text) : upto[n] = NextNormalised(text, upto, n)
  BY NormalisedMade
<1> DEFINE shows == /\ text # <<>> /\ Head(text).kind \in {"plain", "semicolon"}
                    /\ Head(text).bytes <= FieldLength
           G == {n \in 0..Len(text) :
                   /\ CleanSoFar(upto[n])
                   /\ shows /\ n > 0 => upto[n].out # <<>> /\ upto[n].out[1].kind # "space"}
<1>2. Len(text) \in Nat /\ \A i \in 1..Len(text) : text[i] \in LetterType
  BY DEF Texts
<1>3. 0 \in 0..Len(text) /\ upto[0] = NothingYet
  BY <1>1, <1>2 DEF NextNormalised
<1>4. 0 \in G
  BY <1>3, NothingYetIsClean
<1>5. ASSUME NEW n \in 1..Len(text), n - 1 \in G
      PROVE  n \in G
  <2>1. n \in 0..Len(text) /\ n - 1 \in 0..Len(text) /\ text[n] \in LetterType /\ n # 0
    BY <1>2
  <2>2. upto[n] = Normalised(upto[n - 1], text[n]) /\ CleanSoFar(upto[n - 1])
    BY <1>1, <1>5, <2>1 DEF NextNormalised
  <2>3. /\ CleanSoFar(upto[n])
        /\ upto[n - 1].out # <<>> => /\ upto[n].out # <<>>
                                     /\ upto[n].out[1] = upto[n - 1].out[1]
    BY <2>1, <2>2, NormalisedKeeps
  <2>4. ASSUME shows
        PROVE  upto[n].out # <<>> /\ upto[n].out[1].kind # "space"
    <3>1. CASE n = 1
      <4>1. Head(text) = text[1] /\ upto[n] = Normalised(NothingYet, text[1])
        BY <1>3, <2>2, <3>1 DEF Texts
      <4> QED
        BY <2>1, <2>4, <3>1, <4>1, FirstIsKept
    <3>2. CASE n # 1
      <4>1. upto[n - 1].out # <<>> /\ upto[n - 1].out[1].kind # "space"
        BY <1>5, <2>1, <2>4, <3>2
      <4> QED
        BY <2>3, <4>1
    <3> QED
      BY <3>1, <3>2
  <2> QED
    BY <2>1, <2>3, <2>4
<1>6. Len(text) \in G
  <2> HIDE DEF G
  <2>1. \A n \in 0..Len(text) : n \in G
    BY <1>2, <1>4, <1>5, AllUpTo
  <2> QED
    BY <1>2, <2>1
<1>7. text # <<>> => Len(text) > 0
  BY <1>2 DEF Texts
<1> QED
  BY <1>1, <1>6, <1>7

-----------------------------------------------------------------------------
(* Notifications: the ends of a text *)

LEMMA MiddleIs ==
    ASSUME NEW text \in Texts, NEW a \in 1..Len(text), NEW b \in 1..Len(text), a <= b
    PROVE  /\ SubSeq(text, a, b) \in Texts /\ Len(SubSeq(text, a, b)) = b - a + 1
           /\ \A i \in 1..(b - a + 1) : SubSeq(text, a, b)[i] = text[a + i - 1]
           /\ Total(SubSeq(text, a, b), "bytes") <= Total(text, "bytes")
<1> DEFINE middle == SubSeq(text, a, b)
           front  == SubSeq(text, 1, b)
           left   == SubSeq(front, 1, a - 1)
           right  == SubSeq(front, a - 1 + 1, Len(front))
           after  == SubSeq(text, b + 1, Len(text))
<1>1. text \in Seq(LetterType) /\ Len(text) \in Nat /\ \A i \in a..b : text[i] \in LetterType
  BY DEF Texts
<1>2. /\ middle \in Seq(LetterType) /\ Len(middle) = b - a + 1
      /\ \A i \in 1..(b - a + 1) : middle[i] = text[a + i - 1]
  BY <1>1, SubSeqProperties
<1>3. front \in Seq(LetterType) /\ after \in Seq(LetterType) /\ text = front \o after
  BY <1>1, PrefixAndRest
<1>4. Len(front) = b /\ \A i \in 1..b : front[i] = text[i]
  BY <1>1, PrefixHas
<1> HIDE DEF front, after
<1>5. left \in Seq(LetterType) /\ right \in Seq(LetterType) /\ front = left \o right
  <2>1. a - 1 \in 0..Len(front)
    BY <1>4
  <2> QED
    BY <1>3, <2>1, PrefixAndRest
<1>6. right = middle
  <2>1. a - 1 + 1 = a /\ \A i \in a..b : front[i] \in LetterType
    BY <1>1, <1>4
  <2>2. /\ Len(right) = b - a + 1
        /\ \A i \in 1..(b - a + 1) : right[i] = front[a + i - 1]
    BY <1>4, <2>1, SubSeqProperties
  <2>3. \A i \in 1..(b - a + 1) : a + i - 1 \in 1..b
    OBVIOUS
  <2> HIDE DEF right, middle
  <2>4. \A i \in 1..Len(right) : right[i] = middle[i]
    BY <1>2, <1>4, <2>2, <2>3
  <2> QED
    BY <1>2, <1>5, <2>2, <2>4, SeqEqual
<1>7. \A x \in LetterType : x["bytes"] \in Nat
  BY LettersMeasured
<1> HIDE DEF left, right, middle
<1>8. /\ Total(left, "bytes") \in Nat /\ Total(right, "bytes") \in Nat
      /\ Total(front, "bytes") = Total(left, "bytes") + Total(right, "bytes")
  BY <1>5, <1>7, TotalConcat
<1>9. /\ Total(front, "bytes") \in Nat /\ Total(after, "bytes") \in Nat
      /\ Total(text, "bytes") = Total(front, "bytes") + Total(after, "bytes")
  BY <1>3, <1>7, TotalConcat
<1>10. Total(middle, "bytes") <= Total(text, "bytes")
  BY <1>6, <1>8, <1>9
<1> QED
  BY <1>2, <1>10 DEF middle, Texts

LEMMA TrimmedIs ==
    ASSUME NEW text \in Texts, NEW some \in DOMAIN text, text[some].kind # "space"
    PROVE  \E a, b \in 1..Len(text) :
              /\ a <= b /\ Trimmed(text) = SubSeq(text, a, b)
              /\ text[a].kind # "space" /\ text[b].kind # "space"
<1> DEFINE solid == {i \in DOMAIN text : text[i].kind # "space"}
           first == CHOOSE i \in solid : \A j \in solid : i <= j
           last  == CHOOSE i \in solid : \A j \in solid : i >= j
<1>1. Len(text) \in Nat /\ DOMAIN text = 1..Len(text)
  BY DEF Texts
<1>2. solid \in SUBSET Nat /\ solid # {} /\ solid \subseteq 1..Len(text)
  BY <1>1
<1> HIDE DEF solid
<1>3. \E i \in solid : \A j \in solid : i <= j
  BY <1>2, LeastOf
<1>4. \E i \in solid : \A j \in solid : i >= j
  <2> DEFINE rest == {Len(text) - m : m \in solid}
  <2>1. \A m \in solid : Len(text) - m \in Nat
    BY <1>1, <1>2
  <2>2. rest \in SUBSET Nat /\ rest # {}
    BY <1>2, <2>1
  <2>3. PICK y \in rest : \A z \in rest : y <= z
    BY <2>2, LeastOf
  <2>4. PICK n \in solid : y = Len(text) - n
    BY <2>3
  <2>5. ASSUME NEW m \in solid
        PROVE  n >= m
    <3>1. Len(text) - n <= Len(text) - m
      BY <2>3, <2>4
    <3> QED
      BY <1>1, <1>2, <3>1
  <2> QED
    BY <2>5
<1>5. first \in solid /\ last \in solid /\ \A j \in solid : first <= j
  BY <1>3, <1>4
<1>6. Trimmed(text) = SubSeq(text, first, last)
  BY <1>2 DEF Trimmed, solid
<1> HIDE DEF first, last
<1>7. /\ first \in 1..Len(text) /\ last \in 1..Len(text) /\ first <= last
      /\ text[first].kind # "space" /\ text[last].kind # "space"
  BY <1>2, <1>5 DEF solid
<1> QED
  BY <1>6, <1>7

LEMMA TrimmedToNothing ==
    ASSUME NEW text \in Texts, \A i \in DOMAIN text : text[i].kind = "space"
    PROVE  Trimmed(text) = <<>>
BY DEF Trimmed

\* What is sent of a text that is clean but for its ends
SentIsClean(sent) ==
    /\ Total(sent, "bytes") <= FieldLength
    /\ \A i \in DOMAIN sent :
          /\ sent[i].kind \notin {"control", "newline"}
          /\ settings.osc9 => sent[i].kind # "semicolon"
          /\ sent[i].kind = "space" =>
                /\ i \notin {1, Len(sent)}
                /\ sent[i + 1].kind # "space"

LEMMA TrimmedIsClean ==
    ASSUME NEW acc, CleanSoFar(acc)
    PROVE  /\ SentIsClean(Trimmed(acc.out))
           /\ acc.out # <<>> /\ acc.out[1].kind # "space" => Trimmed(acc.out) # <<>>
<1> DEFINE text == acc.out
           sent == Trimmed(text)
<1>1. /\ text \in Texts /\ CleanText(text) /\ Total(text, "bytes") <= FieldLength
      /\ Len(text) \in Nat /\ DOMAIN text = 1..Len(text) /\ text \in Seq(LetterType)
  <2>1. acc.out \in Texts /\ Total(acc.out, "bytes") <= FieldLength /\ CleanText(acc.out)
    <3>1. acc.length <= FieldLength /\ acc.length = Total(acc.out, "bytes")
      BY CleanSoFarIs
    <3> QED
      BY <3>1, CleanSoFarIs, Zenon DEF CleanSoFar
  <2>2. text \in Seq(LetterType)
    BY <2>1 DEF Texts
  <2> HIDE DEF text
  <2>3. Len(text) \in Nat /\ DOMAIN text = 1..Len(text)
    BY <2>2
  <2> QED
    BY <2>1, <2>2, <2>3 DEF text
<1> HIDE DEF text
<1>2. CASE \A i \in DOMAIN text : text[i].kind = "space"
  <2>1. sent = <<>>
    BY <1>1, <1>2, TrimmedToNothing
  <2>2. Total(sent, "bytes") = 0
    BY <2>1, TotalNone, Zenon
  <2>3. text # <<>> => text[1].kind = "space"
    BY <1>1, <1>2
  <2> HIDE DEF sent
  <2> QED
    BY <2>1, <2>2, <2>3, NotificationAssumption DEF SentIsClean, sent, text
<1>3. CASE \E i \in DOMAIN text : text[i].kind # "space"
  <2>1. PICK a \in 1..Len(text), b \in 1..Len(text) :
           /\ a <= b /\ sent = SubSeq(text, a, b)
           /\ text[a].kind # "space" /\ text[b].kind # "space"
    BY <1>1, <1>3, TrimmedIs
  <2> HIDE DEF sent
  <2>2. /\ sent \in Texts /\ Len(sent) = b - a + 1
        /\ \A i \in 1..(b - a + 1) : sent[i] = text[a + i - 1]
        /\ Total(sent, "bytes") <= Total(text, "bytes")
    BY <1>1, <2>1, MiddleIs
  <2>3. Total(sent, "bytes") <= FieldLength
    <3>1. Total(sent, "bytes") \in Nat /\ Total(text, "bytes") \in Nat
      BY <1>1, <2>2, LettersMeasured, TotalMade DEF Texts
    <3> QED
      BY <1>1, <2>2, <3>1, NotificationAssumption
  <2>4. DOMAIN sent = 1..(b - a + 1) /\ b - a + 1 >= 1
    BY <2>1, <2>2 DEF Texts
  <2>5. ASSUME NEW i \in DOMAIN sent
        PROVE  /\ sent[i].kind \notin {"control", "newline"}
               /\ settings.osc9 => sent[i].kind # "semicolon"
               /\ sent[i].kind = "space" =>
                     /\ i \notin {1, Len(sent)}
                     /\ sent[i + 1].kind # "space"
    <3>1. a + i - 1 \in 1..Len(text) /\ sent[i] = text[a + i - 1]
      BY <1>1, <2>1, <2>2, <2>4
    <3>2. sent[1] = text[a] /\ sent[b - a + 1] = text[b]
      <4>1. a + 1 - 1 = a /\ a + (b - a + 1) - 1 = b /\ 1 \in 1..(b - a + 1)
            /\ b - a + 1 \in 1..(b - a + 1)
        BY <2>4
      <4> QED
        BY <2>2, <4>1
    <3>3. /\ sent[i].kind \notin {"control", "newline"}
          /\ settings.osc9 => sent[i].kind # "semicolon"
      BY <1>1, <3>1 DEF CleanText
    <3>4. ASSUME sent[i].kind = "space"
          PROVE  i \notin {1, Len(sent)} /\ sent[i + 1].kind # "space"
      <4>1. i # 1 /\ i # b - a + 1
        BY <2>1, <3>2, <3>4
      <4>2. i + 1 \in 1..(b - a + 1) /\ a + (i + 1) - 1 = (a + i - 1) + 1
        BY <2>4, <4>1
      <4>3. sent[i + 1] = text[(a + i - 1) + 1]
        BY <2>2, <4>2
      <4>4. a + i - 1 # Len(text)
        BY <1>1, <2>1, <2>4, <4>1
      <4>5. text[(a + i - 1) + 1].kind # "space"
        BY <1>1, <3>1, <3>4, <4>4 DEF CleanText
      <4> QED
        BY <2>2, <4>1, <4>3, <4>5
    <3> QED
      BY <3>3, <3>4
  <2>6. SentIsClean(sent)
    BY <2>3, <2>5 DEF SentIsClean
  <2>7. sent # <<>>
    BY <2>2, <2>4
  <2> QED
    BY <2>6, <2>7 DEF sent, text
<1> QED
  BY <1>2, <1>3

LEMMA FieldsAreClean ==
    ASSUME FieldIsClean, [NoticeNext]_noticeVars
    PROVE  FieldIsClean'
<1>0. FieldIsClean <=>
         /\ SentIsClean(sent_field)
         /\ field # <<>> /\ Head(field).kind \in {"plain", "semicolon"} =>
               sent_field # <<>> \/ Head(field).bytes > FieldLength
  BY DEF FieldIsClean, SentIsClean
<1>1. CASE SendsField /\ UNCHANGED settings
  <2>1. PICK text \in SeqOf(Letters, MaxLetters) :
           field' = text /\ sent_field' = normalize_field(text)
    BY <1>1 DEF SendsField
  <2>2. text \in Texts
    <3>1. MaxLetters \in Nat /\ Letters \subseteq LetterType
      BY NotificationAssumption
    <3>2. \A m \in 0..MaxLetters : [1..m -> Letters] \subseteq Seq(LetterType)
      BY <3>1
    <3> QED
      BY <3>2 DEF SeqOf, Texts
  <2>3. PICK acc : /\ normalize_field(text) = Trimmed(acc.out) /\ CleanSoFar(acc)
                   /\ text # <<>> /\ Head(text).kind \in {"plain", "semicolon"}
                        /\ Head(text).bytes <= FieldLength
                      => acc.out # <<>> /\ acc.out[1].kind # "space"
    BY <2>2, NormalisedIsClean
  <2>4. /\ SentIsClean(sent_field')
        /\ acc.out # <<>> /\ acc.out[1].kind # "space" => sent_field' # <<>>
    BY <2>1, <2>3, TrimmedIsClean
  <2>5. text # <<>> => Head(text).bytes <= FieldLength \/ Head(text).bytes > FieldLength
    <3>1. text # <<>> => Head(text) \in LetterType
      BY <2>2, HeadTailProperties DEF Texts
    <3> QED
      BY <3>1, NotificationAssumption DEF LetterType
  <2>6. field' # <<>> /\ Head(field').kind \in {"plain", "semicolon"} =>
           sent_field' # <<>> \/ Head(field').bytes > FieldLength
    BY <2>1, <2>3, <2>4, <2>5
  <2> QED
    BY <1>1, <2>4, <2>6 DEF FieldIsClean, SentIsClean
<1>2. CASE field' = <<>> /\ sent_field' = <<>>
  <2>1. Total(sent_field', "bytes") = 0
    BY <1>2, TotalNone, Zenon
  <2>2. FieldLength \in Nat
    BY NotificationAssumption
  <2> QED
    BY <1>2, <2>1, <2>2 DEF FieldIsClean
<1>3. CASE UNCHANGED <<settings, field, sent_field>>
  BY <1>3 DEF FieldIsClean
<1>4. CASE EventIsNoticed
  BY <1>1, <1>4 DEF EventIsNoticed
<1>5. CASE IdleTick
  BY <1>3, <1>5 DEF IdleTick
<1>6. CASE TimePasses \/ KeyIsActivity \/ update_terminal_focused
  BY <1>2, <1>6 DEF TimePasses, KeyIsActivity, update_terminal_focused
<1>7. CASE UNCHANGED noticeVars
  BY <1>3, <1>7 DEF noticeVars
<1> QED
  BY <1>4, <1>5, <1>6, <1>7 DEF NoticeNext

\* Reminders keep their number and spacing, and what is sent of a text is one field of one
\* sequence, however long the text and whatever characters it has (IdleTracker::poll,
\* normalize_field, build_osc9).
THEOREM NoticesCorrect == NoticeSpec => []NoticesAreMeant
<1>1. NoticeInit => FieldIsClean
  <2> SUFFICES ASSUME NoticeInit PROVE FieldIsClean
    OBVIOUS
  <2>1. field = <<>> /\ sent_field = <<>>
    BY DEF NoticeInit
  <2>2. Total(sent_field, "bytes") = 0
    BY <2>1, TotalNone, Zenon
  <2> QED
    BY <2>1, <2>2, NotificationAssumption DEF FieldIsClean
<1>2. FieldIsClean /\ [NoticeNext]_noticeVars => FieldIsClean'
  BY FieldsAreClean
<1> QED
  BY <1>1, <1>2, RemindersCorrect, PTL DEF NoticeSpec, NoticesAreMeant

-----------------------------------------------------------------------------
(* The list of messages (MessageList): the invariant *)

Entries == [rows : Nat, thinking : BOOLEAN, collapsed : BOOLEAN]

ListTypeOK ==
    /\ messages \in Seq(Entries) /\ focus \in 0..Len(messages)
    /\ viewport \in Nat /\ total \in Nat /\ offset \in Nat

\* A draw measures what it draws, and the offset leaves the viewport in the list.
DrawnInv ==
    fresh => /\ viewport > 0 /\ total = HeightTo(Len(messages))
             /\ offset <= Max({total - viewport, 0})

-----------------------------------------------------------------------------
(* The list of messages: heights *)

LEMMA MaxOfTwo ==
    \A a, b \in Int : Max({a, b}) = IF a >= b THEN a ELSE b
<1> TAKE a, b \in Int
<1> DEFINE m == IF a >= b THEN a ELSE b
<1>1. m \in {a, b} /\ \A y \in {a, b} : m >= y
  OBVIOUS
<1>2. \A x \in {a, b} : (\A y \in {a, b} : x >= y) => x = m
  OBVIOUS
<1> QED
  BY <1>1, <1>2 DEF Max

LEMMA MinOfTwo ==
    \A a, b \in Int : Min({a, b}) = IF a <= b THEN a ELSE b
<1> TAKE a, b \in Int
<1> DEFINE m == IF a <= b THEN a ELSE b
<1>1. m \in {a, b} /\ \A y \in {a, b} : m <= y
  OBVIOUS
<1>2. \A x \in {a, b} : (\A y \in {a, b} : x <= y) => x = m
  OBVIOUS
<1> QED
  BY <1>1, <1>2 DEF Min

NextHeight(sum, n) == IF n = 0 THEN 0 ELSE sum[n - 1] + Height(n)

LEMMA HeightsAre ==
    ASSUME messages \in Seq(Entries)
    PROVE  /\ \A i \in 1..Len(messages) : Height(i) \in Nat
           /\ \A i \in 0..Len(messages) : HeightTo(i) \in Nat
           /\ HeightTo(0) = 0
           /\ \A i \in 1..Len(messages) : HeightTo(i) = HeightTo(i - 1) + Height(i)
<1> DEFINE N == Len(messages)
           step == [p \in (1..N) \X Nat |-> p[2] + Height(p[1])]
           Made(f) == f = [n \in 0..N |-> NextHeight(f, n)]
<1>1. N \in Nat /\ 0 \in Nat
  OBVIOUS
<1>2. \A i \in 1..N : Height(i) \in Nat
  <2>1. \A i \in 1..N : messages[i] \in Entries
    OBVIOUS
  <2>2. \A e \in Entries : e.rows \in Nat
    BY DEF Entries
  <2> QED
    BY <2>1, <2>2 DEF Height
<1> HIDE DEF N
<1>3. step \in [(1..N) \X Nat -> Nat]
  BY <1>2
<1>4. \A i \in 1..N, t \in Nat : step[i, t] = t + Height(i)
  OBVIOUS
<1> HIDE DEF step
<1>5. PICK g \in [0..N -> Nat] : IsMadeBy(step, 0, N, g)
  BY <1>1, <1>3, RecursionExists
<1>6. ASSUME NEW n \in 0..N
      PROVE  g[n] = NextHeight(g, n)
  <2>1. g[n] = IF n = 0 THEN 0 ELSE step[n, g[n - 1]]
    BY <1>5 DEF IsMadeBy
  <2>2. n # 0 => n \in 1..N /\ n - 1 \in 0..N
    BY <1>1
  <2>3. n # 0 => g[n - 1] \in Nat
    BY <2>2
  <2> QED
    BY <1>4, <2>1, <2>2, <2>3 DEF NextHeight
<1>7. Made(g)
  BY <1>6
<1> DEFINE sum == CHOOSE f : Made(f)
<1>8. Made(sum)
  BY <1>7
<1>9. cumulative_heights = sum
  BY DEF cumulative_heights, NextHeight, N
<1> HIDE DEF sum
<1>10. \A n \in 0..N : HeightTo(n) = NextHeight(sum, n) /\ HeightTo(n) = sum[n]
  BY <1>8, <1>9 DEF HeightTo
<1>11. HeightTo(0) = 0 /\ \A i \in 1..N : HeightTo(i) = HeightTo(i - 1) + Height(i)
  <2>1. 0 \in 0..N /\ \A i \in 1..N : i \in 0..N /\ i - 1 \in 0..N /\ i # 0
    BY <1>1
  <2> QED
    BY <1>10, <2>1 DEF NextHeight
<1> DEFINE G == {n \in 0..N : HeightTo(n) \in Nat}
<1>12. 0 \in G
  BY <1>1, <1>11
<1>13. ASSUME NEW n \in 1..N, n - 1 \in G
       PROVE  n \in G
  <2>1. n \in 0..N /\ HeightTo(n - 1) \in Nat /\ HeightTo(n) = HeightTo(n - 1) + Height(n)
    BY <1>1, <1>11, <1>13
  <2> QED
    BY <1>2, <2>1
<1>14. \A i \in 0..N : HeightTo(i) \in Nat
  <2> HIDE DEF G
  <2>1. \A n \in 0..N : n \in G
    BY <1>1, <1>12, <1>13, AllUpTo
  <2> QED
    BY <2>1 DEF G
<1> QED
  BY <1>2, <1>11, <1>14 DEF N

LEMMA HeightsGrow ==
    ASSUME messages \in Seq(Entries), NEW i \in 0..Len(messages), NEW j \in 0..Len(messages),
           i <= j
    PROVE  HeightTo(i) <= HeightTo(j)
<1> DEFINE N == Len(messages)
           G == {n \in 0..N : i <= n => HeightTo(i) <= HeightTo(n)}
<1>1. N \in Nat /\ \A k \in 0..N : HeightTo(k) \in Nat
  BY HeightsAre
<1>2. 0 \in G
  BY <1>1
<1>3. ASSUME NEW n \in 1..N, n - 1 \in G
      PROVE  n \in G
  <2>1. n \in 0..N /\ n - 1 \in 0..N /\ Height(n) \in Nat
        /\ HeightTo(n) = HeightTo(n - 1) + Height(n)
    BY <1>1, HeightsAre
  <2>2. i <= n => i <= n - 1 \/ i = n
    BY <2>1
  <2>3. HeightTo(n) \in Nat /\ HeightTo(n - 1) \in Nat /\ HeightTo(i) \in Nat
    BY <1>1, <2>1
  <2> QED
    BY <1>3, <2>1, <2>2, <2>3
<1>4. \A n \in 0..N : n \in G
  <2> HIDE DEF G
  <2> QED
    BY <1>1, <1>2, <1>3, AllUpTo
<1> QED
  BY <1>4

-----------------------------------------------------------------------------
(* The list of messages: the search *)

\* The sums that are less are the first ones.
LEMMA LessAreFirst ==
    ASSUME messages \in Seq(Entries), NEW row \in Nat
    PROVE  \E m \in 0..Len(messages) :
              /\ Cardinality({k \in 0..(Len(messages) - 1) : HeightTo(k) < row}) = m
              /\ \A k \in 0..(Len(messages) - 1) : HeightTo(k) < row <=> k < m
<1> DEFINE N == Len(messages)
           less == {k \in 0..(N - 1) : HeightTo(k) < row}
<1>1. N \in Nat /\ \A k \in 0..N : HeightTo(k) \in Nat
  BY HeightsAre
<1>2. CASE less = {}
  <2>1. Cardinality(less) = 0
    BY <1>2, FS_EmptySet
  <2>2. \A k \in 0..(N - 1) : HeightTo(k) < row <=> k < 0
    BY <1>1, <1>2
  <2>3. 0 \in 0..N
    BY <1>1
  <2> HIDE DEF less
  <2> QED
    BY <2>1, <2>2, <2>3 DEF less
<1>3. CASE less # {}
  <2>1. Max(less) \in less /\ \A k \in less : Max(less) >= k
    <3> DEFINE rest == {N - m : m \in less}
    <3>1. rest \in SUBSET Nat /\ rest # {}
      BY <1>1, <1>3
    <3>2. PICK y \in rest : \A z \in rest : y <= z
      BY <3>1, LeastOf
    <3>3. PICK n \in less : y = N - n
      BY <3>2
    <3>4. \A m \in less : n >= m
      <4> TAKE m \in less
      <4>1. N - n <= N - m
        BY <3>2, <3>3
      <4> QED
        BY <1>1, <4>1
    <3> HIDE DEF less
    <3> QED
      BY <3>4 DEF Max
  <2> DEFINE top == Max(less)
  <2>2. top \in 0..(N - 1) /\ HeightTo(top) < row /\ \A k \in less : k <= top
    BY <1>1, <2>1
  <2> HIDE DEF top
  <2>3. ASSUME NEW k \in 0..(N - 1)
        PROVE  HeightTo(k) < row <=> k < top + 1
    <3>1. k \in 0..N /\ top \in 0..N /\ HeightTo(k) \in Nat /\ HeightTo(top) \in Nat
      BY <1>1, <2>2
    <3>2. CASE k <= top
      <4>1. HeightTo(k) <= HeightTo(top)
        BY <3>1, <3>2, HeightsGrow
      <4> QED
        BY <2>2, <3>1, <3>2, <4>1
    <3>3. CASE ~(k <= top)
      BY <2>2, <3>1, <3>3
    <3> QED
      BY <3>2, <3>3
  <2>4. less = 0..top
    <3>1. \A k : k \in less <=> k \in 0..(N - 1) /\ k < top + 1
      BY <2>3
    <3>2. \A k : k \in 0..(N - 1) /\ k < top + 1 <=> k \in 0..top
      BY <1>1, <2>2
    <3> HIDE DEF less
    <3> QED
      BY <3>1, <3>2
  <2>5. Cardinality(less) = top + 1
    <3>1. top \in Int /\ ~(0 > top) /\ top - 0 + 1 = top + 1
      BY <1>1, <2>2
    <3>2. Cardinality(0..top) = IF 0 > top THEN 0 ELSE top - 0 + 1
      BY <3>1, FS_Interval
    <3> HIDE DEF less
    <3> QED
      BY <2>4, <3>1, <3>2
  <2>6. top + 1 \in 0..N
    BY <1>1, <2>2
  <2> QED
    BY <2>3, <2>5, <2>6
<1> QED
  BY <1>2, <1>3

\* Either the sum is there or the place is before the first greater one.
LEMMA SearchIs ==
    ASSUME messages \in Seq(Entries), NEW row \in Nat, NEW found \in Int, NEW other \in Int,
           NEW k \in Search(row, found, other)
    PROVE  \/ \E n \in 0..(Len(messages) - 1) : HeightTo(n) = row /\ k = found + n
           \/ \E m \in 0..Len(messages) :
                 /\ k = other + m
                 /\ \A n \in 0..(Len(messages) - 1) :
                       HeightTo(n) # row /\ (HeightTo(n) < row <=> n < m)
<1> DEFINE sums == [n \in 0..(Len(messages) - 1) |-> HeightTo(n)]
           hits == {n \in DOMAIN sums : sums[n] = row}
<1>1. DOMAIN sums = 0..(Len(messages) - 1)
      /\ \A n \in 0..(Len(messages) - 1) : sums[n] = HeightTo(n)
  OBVIOUS
<1>2. Search(row, found, other) =
         IF hits # {} THEN {found + n : n \in hits}
         ELSE {other + Cardinality({n \in DOMAIN sums : sums[n] < row})}
  BY DEF Search
<1>3. hits = {n \in 0..(Len(messages) - 1) : HeightTo(n) = row}
  BY <1>1
<1>4. {n \in DOMAIN sums : sums[n] < row} = {n \in 0..(Len(messages) - 1) : HeightTo(n) < row}
  BY <1>1
<1>5. CASE hits # {}
  BY <1>2, <1>3, <1>5
<1>6. CASE hits = {}
  <2>1. k = other + Cardinality({n \in 0..(Len(messages) - 1) : HeightTo(n) < row})
    BY <1>2, <1>4, <1>6
  <2>2. PICK m \in 0..Len(messages) :
           /\ Cardinality({n \in 0..(Len(messages) - 1) : HeightTo(n) < row}) = m
           /\ \A n \in 0..(Len(messages) - 1) : HeightTo(n) < row <=> n < m
    BY LessAreFirst
  <2>3. \A n \in 0..(Len(messages) - 1) : HeightTo(n) # row
    BY <1>3, <1>6
  <2> QED
    BY <2>1, <2>2, <2>3
<1> QED
  BY <1>5, <1>6

-----------------------------------------------------------------------------
(* The list of messages: rows *)

RowsOf(i)  == [r \in 1..Height(i) |-> <<i, r>>]
AllRows    == Nat \X Nat

LEMMA RowsOfAre ==
    ASSUME messages \in Seq(Entries), NEW i \in 1..Len(messages)
    PROVE  RowsOf(i) \in Seq(AllRows) /\ Len(RowsOf(i)) = Height(i)
<1>1. Height(i) \in Nat /\ i \in Nat
  BY HeightsAre
<1> DEFINE n == Height(i)
<1> HIDE DEF n
<1>2. /\ [r \in 1..n |-> <<i, r>>] \in Seq(AllRows)
      /\ Len([r \in 1..n |-> <<i, r>>]) = n
  <2>1. \A r \in 1..n : <<i, r>> \in AllRows
    BY <1>1 DEF AllRows
  <2>2. n \in Nat
    BY <1>1 DEF n
  <2> QED
    BY <2>1, <2>2
<1> QED
  BY <1>2 DEF RowsOf, n

LEMMA NoRows ==
    ASSUME messages \in Seq(Entries), NEW i \in 0..Len(messages)
    PROVE  Rows(i, i) = <<>>
<1> DEFINE none == [k \in 1..(i - i) |-> [r \in 1..Height(i + k) |-> <<i + k, r>>]]
<1>1. none = <<>>
  <2>1. 1..(i - i) = {}
    OBVIOUS
  <2>2. none = [k \in {} |-> [r \in 1..Height(i + k) |-> <<i + k, r>>]]
    BY <2>1
  <2> QED
    BY <2>1
<1>2. FlattenSeq(<<>>) = <<>>
  <2>1. <<>> \in Seq(Seq(AllRows)) /\ Len(<<>>) = 0
    OBVIOUS
  <2>2. PICK flat \in [0..Len(<<>>) -> Seq(AllRows)] :
           FlattenSeq(<<>>) = flat[Len(<<>>)] /\ flat[0] = <<>>
    <3>1. ASSUME NEW seqs \in Seq(Seq(AllRows)), Len(seqs) = 0
          PROVE  \E flat \in [0..Len(seqs) -> Seq(AllRows)] :
                    FlattenSeq(seqs) = flat[Len(seqs)] /\ flat[0] = <<>>
      BY FlattenMade
    <3> QED
      BY <2>1, <3>1
  <2> QED
    BY <2>1, <2>2
<1> QED
  BY <1>1, <1>2, Zenon DEF Rows

LEMMA OneMessageMore ==
    ASSUME messages \in Seq(Entries), NEW from \in 0..Len(messages), NEW to \in 1..Len(messages),
           from < to
    PROVE  /\ FlattenSeq([k \in 1..(to - 1 - from) |-> RowsOf(from + k)]) = Rows(from, to - 1)
           /\ Rows(from, to) = Rows(from, to - 1) \o RowsOf(to)
<1> DEFINE n == to - from
           parts == [k \in 1..n |-> RowsOf(from + k)]
           fewer == [k \in 1..(n - 1) |-> RowsOf(from + k)]
<1>1. n \in Nat /\ n >= 1 /\ n - 1 \in Nat /\ from + n = to /\ to - 1 - from = n - 1
  OBVIOUS
<1>2. \A k \in 1..n : from + k \in 1..Len(messages) /\ RowsOf(from + k) \in Seq(AllRows)
  <2> TAKE k \in 1..n
  <2>1. from + k \in 1..Len(messages)
    BY <1>1
  <2> QED
    BY <2>1, RowsOfAre
<1>3. Rows(from, to) = FlattenSeq(parts) /\ Rows(from, to - 1) = FlattenSeq(fewer)
  BY <1>1, Zenon DEF Rows, RowsOf
<1> HIDE DEF n
<1>4. /\ fewer \in Seq(Seq(AllRows)) /\ Len(fewer) = n - 1
      /\ parts \in Seq(Seq(AllRows)) /\ Len(parts) = n
  <2> DEFINE T == Seq(AllRows)
             made(k) == RowsOf(from + k)
  <2>1. \A k \in 1..n : made(k) \in T
    BY <1>2
  <2>2. 1..(n - 1) \subseteq 1..n
    BY <1>1
  <2> HIDE DEF T, made
  <2>3. [k \in 1..n |-> made(k)] \in Seq(T) /\ Len([k \in 1..n |-> made(k)]) = n
    BY <1>1, <2>1
  <2>4. /\ [k \in 1..(n - 1) |-> made(k)] \in Seq(T)
        /\ Len([k \in 1..(n - 1) |-> made(k)]) = n - 1
    BY <1>1, <2>1, <2>2
  <2> QED
    BY <2>3, <2>4 DEF T, made
<1>5. parts = Append(fewer, RowsOf(to))
  <2> DEFINE longer == Append(fewer, RowsOf(to))
  <2>1. RowsOf(to) \in Seq(AllRows)
    BY RowsOfAre
  <2>2. /\ longer \in Seq(Seq(AllRows)) /\ Len(longer) = n /\ longer[n] = RowsOf(to)
        /\ \A k \in 1..(n - 1) : longer[k] = fewer[k]
    BY <1>1, <1>4, <2>1, AppendProperties
  <2>3. \A k \in 1..(n - 1) : fewer[k] = RowsOf(from + k)
    OBVIOUS
  <2>4. \A k \in 1..n : parts[k] = RowsOf(from + k)
    OBVIOUS
  <2> HIDE DEF longer, parts, fewer
  <2>5. \A k \in 1..n : longer[k] = parts[k]
    <3> TAKE k \in 1..n
    <3>1. CASE k = n
      BY <1>1, <2>2, <2>4, <3>1
    <3>2. CASE k # n
      <4>1. k \in 1..(n - 1)
        BY <1>1, <3>2
      <4> QED
        BY <2>2, <2>3, <2>4, <4>1
    <3> QED
      BY <3>1, <3>2
  <2>6. longer = parts
    BY <1>1, <1>4, <2>2, <2>5, SeqEqual
  <2> QED
    BY <2>6 DEF longer
<1> HIDE DEF parts, fewer
<1>6. FlattenSeq(Append(fewer, RowsOf(to))) = FlattenSeq(fewer) \o RowsOf(to)
  BY <1>4, RowsOfAre, FlattenAppend
<1>7. FlattenSeq([k \in 1..(to - 1 - from) |-> RowsOf(from + k)]) = Rows(from, to - 1)
  BY <1>1, <1>3 DEF fewer
<1> QED
  BY <1>3, <1>5, <1>6, <1>7

\* As many as the heights say, and those of a range go on where the ones before it end.
LEMMA RowsAre ==
    ASSUME messages \in Seq(Entries), NEW from \in 0..Len(messages), NEW to \in 0..Len(messages),
           from <= to
    PROVE  /\ Rows(from, to) \in Seq(AllRows)
           /\ Len(Rows(from, to)) = HeightTo(to) - HeightTo(from)
<1> DEFINE N == Len(messages)
           Good(n) == /\ Rows(from, n) \in Seq(AllRows)
                      /\ Len(Rows(from, n)) = HeightTo(n) - HeightTo(from)
           G == {n \in 0..N : from <= n => Good(n)}
<1>0. N \in Nat /\ \A i \in 0..N : HeightTo(i) \in Nat
  BY HeightsAre
<1>1. Good(from)
  <2>1. Rows(from, from) = <<>>
    BY NoRows
  <2> QED
    BY <1>0, <2>1
<1>2. 0 \in G
  <2>1. from <= 0 => from = 0
    BY <1>0
  <2> QED
    BY <1>0, <1>1, <2>1
<1>3. ASSUME NEW n \in 1..N, n - 1 \in G
      PROVE  n \in G
  <2>0. n \in 0..N
    BY <1>0
  <2>1. CASE from < n
    <3>1. Good(n - 1)
      BY <1>0, <1>3, <2>1
    <3>2. Rows(from, n) = Rows(from, n - 1) \o RowsOf(n)
      BY <2>1, OneMessageMore
    <3>3. RowsOf(n) \in Seq(AllRows) /\ Len(RowsOf(n)) = Height(n) /\ Height(n) \in Nat
          /\ HeightTo(n) = HeightTo(n - 1) + Height(n)
      BY RowsOfAre, HeightsAre
    <3>4. /\ Rows(from, n) \in Seq(AllRows)
          /\ Len(Rows(from, n)) = Len(Rows(from, n - 1)) + Len(RowsOf(n))
      BY <3>1, <3>2, <3>3, ConcatProperties
    <3>5. HeightTo(n - 1) \in Nat /\ HeightTo(n) \in Nat /\ HeightTo(from) \in Nat
      BY <1>0, <2>0, <2>1
    <3>6. Len(Rows(from, n - 1)) = HeightTo(n - 1) - HeightTo(from)
      BY <3>1
    <3>7. Len(Rows(from, n)) = (HeightTo(n - 1) - HeightTo(from)) + Height(n)
      BY <3>3, <3>4, <3>6
    <3> DEFINE h == HeightTo(n - 1)
               start == HeightTo(from)
               more == Height(n)
    <3> HIDE DEF h, start, more
    <3>8. h \in Int /\ start \in Int /\ more \in Int => (h - start) + more = (h + more) - start
      OBVIOUS
    <3>9. Len(Rows(from, n)) = HeightTo(n) - HeightTo(from)
      BY <3>3, <3>5, <3>7, <3>8 DEF h, start, more
    <3>10. Good(n)
      BY <3>4, <3>9
    <3> QED
      BY <2>0, <3>10
  <2>2. CASE ~(from < n)
    <3>1. from <= n => from = n
      BY <2>2
    <3> QED
      BY <1>1, <2>0, <3>1
  <2> QED
    BY <2>1, <2>2
<1>4. to \in G
  <2> HIDE DEF G
  <2> QED
    BY <1>0, <1>2, <1>3, AllUpTo
<1> QED
  BY <1>4

LEMMA RowsGoOn ==
    ASSUME messages \in Seq(Entries), NEW from \in 0..Len(messages), NEW to \in 0..Len(messages),
           from <= to, NEW first \in 0..Len(messages), first <= from
    PROVE  Rows(first, to) = Rows(first, from) \o Rows(from, to)
<1> DEFINE N == Len(messages)
           Good(n) == Rows(first, n) = Rows(first, from) \o Rows(from, n)
           G == {n \in 0..N : from <= n => Good(n)}
<1>0. N \in Nat
  OBVIOUS
<1>1. Good(from)
  <2>1. Rows(from, from) = <<>> /\ Rows(first, from) \in Seq(AllRows)
    BY NoRows, RowsAre
  <2> QED
    BY <2>1, ConcatEmptySeq
<1>2. 0 \in G
  <2>1. from <= 0 => from = 0
    BY <1>0
  <2> QED
    BY <1>0, <1>1, <2>1
<1>3. ASSUME NEW n \in 1..N, n - 1 \in G
      PROVE  n \in G
  <2>0. n \in 0..N
    BY <1>0
  <2>1. CASE from < n
    <3>1. Good(n - 1) /\ first < n /\ n - 1 \in 0..N /\ from <= n - 1
      BY <1>0, <1>3, <2>1
    <3>2. /\ Rows(from, n) = Rows(from, n - 1) \o RowsOf(n)
          /\ Rows(first, n) = Rows(first, n - 1) \o RowsOf(n)
      BY <2>1, <3>1, OneMessageMore
    <3>3. /\ RowsOf(n) \in Seq(AllRows) /\ Rows(first, from) \in Seq(AllRows)
          /\ Rows(from, n - 1) \in Seq(AllRows)
      BY <3>1, RowsOfAre, RowsAre
    <3>4. (Rows(first, from) \o Rows(from, n - 1)) \o RowsOf(n)
            = Rows(first, from) \o (Rows(from, n - 1) \o RowsOf(n))
      <4> DEFINE a == Rows(first, from)
                 b == Rows(from, n - 1)
                 c == RowsOf(n)
      <4>1. a \in Seq(AllRows) /\ b \in Seq(AllRows) /\ c \in Seq(AllRows)
        BY <3>3
      <4> HIDE DEF a, b, c
      <4>2. Associates(a, b, c)
        BY <4>1, Associative
      <4> QED
        BY <4>2 DEF Associates, a, b, c
    <3> QED
      BY <2>0, <3>1, <3>2, <3>4
  <2>2. CASE ~(from < n)
    <3>1. from <= n => from = n
      BY <2>2
    <3> QED
      BY <1>1, <2>0, <3>1
  <2> QED
    BY <2>1, <2>2
<1>4. to \in G
  <2> HIDE DEF G
  <2> QED
    BY <1>0, <1>2, <1>3, AllUpTo
<1> QED
  BY <1>4

-----------------------------------------------------------------------------
(* The list of messages: what is drawn *)

\* The part of a list that lies in the middle of it
LEMMA MiddleOfConcat ==
    ASSUME NEW S, NEW a \in Seq(S), NEW b \in Seq(S), NEW c \in Seq(S),
           NEW from \in Nat, NEW to \in Nat, from >= 1, from <= to, to <= Len(b)
    PROVE  SubSeq(a \o (b \o c), Len(a) + from, Len(a) + to) = SubSeq(b, from, to)
<1> DEFINE all == a \o (b \o c)
           n == Len(a)
           left == SubSeq(all, n + from, n + to)
           right == SubSeq(b, from, to)
<1>1. n \in Nat /\ Len(b) \in Nat /\ Len(c) \in Nat
  OBVIOUS
<1>2. /\ b \o c \in Seq(S) /\ Len(b \o c) = Len(b) + Len(c)
      /\ \A i \in 1..Len(b) : (b \o c)[i] = b[i]
  <2>1. \A i \in 1..Len(b) : i \in 1..(Len(b) + Len(c)) /\ i <= Len(b)
    BY <1>1
  <2> QED
    BY <2>1, ConcatProperties
<1>3. /\ all \in Seq(S) /\ Len(all) = n + (Len(b) + Len(c))
      /\ \A i \in 1..(n + (Len(b) + Len(c))) :
            all[i] = IF i <= n THEN a[i] ELSE (b \o c)[i - n]
  <2> DEFINE rest == b \o c
  <2>1. rest \in Seq(S) /\ Len(rest) = Len(b) + Len(c)
    BY <1>2
  <2> HIDE DEF rest
  <2>2. IsJoined(a \o rest, S, a, rest)
    BY <2>1, ConcatIs
  <2> DEFINE joined == a \o rest
  <2> HIDE DEF joined
  <2>3. /\ joined \in Seq(S) /\ Len(joined) = Len(a) + Len(rest)
        /\ \A i \in 1..(Len(a) + Len(rest)) :
              joined[i] = IF i <= Len(a) THEN a[i] ELSE rest[i - Len(a)]
    <3>1. IsJoined(joined, S, a, rest)
      BY <2>2 DEF joined
    <3> QED
      BY <3>1 DEF IsJoined
  <2> QED
    BY <2>1, <2>3 DEF rest, joined
<1> HIDE DEF all
<1>4. \A i \in from..to : /\ all[n + i] = b[i] /\ b[i] \in S /\ i \in 1..Len(b)
  <2> TAKE i \in from..to
  <2>1. i \in 1..Len(b) /\ n + i \in 1..(n + (Len(b) + Len(c))) /\ ~(n + i <= n) /\ n + i - n = i
    BY <1>1
  <2> QED
    BY <1>2, <1>3, <2>1
<1>5. \A j \in (n + from)..(n + to) : all[j] \in S
  <2> TAKE j \in (n + from)..(n + to)
  <2>1. j - n \in from..to /\ n + (j - n) = j
    BY <1>1
  <2> QED
    BY <1>4, <2>1
<1> HIDE DEF n
<1>6. /\ left \in Seq(S) /\ Len(left) = (n + to) - (n + from) + 1
      /\ \A i \in 1..((n + to) - (n + from) + 1) : left[i] = all[(n + from) + i - 1]
  <2>1. n + from \in Int /\ n + to \in Int /\ n + from <= n + to
    BY <1>1
  <2> QED
    BY <1>5, <2>1, SubSeqProperties
<1>7. /\ right \in Seq(S) /\ Len(right) = to - from + 1
      /\ \A i \in 1..(to - from + 1) : right[i] = b[from + i - 1]
  BY <1>4, SubSeqProperties
<1>8. (n + to) - (n + from) + 1 = to - from + 1
  BY <1>1
<1> HIDE DEF left, right
<1>9. \A i \in 1..(to - from + 1) : left[i] = right[i]
  <2> TAKE i \in 1..(to - from + 1)
  <2>1. (n + from) + i - 1 = n + (from + i - 1) /\ from + i - 1 \in from..to
    BY <1>1
  <2> QED
    BY <1>4, <1>6, <1>7, <1>8, <2>1
<1>10. left = right
  BY <1>6, <1>7, <1>8, <1>9, SeqEqual
<1> QED
  BY <1>10 DEF left, right, all, n

LEMMA RangesAre ==
    ASSUME NEW position, NEW range \in find_visible_range(position)
    PROVE  \E k \in Search(position, 0, -1), e \in EndIndexes(position + viewport) :
              range = [start |-> Max({k, 0}), end |-> e,
                       position |-> position - HeightTo(Max({k, 0}))]
  BY SMT DEF find_visible_range

\* The range that is drawn begins at or before the position and ends at or after its end.
LEMMA RangeCovers ==
    ASSUME messages \in Seq(Entries), NEW position \in Nat, viewport \in Nat, viewport > 0,
           position + viewport <= HeightTo(Len(messages)),
           NEW range \in find_visible_range(position)
    PROVE  /\ range.start \in 0..Len(messages) /\ range.end \in 0..Len(messages)
           /\ range.start <= range.end
           /\ range.position = position - HeightTo(range.start)
           /\ HeightTo(range.start) <= position
           /\ position + viewport <= HeightTo(range.end)
<1> DEFINE N == Len(messages)
           last == position + viewport
<1>0. N \in Nat /\ (\A i \in 0..N : HeightTo(i) \in Nat) /\ HeightTo(0) = 0
  BY HeightsAre
<1>1. last \in Nat /\ position < last /\ last <= HeightTo(N)
  OBVIOUS
<1>2. N >= 1
  BY <1>0, <1>1
<1>3. PICK k \in Search(position, 0, -1), e \in EndIndexes(last) :
         range = [start |-> Max({k, 0}), end |-> e,
                  position |-> position - HeightTo(Max({k, 0}))]
  BY RangesAre
<1>4. Max({k, 0}) \in 0..(N - 1) /\ HeightTo(Max({k, 0})) <= position
  <2>1. CASE \E n \in 0..(N - 1) : HeightTo(n) = position /\ k = 0 + n
    <3>1. PICK n \in 0..(N - 1) : HeightTo(n) = position /\ k = 0 + n
      BY <2>1
    <3>2. Max({k, 0}) = n
      BY <1>0, <3>1, MaxOfTwo
    <3> QED
      BY <3>1, <3>2
  <2>2. CASE \E m \in 0..N :
                /\ k = -1 + m
                /\ \A n \in 0..(N - 1) :
                      HeightTo(n) # position /\ (HeightTo(n) < position <=> n < m)
    <3>1. PICK m \in 0..N :
             /\ k = -1 + m
             /\ \A n \in 0..(N - 1) :
                   HeightTo(n) # position /\ (HeightTo(n) < position <=> n < m)
      BY <2>2
    <3>2. m >= 1
      <4>1. 0 \in 0..(N - 1) /\ HeightTo(0) < position
        BY <1>0, <1>2, <3>1
      <4> QED
        BY <3>1, <4>1
    <3>3. Max({k, 0}) = m - 1 /\ m - 1 \in 0..(N - 1)
      <4>1. k = m - 1 /\ m - 1 \in Int /\ m - 1 >= 0
        BY <3>1, <3>2
      <4> QED
        BY <1>0, <4>1, MaxOfTwo
    <3>4. HeightTo(m - 1) < position /\ HeightTo(m - 1) \in Nat
      BY <1>0, <3>1, <3>3
    <3> QED
      BY <3>3, <3>4
  <2> QED
    BY <2>1, <2>2, SearchIs
<1>5. e \in 0..N /\ last <= HeightTo(e)
  <2>1. PICK j \in Search(last, 1, 0) : e = Min({j, N})
    BY DEF EndIndexes
  <2>2. CASE \E n \in 0..(N - 1) : HeightTo(n) = last /\ j = 1 + n
    <3>1. PICK n \in 0..(N - 1) : HeightTo(n) = last /\ j = 1 + n
      BY <2>2
    <3>2. e = n + 1 /\ n + 1 \in 0..N /\ n \in 0..N
      <4>1. j = n + 1 /\ n + 1 \in Int /\ n + 1 <= N
        BY <1>0, <3>1
      <4> QED
        BY <1>0, <2>1, <4>1, MinOfTwo
    <3>3. HeightTo(n) <= HeightTo(n + 1)
      BY <3>2, HeightsGrow
    <3> QED
      BY <3>1, <3>2, <3>3
  <2>3. CASE \E m \in 0..N :
                /\ j = 0 + m
                /\ \A n \in 0..(N - 1) : HeightTo(n) # last /\ (HeightTo(n) < last <=> n < m)
    <3>1. PICK m \in 0..N :
             /\ j = 0 + m
             /\ \A n \in 0..(N - 1) : HeightTo(n) # last /\ (HeightTo(n) < last <=> n < m)
      BY <2>3
    <3>2. e = m
      BY <1>0, <2>1, <3>1, MinOfTwo
    <3>3. CASE m = N
      BY <1>1, <3>2, <3>3
    <3>4. CASE m # N
      <4>1. m \in 0..(N - 1) /\ ~(HeightTo(m) < last) /\ HeightTo(m) \in Nat
        BY <1>0, <3>1, <3>4
      <4> QED
        BY <1>1, <3>2, <4>1
    <3> QED
      BY <3>3, <3>4
  <2> QED
    BY <1>1, <2>1, <2>2, <2>3, SearchIs
<1> DEFINE s == Max({k, 0})
<1>6. s \in 0..N /\ HeightTo(s) <= position /\ HeightTo(s) \in Nat /\ HeightTo(e) \in Nat
  BY <1>0, <1>4, <1>5
<1>7. range.start = s /\ range.end = e /\ range.position = position - HeightTo(s)
  BY <1>3
<1> HIDE DEF s
<1>8. s <= e
  <2>1. CASE e < s
    <3>1. HeightTo(e) <= HeightTo(s)
      BY <1>5, <1>6, <2>1, HeightsGrow
    <3> QED
      BY <1>1, <1>5, <1>6, <3>1
  <2> QED
    BY <1>0, <1>5, <1>6, <2>1
<1> QED
  BY <1>5, <1>6, <1>7, <1>8

\* Whatever range was found, the same rows are copied.
LEMMA RowsInView ==
    ASSUME messages \in Seq(Entries), NEW position \in Nat, viewport \in Nat, viewport > 0,
           position + viewport <= HeightTo(Len(messages)),
           NEW range \in find_visible_range(position)
    PROVE  virtual_draw(range) = SubSeq(Rows(0, Len(messages)), position + 1, position + viewport)
<1> DEFINE N == Len(messages)
           s == range.start
           e == range.end
           q == range.position
<1>1. /\ s \in 0..N /\ e \in 0..N /\ s <= e /\ q = position - HeightTo(s)
      /\ HeightTo(s) <= position /\ position + viewport <= HeightTo(e)
  BY RangeCovers
<1> HIDE DEF s, e, q
<1>0. /\ N \in Nat /\ 0 \in 0..N /\ N \in 0..N /\ 0 <= s /\ e <= N /\ 0 <= N
      /\ HeightTo(s) \in Nat /\ HeightTo(e) \in Nat /\ HeightTo(0) = 0
  BY <1>1, HeightsAre
<1> DEFINE a == Rows(0, s)
           b == Rows(s, e)
           c == Rows(e, N)
<1>2. /\ a \in Seq(AllRows) /\ Len(a) = HeightTo(s)
      /\ b \in Seq(AllRows) /\ Len(b) = HeightTo(e) - HeightTo(s)
      /\ c \in Seq(AllRows)
  <2>1. a \in Seq(AllRows) /\ Len(a) = HeightTo(s) - HeightTo(0)
    BY <1>0, <1>1, RowsAre
  <2>2. b \in Seq(AllRows) /\ Len(b) = HeightTo(e) - HeightTo(s)
    BY <1>1, RowsAre
  <2>3. c \in Seq(AllRows)
    BY <1>0, <1>1, RowsAre
  <2> QED
    BY <1>0, <2>1, <2>2, <2>3
<1>3. Rows(0, N) = a \o (b \o c)
  <2>0. ASSUME NEW i \in 0..N, NEW j \in 0..N, i <= j
        PROVE  Rows(i, N) = Rows(i, j) \o Rows(j, N)
    <3>1. j <= N /\ N \in 0..N
      BY <1>0
    <3> QED
      BY <2>0, <3>1, RowsGoOn
  <2>1. Rows(0, N) = Rows(0, s) \o Rows(s, N)
    BY <1>0, <1>1, <2>0
  <2>2. Rows(s, N) = Rows(s, e) \o Rows(e, N)
    BY <1>0, <1>1, <2>0
  <2> QED
    BY <2>1, <2>2
<1> HIDE DEF a, b, c
<1>4. /\ q \in Nat /\ q + viewport <= Len(b) /\ Len(b) \in Nat
      /\ Len(a) + (q + 1) = position + 1 /\ Len(a) + (q + viewport) = position + viewport
      /\ q + 1 \in Nat /\ q + viewport \in Nat /\ q + 1 >= 1 /\ q + 1 <= q + viewport
  <2> DEFINE before == HeightTo(s)
             until  == HeightTo(e)
             length == Len(b)
             length_a == Len(a)
  <2>1. /\ before \in Nat /\ until \in Nat /\ length = until - before /\ length_a = before
        /\ q = position - before /\ before <= position /\ position + viewport <= until
    BY <1>0, <1>1, <1>2
  <2> HIDE DEF before, until, length, length_a
  <2>2. q \in Nat /\ q + viewport <= length /\ length \in Nat
    BY <2>1
  <2>3. length_a + (q + 1) = position + 1 /\ length_a + (q + viewport) = position + viewport
    BY <2>1
  <2>4. q + 1 \in Nat /\ q + viewport \in Nat /\ q + 1 >= 1 /\ q + 1 <= q + viewport
    BY <2>2
  <2> QED
    BY <2>2, <2>3, <2>4 DEF length, length_a
<1>5. Min({q + viewport, Len(b)}) = q + viewport
  BY <1>4, MinOfTwo
<1>6. virtual_draw(range) = SubSeq(b, q + 1, q + viewport)
  BY <1>5 DEF virtual_draw, b, s, e, q
<1>7. SubSeq(a \o (b \o c), Len(a) + (q + 1), Len(a) + (q + viewport))
        = SubSeq(b, q + 1, q + viewport)
  <2> DEFINE from == q + 1
             to == q + viewport
  <2>1. from \in Nat /\ to \in Nat /\ from >= 1 /\ from <= to /\ to <= Len(b)
    BY <1>4
  <2> HIDE DEF from, to
  <2>3. a \in Seq(AllRows) /\ b \in Seq(AllRows) /\ c \in Seq(AllRows)
    BY <1>2
  <2>2. SubSeq(a \o (b \o c), Len(a) + from, Len(a) + to) = SubSeq(b, from, to)
    BY <2>1, <2>3, MiddleOfConcat
  <2> QED
    BY <2>2 DEF from, to
<1> QED
  BY <1>3, <1>4, <1>6, <1>7

LEMMA DrawnIsScrolled ==
    ASSUME ListTypeOK, DrawnInv
    PROVE  ViewIsTheScrolledRows
<1> SUFFICES ASSUME fresh, NEW view \in Views
             PROVE  LET rows == Rows(0, Len(messages)) IN
                    view = IF Len(rows) <= viewport THEN rows
                           ELSE SubSeq(rows, Len(rows) - viewport - offset + 1, Len(rows) - offset)
  BY DEF ViewIsTheScrolledRows
<1> DEFINE N == Len(messages)
           rows == Rows(0, N)
<1>0. /\ messages \in Seq(Entries) /\ viewport \in Nat /\ total \in Nat /\ offset \in Nat
      /\ viewport > 0 /\ total = HeightTo(N) /\ offset <= Max({total - viewport, 0})
  BY DEF ListTypeOK, DrawnInv
<1>1. Len(rows) = total
  <2>1. N \in Nat /\ 0 \in 0..N /\ N \in 0..N /\ 0 <= N
    BY <1>0
  <2>2. Len(rows) = HeightTo(N) - HeightTo(0) /\ HeightTo(0) = 0
    BY <1>0, <2>1, RowsAre, HeightsAre
  <2> QED
    BY <1>0, <2>2
<1> HIDE DEF rows
<1>2. CASE total <= viewport
  <2>1. Views = {rows}
    <3>1. ~(total > viewport)
      BY <1>0, <1>2
    <3> QED
      BY <3>1 DEF Views, rows
  <2> QED
    BY <1>1, <1>2, <2>1 DEF rows
<1>3. CASE ~(total <= viewport)
  <2> DEFINE hidden == total - viewport
             position == hidden - offset
  <2>1. hidden \in Nat /\ hidden > 0 /\ offset <= hidden
    <3>1. hidden \in Nat /\ hidden > 0
      BY <1>0, <1>3
    <3>2. Max({hidden, 0}) = hidden
      BY <3>1, MaxOfTwo
    <3> QED
      BY <1>0, <3>1, <3>2
  <2>2. scroll_position = position
    <3>1. Max({total - viewport, 0}) = hidden
      BY <2>1, MaxOfTwo
    <3>2. Min({offset, hidden}) = offset
      BY <1>0, <2>1, MinOfTwo
    <3> QED
      BY <3>1, <3>2 DEF scroll_position
  <2>3. /\ position \in Nat /\ position + viewport <= HeightTo(N)
        /\ position + 1 = total - viewport - offset + 1
        /\ position + viewport = total - offset
    BY <1>0, <2>1
  <2>4. total > viewport
    BY <1>0, <1>3
  <2> HIDE DEF position
  <2>5. PICK range \in find_visible_range(position) : view = virtual_draw(range)
    BY <2>2, <2>4 DEF Views
  <2>6. virtual_draw(range) = SubSeq(rows, position + 1, position + viewport)
    BY <1>0, <2>3, RowsInView DEF rows
  <2> QED
    BY <1>1, <1>3, <2>3, <2>5, <2>6 DEF rows
<1> QED
  BY <1>2, <1>3

-----------------------------------------------------------------------------
(* The list of messages: the steps *)

LEMMA EntriesAre ==
    ASSUME NEW e \in Entries, NEW n \in Nat, NEW b \in BOOLEAN
    PROVE  /\ e.rows \in Nat /\ e.thinking \in BOOLEAN /\ e.collapsed \in BOOLEAN
           /\ [rows |-> n, thinking |-> b, collapsed |-> FALSE] \in Entries
           /\ [e EXCEPT !.rows = n] \in Entries
           /\ [e EXCEPT !.collapsed = b] \in Entries
BY Zenon DEF Entries

LEMMA OneChanged ==
    ASSUME NEW S, NEW s \in Seq(S), NEW i \in DOMAIN s, NEW e \in S
    PROVE  [s EXCEPT ![i] = e] \in Seq(S) /\ Len([s EXCEPT ![i] = e]) = Len(s)
OBVIOUS

\* Nothing but a draw says that what is shown is fresh.
LEMMA EditedIsStale ==
    ASSUME fresh' = FALSE, messages' \in Seq(Entries), focus' \in 0..Len(messages'),
           viewport' \in Nat, total' \in Nat, offset' \in Nat
    PROVE  ListTypeOK' /\ DrawnInv'
BY DEF ListTypeOK, DrawnInv

LEMMA MessagesChange ==
    ASSUME ListTypeOK, push \/ TextStreams \/ on_tool_event \/ collapse_thinking
                       \/ toggle_thinking_for_focus
    PROVE  ListTypeOK' /\ DrawnInv'
<1>0. /\ messages \in Seq(Entries) /\ focus \in 0..Len(messages) /\ offset \in Nat
      /\ viewport \in Nat /\ total \in Nat
  BY DEF ListTypeOK
<1>1. \A i \in Places : messages[i] \in Entries
  BY <1>0 DEF Places
<1>2. ASSUME messages' \in Seq(Entries), Len(messages') >= Len(messages), UNCHANGED focus,
             offset' \in Nat, Edited
      PROVE  ListTypeOK' /\ DrawnInv'
  <2>1. focus' \in 0..Len(messages')
    BY <1>0, <1>2
  <2>2. fresh' = FALSE /\ viewport' \in Nat /\ total' \in Nat
    BY <1>0, <1>2 DEF Edited
  <2> QED
    BY <1>2, <2>1, <2>2, EditedIsStale
<1>3. ASSUME NEW i \in Places, NEW e \in Entries, messages' = [messages EXCEPT ![i] = e],
             UNCHANGED focus, offset' \in Nat, Edited
      PROVE  ListTypeOK' /\ DrawnInv'
  <2>1. messages' \in Seq(Entries) /\ Len(messages') = Len(messages)
    BY <1>0, <1>3, OneChanged DEF Places
  <2>2. Len(messages') >= Len(messages)
    BY <1>0, <2>1
  <2> QED
    BY <1>2, <1>3, <2>1, <2>2
<1>4. CASE push
  <2>1. PICK thinking \in BOOLEAN :
           messages' = Append(messages, [rows |-> 1, thinking |-> thinking, collapsed |-> FALSE])
    BY <1>4 DEF push
  <2> DEFINE e == [rows |-> 1, thinking |-> thinking, collapsed |-> FALSE]
  <2>2. e \in Entries
    BY Zenon DEF Entries
  <2> HIDE DEF e
  <2>3. messages' \in Seq(Entries) /\ Len(messages') = Len(messages) + 1
    BY <1>0, <2>1, <2>2, AppendProperties DEF e
  <2>4. Len(messages') >= Len(messages)
    BY <1>0, <2>3
  <2>5. UNCHANGED focus /\ Edited /\ offset' \in Nat
    BY <1>4 DEF push, scroll_to_bottom
  <2> QED
    BY <1>2, <2>3, <2>4, <2>5
<1>5. CASE TextStreams
  <2>1. PICK i \in Places : messages' = [messages EXCEPT ![i].rows = @ + 1]
    BY <1>5 DEF TextStreams
  <2> DEFINE e == [messages[i] EXCEPT !.rows = messages[i].rows + 1]
  <2>2. messages[i].rows \in Nat
    BY <1>1, EntriesAre
  <2>3. messages[i].rows + 1 \in Nat
    BY <2>2
  <2>4. e \in Entries
    BY <1>1, <2>3, EntriesAre
  <2>5. messages' = [messages EXCEPT ![i] = e]
    BY <2>1
  <2>6. UNCHANGED focus /\ Edited /\ offset' \in Nat
    BY <1>5 DEF TextStreams, scroll_to_bottom
  <2> HIDE DEF e
  <2> QED
    BY <1>3, <2>4, <2>5, <2>6
<1>6. CASE on_tool_event
  <2>1. PICK i \in Places, rows \in 1..MaxRows : messages' = [messages EXCEPT ![i].rows = rows]
    BY <1>6 DEF on_tool_event
  <2> DEFINE e == [messages[i] EXCEPT !.rows = rows]
  <2>2. rows \in Nat
    BY ListAssumption
  <2>4. e \in Entries
    BY <1>1, <2>2, EntriesAre
  <2>5. messages' = [messages EXCEPT ![i] = e]
    BY <2>1
  <2>6. UNCHANGED focus /\ Edited /\ offset' \in Nat
    BY <1>0, <1>6 DEF on_tool_event
  <2> HIDE DEF e
  <2> QED
    BY <1>3, <2>4, <2>5, <2>6
<1>7. CASE collapse_thinking
  <2> DEFINE folded(i) == [messages[i] EXCEPT !.collapsed = messages[i].thinking]
             n == Len(messages)
  <2>1. messages' = [i \in 1..n |-> folded(i)] /\ n \in Nat
    BY <1>0, <1>7 DEF collapse_thinking, Places
  <2>2. \A i \in 1..n : folded(i) \in Entries
    <3> TAKE i \in 1..n
    <3>1. messages[i] \in Entries
      BY <1>0
    <3>2. messages[i].thinking \in BOOLEAN
      BY <3>1, Zenon DEF Entries
    <3> QED
      BY <3>1, <3>2, EntriesAre
  <2> HIDE DEF folded, n
  <2>3. messages' \in Seq(Entries) /\ Len(messages') = n
    BY <2>1, <2>2
  <2>4. Len(messages') >= Len(messages)
    BY <2>1, <2>3 DEF n
  <2>5. UNCHANGED focus /\ Edited /\ offset' \in Nat
    BY <1>0, <1>7 DEF collapse_thinking
  <2> QED
    BY <1>2, <2>3, <2>4, <2>5
<1>8. CASE toggle_thinking_for_focus
  <2> DEFINE before == {i \in 1..focus : messages[i].thinking}
             i == Max(before)
             b == ~messages[i].collapsed
             e == [messages[i] EXCEPT !.collapsed = b]
  <2>1. focus \in Places /\ before # {} /\ messages' = [messages EXCEPT ![i].collapsed = ~@]
    BY <1>8 DEF toggle_thinking_for_focus
  <2>2. i \in before
    <3>1. focus \in Nat /\ before \in SUBSET (0..focus)
      BY <1>0
    <3> HIDE DEF before
    <3> QED
      BY <2>1, <3>1, MaxIsIn
  <2>3. i \in Places
    BY <1>0, <2>1, <2>2 DEF Places
  <2> HIDE DEF i
  <2>4. b \in BOOLEAN
    OBVIOUS
  <2>5. messages' = [messages EXCEPT ![i] = e]
    BY <2>1, Zenon
  <2> HIDE DEF b
  <2>6. e \in Entries
    BY <1>1, <2>3, <2>4, EntriesAre
  <2>7. UNCHANGED focus /\ Edited /\ offset' \in Nat
    BY <1>0, <1>8 DEF toggle_thinking_for_focus
  <2> HIDE DEF e
  <2> QED
    BY <1>3, <2>3, <2>5, <2>6, <2>7
<1> QED
  BY <1>4, <1>5, <1>6, <1>7, <1>8

LEMMA FocusMoves ==
    ASSUME ListTypeOK, select_prev \/ select_next \/ select_last \/ FocusOrBlur
    PROVE  ListTypeOK' /\ DrawnInv'
<1>0. /\ messages \in Seq(Entries) /\ focus \in 0..Len(messages) /\ offset \in Nat
      /\ viewport \in Nat /\ total \in Nat /\ Len(messages) \in Nat
  BY DEF ListTypeOK
<1>1. ASSUME NEW i \in 0..Len(messages), update_focus(i)
      PROVE  ListTypeOK' /\ DrawnInv'
  <2>1. /\ fresh' = FALSE /\ focus' = i
        /\ UNCHANGED <<messages, offset, viewport, total>>
    BY <1>1 DEF update_focus, Edited
  <2> QED
    BY <1>0, <1>1, <2>1, EditedIsStale
<1>2. CASE select_prev
  <2> DEFINE shown == {i \in 1..(focus - 1) : ~Hidden(i)}
  <2>1. shown # {} /\ update_focus(Max(shown))
    BY <1>2 DEF select_prev
  <2>2. shown \in SUBSET (0..Len(messages))
    BY <1>0
  <2> HIDE DEF shown
  <2>3. Max(shown) \in 0..Len(messages)
    BY <1>0, <2>1, <2>2, MaxIsIn
  <2> QED
    BY <1>1, <2>1, <2>3
<1>3. CASE select_next
  <2> DEFINE shown == {i \in (focus + 1)..Len(messages) : ~Hidden(i)}
  <2>1. shown # {} /\ update_focus(Min(shown))
    BY <1>3 DEF select_next
  <2>2. shown \in SUBSET (0..Len(messages)) /\ shown \in SUBSET Nat
    BY <1>0
  <2> HIDE DEF shown
  <2>3. Min(shown) \in 0..Len(messages)
    BY <2>1, <2>2, MinIsIn
  <2> QED
    BY <1>1, <2>1, <2>3
<1>4. CASE select_last
  <2> DEFINE shown == {i \in Places : ~Hidden(i)}
  <2>1. shown # {} /\ update_focus(Max(shown))
    BY <1>4 DEF select_last
  <2>2. shown \in SUBSET (0..Len(messages))
    BY <1>0 DEF Places
  <2> HIDE DEF shown
  <2>3. Max(shown) \in 0..Len(messages)
    BY <1>0, <2>1, <2>2, MaxIsIn
  <2> QED
    BY <1>1, <2>1, <2>3
<1>5. CASE FocusOrBlur
  <2>1. PICK i \in {0} \cup {k \in Places : ~messages[k].thinking} : update_focus(i)
    BY <1>5 DEF FocusOrBlur
  <2>2. i \in 0..Len(messages)
    BY <1>0 DEF Places
  <2> QED
    BY <1>1, <2>1, <2>2
<1> QED
  BY <1>2, <1>3, <1>4, <1>5

LEMMA ScrollMoves ==
    ASSUME ListTypeOK, Scroll
    PROVE  ListTypeOK' /\ DrawnInv'
<1>0. /\ messages \in Seq(Entries) /\ focus \in 0..Len(messages) /\ offset \in Nat
      /\ viewport \in Nat /\ total \in Nat
  BY DEF ListTypeOK
<1>1. PICK n \in {1, viewport \div 2} : scroll_up(n) \/ scroll_down(n)
  BY DEF Scroll
<1>2. n \in Nat
  BY <1>0
<1>3. offset' \in Nat
  <2>1. CASE scroll_up(n)
    <3> DEFINE most == Max({total - viewport, 0})
    <3>1. most \in Nat
      BY <1>0, MaxOfTwo
    <3> HIDE DEF most
    <3>2. offset' = Min({offset + n, most})
      BY <2>1 DEF scroll_up, most
    <3>3. offset + n \in Int /\ offset + n >= 0
      BY <1>0, <1>2
    <3> QED
      BY <3>1, <3>2, <3>3, MinOfTwo
  <2>2. CASE scroll_down(n)
    <3>1. offset - n \in Int
      BY <1>0, <1>2
    <3> QED
      BY <2>2, <3>1, MaxOfTwo DEF scroll_down
  <2> QED
    BY <1>1, <2>1, <2>2
<1>4. fresh' = FALSE /\ UNCHANGED <<messages, focus, viewport, total>>
  BY DEF Scroll, Edited
<1> QED
  BY <1>0, <1>3, <1>4, EditedIsStale

\* What follows the focus leaves the viewport in the list.
LEMMA FocusIsFollowed ==
    ASSUME NEW height \in Nat, NEW area \in Nat, NEW at \in Nat,
           at <= Max({height - area, 0}), ListTypeOK, focus # 0
    PROVE  /\ ensure_focus_visible(height, area, at) \in Nat
           /\ ensure_focus_visible(height, area, at) <= Max({height - area, 0})
<1> DEFINE top    == HeightTo(focus - 1)
           a      == Min({focus_range[1], Height(focus)})
           b      == Min({focus_range[2], Height(focus)})
           first  == top + a
           last   == top + b
           most   == height - area
           start  == most - at
           under  == Max({last - area, 0})
           wanted == IF first < start THEN first
                     ELSE IF last > start + area THEN under ELSE start
           value  == ensure_focus_visible(height, area, at)
<1>1. messages \in Seq(Entries) /\ focus \in 1..Len(messages) /\ Len(messages) \in Nat
  BY DEF ListTypeOK
<1>2. value = IF height <= area THEN 0
              ELSE IF at = 0 /\ focus = Len(messages) /\ last >= start + area THEN at
              ELSE most - Min({wanted, most})
  BY DEF ensure_focus_visible
<1>3. first \in Nat /\ last \in Nat
  <2>1. top \in Nat /\ Height(focus) \in Nat /\ HeightTo(focus) \in Nat
    <3>1. focus - 1 \in 0..Len(messages) /\ focus \in 0..Len(messages)
      BY <1>1
    <3> QED
      BY <1>1, <3>1, HeightsAre
  <2>2. focus_range = <<top, HeightTo(focus)>>
    BY <1>1 DEF focus_range, Places
  <2>3. a \in Nat /\ b \in Nat
    BY <2>1, <2>2, MinOfTwo
  <2> HIDE DEF top, a, b
  <2> QED
    BY <2>1, <2>3
<1> HIDE DEF first, last, value
<1>4. under \in Nat
  <2>1. last - area \in Int
    BY <1>3
  <2> QED
    BY <2>1, MaxOfTwo
<1> HIDE DEF under
<1>5. CASE height <= area
  <2>1. value = 0 /\ Max({height - area, 0}) >= 0
    BY <1>2, <1>5, MaxOfTwo
  <2> QED
    BY <2>1 DEF value
<1>6. CASE ~(height <= area)
  <2>1. most \in Nat /\ Max({height - area, 0}) = most
    BY <1>6, MaxOfTwo
  <2>2. at <= most
    BY <2>1
  <2>3. start \in Nat /\ wanted \in Nat
    BY <1>3, <1>4, <2>1, <2>2
  <2> HIDE DEF wanted, most
  <2>4. Min({wanted, most}) \in Nat /\ Min({wanted, most}) <= most
    BY <2>1, <2>3, MinOfTwo
  <2>5. value = at \/ value = most - Min({wanted, most})
    BY <1>2, <1>6
  <2>6. value \in Nat /\ value <= most
    BY <2>1, <2>2, <2>4, <2>5
  <2> QED
    BY <2>1, <2>6 DEF value
<1> QED
  BY <1>5, <1>6

LEMMA DrawMeasures ==
    ASSUME ListTypeOK, NEW area \in Viewports, draw(area)
    PROVE  ListTypeOK' /\ DrawnInv'
<1> DEFINE height  == HeightTo(Len(messages))
           most    == Max({height - area, 0})
           clamped == Min({offset, most})
<1>0. /\ messages \in Seq(Entries) /\ focus \in 0..Len(messages) /\ offset \in Nat
      /\ Len(messages) \in Nat
  BY DEF ListTypeOK
<1>1. area \in Nat /\ area > 0
  BY ListAssumption
<1>2. height \in Nat
  <2>1. Len(messages) \in 0..Len(messages)
    BY <1>0
  <2> QED
    BY <1>0, <2>1, HeightsAre
<1>3. /\ total' = height /\ viewport' = area /\ UNCHANGED <<messages, focus>>
      /\ \/ offset' = clamped
         \/ focus # 0 /\ offset' = ensure_focus_visible(height, area, clamped)
  <2> DEFINE moved == focus # last_focus \/ focus_range # last_range
  <2>1. total' = height /\ viewport' = area /\ UNCHANGED <<messages, focus>>
    BY Zenon DEF draw
  <2>2. offset' = IF moved /\ focus # 0 THEN ensure_focus_visible(height, area, clamped)
                  ELSE clamped
    BY Zenon DEF draw
  <2> QED
    BY <2>1, <2>2, Zenon
<1>4. total' = HeightTo(Len(messages))'
  BY <1>3 DEF HeightTo, cumulative_heights, Height, Hidden
<1> HIDE DEF height
<1>5. most \in Nat
  <2>1. height - area \in Int
    BY <1>1, <1>2
  <2> QED
    BY <2>1, MaxOfTwo
<1>6. clamped \in Nat /\ clamped <= most
  <2> HIDE DEF most
  <2> QED
    BY <1>0, <1>5, MinOfTwo
<1> HIDE DEF clamped
<1>7. offset' \in Nat /\ offset' <= most
  BY <1>1, <1>2, <1>3, <1>6, FocusIsFollowed
<1>8. most = Max({total - viewport, 0})'
  BY <1>3
<1> HIDE DEF most
<1>9. ListTypeOK'
  <2>1. messages' \in Seq(Entries) /\ focus' \in 0..Len(messages') /\ viewport' \in Nat
        /\ total' \in Nat
    BY <1>0, <1>1, <1>2, <1>3
  <2> QED
    BY <1>7, <2>1 DEF ListTypeOK
<1>10. DrawnInv'
  <2>1. viewport' > 0
    BY <1>1, <1>3
  <2> QED
    BY <1>4, <1>7, <1>8, <2>1 DEF DrawnInv
<1> QED
  BY <1>9, <1>10

LEMMA ListKept ==
    ASSUME ListTypeOK, DrawnInv, [ListNext]_listVars
    PROVE  ListTypeOK' /\ DrawnInv'
<1>1. CASE clear
  <2>1. /\ fresh' = FALSE /\ messages' = <<>> /\ focus' = 0 /\ offset' = 0 /\ total' = 0
        /\ viewport' = viewport
    BY <1>1 DEF clear
  <2>2. viewport \in Nat
    BY DEF ListTypeOK
  <2>3. messages' \in Seq(Entries) /\ focus' \in 0..Len(messages') /\ viewport' \in Nat
        /\ total' \in Nat /\ offset' \in Nat
    BY <2>1, <2>2
  <2> QED
    BY <2>1, <2>3, EditedIsStale
<1>2. CASE UNCHANGED listVars
  <2>1. UNCHANGED <<messages, focus, viewport, total, offset, fresh>>
    BY <1>2 DEF listVars
  <2>2. ListTypeOK'
    BY <2>1 DEF ListTypeOK
  <2>3. DrawnInv'
    BY <2>1 DEF DrawnInv, HeightTo, cumulative_heights, Height, Hidden
  <2> QED
    BY <2>2, <2>3
<1> QED
  BY <1>1, <1>2, MessagesChange, FocusMoves, ScrollMoves, DrawMeasures DEF ListNext

\* After a draw the user sees the rows the scroll position says, however long the list, whatever
\* was hidden and resized since, and whichever of several equal sums the binary search found
\* (MessageList::draw, clamp_offset, find_visible_range, virtual_draw).
THEOREM ListCorrect == ListSpec => []ViewIsTheScrolledRows
<1>1. ListInit => ListTypeOK /\ DrawnInv
  BY DEF ListInit, ListTypeOK, DrawnInv
<1>2. ListTypeOK /\ DrawnInv /\ [ListNext]_listVars => (ListTypeOK /\ DrawnInv)'
  BY ListKept
<1>3. ListTypeOK /\ DrawnInv => ViewIsTheScrolledRows
  BY DrawnIsScrolled
<1> QED
  BY <1>1, <1>2, <1>3, PTL DEF ListSpec
=============================================================================
