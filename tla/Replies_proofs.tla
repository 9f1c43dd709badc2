---------------------------- MODULE Replies_proofs ----------------------------
(****************************************************************************)
(* Theorems about an interactive combo in the chat (ComboReply), the turns  *)
(* of the model that answers an ask (OffloadReply), the files of a chat     *)
(* session (SessionStore), what is sent of a history (Conversation) and of  *)
(* an output (OutputLimit), and an edit decided hunk by hunk (HunkEdits),   *)
(* for any number of replies, asks, responses, retries, sessions, saves,    *)
(* restored chats and lines of a file.                                      *)
(****************************************************************************)
EXTENDS ComboReply, OffloadReply, SessionStore, Conversation, OutputLimit, HunkEdits,
        SequenceLemmas

-----------------------------------------------------------------------------
(* Replies: the invariant *)

Asking  == {"prompt", "confirm", "tool_use"}
Stops   == {"executed", "cancelled"}
Streams == {"summary_reset", "summary_text"}
OfUses  == {"confirm", "tool_use", "tool_result", "ran"}
EventTypes ==
    Asking \cup Stops \cup Streams \cup OfUses \cup {"error", "summary_done", "result"}

ReplyEvents  == [type : EventTypes, use : Replies \cup {0}, on : BOOLEAN]
ReplyActions == [type : {"grant", "cancel"}, use : Replies]

ReplyTypeOK ==
    /\ runner \in {"idle", "asking", "executed", "over"}
    /\ asked \in BOOLEAN /\ schemas \in BOOLEAN
    /\ reply_use \in [Replies -> {"new", "proposed", "granted", "done"}]
    /\ summary_attempt \in [n : Nat, text : {"none", "part", "whole"}]
    /\ events \in Seq(ReplyEvents) /\ actions \in Seq(ReplyActions)
    /\ sock \in BOOLEAN /\ offload \in SUBSET Replies
    /\ pending_actions \in SUBSET (Replies \cup {0})
    /\ starter_state \in {"Discovering", "Executing", "AwaitingPermission", "Finalized",
                          "Cancelled"}
    /\ bash_tool_use \in Replies \cup {0}
    /\ summary \in BOOLEAN /\ summary_streaming \in BOOLEAN /\ has_output \in BOOLEAN
    /\ summaries \in Nat
    /\ stopped \in BOOLEAN

\* The queue has the event; it has the one before the other.
Queued(e)     == \E i \in DOMAIN events : events[i] = e
InOrder(a, b) == \E i, j \in DOMAIN events : i < j /\ events[i] = a /\ events[j] = b
IsQueued(type) == \E e \in ReplyEvents : Queued(e) /\ e.type = type

\* What may come behind what, in the queue.
Follows(a, b) ==
    /\ a.use # 0 /\ a.use = b.use => a.type = "tool_use" /\ b.type = "tool_result"
    /\ a.type \in Stops => b.type \notin Asking \cup Stops
    /\ a.type = "summary_text" /\ a.on => b.type \notin Streams
    /\ a.type \in {"summary_done", "result"} => b.type \notin Streams \cup {"summary_done"}

OrderInv == \A a, b \in ReplyEvents : InOrder(a, b) => Follows(a, b)

\* The widget asks for a decision about u; the decision is on its way.
Shown(u)   == starter_state = "AwaitingPermission" /\ bash_tool_use = u
Pressed(u) == \E n \in DOMAIN actions : actions[n].use = u

\* The chat knows whose reply it is, until it hears that the run ended.
Known(u) == stopped \/ u \in offload

\* A tool use is in one place: announced, shown, decided, granted, or run.
UseEventOK(e) ==
    /\ e.type \in OfUses <=> e.use # 0
    /\ e.type \in Asking \cup Stops => ~stopped
    /\ e.type \in Stops => runner \in {"executed", "over"}
    /\ e.use # 0 => ~Shown(e.use) /\ ~Pressed(e.use)
    /\ e.type = "confirm" => reply_use[e.use] = "proposed"
    /\ e.type \in {"tool_use", "tool_result", "ran"} => reply_use[e.use] = "done"
    /\ e.type = "ran" => Known(e.use)

UsesInv ==
    /\ \A e \in ReplyEvents : Queued(e) => UseEventOK(e)
    /\ \A n \in DOMAIN actions :
          /\ reply_use[actions[n].use] = "proposed"
          /\ Known(actions[n].use) /\ ~Shown(actions[n].use)
    /\ \A m, n \in DOMAIN actions : actions[m].use = actions[n].use => m = n
    /\ \A u \in Replies : Shown(u) => reply_use[u] = "proposed" /\ u \in offload
    /\ \A u \in Replies : reply_use[u] = "granted" => Known(u)
    /\ runner \in {"idle", "asking"} => ~stopped
    /\ RepliesStayWithTheirCombo
    /\ NothingIsLeftOfTheRun

\* The summary's events, and what each of them tells of the stream.
SummaryEventOK(e) ==
    /\ e.type \in Streams =>
          ~summary /\ summary_attempt.n > 0
          /\ (runner = "executed" \/ IsQueued("summary_done"))
    /\ e.type = "summary_text" /\ e.on => summary_attempt.text = "whole"
    /\ e.type = "summary_done" => runner = "over" /\ ~summary
    /\ e.type = "result" => runner = "over"
    /\ e.type = "cancelled" => runner = "over" /\ summary_attempt.n = 0

\* The last of the stream's events is where the stream is.
IsLastOfStream(i) ==
    /\ i \in DOMAIN events /\ events[i].type \in Streams
    /\ \A j \in DOMAIN events : j > i => events[j].type \notin Streams
Tells(e, told) ==
    /\ e.type = "summary_reset" => told = "none"
    /\ e.type = "summary_text" => told = (IF e.on THEN "whole" ELSE "part")

WholeIsQueued == \E e \in ReplyEvents : Queued(e) /\ e.type = "summary_text" /\ e.on

SummaryInv ==
    /\ \A e \in ReplyEvents : Queued(e) => SummaryEventOK(e)
    /\ \A i \in DOMAIN events : IsLastOfStream(i) => Tells(events[i], summary_attempt.text)
    /\ runner \in {"idle", "asking"} => summary_attempt.n = 0
    /\ summary_attempt.n = 0 =>
          summary_attempt.text = "none" /\ ~summary_streaming /\ ~has_output
    /\ ~summary =>
          /\ summaries = IF summary_attempt.text = "whole" /\ ~WholeIsQueued THEN 1 ELSE 0
          /\ summary_attempt.n > 0 => runner = "executed" \/ IsQueued("summary_done")
          /\ runner = "over" => IsQueued("result")
          /\ summary_attempt.n > 0
             /\ ~IsQueued("summary_reset") /\ ~IsQueued("summary_text") =>
                summary_streaming /\ (has_output <=> summary_attempt.text # "none")
    /\ summary =>
          /\ runner = "over" /\ summaries <= 1
          /\ summary_attempt.text # "part" => summaries = 1

ReplyInv == ReplyTypeOK /\ OrderInv /\ UsesInv /\ SummaryInv
-----------------------------------------------------------------------------
(* Replies: the queue *)

\* The chat takes the first event.
LEMMA QueuePopped ==
    ASSUME events \in Seq(ReplyEvents), OrderInv, events # <<>>, events' = Tail(events)
    PROVE  /\ events' \in Seq(ReplyEvents) /\ OrderInv'
           /\ The \in ReplyEvents /\ Queued(The)
           /\ \A e \in ReplyEvents : Queued(e)' => Queued(e) /\ Follows(The, e)
           /\ \A e \in ReplyEvents : Queued(e) => e = The \/ Queued(e)'
           /\ \A i \in DOMAIN events' : IsLastOfStream(i)' =>
                 \E j \in DOMAIN events : IsLastOfStream(j) /\ events[j] = events'[i]
<1>1. /\ events' \in Seq(ReplyEvents) /\ Len(events) \in Nat /\ Len(events) > 0
      /\ Len(events') = Len(events) - 1 /\ The = events[1] /\ The \in ReplyEvents
      /\ \A i \in 1..Len(events') : events'[i] = events[i + 1]
  BY HeadTailProperties, LenProperties, EmptySeq DEF The
<1>2. DOMAIN events = 1..Len(events) /\ DOMAIN events' = 1..Len(events')
  BY <1>1
<1>3. 1 \in DOMAIN events
  BY <1>1, <1>2
<1>4. \A i \in DOMAIN events' :
         i \in Nat /\ i + 1 \in DOMAIN events /\ events'[i] = events[i + 1] /\ 1 < i + 1
  BY <1>1, <1>2
<1>5. \A i \in DOMAIN events : i \in Nat /\ (i = 1 \/ (i - 1 \in DOMAIN events' /\ events'[i - 1] = events[i]))
  <2> SUFFICES ASSUME NEW i \in DOMAIN events, i # 1
               PROVE  i \in Nat /\ i - 1 \in DOMAIN events' /\ events'[i - 1] = events[i]
    BY <1>2
  <2> QED
    BY <1>1, <1>2
<1>6. OrderInv'
  <2> SUFFICES ASSUME NEW a \in ReplyEvents, NEW b \in ReplyEvents, InOrder(a, b)'
               PROVE  Follows(a, b)
    BY DEF OrderInv, Follows
  <2>1. PICK i, j \in DOMAIN events' : i < j /\ events'[i] = a /\ events'[j] = b
    BY DEF InOrder
  <2>2. i + 1 < j + 1
    BY <1>4, <2>1
  <2> QED
    BY <1>4, <2>1, <2>2 DEF OrderInv, InOrder
<1>7. ASSUME NEW e \in ReplyEvents, Queued(e)'
      PROVE  Queued(e) /\ Follows(The, e)
  <2>1. PICK i \in DOMAIN events' : events'[i] = e
    BY <1>7 DEF Queued
  <2> QED
    BY <1>1, <1>3, <1>4, <2>1 DEF OrderInv, InOrder, Queued
<1>8. \A e \in ReplyEvents : Queued(e) => e = The \/ Queued(e)'
  BY <1>1, <1>5 DEF Queued
<1>9. ASSUME NEW i \in DOMAIN events', IsLastOfStream(i)'
      PROVE  IsLastOfStream(i + 1) /\ events[i + 1] = events'[i]
  <2> SUFFICES ASSUME NEW j \in DOMAIN events, j > i + 1
               PROVE  events[j].type \notin Streams
    BY <1>4, <1>9 DEF IsLastOfStream
  <2>1. j # 1 /\ j - 1 > i
    BY <1>4, <1>5
  <2> QED
    BY <1>5, <1>9, <2>1 DEF IsLastOfStream
<1> QED
  BY <1>1, <1>3, <1>4, <1>6, <1>7, <1>8, <1>9 DEF Queued

\* The run, or a tool's task, adds an event.
LEMMA QueuePut ==
    ASSUME events \in Seq(ReplyEvents), OrderInv, NEW e \in ReplyEvents,
           events' = events \o <<e>>,
           \A a \in ReplyEvents : Queued(a) => Follows(a, e)
    PROVE  /\ events' \in Seq(ReplyEvents) /\ OrderInv'
           /\ \A a \in ReplyEvents : Queued(a)' <=> Queued(a) \/ a = e
           /\ \A i \in DOMAIN events' : IsLastOfStream(i)' =>
                 \/ e.type \in Streams /\ events'[i] = e
                 \/ \E j \in DOMAIN events : IsLastOfStream(j) /\ events[j] = events'[i]
<1> DEFINE last == Len(events) + 1
<1>1. <<e>> \in Seq(ReplyEvents) /\ Len(<<e>>) = 1 /\ <<e>>[1] = e
  OBVIOUS
<1>2. /\ events' \in Seq(ReplyEvents) /\ Len(events) \in Nat
      /\ Len(events') = Len(events) + 1
      /\ \A i \in 1..Len(events) : events'[i] = events[i]
      /\ events'[last] = e
  BY <1>1, ConcatProperties, LenProperties
<1>3. DOMAIN events = 1..Len(events) /\ DOMAIN events' = 1..Len(events')
  BY <1>2
<1>4. /\ last \in DOMAIN events' /\ last \notin DOMAIN events
      /\ \A i \in DOMAIN events' : i = last \/ (i \in DOMAIN events /\ i < last)
      /\ \A i \in DOMAIN events : i \in DOMAIN events' /\ events'[i] = events[i]
      /\ \A i \in DOMAIN events' : ~(last < i)
  BY <1>2, <1>3
<1> HIDE DEF last
<1>5. \A a \in ReplyEvents : Queued(a)' <=> Queued(a) \/ a = e
  BY <1>2, <1>4 DEF Queued
<1>6. OrderInv'
  <2> SUFFICES ASSUME NEW a \in ReplyEvents, NEW b \in ReplyEvents, InOrder(a, b)'
               PROVE  Follows(a, b)
    BY DEF OrderInv, Follows
  <2>1. PICK i, j \in DOMAIN events' : i < j /\ events'[i] = a /\ events'[j] = b
    BY DEF InOrder
  <2>2. i # last /\ i \in DOMAIN events /\ events[i] = a
    BY <1>4, <2>1
  <2>3. CASE j = last
    BY <1>2, <2>1, <2>2, <2>3 DEF Queued
  <2>4. CASE j # last
    BY <1>4, <2>1, <2>2, <2>4 DEF OrderInv, InOrder
  <2> QED
    BY <2>3, <2>4
<1>7. ASSUME NEW i \in DOMAIN events', IsLastOfStream(i)'
      PROVE  \/ e.type \in Streams /\ events'[i] = e
             \/ i \in DOMAIN events /\ IsLastOfStream(i) /\ events[i] = events'[i]
  BY <1>2, <1>4, <1>7 DEF IsLastOfStream
<1> QED
  BY <1>2, <1>4, <1>5, <1>6, <1>7

\* Two events at once.
LEMMA QueuePutTwo ==
    ASSUME events \in Seq(ReplyEvents), OrderInv, NEW e \in ReplyEvents, NEW f \in ReplyEvents,
           events' = events \o <<e, f>>, Follows(e, f),
           e.type \notin Streams, f.type \notin Streams,
           \A a \in ReplyEvents : Queued(a) => Follows(a, e) /\ Follows(a, f)
    PROVE  /\ events' \in Seq(ReplyEvents) /\ OrderInv'
           /\ \A a \in ReplyEvents : Queued(a)' <=> Queued(a) \/ a = e \/ a = f
           /\ \A i \in DOMAIN events' : IsLastOfStream(i)' =>
                 \E j \in DOMAIN events : IsLastOfStream(j) /\ events[j] = events'[i]
<1> DEFINE one == Len(events) + 1
           two == Len(events) + 2
<1>1. <<e, f>> \in Seq(ReplyEvents) /\ Len(<<e, f>>) = 2 /\ <<e, f>>[1] = e /\ <<e, f>>[2] = f
  OBVIOUS
<1>2. /\ events' \in Seq(ReplyEvents) /\ Len(events) \in Nat
      /\ Len(events') = Len(events) + 2
      /\ \A i \in 1..Len(events) : events'[i] = events[i]
      /\ events'[one] = e /\ events'[two] = f
  BY <1>1, ConcatProperties, LenProperties
<1>3. DOMAIN events = 1..Len(events) /\ DOMAIN events' = 1..Len(events')
  BY <1>2
<1>4. /\ one \in DOMAIN events' /\ two \in DOMAIN events' /\ one < two
      /\ \A i \in DOMAIN events' : i = one \/ i = two \/ (i \in DOMAIN events /\ i < one)
      /\ \A i \in DOMAIN events : i \in DOMAIN events' /\ events'[i] = events[i] /\ i < one
      /\ \A i \in DOMAIN events' : ~(two < i) /\ (one < i => i = two)
  BY <1>2, <1>3
<1> HIDE DEF one, two
<1>5. \A a \in ReplyEvents : Queued(a)' <=> Queued(a) \/ a = e \/ a = f
  BY <1>2, <1>4 DEF Queued
<1>6. OrderInv'
  <2> SUFFICES ASSUME NEW a \in ReplyEvents, NEW b \in ReplyEvents, InOrder(a, b)'
               PROVE  Follows(a, b)
    BY DEF OrderInv, Follows
  <2>1. PICK i, j \in DOMAIN events' : i < j /\ events'[i] = a /\ events'[j] = b
    BY DEF InOrder
  <2>2. CASE i = one
    BY <1>2, <1>4, <2>1, <2>2
  <2>3. CASE i # one
    <3>1. i \in DOMAIN events /\ events[i] = a
      BY <1>4, <2>1, <2>3
    <3>2. CASE j \in {one, two}
      BY <1>2, <2>1, <3>1, <3>2 DEF Queued
    <3>3. CASE j \notin {one, two}
      BY <1>4, <2>1, <3>1, <3>3 DEF OrderInv, InOrder
    <3> QED
      BY <3>2, <3>3
  <2> QED
    BY <2>2, <2>3
<1>7. ASSUME NEW i \in DOMAIN events', IsLastOfStream(i)'
      PROVE  i \in DOMAIN events /\ IsLastOfStream(i) /\ events[i] = events'[i]
  BY <1>2, <1>4, <1>7 DEF IsLastOfStream
<1> QED
  BY <1>2, <1>4, <1>5, <1>6, <1>7
-----------------------------------------------------------------------------
(* Replies: what an action leaves alone *)

OfSummary == Streams \cup {"summary_done", "result", "cancelled"}

\* Other events come and go, and the summary is where it was.
LEMMA SummaryUntouched ==
    ASSUME ReplyTypeOK, SummaryInv,
           \A e \in ReplyEvents : e.type \in OfSummary => (Queued(e)' <=> Queued(e)),
           \A i \in DOMAIN events' : IsLastOfStream(i)' =>
              \E j \in DOMAIN events : IsLastOfStream(j) /\ events[j] = events'[i],
           UNCHANGED <<summary_attempt, sumVars>>,
           \/ runner' = runner
           \/ runner \in {"idle", "asking"} /\ runner' \in {"idle", "asking", "executed"}
    PROVE  SummaryInv'
<1>1. \A type \in OfSummary : IsQueued(type)' <=> IsQueued(type)
  BY DEF IsQueued
<1>2. WholeIsQueued' <=> WholeIsQueued
  BY DEF WholeIsQueued, OfSummary, Streams
<1>3. \A e \in ReplyEvents : Queued(e)' => SummaryEventOK(e)'
  <2> SUFFICES ASSUME NEW e \in ReplyEvents, Queued(e)'
               PROVE  SummaryEventOK(e)'
    OBVIOUS
  <2>1. CASE e.type \in OfSummary
    <3>1. SummaryEventOK(e)
      BY <2>1 DEF SummaryInv
    <3> QED
      BY <1>1, <3>1 DEF SummaryEventOK, OfSummary, sumVars
  <2>2. CASE e.type \notin OfSummary
    BY <2>2 DEF SummaryEventOK, OfSummary, Streams
  <2> QED
    BY <2>1, <2>2
<1>4. \A i \in DOMAIN events' : IsLastOfStream(i)' => Tells(events'[i], summary_attempt'.text)
  BY DEF SummaryInv
<1>5. /\ IsQueued("summary_done")' <=> IsQueued("summary_done")
      /\ IsQueued("result")' <=> IsQueued("result")
      /\ IsQueued("summary_reset")' <=> IsQueued("summary_reset")
      /\ IsQueued("summary_text")' <=> IsQueued("summary_text")
  BY <1>1 DEF OfSummary, Streams
<1> QED
  BY <1>2, <1>3, <1>4, <1>5 DEF SummaryInv, sumVars

\* The uses are where they were, and the new events are of none.
LEMMA UsesUntouched ==
    ASSUME ReplyTypeOK, UsesInv,
           \A e \in ReplyEvents : Queued(e)' =>
              \/ Queued(e)
              \/ /\ e.use = 0 /\ e.type \notin OfUses
                 /\ e.type \in Asking \cup Stops => ~stopped
                 /\ e.type \in Stops => runner' \in {"executed", "over"},
           UNCHANGED <<reply_use, actions, offload, widgetVars2, orphans, stopped>>,
           runner \in {"executed", "over"} => runner' \in {"executed", "over"},
           NothingIsLeftOfTheRun'
    PROVE  UsesInv'
<1>1. \A u : (Shown(u)' <=> Shown(u)) /\ (Pressed(u)' <=> Pressed(u)) /\ (Known(u)' <=> Known(u))
  BY DEF Shown, Pressed, Known, widgetVars2
<1>2. ASSUME NEW e \in ReplyEvents, Queued(e)'
      PROVE  UseEventOK(e)'
  <2>1. CASE Queued(e)
    <3>1. UseEventOK(e)
      BY <2>1 DEF UsesInv
    <3> QED
      BY <1>1, <3>1 DEF UseEventOK, ReplyTypeOK
  <2>2. CASE ~Queued(e)
    BY <1>2, <2>2 DEF UseEventOK, OfUses
  <2> QED
    BY <2>1, <2>2
<1>3. runner' \in {"idle", "asking"} => ~stopped'
  BY DEF UsesInv, ReplyTypeOK
<1> QED
  BY <1>1, <1>2, <1>3 DEF UsesInv, RepliesStayWithTheirCombo, widgetVars2
-----------------------------------------------------------------------------
(* Replies: the run *)

\* Nothing asks, stops or sums up twice: what an event finds in the queue.
LEMMA BehindWhatIsQueued ==
    ASSUME ReplyInv, NEW e \in ReplyEvents, e.use = 0,
           e.type \in Asking \cup Stops => runner \in {"idle", "asking"},
           e.type \in Streams =>
              runner \in {"idle", "asking", "executed"} /\ summary_attempt.text # "whole",
           e.type = "summary_done" => runner # "over"
    PROVE  \A a \in ReplyEvents : Queued(a) => Follows(a, e)
<1> SUFFICES ASSUME NEW a \in ReplyEvents, Queued(a)
             PROVE  Follows(a, e)
  OBVIOUS
<1>1. UseEventOK(a) /\ SummaryEventOK(a)
  BY DEF ReplyInv, UsesInv, SummaryInv
<1> QED
  BY <1>1 DEF Follows, UseEventOK, SummaryEventOK

\* The run says something, and goes on.
LEMMA RunTalks ==
    ASSUME ReplyInv, NEW e \in ReplyEvents, e.type \in {"prompt", "error"}, e.use = 0,
           runner \in {"idle", "asking"}, runner' \in {"idle", "asking"},
           events' = events \o <<e>>, asked' \in BOOLEAN, schemas' \in BOOLEAN,
           UNCHANGED <<reply_use, summary_attempt, chatOnly>>
    PROVE  ReplyInv'
<1> USE DEF ReplyInv
<1>1. \A a \in ReplyEvents : Queued(a) => Follows(a, e)
  BY BehindWhatIsQueued DEF Asking, Stops, Streams
<1>2. /\ events' \in Seq(ReplyEvents) /\ OrderInv'
      /\ \A a \in ReplyEvents : Queued(a)' <=> Queued(a) \/ a = e
      /\ \A i \in DOMAIN events' : IsLastOfStream(i)' =>
            \/ e.type \in Streams /\ events'[i] = e
            \/ \E j \in DOMAIN events : IsLastOfStream(j) /\ events[j] = events'[i]
  BY <1>1, QueuePut DEF ReplyTypeOK
<1>3. ReplyTypeOK'
  BY <1>2 DEF ReplyTypeOK, chatOnly, chatVars3, widgetVars2, sumVars
<1>4. SummaryInv'
  <2>1. e.type \notin OfSummary
    BY DEF OfSummary, Streams
  <2> QED
    BY <1>2, <2>1, SummaryUntouched DEF OfSummary, chatOnly
<1>5. UsesInv'
  <2>1. NothingIsLeftOfTheRun'
    BY DEF UsesInv, NothingIsLeftOfTheRun, chatOnly, chatVars3, widgetVars2
  <2>2. e.type \notin OfUses \cup Stops /\ ~stopped
    BY DEF OfUses, Stops, UsesInv
  <2> QED
    BY <1>2, <2>1, <2>2, UsesUntouched DEF chatOnly, chatVars3
<1> QED
  BY <1>2, <1>3, <1>4, <1>5

\* Nothing of what the invariant speaks of changes.
LEMMA NothingMoves ==
    ASSUME ReplyInv, runner' = runner \/ {runner, runner'} \subseteq {"idle", "asking"},
           asked' \in BOOLEAN, schemas' \in BOOLEAN,
           UNCHANGED <<reply_use, summary_attempt, events, actions, sock, offload,
                       pending_actions, widgetVars2, sumVars, orphans, stopped>>
    PROVE  ReplyInv'
<1> USE DEF ReplyInv
<1>1. /\ OrderInv' /\ \A a : Queued(a)' <=> Queued(a)
      /\ \A i : IsLastOfStream(i)' <=> IsLastOfStream(i)
      /\ DOMAIN events' = DOMAIN events
      /\ \A i \in DOMAIN events : IsLastOfStream(i) => events[i] = events'[i]
  BY DEF OrderInv, InOrder, Queued, IsLastOfStream
<1>2. ReplyTypeOK'
  BY DEF ReplyTypeOK, widgetVars2, sumVars
<1>3. SummaryInv'
  BY <1>1, SummaryUntouched
<1>4. NothingIsLeftOfTheRun'
  BY DEF UsesInv, NothingIsLeftOfTheRun, widgetVars2
<1>5. UsesInv'
  BY <1>1, <1>4, UsesUntouched
<1> QED
  BY <1>1, <1>2, <1>3, <1>5

LEMMA EventTypesAre ==
    /\ \A type \in {"executed", "cancelled", "error", "summary_reset", "summary_done",
                    "result"} :
          /\ Event(type, 0) \in ReplyEvents
          /\ Event(type, 0).type = type /\ Event(type, 0).use = 0
    /\ \A type \in OfUses, u \in Replies :
          /\ Event(type, u) \in ReplyEvents
          /\ Event(type, u).type = type /\ Event(type, u).use = u
    /\ \A type \in {"prompt", "summary_text"}, on \in BOOLEAN :
          /\ EventOn(type, on) \in ReplyEvents
          /\ EventOn(type, on).type = type /\ EventOn(type, on).use = 0
          /\ EventOn(type, on).on = on
<1>1. \A type : type \in EventTypes => \A u \in Replies \cup {0} : Event(type, u) \in ReplyEvents
  BY DEF Event, ReplyEvents
<1>2. \A type : type \in EventTypes => \A on \in BOOLEAN : EventOn(type, on) \in ReplyEvents
  BY DEF EventOn, ReplyEvents
<1> QED
  BY <1>1, <1>2 DEF Event, EventOn, EventTypes, Asking, Stops, Streams, OfUses

\* coco ask, the model's talk, its failure, and what the user says to it
LEMMA RunSpeaks ==
    ASSUME ReplyInv, ScriptAsks \/ RunnerPauses \/ RunnerFails \/ RunnerHearsFeedback
    PROVE  ReplyInv'
<1> DEFINE e(on) == EventOn("prompt", on)
<1>1. /\ e(TRUE) \in ReplyEvents /\ e(TRUE).type = "prompt" /\ e(TRUE).use = 0
      /\ e(FALSE) \in ReplyEvents /\ e(FALSE).type = "prompt" /\ e(FALSE).use = 0
      /\ Event("error", 0) \in ReplyEvents
      /\ Event("error", 0).type = "error" /\ Event("error", 0).use = 0
  BY EventTypesAre
<1>2. asked \in BOOLEAN /\ schemas \in BOOLEAN /\ events \in Seq(ReplyEvents)
  BY DEF ReplyInv, ReplyTypeOK
<1> HIDE DEF e
<1>3. CASE ScriptAsks
  BY <1>1, <1>2, <1>3, RunTalks DEF ScriptAsks, Emit, e
<1>4. CASE RunnerFails
  BY <1>1, <1>2, <1>4, RunTalks DEF RunnerFails, Emit
<1>5. CASE RunnerHearsFeedback
  BY <1>1, <1>2, <1>5, RunTalks DEF RunnerHearsFeedback, Emit, e
<1>6. CASE RunnerPauses
  <2>1. \/ events' = events \o <<>>
        \/ events' = events \o <<e(TRUE)>>
    BY <1>6 DEF RunnerPauses, Emit, e
  <2>2. events \o <<>> = events
    BY <1>2
  <2>3. CASE events' = events
    BY <1>2, <1>6, <2>3, NothingMoves DEF RunnerPauses, chatOnly, chatVars3
  <2>4. CASE events' = events \o <<e(TRUE)>>
    BY <1>1, <1>2, <1>6, <2>4, RunTalks DEF RunnerPauses
  <2> QED
    BY <2>1, <2>2, <2>3, <2>4
<1> QED
  BY <1>3, <1>4, <1>5, <1>6
\* A tool use is announced, or is run: nothing was said of it before.
LEMMA UseIsTold ==
    ASSUME ReplyTypeOK, UsesInv, NEW u \in Replies, NEW x \in {"proposed", "done"},
           reply_use[u] \in {"new", "granted"}, reply_use' = [reply_use EXCEPT ![u] = x],
           \A e \in ReplyEvents : Queued(e)' =>
              \/ Queued(e)
              \/ /\ e.use = u /\ e.type \in OfUses
                 /\ e.type \in Asking => ~stopped
                 /\ IF e.type = "confirm" THEN x = "proposed" ELSE x = "done"
                 /\ e.type = "ran" => Known(u),
           runner' = runner \/ {runner, runner'} \subseteq {"idle", "asking"},
           UNCHANGED <<actions, chatVars3, widgetVars2, orphans, stopped>>
    PROVE  UsesInv'
<1>1. \A v : (Shown(v)' <=> Shown(v)) /\ (Pressed(v)' <=> Pressed(v)) /\ (Known(v)' <=> Known(v))
  BY DEF Shown, Pressed, Known, chatVars3, widgetVars2
<1>2. /\ reply_use' \in [Replies -> {"new", "proposed", "granted", "done"}]
      /\ reply_use'[u] = x /\ \A v \in Replies : v # u => reply_use'[v] = reply_use[v]
  BY DEF ReplyTypeOK
<1>3. u # 0
  BY ReplyAssumption
<1>4. ~Shown(u) /\ ~Pressed(u)
  BY DEF UsesInv, Pressed
<1>5. \A e \in ReplyEvents : Queued(e) => UseEventOK(e) /\ e.use # u
  BY <1>3 DEF UsesInv, UseEventOK, OfUses
<1>6. ASSUME NEW e \in ReplyEvents, Queued(e)'
      PROVE  UseEventOK(e)'
  <2>1. CASE Queued(e)
    <3>1. UseEventOK(e) /\ e.use # u
      BY <1>5, <2>1
    <3>2. e.use # 0 => e.use \in Replies
      BY DEF ReplyEvents
    <3>3. e.type \in OfUses => reply_use'[e.use] = reply_use[e.use]
      BY <1>2, <3>1, <3>2 DEF UseEventOK
    <3> QED
      BY <1>1, <3>1, <3>3 DEF UseEventOK, OfUses
  <2>2. CASE ~Queued(e)
    BY <1>1, <1>2, <1>3, <1>4, <1>6, <2>2 DEF UseEventOK, OfUses, Stops
  <2> QED
    BY <2>1, <2>2
<1>7. \A n \in DOMAIN actions : actions[n].use \in Replies /\ actions[n].use # u
  <2>1. \A n \in DOMAIN actions : actions[n] \in ReplyActions
    BY ElementOfSeq, LenProperties DEF ReplyTypeOK
  <2> QED
    BY <1>4, <2>1 DEF Pressed, ReplyActions
<1>8. /\ \A n \in DOMAIN actions' :
            /\ reply_use'[actions'[n].use] = "proposed"
            /\ Known(actions[n].use)' /\ ~Shown(actions[n].use)'
      /\ \A m, n \in DOMAIN actions' : actions'[m].use = actions'[n].use => m = n
  BY <1>1, <1>2, <1>7 DEF UsesInv
<1>9. /\ \A v \in Replies : Shown(v)' => reply_use'[v] = "proposed" /\ v \in offload'
      /\ \A v \in Replies : reply_use'[v] = "granted" => Known(v)'
  BY <1>1, <1>2, <1>4 DEF UsesInv, chatVars3
<1>10. RepliesStayWithTheirCombo' /\ NothingIsLeftOfTheRun'
  BY DEF UsesInv, RepliesStayWithTheirCombo, NothingIsLeftOfTheRun, chatVars3, widgetVars2
<1>11. runner' \in {"idle", "asking"} => ~stopped'
  BY DEF UsesInv
<1> QED
  BY <1>6, <1>8, <1>9, <1>10, <1>11 DEF UsesInv

\* What is said of a use is the first that is said of it.
LEMMA BehindNothingOfTheUse ==
    ASSUME ReplyTypeOK, UsesInv, SummaryInv, NEW u \in Replies, NEW e \in ReplyEvents,
           reply_use[u] \in {"new", "granted"}, e.use = u, e.type \in OfUses,
           e.type \in Asking => runner \in {"idle", "asking"}
    PROVE  \A a \in ReplyEvents : Queued(a) => Follows(a, e)
<1> SUFFICES ASSUME NEW a \in ReplyEvents, Queued(a)
             PROVE  Follows(a, e)
  OBVIOUS
<1>1. UseEventOK(a) /\ u # 0
  BY ReplyAssumption DEF UsesInv
<1>2. a.use # u
  BY <1>1 DEF UseEventOK, OfUses
<1> QED
  BY <1>1, <1>2 DEF Follows, UseEventOK, OfUses, Stops, Streams

LEMMA ReplyWasProposed ==
    ASSUME ReplyInv, NEW u \in Replies, RunnerProposes(u)
    PROVE  ReplyInv'
<1> USE DEF ReplyInv
<1> DEFINE e == Event("confirm", u)
<1>1. e \in ReplyEvents /\ e.type = "confirm" /\ e.use = u
  BY EventTypesAre DEF OfUses
<1>2. /\ runner = "asking" /\ runner' = "idle" /\ reply_use[u] = "new"
      /\ reply_use' = [reply_use EXCEPT ![u] = "proposed"]
      /\ events' = events \o <<e>>
      /\ UNCHANGED <<asked, schemas, summary_attempt, actions, chatVars3, widgetVars2, sumVars,
                     orphans, stopped>>
  BY DEF RunnerProposes, New, Emit, chatOnly
<1> HIDE DEF e
<1>3. ~stopped
  BY <1>2 DEF UsesInv
<1>4. \A a \in ReplyEvents : Queued(a) => Follows(a, e)
  BY <1>1, <1>2, BehindNothingOfTheUse DEF OfUses
<1>5. /\ events' \in Seq(ReplyEvents) /\ OrderInv'
      /\ \A a \in ReplyEvents : Queued(a)' <=> Queued(a) \/ a = e
      /\ \A i \in DOMAIN events' : IsLastOfStream(i)' =>
            \E j \in DOMAIN events : IsLastOfStream(j) /\ events[j] = events'[i]
  BY <1>1, <1>2, <1>4, QueuePut DEF ReplyTypeOK, Streams
<1>6. ReplyTypeOK'
  BY <1>2, <1>5 DEF ReplyTypeOK, chatVars3, widgetVars2, sumVars
<1>7. SummaryInv'
  BY <1>1, <1>2, <1>5, SummaryUntouched DEF OfSummary, Streams
<1>8. UsesInv'
  <2>1. \A a \in ReplyEvents : Queued(a)' =>
              \/ Queued(a)
              \/ /\ a.use = u /\ a.type \in OfUses /\ ~stopped
                 /\ a.type = "confirm"
    BY <1>1, <1>3, <1>5 DEF OfUses
  <2> QED
    BY <1>2, <2>1, UseIsTold
<1> QED
  BY <1>5, <1>6, <1>7, <1>8

LEMMA ReplyRanIsTold ==
    ASSUME ReplyInv, NEW u \in Replies, ReplyRuns(u)
    PROVE  ReplyInv'
<1> USE DEF ReplyInv
<1> DEFINE e == Event("ran", u)
<1>1. e \in ReplyEvents /\ e.type = "ran" /\ e.use = u
  BY EventTypesAre DEF OfUses
<1>2. /\ reply_use[u] = "granted" /\ runner' = runner /\ asked' \in BOOLEAN
      /\ reply_use' = [reply_use EXCEPT ![u] = "done"]
      /\ events' = events \o <<e>>
      /\ UNCHANGED <<schemas, summary_attempt, actions, chatVars3, widgetVars2, sumVars,
                     orphans, stopped>>
  BY DEF ReplyRuns, Emit, chatOnly, ReplyTypeOK
<1> HIDE DEF e
<1>3. Known(u)
  BY <1>2 DEF UsesInv
<1>4. \A a \in ReplyEvents : Queued(a) => Follows(a, e)
  BY <1>1, <1>2, BehindNothingOfTheUse DEF OfUses, Asking
<1>5. /\ events' \in Seq(ReplyEvents) /\ OrderInv'
      /\ \A a \in ReplyEvents : Queued(a)' <=> Queued(a) \/ a = e
      /\ \A i \in DOMAIN events' : IsLastOfStream(i)' =>
            \E j \in DOMAIN events : IsLastOfStream(j) /\ events[j] = events'[i]
  BY <1>1, <1>2, <1>4, QueuePut DEF ReplyTypeOK, Streams
<1>6. ReplyTypeOK'
  BY <1>2, <1>5 DEF ReplyTypeOK, chatVars3, widgetVars2, sumVars
<1>7. SummaryInv'
  BY <1>1, <1>2, <1>5, SummaryUntouched DEF OfSummary, Streams
<1>8. UsesInv'
  <2>1. \A a \in ReplyEvents : Queued(a)' =>
              \/ Queued(a)
              \/ a.use = u /\ a.type = "ran" /\ Known(u)
    BY <1>1, <1>3, <1>5
  <2> QED
    BY <1>2, <2>1, UseIsTold DEF OfUses, Asking
<1> QED
  BY <1>5, <1>6, <1>7, <1>8

LEMMA OtherToolIsRun ==
    ASSUME ReplyInv, NEW u \in Replies, RunnerExecutes(u)
    PROVE  ReplyInv'
<1> USE DEF ReplyInv
<1> DEFINE e == Event("tool_use", u)
           f == Event("tool_result", u)
<1>1. /\ e \in ReplyEvents /\ e.type = "tool_use" /\ e.use = u
      /\ f \in ReplyEvents /\ f.type = "tool_result" /\ f.use = u
  BY EventTypesAre DEF OfUses
<1>2. /\ runner = "asking" /\ runner' = runner /\ reply_use[u] = "new"
      /\ reply_use' = [reply_use EXCEPT ![u] = "done"]
      /\ events' = events \o <<e, f>>
      /\ UNCHANGED <<asked, schemas, summary_attempt, actions, chatVars3, widgetVars2, sumVars,
                     orphans, stopped>>
  BY DEF RunnerExecutes, New, Emit, chatOnly
<1> HIDE DEF e, f
<1>3. ~stopped
  BY <1>2 DEF UsesInv
<1>4. \A a \in ReplyEvents : Queued(a) => Follows(a, e) /\ Follows(a, f)
  BY <1>1, <1>2, BehindNothingOfTheUse DEF OfUses
<1>5. /\ events' \in Seq(ReplyEvents) /\ OrderInv'
      /\ \A a \in ReplyEvents : Queued(a)' <=> Queued(a) \/ a = e \/ a = f
      /\ \A i \in DOMAIN events' : IsLastOfStream(i)' =>
            \E j \in DOMAIN events : IsLastOfStream(j) /\ events[j] = events'[i]
  <2>1. Follows(e, f) /\ e.type \notin Streams /\ f.type \notin Streams
    BY <1>1 DEF Follows, Stops, Streams
  <2> QED
    BY <1>1, <1>2, <1>4, <2>1, QueuePutTwo DEF ReplyTypeOK
<1>6. ReplyTypeOK'
  BY <1>2, <1>5 DEF ReplyTypeOK, chatVars3, widgetVars2, sumVars
<1>7. SummaryInv'
  BY <1>1, <1>2, <1>5, SummaryUntouched DEF OfSummary, Streams
<1>8. UsesInv'
  <2>1. \A a \in ReplyEvents : Queued(a)' =>
              \/ Queued(a)
              \/ a.use = u /\ a.type \in {"tool_use", "tool_result"} /\ ~stopped
    BY <1>1, <1>3, <1>5
  <2> QED
    BY <1>2, <2>1, UseIsTold DEF OfUses
<1> QED
  BY <1>5, <1>6, <1>7, <1>8
LEMMA ScriptIsOver ==
    ASSUME ReplyInv, ScriptEnds
    PROVE  ReplyInv'
<1> USE DEF ReplyInv
<1> DEFINE e == Event("executed", 0)
<1>1. e \in ReplyEvents /\ e.type = "executed" /\ e.use = 0
  BY EventTypesAre
<1>2. /\ runner = "idle" /\ runner' = "executed" /\ events' = events \o <<e>>
      /\ UNCHANGED <<asked, schemas, reply_use, summary_attempt, actions, chatVars3,
                     widgetVars2, sumVars, orphans, stopped>>
  BY DEF ScriptEnds, Emit, chatOnly
<1> HIDE DEF e
<1>3. \A a \in ReplyEvents : Queued(a) => Follows(a, e)
  BY <1>1, <1>2, BehindWhatIsQueued DEF Streams
<1>4. /\ events' \in Seq(ReplyEvents) /\ OrderInv'
      /\ \A a \in ReplyEvents : Queued(a)' <=> Queued(a) \/ a = e
      /\ \A i \in DOMAIN events' : IsLastOfStream(i)' =>
            \E j \in DOMAIN events : IsLastOfStream(j) /\ events[j] = events'[i]
  BY <1>1, <1>2, <1>3, QueuePut DEF ReplyTypeOK, Streams
<1>5. ReplyTypeOK'
  BY <1>2, <1>4 DEF ReplyTypeOK, chatVars3, widgetVars2, sumVars
<1>6. SummaryInv'
  BY <1>1, <1>2, <1>4, SummaryUntouched DEF OfSummary, Streams
<1>7. UsesInv'
  <2>1. NothingIsLeftOfTheRun'
    BY <1>2 DEF UsesInv, NothingIsLeftOfTheRun, chatVars3, widgetVars2
  <2>2. ~stopped
    BY <1>2 DEF UsesInv
  <2> QED
    BY <1>1, <1>2, <1>4, <2>1, <2>2, UsesUntouched DEF OfUses, chatVars3
<1> QED
  BY <1>4, <1>5, <1>6, <1>7

\* A run that is over keeps the types of what the chat has, and of its queue.
LEMMA OverTypes ==
    ASSUME ReplyTypeOK, runner' \in {"idle", "asking", "executed", "over"}, asked' \in BOOLEAN,
           events' \in Seq(ReplyEvents), summary' \in BOOLEAN,
           summary_streaming' \in BOOLEAN, has_output' \in BOOLEAN, summaries' \in Nat,
           UNCHANGED <<schemas, reply_use, summary_attempt, actions, sock, offload>>,
           UNCHANGED <<pending_actions, starter_state, bash_tool_use, stopped>>
    PROVE  ReplyTypeOK'
<1>1. /\ schemas' \in BOOLEAN /\ sock' \in BOOLEAN /\ stopped' \in BOOLEAN
  BY DEF ReplyTypeOK
<1>2. /\ reply_use' \in [Replies -> {"new", "proposed", "granted", "done"}]
      /\ summary_attempt' \in [n : Nat, text : {"none", "part", "whole"}]
      /\ actions' \in Seq(ReplyActions)
  BY DEF ReplyTypeOK
<1>3. /\ offload' \in SUBSET Replies /\ pending_actions' \in SUBSET (Replies \cup {0})
      /\ starter_state' \in {"Discovering", "Executing", "AwaitingPermission", "Finalized",
                              "Cancelled"}
      /\ bash_tool_use' \in Replies \cup {0}
  BY DEF ReplyTypeOK
<1> QED
  BY <1>1, <1>2, <1>3 DEF ReplyTypeOK

\* No summary was begun, and the result is all that comes.
LEMMA CancelIsSeen ==
    ASSUME ReplyInv, RunnerSeesCancel
    PROVE  ReplyInv'
<1> USE DEF ReplyInv
<1> DEFINE e == Event("cancelled", 0)
           f == Event("result", 0)
<1>1. /\ e \in ReplyEvents /\ e.type = "cancelled" /\ e.use = 0
      /\ f \in ReplyEvents /\ f.type = "result" /\ f.use = 0
  BY EventTypesAre
<1>2. /\ runner \in {"idle", "asking"} /\ runner' = "over" /\ asked' = FALSE
      /\ events' = events \o <<e, f>>
      /\ UNCHANGED <<schemas, reply_use, summary_attempt, actions, chatVars3,
                     widgetVars2, sumVars, orphans, stopped>>
  BY DEF RunnerSeesCancel, Emit, chatOnly
<1> HIDE DEF e, f
<1>3. \A a \in ReplyEvents : Queued(a) => Follows(a, e) /\ Follows(a, f)
  BY <1>1, <1>2, BehindWhatIsQueued DEF Streams, Asking, Stops
<1>4. /\ events' \in Seq(ReplyEvents) /\ OrderInv'
      /\ \A a \in ReplyEvents : Queued(a)' <=> Queued(a) \/ a = e \/ a = f
      /\ \A i \in DOMAIN events' : IsLastOfStream(i)' =>
            \E j \in DOMAIN events : IsLastOfStream(j) /\ events[j] = events'[i]
  <2>1. Follows(e, f) /\ e.type \notin Streams /\ f.type \notin Streams
    BY <1>1 DEF Follows, Stops, Streams, Asking
  <2> QED
    BY <1>1, <1>2, <1>3, <2>1, QueuePutTwo DEF ReplyTypeOK
<1>5. ReplyTypeOK'
  <2>1. /\ runner' = "over" /\ asked' = FALSE /\ events' \in Seq(ReplyEvents)
        /\ UNCHANGED <<schemas, reply_use, summary_attempt, actions, sock, offload>>
        /\ UNCHANGED <<pending_actions, starter_state, bash_tool_use, stopped>>
        /\ UNCHANGED <<summary, summary_streaming, has_output, summaries>>
    BY <1>2, <1>4 DEF chatVars3, widgetVars2, sumVars
  <2>2. /\ summary \in BOOLEAN /\ summary_streaming \in BOOLEAN /\ has_output \in BOOLEAN
        /\ summaries \in Nat
    BY DEF ReplyTypeOK
  <2> QED
    BY <2>1, <2>2, OverTypes
<1>6. UsesInv'
  <2>1. NothingIsLeftOfTheRun'
    BY <1>2 DEF UsesInv, NothingIsLeftOfTheRun, chatVars3, widgetVars2
  <2>2. ~stopped
    BY <1>2 DEF UsesInv
  <2> QED
    BY <1>1, <1>2, <1>4, <2>1, <2>2, UsesUntouched DEF OfUses, chatVars3
<1>7. SummaryInv'
  <2>1. summary_attempt.n = 0 /\ summary_attempt.text = "none" /\ ~summary
    BY <1>2 DEF SummaryInv
  <2>2. \A a \in ReplyEvents : Queued(a) => a.type \notin OfSummary
    BY <1>2, <2>1 DEF SummaryInv, SummaryEventOK, OfSummary, Streams
  <2>3. \A a \in ReplyEvents : Queued(a)' => SummaryEventOK(a)'
    BY <1>1, <1>2, <1>4, <2>1, <2>2 DEF SummaryEventOK, OfSummary, Streams
  <2>4. \A i \in DOMAIN events' : ~IsLastOfStream(i)'
    <3> SUFFICES ASSUME NEW j \in DOMAIN events, IsLastOfStream(j)
                 PROVE  FALSE
      BY <1>4
    <3>1. events[j] \in ReplyEvents /\ Queued(events[j]) /\ events[j].type \in OfSummary
      BY ElementOfSeq, LenProperties DEF ReplyTypeOK, IsLastOfStream, OfSummary, Queued
    <3> QED
      BY <2>2, <3>1
  <2>5. IsQueued("result")'
    BY <1>1, <1>4 DEF IsQueued
  <2>6. ~WholeIsQueued' \/ summary_attempt'.text # "whole"
    BY <1>2, <2>1
  <2>7. UNCHANGED <<summary, summary_streaming, has_output, summaries, summary_attempt>>
    BY <1>2 DEF sumVars
  <2> QED
    BY <1>2, <2>1, <2>3, <2>4, <2>5, <2>6, <2>7 DEF SummaryInv
<1> QED
  BY <1>4, <1>5, <1>6, <1>7
-----------------------------------------------------------------------------
(* Replies: the summary is generated *)

\* Until the end of the stream is told the widget has none, and nothing of its end is queued.
LEMMA StreamGoesOn ==
    ASSUME ReplyInv, runner = "executed"
    PROVE  /\ ~summary /\ ~IsQueued("summary_done") /\ ~IsQueued("result")
           /\ ~IsQueued("cancelled")
  BY DEF ReplyInv, SummaryInv, IsQueued, SummaryEventOK

\* An event of the stream; it is the last one, and agrees with the attempt.
LEMMA StreamEvent ==
    ASSUME ReplyInv, runner = "executed", NEW e \in ReplyEvents, e.type \in Streams, e.use = 0,
           summary_attempt.text # "whole", events' = events \o <<e>>,
           summary_attempt' \in [n : Nat, text : {"none", "part", "whole"}],
           summary_attempt'.n > 0, Tells(e, summary_attempt'.text),
           UNCHANGED <<runner, asked, asks, schemas, tells, reply_use, run_cancelled, chatOnly>>
    PROVE  ReplyInv'
<1> USE DEF ReplyInv
<1>1. UNCHANGED <<runner, asked, schemas, reply_use, actions, chatVars3, widgetVars2, sumVars,
                  orphans, stopped>>
  BY DEF chatOnly
<1>2. \A a \in ReplyEvents : Queued(a) => Follows(a, e)
  BY BehindWhatIsQueued DEF Streams, Asking, Stops
<1>3. /\ events' \in Seq(ReplyEvents) /\ OrderInv'
      /\ \A a \in ReplyEvents : Queued(a)' <=> Queued(a) \/ a = e
      /\ \A i \in DOMAIN events' : IsLastOfStream(i)' =>
            \/ e.type \in Streams /\ events'[i] = e
            \/ \E j \in DOMAIN events : IsLastOfStream(j) /\ events[j] = events'[i]
  BY <1>2, QueuePut DEF ReplyTypeOK
<1>4. \A i \in DOMAIN events' : IsLastOfStream(i)' => events'[i] = e
  <2>1. e = events'[Len(events) + 1] /\ Len(events) + 1 \in DOMAIN events'
        /\ \A i \in DOMAIN events' : i \in Nat /\ i <= Len(events) + 1
    <3>1. <<e>> \in Seq(ReplyEvents) /\ Len(<<e>>) = 1 /\ <<e>>[1] = e
      OBVIOUS
    <3> QED
      BY <3>1, ConcatProperties, LenProperties DEF ReplyTypeOK
  <2>2. Len(events) + 1 \in Nat
    BY LenProperties DEF ReplyTypeOK
  <2>3. \A i \in DOMAIN events' : i # Len(events) + 1 => Len(events) + 1 > i
    BY <2>1, <2>2
  <2> QED
    BY <2>1, <2>3 DEF IsLastOfStream
<1>5. ReplyTypeOK'
  BY <1>1, <1>3 DEF ReplyTypeOK, chatVars3, widgetVars2, sumVars
<1>6. UsesInv'
  <2>1. NothingIsLeftOfTheRun'
    BY <1>1 DEF UsesInv, NothingIsLeftOfTheRun, chatVars3, widgetVars2
  <2>2. e.type \notin OfUses \cup Stops \cup Asking
    BY DEF OfUses, Stops, Asking, Streams
  <2> QED
    BY <1>1, <1>3, <2>1, <2>2, UsesUntouched DEF chatVars3
<1>7. SummaryInv'
  <2>1. /\ ~summary' /\ UNCHANGED <<summary_streaming, has_output, summaries>>
        /\ ~IsQueued("summary_done") /\ ~IsQueued("result") /\ ~IsQueued("cancelled")
        /\ summaries = 0
    BY <1>1, StreamGoesOn DEF SummaryInv, sumVars
  <2>2. \A a \in ReplyEvents : Queued(a) => a.type \notin {"summary_done", "result", "cancelled"}
                                         /\ ~(a.type = "summary_text" /\ a.on)
    BY <2>1 DEF IsQueued, SummaryInv, SummaryEventOK
  <2>3. \A a \in ReplyEvents : Queued(a)' =>
           a.type \notin {"summary_done", "result", "cancelled"}
    BY <1>3, <2>2 DEF Streams
  <2>4. \A a \in ReplyEvents : Queued(a)' /\ a.type = "summary_text" /\ a.on =>
           summary_attempt'.text = "whole"
    BY <1>3, <2>2 DEF Tells
  <2>5. \A a \in ReplyEvents : Queued(a)' => SummaryEventOK(a)'
    BY <1>1, <2>1, <2>3, <2>4 DEF SummaryEventOK
  <2>6. summary_attempt'.text = "whole" => WholeIsQueued'
    BY <1>3 DEF Tells, Streams, WholeIsQueued, ReplyEvents
  <2>7. IsQueued(e.type)'
    BY <1>3 DEF IsQueued
  <2>8. IsQueued("summary_reset")' \/ IsQueued("summary_text")'
    BY <2>7 DEF Streams
  <2> QED
    BY <1>1, <1>4, <2>1, <2>5, <2>6, <2>8 DEF SummaryInv
<1> QED
  BY <1>3, <1>5, <1>6, <1>7

LEMMA SummaryIsStreamed ==
    ASSUME ReplyInv, SummaryStarts \/ SummaryText
    PROVE  ReplyInv'
<1>1. summary_attempt \in [n : Nat, text : {"none", "part", "whole"}]
      /\ (summary_attempt.n = 0 => summary_attempt.text = "none")
  BY DEF ReplyInv, ReplyTypeOK, SummaryInv
<1>2. CASE SummaryStarts
  <2>1. /\ Event("summary_reset", 0) \in ReplyEvents
        /\ Event("summary_reset", 0).type = "summary_reset"
        /\ Event("summary_reset", 0).use = 0
    BY EventTypesAre
  <2>2. /\ runner = "executed" /\ summary_attempt.text # "whole"
        /\ summary_attempt' = [n |-> summary_attempt.n + 1, text |-> "none"]
        /\ events' = events \o <<Event("summary_reset", 0)>>
        /\ UNCHANGED <<runner, asked, asks, schemas, tells, reply_use, run_cancelled, chatOnly>>
    BY <1>1, <1>2 DEF SummaryStarts, Emit
  <2>3. /\ summary_attempt' \in [n : Nat, text : {"none", "part", "whole"}]
        /\ summary_attempt'.n > 0 /\ summary_attempt'.text = "none"
    BY <1>1, <2>2
  <2>4. Tells(Event("summary_reset", 0), summary_attempt'.text)
    BY <2>1, <2>3 DEF Tells
  <2> QED
    BY <2>1, <2>2, <2>3, <2>4, StreamEvent DEF Streams
<1>3. CASE SummaryText
  <2>1. PICK complete \in BOOLEAN :
          /\ summary_attempt' =
                [summary_attempt EXCEPT !.text = IF complete THEN "whole" ELSE "part"]
          /\ events' = events \o <<EventOn("summary_text", complete)>>
    BY <1>3 DEF SummaryText, Emit
  <2>2. /\ EventOn("summary_text", complete) \in ReplyEvents
        /\ EventOn("summary_text", complete).type = "summary_text"
        /\ EventOn("summary_text", complete).use = 0
        /\ EventOn("summary_text", complete).on = complete
    BY EventTypesAre
  <2>3. /\ runner = "executed" /\ summary_attempt.text # "whole" /\ summary_attempt.n > 0
        /\ UNCHANGED <<runner, asked, asks, schemas, tells, reply_use, run_cancelled, chatOnly>>
    BY <1>3 DEF SummaryText
  <2>4. /\ summary_attempt' \in [n : Nat, text : {"none", "part", "whole"}]
        /\ summary_attempt'.n > 0 /\ summary_attempt'.text = IF complete THEN "whole" ELSE "part"
    BY <1>1, <2>1, <2>3
  <2>5. Tells(EventOn("summary_text", complete), summary_attempt'.text)
    BY <2>2, <2>4 DEF Tells
  <2> QED
    BY <2>1, <2>2, <2>3, <2>4, <2>5, StreamEvent DEF Streams
<1> QED
  BY <1>2, <1>3

LEMMA SummaryIsDone ==
    ASSUME ReplyInv, SummaryDone
    PROVE  ReplyInv'
<1> USE DEF ReplyInv
<1> DEFINE e == Event("summary_done", 0)
           f == Event("result", 0)
<1>1. /\ e \in ReplyEvents /\ e.type = "summary_done" /\ e.use = 0
      /\ f \in ReplyEvents /\ f.type = "result" /\ f.use = 0
  BY EventTypesAre
<1>2. /\ runner = "executed" /\ runner' = "over" /\ events' = events \o <<e, f>>
      /\ UNCHANGED <<asked, schemas, reply_use, summary_attempt, actions, chatVars3,
                     widgetVars2, sumVars, orphans, stopped>>
  BY DEF SummaryDone, Emit, chatOnly
<1> HIDE DEF e, f
<1>3. \A a \in ReplyEvents : Queued(a) => Follows(a, e) /\ Follows(a, f)
  BY <1>1, <1>2, BehindWhatIsQueued DEF Streams, Asking, Stops
<1>4. /\ events' \in Seq(ReplyEvents) /\ OrderInv'
      /\ \A a \in ReplyEvents : Queued(a)' <=> Queued(a) \/ a = e \/ a = f
      /\ \A i \in DOMAIN events' : IsLastOfStream(i)' =>
            \E j \in DOMAIN events : IsLastOfStream(j) /\ events[j] = events'[i]
  <2>1. Follows(e, f) /\ e.type \notin Streams /\ f.type \notin Streams
    BY <1>1 DEF Follows, Stops, Streams, Asking
  <2> QED
    BY <1>1, <1>2, <1>3, <2>1, QueuePutTwo DEF ReplyTypeOK
<1>5. ReplyTypeOK'
  BY <1>2, <1>4 DEF ReplyTypeOK, chatVars3, widgetVars2, sumVars
<1>6. UsesInv'
  <2>1. NothingIsLeftOfTheRun'
    BY <1>2 DEF UsesInv, NothingIsLeftOfTheRun, chatVars3, widgetVars2
  <2>2. e.type \notin OfUses \cup Stops \cup Asking /\ f.type \notin OfUses \cup Stops \cup Asking
    BY <1>1 DEF OfUses, Stops, Asking
  <2> QED
    BY <1>1, <1>2, <1>4, <2>1, <2>2, UsesUntouched DEF chatVars3
<1>7. SummaryInv'
  <2>1. /\ ~summary' /\ UNCHANGED <<summary, summary_streaming, has_output, summaries>>
        /\ ~IsQueued("summary_done") /\ ~IsQueued("result") /\ ~IsQueued("cancelled")
    BY <1>2, StreamGoesOn DEF sumVars
  <2>2. IsQueued("summary_done")' /\ IsQueued("result")'
    BY <1>1, <1>4 DEF IsQueued
  <2>3. \A a \in ReplyEvents : Queued(a) => SummaryEventOK(a) /\ a.type # "cancelled"
    BY <2>1 DEF SummaryInv, IsQueued
  <2>4. \A a \in ReplyEvents : Queued(a)' => SummaryEventOK(a)'
    BY <1>1, <1>2, <1>4, <2>1, <2>2, <2>3 DEF SummaryEventOK, Streams
  <2>5. WholeIsQueued' <=> WholeIsQueued
    BY <1>1, <1>4 DEF WholeIsQueued
  <2>6. /\ IsQueued("summary_reset")' <=> IsQueued("summary_reset")
        /\ IsQueued("summary_text")' <=> IsQueued("summary_text")
    BY <1>1, <1>4 DEF IsQueued
  <2> QED
    BY <1>2, <1>4, <2>1, <2>2, <2>4, <2>5, <2>6 DEF SummaryInv
<1> QED
  BY <1>4, <1>5, <1>6, <1>7
-----------------------------------------------------------------------------
(* Replies: the chat handles an event *)

LEMMA EventTaken ==
    ASSUME ReplyInv, events # <<>>, events' = Tail(events)
    PROVE  /\ events' \in Seq(ReplyEvents) /\ OrderInv'
           /\ The \in ReplyEvents /\ UseEventOK(The) /\ SummaryEventOK(The)
           /\ \A e \in ReplyEvents : Queued(e)' => Queued(e) /\ Follows(The, e)
           /\ \A e \in ReplyEvents : Queued(e) => e = The \/ Queued(e)'
           /\ \A i \in DOMAIN events' : IsLastOfStream(i)' =>
                 \E j \in DOMAIN events : IsLastOfStream(j) /\ events[j] = events'[i]
  BY QueuePopped DEF ReplyInv, ReplyTypeOK, UsesInv, SummaryInv

\* An event that is not of the summary leaves the summary alone.
LEMMA SummaryWaits ==
    ASSUME ReplyInv, events # <<>>, events' = Tail(events), The.type \notin OfSummary,
           UNCHANGED <<runner, summary_attempt, sumVars>>
    PROVE  SummaryInv'
<1>1. \A e \in ReplyEvents : e.type \in OfSummary => (Queued(e)' <=> Queued(e))
  BY EventTaken
<1> QED
  BY <1>1, EventTaken, SummaryUntouched DEF ReplyInv

\* coco ask shows its prompt; a failure is told.
LEMMA PromptIsShown ==
    ASSUME ReplyInv, HandlePrompt \/ HandleReplyToolError
    PROVE  ReplyInv'
<1> USE DEF ReplyInv
<1>1. /\ events # <<>> /\ events' = Tail(events) /\ The.type \in {"prompt", "error"}
      /\ UNCHANGED <<runVars, actions, offload, widgetVars2, sumVars, orphans, stopped>>
      /\ \/ The.type = "prompt"
         \/ UNCHANGED <<sock, pending_actions>>
      /\ sock' \in BOOLEAN /\ pending_actions' \in SUBSET (Replies \cup {0})
  <2>1. sock \in BOOLEAN /\ pending_actions \in SUBSET (Replies \cup {0})
    BY DEF ReplyTypeOK
  <2>2. CASE HandlePrompt
    BY <2>1, <2>2 DEF HandlePrompt, Receives, The, Feedback
  <2>3. CASE HandleReplyToolError
    BY <2>1, <2>3 DEF HandleReplyToolError, Receives, The
  <2> QED
    BY <2>2, <2>3
<1>2. ReplyTypeOK'
  BY <1>1, EventTaken DEF ReplyTypeOK, runVars, widgetVars2, sumVars
<1>3. SummaryInv'
  BY <1>1, SummaryWaits DEF OfSummary, Streams, runVars
<1>4. NothingIsLeftOfTheRun'
  <2>1. The.type = "prompt" => ~stopped
    BY <1>1, EventTaken DEF UseEventOK, Asking
  <2> QED
    BY <1>1, <2>1 DEF UsesInv, NothingIsLeftOfTheRun, widgetVars2
<1>5. UsesInv'
  BY <1>1, <1>4, EventTaken, UsesUntouched DEF runVars
<1> QED
  BY <1>1, <1>2, <1>3, <1>5, EventTaken

\* The run ended: nothing is kept of it, and nothing that asks is behind.
LEMMA EndIsHeard ==
    ASSUME ReplyInv, HandleExecuted \/ HandleCancelled
    PROVE  ReplyInv'
<1> USE DEF ReplyInv
<1>1. /\ events # <<>> /\ events' = Tail(events) /\ The.type \in Stops
      /\ UNCHANGED <<runVars, actions, orphans>>
      /\ sock' = FALSE /\ pending_actions' = {} /\ offload' = {} /\ stopped' = TRUE
      /\ starter_state' \in {"Finalized", "Cancelled"} /\ bash_tool_use' = 0
  BY DEF HandleExecuted, HandleCancelled, Receives, The, Stops, forget_run, widget_ends
<1>2. \/ The.type = "executed" /\ UNCHANGED sumVars
      \/ /\ The.type = "cancelled" /\ UNCHANGED <<summary, summaries>>
         /\ summary_streaming' = FALSE /\ has_output' = FALSE
  BY DEF HandleExecuted, HandleCancelled, Receives, The
<1>3. ReplyTypeOK'
  <2>1. /\ summary' \in BOOLEAN /\ summary_streaming' \in BOOLEAN /\ has_output' \in BOOLEAN
        /\ summaries' \in Nat
    BY <1>2 DEF ReplyTypeOK, sumVars
  <2>2. events' \in Seq(ReplyEvents)
    BY <1>1, EventTaken
  <2> QED
    BY <1>1, <2>1, <2>2 DEF ReplyTypeOK, runVars
<1>4. runner \in {"executed", "over"} /\ ~stopped
  BY <1>1, EventTaken DEF UseEventOK
<1>5. UsesInv'
  <2>1. \A u : ~Shown(u)' /\ (Pressed(u)' <=> Pressed(u)) /\ Known(u)'
    BY <1>1 DEF Shown, Pressed, Known
  <2>2. \A e \in ReplyEvents : Queued(e)' =>
           UseEventOK(e) /\ e.type \notin Asking \cup Stops
    BY <1>1, EventTaken DEF UsesInv, Follows
  <2>3. \A e \in ReplyEvents : Queued(e)' => UseEventOK(e)'
    BY <1>1, <2>1, <2>2 DEF UseEventOK, runVars
  <2>4. NothingIsLeftOfTheRun'
    BY <1>1 DEF NothingIsLeftOfTheRun
  <2>5. runner' \notin {"idle", "asking"}
    BY <1>1, <1>4 DEF runVars
  <2> QED
    BY <1>1, <2>1, <2>3, <2>4, <2>5 DEF UsesInv, RepliesStayWithTheirCombo, runVars
<1>6. SummaryInv'
  <2>1. CASE The.type = "executed"
    BY <1>1, <1>2, <2>1, SummaryWaits DEF OfSummary, Streams, runVars
  <2>2. CASE The.type = "cancelled"
    <3>1. runner = "over" /\ summary_attempt.n = 0 /\ UNCHANGED <<runner, summary_attempt>>
      BY <1>1, <2>2, EventTaken DEF SummaryEventOK, runVars
    <3>2. \A e \in ReplyEvents : e.type # "cancelled" => (Queued(e)' <=> Queued(e))
      BY <1>1, <2>2, EventTaken
    <3>3. /\ IsQueued("summary_done")' <=> IsQueued("summary_done")
          /\ IsQueued("result")' <=> IsQueued("result")
          /\ WholeIsQueued' <=> WholeIsQueued
      BY <3>2 DEF IsQueued, WholeIsQueued
    <3>4. \A e \in ReplyEvents : Queued(e)' => SummaryEventOK(e)'
      <4> SUFFICES ASSUME NEW e \in ReplyEvents, Queued(e)'
                   PROVE  SummaryEventOK(e)'
        OBVIOUS
      <4>1. SummaryEventOK(e)
        BY <1>1, EventTaken DEF SummaryInv
      <4> QED
        BY <1>2, <2>2, <3>1, <3>3, <4>1 DEF SummaryEventOK
    <3>5. \A i \in DOMAIN events' : IsLastOfStream(i)' =>
             Tells(events'[i], summary_attempt'.text)
      BY <1>1, <3>1, EventTaken DEF SummaryInv
    <3>6. UNCHANGED <<summary, summaries>> /\ ~summary_streaming' /\ ~has_output'
      BY <1>2, <2>2
    <3> QED
      BY <3>1, <3>3, <3>4, <3>5, <3>6 DEF SummaryInv
  <2> QED
    BY <1>1, <2>1, <2>2 DEF Stops
<1> QED
  BY <1>1, <1>3, <1>5, <1>6, EventTaken
\* The chat forgets whose a tool use is when its end was told, and shows nothing new.
LEMMA UseIsOver ==
    ASSUME ReplyInv, events # <<>>, events' = Tail(events),
           The.type \in {"tool_use", "tool_result", "ran"},
           UNCHANGED <<runVars, actions, stopped>>,
           offload' \in {offload, offload \ {The.use}},
           \A v \in Replies : Shown(v)' => Shown(v),
           RepliesStayWithTheirCombo', NothingIsLeftOfTheRun'
    PROVE  UsesInv'
<1> USE DEF ReplyInv
<1> DEFINE u == The.use
<1>1. /\ The \in ReplyEvents /\ u \in Replies /\ reply_use[u] = "done"
      /\ \A e \in ReplyEvents : Queued(e)' => UseEventOK(e) /\ Follows(The, e)
  BY EventTaken DEF UsesInv, UseEventOK, OfUses, ReplyEvents
<1>2. /\ u # 0
      /\ \A v : Pressed(v)' <=> Pressed(v)
      /\ \A v : v # u => (Known(v)' <=> Known(v))
  BY ReplyAssumption, <1>1 DEF Pressed, Known
<1>3. UNCHANGED <<reply_use, runner, actions, stopped>>
  BY DEF runVars
<1>4. ASSUME NEW e \in ReplyEvents, Queued(e)'
      PROVE  UseEventOK(e)'
  <2>1. UseEventOK(e) /\ Follows(The, e)
    BY <1>1, <1>4
  <2>2. e.type = "ran" => e.use # u
    BY <1>2, <2>1 DEF Follows
  <2>3. e.use # 0 => e.use \in Replies
    BY DEF ReplyEvents
  <2> QED
    BY <1>2, <1>3, <2>1, <2>2, <2>3 DEF UseEventOK
<1>5. \A n \in DOMAIN actions : actions[n].use \in Replies /\ actions[n].use # u
  <2>1. \A n \in DOMAIN actions : actions[n] \in ReplyActions
    BY ElementOfSeq, LenProperties DEF ReplyTypeOK
  <2> QED
    BY <1>1, <2>1 DEF UsesInv, ReplyActions
<1>6. \A v \in Replies : Shown(v)' => reply_use'[v] = "proposed" /\ v \in offload'
  BY <1>1, <1>3 DEF UsesInv
<1>7. \A v \in Replies : reply_use'[v] = "granted" => Known(v)'
  BY <1>1, <1>2, <1>3 DEF UsesInv
<1>8. /\ \A n \in DOMAIN actions' :
            /\ reply_use'[actions'[n].use] = "proposed"
            /\ Known(actions[n].use)' /\ ~Shown(actions[n].use)'
      /\ \A m, n \in DOMAIN actions' : actions'[m].use = actions'[n].use => m = n
  BY <1>2, <1>3, <1>5 DEF UsesInv
<1> QED
  BY <1>3, <1>4, <1>6, <1>7, <1>8 DEF UsesInv

\* The model's reply is shown, to be decided, or another tool is.
LEMMA ToolUseIsShown ==
    ASSUME ReplyInv, HandleReplyToolUse
    PROVE  ReplyInv'
<1> USE DEF ReplyInv
<1> DEFINE u == The.use
<1>1. /\ events # <<>> /\ events' = Tail(events) /\ The.type \in {"confirm", "tool_use"}
      /\ UNCHANGED <<runVars, actions, sumVars, orphans, stopped>>
  BY DEF HandleReplyToolUse
<1>2. /\ The.type = "confirm" =>
            /\ offload' = offload \cup {u} /\ sock' = TRUE
            /\ pending_actions' = (pending_actions \ {0}) \cup {u}
            /\ bash_tool_use' = u /\ starter_state' = "AwaitingPermission"
      /\ The.type = "tool_use" =>
            /\ UNCHANGED <<offload, sock, pending_actions, starter_state>>
            /\ bash_tool_use' = 0
  BY DEF HandleReplyToolUse, push_offload_bash_tool_use, add_offload, Feedback
<1>3. /\ The \in ReplyEvents /\ UseEventOK(The) /\ u \in Replies /\ u # 0 /\ ~stopped
      /\ events' \in Seq(ReplyEvents) /\ OrderInv'
      /\ \A e \in ReplyEvents : Queued(e)' => UseEventOK(e) /\ Follows(The, e)
  BY <1>1, EventTaken, ReplyAssumption DEF UsesInv, UseEventOK, OfUses, ReplyEvents, Asking
<1>4. ReplyTypeOK'
  <2>1. CASE The.type = "confirm"
    BY <1>1, <1>2, <1>3, <2>1 DEF ReplyTypeOK, runVars, sumVars
  <2>2. CASE The.type = "tool_use"
    BY <1>1, <1>2, <1>3, <2>2 DEF ReplyTypeOK, runVars, sumVars
  <2> QED
    BY <1>1, <2>1, <2>2
<1>5. SummaryInv'
  BY <1>1, SummaryWaits DEF OfSummary, Streams, runVars
<1>6. NothingIsLeftOfTheRun' /\ RepliesStayWithTheirCombo'
  BY <1>1, <1>3 DEF NothingIsLeftOfTheRun, RepliesStayWithTheirCombo, UsesInv
<1>7. CASE The.type = "tool_use"
  <2>1. \A v \in Replies : ~Shown(v)'
    BY <1>2, <1>7, ReplyAssumption DEF Shown
  <2>2. UsesInv'
    BY <1>1, <1>2, <1>6, <1>7, <2>1, UseIsOver
  <2> QED
    BY <1>3, <1>4, <1>5, <2>2
<1>8. CASE The.type = "confirm"
  <2>1. /\ \A v : Shown(v)' <=> v = u
        /\ \A v : Pressed(v)' <=> Pressed(v)
        /\ \A v : Known(v) => Known(v)'
        /\ reply_use[u] = "proposed" /\ ~Pressed(u) /\ u \in offload'
        /\ UNCHANGED <<reply_use, runner, actions, stopped>>
    BY <1>1, <1>2, <1>3, <1>8 DEF Shown, Pressed, Known, UseEventOK, runVars
  <2>2. ASSUME NEW e \in ReplyEvents, Queued(e)'
        PROVE  UseEventOK(e)'
    <3>1. UseEventOK(e) /\ e.use # u
      BY <1>3, <1>8, <2>2 DEF Follows
    <3> QED
      BY <2>1, <3>1 DEF UseEventOK
  <2>3. \A n \in DOMAIN actions : actions[n].use # u
    BY <2>1 DEF Pressed
  <2>4. /\ \A n \in DOMAIN actions' :
              /\ reply_use'[actions'[n].use] = "proposed"
              /\ Known(actions[n].use)' /\ ~Shown(actions[n].use)'
        /\ \A m, n \in DOMAIN actions' : actions'[m].use = actions'[n].use => m = n
    BY <2>1, <2>3 DEF UsesInv
  <2>5. UsesInv'
    BY <1>6, <2>1, <2>2, <2>4 DEF UsesInv
  <2> QED
    BY <1>3, <1>4, <1>5, <2>5
<1> QED
  BY <1>1, <1>7, <1>8

\* What a tool of the run, or a granted reply, came to.
LEMMA ToolResultIsTaken ==
    ASSUME ReplyInv, HandleReplyToolResult \/ HandleToolResult
    PROVE  ReplyInv'
<1> USE DEF ReplyInv
<1> DEFINE u == The.use
<1>1. /\ events # <<>> /\ events' = Tail(events) /\ The.type \in {"tool_result", "ran"}
      /\ UNCHANGED <<runVars, actions, sock, starter_state, sumVars, stopped>>
      /\ bash_tool_use' \in {0, bash_tool_use}
      /\ offload' \in {offload, offload \ {u}}
      /\ pending_actions' \in {pending_actions, pending_actions \ {u}}
  BY DEF HandleReplyToolResult, HandleToolResult, Receives, The, widgetVars2
<1>2. events' \in Seq(ReplyEvents) /\ OrderInv'
  BY <1>1, EventTaken
<1>3. ReplyTypeOK'
  <2>1. /\ pending_actions' \in SUBSET (Replies \cup {0}) /\ offload' \in SUBSET Replies
        /\ bash_tool_use' \in Replies \cup {0}
    BY <1>1 DEF ReplyTypeOK
  <2> QED
    BY <1>1, <1>2, <2>1 DEF ReplyTypeOK, runVars, sumVars
<1>4. SummaryInv'
  BY <1>1, SummaryWaits DEF OfSummary, Streams, runVars
<1>5. NothingIsLeftOfTheRun'
  BY <1>1 DEF NothingIsLeftOfTheRun, UsesInv
<1>6. RepliesStayWithTheirCombo'
  <2>1. CASE HandleReplyToolResult
    BY <2>1 DEF HandleReplyToolResult, RepliesStayWithTheirCombo, UsesInv
  <2>2. CASE HandleToolResult
    <3>1. The.type = "ran" /\ Known(u)
      BY <1>1, <2>2, EventTaken DEF HandleToolResult, Receives, The, UseEventOK
    <3>2. orphans' = orphans \/ (orphans' = orphans \cup {[use |-> u, late |-> stopped]} /\ u \notin offload)
      BY <2>2 DEF HandleToolResult
    <3> QED
      BY <3>1, <3>2 DEF Known, RepliesStayWithTheirCombo, UsesInv
  <2> QED
    BY <2>1, <2>2
<1>7. \A v \in Replies : Shown(v)' => Shown(v)
  BY <1>1, ReplyAssumption DEF Shown
<1>8. UsesInv'
  BY <1>1, <1>5, <1>6, <1>7, UseIsOver
<1> QED
  BY <1>2, <1>3, <1>4, <1>8
\* When nothing of the stream is behind it, an event of the stream tells where it is.
LEMMA LastIsTaken ==
    ASSUME ReplyInv, events # <<>>, events' = Tail(events), The.type \in Streams,
           \A e \in ReplyEvents : Queued(e)' => e.type \notin Streams
    PROVE  Tells(The, summary_attempt.text)
<1>1. /\ events \in Seq(ReplyEvents) /\ Len(events) \in Nat /\ Len(events) > 0
      /\ events' \in Seq(ReplyEvents) /\ Len(events') = Len(events) - 1 /\ The = events[1]
      /\ \A i \in 1..Len(events') : events'[i] = events[i + 1]
  BY HeadTailProperties, LenProperties, EmptySeq DEF The, ReplyInv, ReplyTypeOK
<1>2. DOMAIN events = 1..Len(events) /\ DOMAIN events' = 1..Len(events')
  BY <1>1
<1>3. ASSUME NEW j \in DOMAIN events, j > 1
      PROVE  events[j].type \notin Streams
  <2>1. j - 1 \in DOMAIN events' /\ events'[j - 1] = events[j]
    BY <1>1, <1>2, <1>3
  <2>2. events[j] \in ReplyEvents
    BY <1>1, <1>2, ElementOfSeq
  <2> QED
    BY <2>1, <2>2 DEF Queued
<1>4. 1 \in DOMAIN events
  BY <1>1, <1>2
<1>5. IsLastOfStream(1)
  BY <1>1, <1>3, <1>4 DEF IsLastOfStream
<1> QED
  BY <1>1, <1>4, <1>5 DEF ReplyInv, SummaryInv

LEMMA SummaryIsShown ==
    ASSUME ReplyInv, HandleSummary
    PROVE  ReplyInv'
<1> USE DEF ReplyInv
<1>1. /\ events # <<>> /\ events' = Tail(events)
      /\ The.type \in {"summary_reset", "summary_text", "summary_done"}
      /\ UNCHANGED <<runVars, actions, sock, offload, pending_actions, widgetVars2, orphans,
                     stopped>>
      /\ \/ The.type = "summary_reset" /\ widget_summary_reset
         \/ The.type = "summary_text" /\ widget_summary_text(The.on)
         \/ The.type = "summary_done" /\ widget_summary_done
  BY DEF HandleSummary
<1>2. /\ The \in ReplyEvents /\ SummaryEventOK(The)
      /\ events' \in Seq(ReplyEvents) /\ OrderInv'
      /\ \A e \in ReplyEvents : Queued(e)' => Queued(e) /\ Follows(The, e)
      /\ \A e \in ReplyEvents : Queued(e) => e = The \/ Queued(e)'
  BY <1>1, EventTaken
<1>3. /\ summary \in BOOLEAN /\ summary_streaming \in BOOLEAN /\ has_output \in BOOLEAN
      /\ summaries \in Nat
      /\ summary_attempt \in [n : Nat, text : {"none", "part", "whole"}]
  BY DEF ReplyTypeOK
<1>4. /\ ~summary
      /\ The.type \in Streams =>
            summary_attempt.n > 0 /\ (runner = "executed" \/ IsQueued("summary_done"))
      /\ The.type = "summary_text" /\ The.on => summary_attempt.text = "whole"
      /\ The.type = "summary_done" => runner = "over"
  BY <1>1, <1>2 DEF SummaryEventOK, Streams
<1>5. UNCHANGED <<runner, summary_attempt>>
  BY <1>1 DEF runVars
<1>6. \A type : type # The.type => (IsQueued(type)' <=> IsQueued(type))
  BY <1>2 DEF IsQueued
<1>7. /\ summaries = IF summary_attempt.text = "whole" /\ ~WholeIsQueued THEN 1 ELSE 0
      /\ summary_attempt.n > 0 => runner = "executed" \/ IsQueued("summary_done")
      /\ runner = "over" => IsQueued("result")
      /\ summary_attempt.n > 0
         /\ ~IsQueued("summary_reset") /\ ~IsQueued("summary_text") =>
            summary_streaming /\ (has_output <=> summary_attempt.text # "none")
      /\ summary_attempt.n = 0 =>
            summary_attempt.text = "none" /\ ~summary_streaming /\ ~has_output
      /\ runner \in {"idle", "asking"} => summary_attempt.n = 0
  BY <1>4 DEF SummaryInv
<1>8. \A i \in DOMAIN events' : IsLastOfStream(i)' => Tells(events'[i], summary_attempt'.text)
  BY <1>1, <1>5, EventTaken DEF SummaryInv
<1>9. \A e \in ReplyEvents : Queued(e)' => SummaryEventOK(e)
  BY <1>2 DEF SummaryInv
<1>10. UsesInv'
  <2>1. NothingIsLeftOfTheRun'
    BY <1>1 DEF UsesInv, NothingIsLeftOfTheRun, widgetVars2
  <2> QED
    BY <1>1, <1>2, <2>1, UsesUntouched DEF runVars
<1>11. CASE The.type \in Streams
  <2>1. /\ summary' = summary /\ summary_streaming' = TRUE
        /\ has_output' \in BOOLEAN /\ (has_output' <=> The.type = "summary_text")
        /\ summaries' = summaries + (IF The.type = "summary_text" /\ The.on THEN 1 ELSE 0)
    <3>1. CASE The.type = "summary_reset"
      <4>1. widget_summary_reset
        BY <1>1, <3>1
      <4>2. summary' = summary /\ summary_streaming' = TRUE /\ has_output' = FALSE
        BY <4>1 DEF widget_summary_reset
      <4>3. summaries' = summaries + 0
        BY <1>3, <4>1 DEF widget_summary_reset
      <4> QED
        BY <3>1, <4>2, <4>3
    <3>2. CASE The.type = "summary_text"
      BY <1>1, <1>3, <3>2 DEF widget_summary_text
    <3> QED
      BY <1>11, <3>1, <3>2 DEF Streams
  <2>2. summaries' \in Nat
    BY <1>3, <2>1
  <2>3. ReplyTypeOK'
    BY <1>1, <1>2, <1>3, <2>1, <2>2 DEF ReplyTypeOK, runVars, widgetVars2
  <2>4. \A e \in ReplyEvents : Queued(e)' => SummaryEventOK(e)'
    <3>1. IsQueued("summary_done")' <=> IsQueued("summary_done")
      BY <1>6, <1>11 DEF Streams
    <3> QED
      BY <1>5, <1>9, <2>1, <3>1 DEF SummaryEventOK
  <2>5. ~IsQueued("summary_reset")' /\ ~IsQueued("summary_text")' =>
           summary_streaming' /\ (has_output' <=> summary_attempt.text # "none")
    <3> SUFFICES ASSUME ~IsQueued("summary_reset")', ~IsQueued("summary_text")'
                 PROVE  summary_streaming' /\ (has_output' <=> summary_attempt.text # "none")
      OBVIOUS
    <3>1. \A e \in ReplyEvents : Queued(e)' => e.type \notin Streams
      BY DEF IsQueued, Streams
    <3>2. Tells(The, summary_attempt.text)
      BY <1>1, <1>11, <3>1, LastIsTaken
    <3> QED
      BY <1>11, <2>1, <3>2 DEF Tells, Streams
  <2>6. summaries' = IF summary_attempt.text = "whole" /\ ~WholeIsQueued' THEN 1 ELSE 0
    <3>1. CASE The.type = "summary_text" /\ The.on
      <4>1. WholeIsQueued
        BY <1>1, <3>1, EventTaken, QueuePopped DEF WholeIsQueued, ReplyTypeOK
      <4>2. ~WholeIsQueued'
        BY <1>2, <3>1 DEF WholeIsQueued, Follows, Streams
      <4> QED
        BY <1>4, <1>7, <2>1, <3>1, <4>1, <4>2
    <3>2. CASE ~(The.type = "summary_text" /\ The.on)
      <4>1. WholeIsQueued' <=> WholeIsQueued
        BY <1>2, <3>2 DEF WholeIsQueued
      <4> QED
        BY <1>3, <1>7, <2>1, <3>2, <4>1
    <3> QED
      BY <3>1, <3>2
  <2>7. /\ IsQueued("summary_done")' <=> IsQueued("summary_done")
        /\ IsQueued("result")' <=> IsQueued("result")
    BY <1>6, <1>11 DEF Streams
  <2>8. SummaryInv'
    BY <1>4, <1>5, <1>7, <1>8, <1>11, <2>1, <2>4, <2>5, <2>6, <2>7 DEF SummaryInv
  <2> QED
    BY <1>2, <1>10, <2>3, <2>8
<1>12. CASE The.type = "summary_done"
  <2>1. \A e \in ReplyEvents : Queued(e)' => e.type \notin Streams \cup {"summary_done"}
    BY <1>2, <1>12 DEF Follows
  <2>2. \A e \in ReplyEvents : Queued(e) => e.type \notin Streams
    BY <1>2, <1>12, <2>1 DEF Streams
  <2>3. ~WholeIsQueued /\ ~IsQueued("summary_reset") /\ ~IsQueued("summary_text")
    BY <2>2 DEF WholeIsQueued, IsQueued, Streams
  <2>4. summary_streaming /\ has_output <=> summary_attempt.text # "none"
    BY <1>3, <1>7, <2>3
  <2>5. /\ summary' = TRUE /\ summary_streaming' = FALSE /\ has_output' = FALSE
        /\ summaries' = IF summary_attempt.text # "none" THEN summaries ELSE summaries + 1
    BY <1>1, <1>4, <1>12, <2>4 DEF widget_summary_done, keep_summary
  <2>6. /\ summaries' <= 1 /\ summaries' \in Nat
        /\ summary_attempt.text # "part" => summaries' = 1
    BY <1>3, <1>7, <2>3, <2>5
  <2>7. ReplyTypeOK'
    <3>1. /\ summary' = TRUE /\ summary_streaming' = FALSE /\ has_output' = FALSE
          /\ summaries' \in Nat /\ events' \in Seq(ReplyEvents)
          /\ UNCHANGED <<runner, asked, schemas, reply_use, summary_attempt, actions, sock>>
          /\ UNCHANGED <<offload, pending_actions, starter_state, bash_tool_use, stopped>>
      BY <1>1, <1>2, <2>5, <2>6 DEF runVars, widgetVars2
    <3>2. runner \in {"idle", "asking", "executed", "over"} /\ asked \in BOOLEAN
      BY DEF ReplyTypeOK
    <3> QED
      BY <3>1, <3>2, OverTypes
  <2>8. \A e \in ReplyEvents : Queued(e)' => SummaryEventOK(e)'
    BY <1>5, <1>9, <2>1 DEF SummaryEventOK
  <2>9. SummaryInv'
    BY <1>4, <1>5, <1>7, <1>8, <1>12, <2>5, <2>6, <2>8 DEF SummaryInv
  <2> QED
    BY <1>2, <1>10, <2>7, <2>9
<1> QED
  BY <1>1, <1>11, <1>12 DEF Streams

\* A cancelled run has no other summary than its result; a run that ended has one already.
LEMMA RunResultIsTaken ==
    ASSUME ReplyInv, HandleRunResult
    PROVE  ReplyInv'
<1> USE DEF ReplyInv
<1>1. /\ events # <<>> /\ events' = Tail(events) /\ The.type = "result"
      /\ UNCHANGED <<runVars, actions, chatVars3, widgetVars2, summary_streaming, has_output,
                     orphans, stopped>>
      /\ append_summary
  BY DEF HandleRunResult, Receives, The
<1>2. /\ The \in ReplyEvents /\ SummaryEventOK(The)
      /\ events' \in Seq(ReplyEvents) /\ OrderInv'
      /\ \A e \in ReplyEvents : Queued(e)' => Queued(e) /\ Follows(The, e)
      /\ \A e \in ReplyEvents : Queued(e) => e = The \/ Queued(e)'
  BY <1>1, EventTaken
<1>3. \A e \in ReplyEvents : Queued(e) => e.type \notin Streams \cup {"summary_done"}
  BY <1>1, <1>2 DEF Follows, Streams
<1>4. /\ ~WholeIsQueued /\ ~WholeIsQueued'
      /\ ~IsQueued("summary_done")
      /\ runner = "over" /\ UNCHANGED <<runner, summary_attempt>>
  BY <1>1, <1>2, <1>3 DEF WholeIsQueued, IsQueued, Streams, SummaryEventOK, runVars
<1>5. /\ ~summary => /\ summary_attempt.n = 0 /\ summary_attempt.text = "none"
                     /\ ~summary_streaming /\ summaries = 0
      /\ summary => summaries <= 1 /\ (summary_attempt.text # "part" => summaries = 1)
      /\ summary_attempt.n = 0 =>
            summary_attempt.text = "none" /\ ~summary_streaming /\ ~has_output
  <2>1. summary_attempt.n \in Nat
    BY DEF ReplyTypeOK
  <2> QED
    BY <1>4, <2>1 DEF SummaryInv
<1>6. /\ summary' = TRUE
      /\ summaries' = IF summary THEN summaries ELSE 1
  BY <1>1, <1>5 DEF append_summary, ReplyTypeOK
<1>7. ReplyTypeOK'
  <2>1. summaries' \in Nat
    BY <1>6 DEF ReplyTypeOK
  <2> QED
    BY <1>1, <1>2, <1>6, <2>1 DEF ReplyTypeOK, runVars, chatVars3, widgetVars2
<1>8. UsesInv'
  <2>1. NothingIsLeftOfTheRun'
    BY <1>1 DEF UsesInv, NothingIsLeftOfTheRun, chatVars3, widgetVars2
  <2> QED
    BY <1>1, <1>2, <2>1, UsesUntouched DEF runVars, chatVars3
<1>9. SummaryInv'
  <2>1. \A e \in ReplyEvents : Queued(e)' => SummaryEventOK(e)'
    BY <1>2, <1>3, <1>4 DEF SummaryInv, SummaryEventOK
  <2>2. \A i \in DOMAIN events' : IsLastOfStream(i)' => Tells(events'[i], summary_attempt'.text)
    BY <1>1, <1>4, EventTaken DEF SummaryInv
  <2> QED
    BY <1>1, <1>4, <1>5, <1>6, <2>1, <2>2 DEF SummaryInv
<1> QED
  BY <1>2, <1>7, <1>8, <1>9
-----------------------------------------------------------------------------
(* Replies: the user *)

\* The queue and the summary stay, and of the uses what is said below.
LEMMA OnlyTheChatMoves ==
    ASSUME ReplyInv, ReplyTypeOK', UsesInv',
           UNCHANGED <<events, runner, summary_attempt, sumVars>>
    PROVE  ReplyInv'
<1>1. /\ OrderInv' /\ \A a : Queued(a)' <=> Queued(a)
      /\ \A i : IsLastOfStream(i)' <=> IsLastOfStream(i)
      /\ DOMAIN events' = DOMAIN events
      /\ \A i \in DOMAIN events : IsLastOfStream(i) => events[i] = events'[i]
  BY DEF ReplyInv, OrderInv, InOrder, Queued, IsLastOfStream
<1>2. SummaryInv'
  BY <1>1, SummaryUntouched DEF ReplyInv
<1> QED
  BY <1>1, <1>2 DEF ReplyInv

\* Feedback, and a cancel
LEMMA FeedbackIsSent ==
    ASSUME ReplyInv, try_submit_combo_feedback \/ UserCancelsRun
    PROVE  ReplyInv'
<1>1. /\ UNCHANGED <<runner, asked, schemas, reply_use, summary_attempt, events, actions, sock,
                     offload, pending_actions, widgetVars2, sumVars, orphans, stopped>>
  BY DEF try_submit_combo_feedback, UserCancelsRun, chatVars3
<1> QED
  BY <1>1, NothingMoves DEF ReplyInv, ReplyTypeOK

\* The user decides what the widget shows: the decision is on its way.
LEMMA KeyIsPressed ==
    ASSUME ReplyInv, KeyGrant \/ KeyReject
    PROVE  ReplyInv'
<1> USE DEF ReplyInv
<1>1. PICK u \in Replies, type \in {"grant", "cancel"} :
         /\ Shown(u) /\ actions' = Append(actions, [type |-> type, use |-> u])
  <2>1. bash_tool_use \in Replies /\ Shown(bash_tool_use)
    BY DEF KeyGrant, KeyReject, Presses, Shown, ReplyTypeOK
  <2>2. \E type \in {"grant", "cancel"} :
           actions' = Append(actions, [type |-> type, use |-> bash_tool_use])
    BY DEF KeyGrant, KeyReject, Presses
  <2> QED
    BY <2>1, <2>2
<1>2. /\ starter_state' \in {"Discovering", "Executing"}
      /\ bash_tool_use' \in {0, bash_tool_use}
      /\ UNCHANGED <<runVars, events, chatVars3, sumVars, orphans, stopped>>
  BY DEF KeyGrant, KeyReject, Presses
<1> DEFINE action == [type |-> type, use |-> u]
           last == Len(actions) + 1
<1>3. /\ actions \in Seq(ReplyActions) /\ Len(actions) \in Nat
      /\ action \in ReplyActions /\ action.use = u
  BY LenProperties DEF ReplyTypeOK, ReplyActions
<1> HIDE DEF action
<1>4. /\ actions' \in Seq(ReplyActions) /\ Len(actions') = Len(actions) + 1
      /\ \A n \in 1..Len(actions) : actions'[n] = actions[n]
      /\ actions'[Len(actions) + 1] = action
  BY <1>1, <1>3, AppendProperties DEF action
<1>5. DOMAIN actions = 1..Len(actions) /\ DOMAIN actions' = 1..Len(actions')
  BY <1>3, <1>4
<1>6. /\ last \in DOMAIN actions' /\ actions'[last].use = u
      /\ \A n \in DOMAIN actions' : n = last \/ n \in DOMAIN actions
      /\ \A n \in DOMAIN actions : n \in DOMAIN actions' /\ actions'[n] = actions[n]
  BY <1>3, <1>4, <1>5
<1> HIDE DEF last
<1>7. /\ \A v : ~Shown(v)'
      /\ \A v : Pressed(v)' <=> Pressed(v) \/ v = u
      /\ \A v : Known(v)' <=> Known(v)
      /\ UNCHANGED <<reply_use, runner, summary_attempt, stopped, offload>>
  BY <1>2, <1>6 DEF Shown, Pressed, Known, runVars, chatVars3
<1>8. reply_use[u] = "proposed" /\ u \in offload /\ ~Pressed(u) /\ u # 0
  BY <1>1, ReplyAssumption DEF UsesInv, Pressed
<1>9. ReplyTypeOK'
  <2>1. bash_tool_use' \in Replies \cup {0}
    BY <1>2 DEF ReplyTypeOK
  <2> QED
    BY <1>2, <1>4, <2>1 DEF ReplyTypeOK, runVars, chatVars3, sumVars
<1>10. \A e : Queued(e)' <=> Queued(e)
  BY <1>2 DEF Queued
<1>11. ASSUME NEW e \in ReplyEvents, Queued(e)
       PROVE  UseEventOK(e)'
  <2>1. UseEventOK(e) /\ e.use # u
    BY <1>1, <1>8, <1>11 DEF UsesInv, UseEventOK
  <2> QED
    BY <1>7, <2>1 DEF UseEventOK
<1>12. \A n \in DOMAIN actions' :
          /\ reply_use'[actions'[n].use] = "proposed"
          /\ Known(actions'[n].use)
  <2> SUFFICES ASSUME NEW n \in DOMAIN actions'
               PROVE  reply_use'[actions'[n].use] = "proposed" /\ Known(actions'[n].use)
    OBVIOUS
  <2>1. CASE n = last
    BY <1>6, <1>7, <1>8, <2>1 DEF Known
  <2>2. CASE n # last
    BY <1>6, <1>7, <2>2 DEF UsesInv
  <2> QED
    BY <2>1, <2>2
<1>13. \A m, n \in DOMAIN actions' : actions'[m].use = actions'[n].use => m = n
  BY <1>6, <1>8 DEF UsesInv, Pressed
<1>14. NothingIsLeftOfTheRun' /\ RepliesStayWithTheirCombo'
  BY <1>2 DEF UsesInv, NothingIsLeftOfTheRun, RepliesStayWithTheirCombo, chatVars3
<1>15. \A v \in Replies : reply_use'[v] = "granted" => Known(v)'
  BY <1>7 DEF UsesInv
<1>16. UsesInv'
  BY <1>7, <1>10, <1>11, <1>12, <1>13, <1>14, <1>15 DEF UsesInv
<1> QED
  BY <1>2, <1>9, <1>16, OnlyTheChatMoves DEF runVars
\* The chat takes a decision: it is the only one about its tool use, which is nowhere else.
LEMMA ActionTaken ==
    ASSUME ReplyInv, actions # <<>>, actions' = Tail(actions)
    PROVE  LET u == Head(actions).use IN
           /\ u \in Replies /\ actions' \in Seq(ReplyActions)
           /\ reply_use[u] = "proposed" /\ Known(u) /\ ~Shown(u)
           /\ \A e \in ReplyEvents : Queued(e) => e.use # u
           /\ \A n \in DOMAIN actions' : actions'[n].use \in Replies /\ actions'[n].use # u
                                          /\ \E m \in DOMAIN actions : actions[m] = actions'[n]
           /\ \A m, n \in DOMAIN actions' : actions'[m].use = actions'[n].use => m = n
           /\ \A v : Pressed(v)' => Pressed(v) /\ v # u
<1> USE DEF ReplyInv
<1> DEFINE u == Head(actions).use
<1>1. /\ actions \in Seq(ReplyActions) /\ Len(actions) \in Nat /\ Len(actions) > 0
      /\ actions' \in Seq(ReplyActions) /\ Len(actions') = Len(actions) - 1
      /\ Head(actions) = actions[1] /\ Head(actions) \in ReplyActions
      /\ \A i \in 1..Len(actions') : actions'[i] = actions[i + 1]
  BY HeadTailProperties, LenProperties, EmptySeq DEF ReplyTypeOK
<1>2. DOMAIN actions = 1..Len(actions) /\ DOMAIN actions' = 1..Len(actions')
  BY <1>1
<1>3. /\ 1 \in DOMAIN actions
      /\ \A n \in DOMAIN actions' : /\ n \in Nat /\ n + 1 \in DOMAIN actions /\ n + 1 # 1
                                    /\ actions'[n] = actions[n + 1]
  BY <1>1, <1>2
<1>4. u \in Replies /\ u = actions[1].use
  BY <1>1 DEF ReplyActions
<1> HIDE DEF u
<1>5. reply_use[u] = "proposed" /\ Known(u) /\ ~Shown(u) /\ Pressed(u)
  BY <1>3, <1>4 DEF UsesInv, Pressed
<1>6. \A e \in ReplyEvents : Queued(e) => e.use # u
  BY <1>4, <1>5, ReplyAssumption DEF UsesInv, UseEventOK
<1>7. \A n \in DOMAIN actions' : actions'[n].use \in Replies /\ actions'[n].use # u
                                  /\ \E m \in DOMAIN actions : actions[m] = actions'[n]
  <2> SUFFICES ASSUME NEW n \in DOMAIN actions'
               PROVE  actions'[n].use \in Replies /\ actions'[n].use # u
                      /\ \E m \in DOMAIN actions : actions[m] = actions'[n]
    OBVIOUS
  <2>1. actions'[n] \in ReplyActions
    BY <1>1, <1>2, ElementOfSeq
  <2>2. actions[n + 1].use # actions[1].use
    BY <1>3 DEF UsesInv
  <2> QED
    BY <1>3, <1>4, <2>1, <2>2 DEF ReplyActions
<1>8. ASSUME NEW m \in DOMAIN actions', NEW n \in DOMAIN actions',
             actions'[m].use = actions'[n].use
      PROVE  m = n
  <2>1. m + 1 = n + 1
    BY <1>3, <1>8 DEF UsesInv
  <2> QED
    BY <1>3, <2>1
<1>9. \A v : Pressed(v)' => Pressed(v) /\ v # u
  BY <1>7 DEF Pressed
<1> QED
  BY <1>1, <1>4, <1>5, <1>6, <1>7, <1>8, <1>9 DEF u

LEMMA GrantIsTaken ==
    ASSUME ReplyInv, HandleGrant
    PROVE  ReplyInv'
<1> USE DEF ReplyInv
<1> DEFINE u == Head(actions).use
<1>1. /\ actions # <<>> /\ actions' = Tail(actions)
      /\ pending_actions' = pending_actions \ {u}
      /\ reply_use' = [reply_use EXCEPT ![u] = "granted"]
      /\ UNCHANGED <<runner, asked, schemas, summary_attempt, events, sock, offload,
                     widgetVars2, sumVars, orphans, stopped>>
  BY DEF HandleGrant, Takes
<1>2. /\ u \in Replies /\ actions' \in Seq(ReplyActions)
      /\ reply_use[u] = "proposed" /\ Known(u) /\ ~Shown(u)
      /\ \A e \in ReplyEvents : Queued(e) => e.use # u
      /\ \A n \in DOMAIN actions' : actions'[n].use \in Replies /\ actions'[n].use # u
                                     /\ \E m \in DOMAIN actions : actions[m] = actions'[n]
      /\ \A m, n \in DOMAIN actions' : actions'[m].use = actions'[n].use => m = n
      /\ \A v : Pressed(v)' => Pressed(v) /\ v # u
  BY <1>1, ActionTaken
<1> HIDE DEF u
<1>3. /\ reply_use' \in [Replies -> {"new", "proposed", "granted", "done"}]
      /\ reply_use'[u] = "granted" /\ \A v \in Replies : v # u => reply_use'[v] = reply_use[v]
  BY <1>1, <1>2 DEF ReplyTypeOK
<1>4. ReplyTypeOK'
  BY <1>1, <1>2, <1>3 DEF ReplyTypeOK, widgetVars2, sumVars
<1>5. \A v : (Shown(v)' <=> Shown(v)) /\ (Known(v)' <=> Known(v))
  BY <1>1 DEF Shown, Known, widgetVars2
<1>6. \A e : Queued(e)' <=> Queued(e)
  BY <1>1 DEF Queued
<1>7. ASSUME NEW e \in ReplyEvents, Queued(e)
      PROVE  UseEventOK(e)'
  <2>1. UseEventOK(e) /\ e.use # u
    BY <1>2, <1>7 DEF UsesInv
  <2>2. e.use # 0 => e.use \in Replies
    BY DEF ReplyEvents
  <2>3. e.use # 0 => reply_use'[e.use] = reply_use[e.use]
    BY <1>3, <2>1, <2>2
  <2> QED
    BY <1>1, <1>2, <1>5, <2>1, <2>3 DEF UseEventOK, OfUses
<1>8. \A n \in DOMAIN actions' :
         /\ reply_use'[actions'[n].use] = "proposed"
         /\ Known(actions'[n].use) /\ ~Shown(actions'[n].use)
  BY <1>2, <1>3 DEF UsesInv
<1>9. /\ \A v \in Replies : Shown(v)' => reply_use'[v] = "proposed" /\ v \in offload'
      /\ \A v \in Replies : reply_use'[v] = "granted" => Known(v)'
  BY <1>1, <1>2, <1>3, <1>5 DEF UsesInv
<1>10. NothingIsLeftOfTheRun' /\ RepliesStayWithTheirCombo'
  BY <1>1 DEF UsesInv, NothingIsLeftOfTheRun, RepliesStayWithTheirCombo, widgetVars2
<1>11. UsesInv'
  BY <1>1, <1>2, <1>5, <1>6, <1>7, <1>8, <1>9, <1>10 DEF UsesInv
<1> QED
  BY <1>1, <1>4, <1>11, OnlyTheChatMoves

\* A rejected reply asks for feedback, while the chat knows whose it is.
LEMMA RejectIsTaken ==
    ASSUME ReplyInv, HandleCancel
    PROVE  ReplyInv'
<1> USE DEF ReplyInv
<1> DEFINE u == Head(actions).use
<1>1. /\ actions # <<>> /\ actions' = Tail(actions)
      /\ offload' = offload \ {u}
      /\ IF u \in offload \cup pending_actions
         THEN pending_actions' = (pending_actions \ {u}) \cup {0} /\ orphans' = orphans
         ELSE /\ pending_actions' = pending_actions
              /\ orphans' = orphans \cup {[use |-> u, late |-> stopped]}
      /\ UNCHANGED <<runVars, events, sock, widgetVars2, sumVars, stopped>>
  BY DEF HandleCancel, Takes, Feedback
<1>2. /\ u \in Replies /\ actions' \in Seq(ReplyActions)
      /\ reply_use[u] = "proposed" /\ Known(u) /\ ~Shown(u)
      /\ \A e \in ReplyEvents : Queued(e) => e.use # u
      /\ \A n \in DOMAIN actions' : actions'[n].use \in Replies /\ actions'[n].use # u
                                     /\ \E m \in DOMAIN actions : actions[m] = actions'[n]
      /\ \A m, n \in DOMAIN actions' : actions'[m].use = actions'[n].use => m = n
      /\ \A v : Pressed(v)' => Pressed(v) /\ v # u
  BY <1>1, ActionTaken
<1> HIDE DEF u
<1>3. pending_actions' \in SUBSET (Replies \cup {0})
  BY <1>1 DEF ReplyTypeOK
<1>4. ReplyTypeOK'
  BY <1>1, <1>2, <1>3 DEF ReplyTypeOK, runVars, widgetVars2, sumVars
<1>5. \A v : (Shown(v)' <=> Shown(v)) /\ (v # u => (Known(v)' <=> Known(v)))
  BY <1>1 DEF Shown, Known, widgetVars2
<1>6. \A e : Queued(e)' <=> Queued(e)
  BY <1>1 DEF Queued
<1>7. UNCHANGED <<runner, reply_use>>
  BY <1>1 DEF runVars
<1>8. ASSUME NEW e \in ReplyEvents, Queued(e)
      PROVE  UseEventOK(e)'
  <2>1. UseEventOK(e) /\ e.use # u
    BY <1>2, <1>8 DEF UsesInv
  <2> QED
    BY <1>1, <1>2, <1>5, <1>7, <2>1 DEF UseEventOK
<1>9. \A n \in DOMAIN actions' :
         /\ reply_use'[actions'[n].use] = "proposed"
         /\ actions'[n].use # u /\ Known(actions'[n].use) /\ ~Shown(actions'[n].use)
  BY <1>2, <1>7 DEF UsesInv
<1>10. /\ \A v \in Replies : Shown(v)' => reply_use'[v] = "proposed" /\ v \in offload'
       /\ \A v \in Replies : reply_use'[v] = "granted" => Known(v)'
  BY <1>1, <1>2, <1>5, <1>7 DEF UsesInv
<1>11. NothingIsLeftOfTheRun' /\ RepliesStayWithTheirCombo'
  BY <1>1, <1>2 DEF UsesInv, NothingIsLeftOfTheRun, RepliesStayWithTheirCombo, widgetVars2, Known
<1>12. UsesInv'
  BY <1>1, <1>2, <1>5, <1>6, <1>7, <1>8, <1>9, <1>10, <1>11 DEF UsesInv
<1> QED
  BY <1>1, <1>4, <1>7, <1>12, OnlyTheChatMoves DEF runVars

-----------------------------------------------------------------------------
(* Replies: the theorem *)

LEMMA ReplyStart == ReplyInit => ReplyInv
<1> SUFFICES ASSUME ReplyInit
             PROVE  ReplyInv
  OBVIOUS
<1>1. events = <<>> /\ actions = <<>> /\ DOMAIN events = {} /\ DOMAIN actions = {}
  BY DEF ReplyInit
<1>2. ReplyTypeOK
  <2>1. /\ summary_attempt \in [n : Nat, text : {"none", "part", "whole"}]
        /\ reply_use \in [Replies -> {"new", "proposed", "granted", "done"}]
        /\ events \in Seq(ReplyEvents) /\ actions \in Seq(ReplyActions)
    BY <1>1 DEF ReplyInit
  <2>2. offload \in SUBSET Replies /\ pending_actions \in SUBSET (Replies \cup {0})
    BY DEF ReplyInit
  <2> QED
    BY <2>1, <2>2 DEF ReplyInit, ReplyTypeOK
<1>3. OrderInv /\ \A e : ~Queued(e)
  BY <1>1 DEF OrderInv, InOrder, Queued
<1>4. \A u \in Replies : ~Shown(u)
  BY DEF ReplyInit, Shown
<1>5. UsesInv
  BY <1>1, <1>3, <1>4
     DEF ReplyInit, UsesInv, RepliesStayWithTheirCombo, NothingIsLeftOfTheRun
<1>6. ~WholeIsQueued
  BY <1>3 DEF WholeIsQueued
<1>7. SummaryInv
  BY <1>1, <1>3, <1>6 DEF ReplyInit, SummaryInv
<1> QED
  BY <1>2, <1>3, <1>5, <1>7 DEF ReplyInv

LEMMA ReplyStep == ReplyInv /\ [ReplyNext]_replyVars => ReplyInv'
<1> SUFFICES ASSUME ReplyInv, [ReplyNext]_replyVars
             PROVE  ReplyInv'
  OBVIOUS
<1>1. CASE RunSteps
  BY <1>1, RunSpeaks, ReplyWasProposed, ReplyRanIsTold, OtherToolIsRun, ScriptIsOver,
     CancelIsSeen, SummaryIsStreamed, SummaryIsDone DEF RunSteps
<1>2. CASE UNCHANGED replyVars
  BY <1>2, NothingMoves DEF replyVars, runVars, chatVars3, ReplyInv, ReplyTypeOK
<1>3. CASE ReplyNext /\ ~RunSteps
  BY <1>3, PromptIsShown, EndIsHeard, ToolUseIsShown, ToolResultIsTaken, SummaryIsShown,
     RunResultIsTaken, FeedbackIsSent, KeyIsPressed, GrantIsTaken, RejectIsTaken
  DEF ReplyNext
<1> QED
  BY <1>1, <1>2, <1>3

\* The summary is one once everything was told.
LEMMA SummaryIsOne == ReplyInv => SummaryIsShownOnce
<1> SUFFICES ASSUME ReplyInv
             PROVE  SummaryIsShownOnce
  OBVIOUS
<1>1. summaries \in Nat /\ summary \in BOOLEAN
  BY DEF ReplyInv, ReplyTypeOK
<1>2. ASSUME runner = "over", events = <<>>
      PROVE  summary
  <2>1. ~IsQueued("result")
    BY <1>2 DEF IsQueued, Queued
  <2> QED
    BY <1>1, <1>2, <2>1 DEF ReplyInv, SummaryInv
<1> QED
  BY <1>1, <1>2 DEF ReplyInv, SummaryInv, SummaryIsShownOnce

\* For any number of tool uses, asks and retries, however far the run is ahead of the chat:
\* a reply the user decided about while the combo ran is not taken for one of the chat's
\* model, nothing of an ended run waits for the user, and its summary is shown once
\* (handle_combo_event_from_tool, on_combo_event).
THEOREM ReplyCorrect == ReplySpec => []RunStaysTogether
<1>1. ReplyInv => RunStaysTogether
  BY SummaryIsOne DEF ReplyInv, UsesInv, RunStaysTogether
<1> QED
  BY ReplyStart, ReplyStep, <1>1, PTL DEF ReplySpec
-----------------------------------------------------------------------------
(* The turns that answer an ask: the invariant *)

OffloadIds     == Nat \X Nat
OffloadMessage == [who : {"user", "model"}, uses : Seq(UseKinds), ids : Seq(OffloadIds)]

OffloadTypeOK ==
    /\ interactive \in BOOLEAN /\ stop_token \in BOOLEAN
    /\ reply_at \in {"turn", "tools", "retry", "done"}
    /\ reply_history \in Seq(OffloadMessage) /\ reply_history # <<>>
    /\ next_use \in Nat /\ tool_results \in Seq(OffloadIds)
    /\ announced \in SUBSET OffloadIds /\ ended \in SUBSET OffloadIds

LastAt == Len(reply_history)

\* Every response is answered by the message after it ...
HistoryIsAnswered ==
    \A n \in 1..(LastAt - 1) :
       reply_history[n].who = "model" => reply_history[n + 1].ids = ToldAbout(n)

\* ... and the last message, if it is a response, by nothing or by what comes of the
\* tools that are handled.
ResponseIsHandled ==
    /\ reply_at = "turn" \/ reply_outcome = "paused" => reply_history[LastAt].who = "user"
    /\ /\ reply_at = "retry" \/ reply_outcome = "proposed"
       /\ reply_history[LastAt].who = "model"
       => ToldAbout(LastAt) = <<>>
    /\ reply_outcome # "none" => reply_at = "done"
    /\ reply_at = "tools" =>
          /\ reply_history[LastAt].who = "model"
          /\ IF interactive
             THEN /\ next_use \in 1..(Len(uses) + 1)
                  /\ tool_results = [i \in 1..(next_use - 1) |-> <<LastAt, i>>]
                  /\ \A i \in 1..(next_use - 1) : uses[i] # "coco"
             ELSE /\ next_use = FirstBash(uses) /\ next_use \in DOMAIN uses
                  /\ kind # "invalid"

\* A use that is only announced
IsLeftToTheUser(i) ==
    /\ interactive /\ i[1] \in DOMAIN reply_history
    /\ i[2] \in DOMAIN reply_history[i[1]].uses /\ reply_history[i[1]].uses[i[2]] = "coco"

UsesEnd ==
    \A i \in announced \ ended :
       \/ reply_at = "done" /\ reply_outcome = "cancelled" /\ stop_token
       \/ IsLeftToTheUser(i)

OnlyHarmlessRuns ==
    \A x \in ran : x.kind \in {"safe", "tool"} \/ (x.kind = "coco" /\ ~interactive)

AccountInv ==
    /\ OffloadTypeOK
    /\ HistoryIsAnswered /\ ResponseIsHandled
    /\ UsesEnd /\ OnlyHarmlessRuns

-----------------------------------------------------------------------------
(* The turns that answer an ask: the operators *)

LEMMA FirstBashOfNone == FirstBash(<<>>) = 0
BY DEF FirstBash, SelectInSeq

LEMMA FirstBashIsAUse ==
    ASSUME NEW S, NEW s \in Seq(S)
    PROVE  FirstBash(s) = 0 \/ FirstBash(s) \in DOMAIN s
<1> DEFINE I == {i \in 1..Len(s) : s[i] # "tool"}
<1>1. FirstBash(s) = IF I # {} THEN Min(I) ELSE 0
  BY DEF FirstBash, SelectInSeq
<1>2. CASE I # {}
  <2>1. I \in SUBSET Nat
    OBVIOUS
  <2>2. Min(I) \in I
    BY <1>2, <2>1, MinIsIn
  <2> QED
    BY <1>1, <1>2, <2>2
<1> QED
  BY <1>1, <1>2

\* Messages at the end leave the others and what is told about them.
LEMMA PushKeeps ==
    ASSUME OffloadTypeOK, NEW messages \in Seq(OffloadMessage), Push(messages),
           UNCHANGED interactive
    PROVE  /\ reply_history' \in Seq(OffloadMessage) /\ reply_history' # <<>>
           /\ LastAt' = LastAt + Len(messages)
           /\ \A n \in DOMAIN reply_history :
                 /\ n \in DOMAIN reply_history' /\ reply_history'[n] = reply_history[n]
                 /\ ToldAbout(n)' = ToldAbout(n)
           /\ \A n \in DOMAIN messages :
                 /\ LastAt + n \in DOMAIN reply_history'
                 /\ reply_history'[LastAt + n] = messages[n]
           /\ \A i : IsLeftToTheUser(i) => IsLeftToTheUser(i)'
<1>1. reply_history \in Seq(OffloadMessage) /\ reply_history # <<>>
      /\ reply_history' = reply_history \o messages
  BY DEF OffloadTypeOK, Push
<1>2. /\ reply_history' \in Seq(OffloadMessage) /\ reply_history' # <<>>
      /\ LastAt' = LastAt + Len(messages)
      /\ \A n \in DOMAIN reply_history : n \in DOMAIN reply_history'
                                         /\ reply_history'[n] = reply_history[n]
      /\ \A n \in DOMAIN messages : LastAt + n \in DOMAIN reply_history'
                                    /\ reply_history'[LastAt + n] = messages[n]
  BY <1>1 DEF LastAt
<1>3. \A n \in DOMAIN reply_history : ToldAbout(n)' = ToldAbout(n)
  BY <1>2 DEF ToldAbout, IdsOf, ToSet
<1>4. \A i : IsLeftToTheUser(i) => IsLeftToTheUser(i)'
  BY <1>2 DEF IsLeftToTheUser
<1> QED
  BY <1>2, <1>3, <1>4

\* The messages of the loop
LEMMA MessagesOfTurns ==
    /\ FromUser \in OffloadMessage /\ FromUser.who = "user" /\ FromUser.ids = <<>>
    /\ \A u \in Seq(UseKinds) : /\ FromModel(u) \in OffloadMessage
                                /\ FromModel(u).who = "model" /\ FromModel(u).uses = u
    /\ \A s \in Seq(OffloadIds) : /\ ToolResults(s) \in OffloadMessage
                                  /\ ToolResults(s).who = "user" /\ ToolResults(s).ids = s
<1>1. <<>> \in Seq(UseKinds) /\ <<>> \in Seq(OffloadIds)
  OBVIOUS
<1> QED
  BY <1>1 DEF FromUser, FromModel, ToolResults, OffloadMessage

\* What is added answers the last response, and holds none that is not the last.
LEMMA PushAnswers ==
    ASSUME OffloadTypeOK, HistoryIsAnswered,
           NEW messages \in Seq(OffloadMessage), messages # <<>>, Push(messages),
           UNCHANGED interactive,
           reply_history[LastAt].who = "model" => messages[1].ids = ToldAbout(LastAt),
           \A n \in 1..(Len(messages) - 1) : messages[n].who = "user"
    PROVE  HistoryIsAnswered'
<1>1. /\ LastAt \in Nat /\ LastAt > 0 /\ DOMAIN reply_history = 1..LastAt
      /\ Len(messages) \in Nat /\ Len(messages) > 0 /\ DOMAIN messages = 1..Len(messages)
  BY DEF OffloadTypeOK, LastAt
<1>2. /\ LastAt' = LastAt + Len(messages)
      /\ \A n \in DOMAIN reply_history :
            /\ n \in DOMAIN reply_history' /\ reply_history'[n] = reply_history[n]
            /\ ToldAbout(n)' = ToldAbout(n)
      /\ \A n \in DOMAIN messages : reply_history'[LastAt + n] = messages[n]
  BY PushKeeps
<1>3. ASSUME NEW n \in 1..(LastAt' - 1), reply_history'[n].who = "model"
      PROVE  reply_history'[n + 1].ids = ToldAbout(n)'
  <2>1. CASE n < LastAt
    <3>1. n \in DOMAIN reply_history /\ n + 1 \in DOMAIN reply_history
          /\ n \in 1..(LastAt - 1)
      BY <1>1, <2>1
    <3> QED
      BY <1>2, <1>3, <3>1 DEF HistoryIsAnswered
  <2>2. CASE n = LastAt
    <3>1. LastAt \in DOMAIN reply_history /\ 1 \in DOMAIN messages
      BY <1>1
    <3> QED
      BY <1>2, <1>3, <2>2, <3>1
  <2>3. CASE n > LastAt
    <3>1. /\ n - LastAt \in 1..(Len(messages) - 1) /\ n - LastAt \in DOMAIN messages
          /\ LastAt + (n - LastAt) = n
      BY <1>1, <1>2, <2>3
    <3> QED
      BY <1>2, <1>3, <3>1
  <2> QED
    BY <1>1, <1>2, <2>1, <2>2, <2>3
<1> QED
  BY <1>3 DEF HistoryIsAnswered

\* A step that says nothing
LEMMA SilentKeeps ==
    ASSUME OffloadTypeOK, HistoryIsAnswered, UNCHANGED <<reply_history, interactive>>
    PROVE  /\ HistoryIsAnswered' /\ LastAt' = LastAt
           /\ \A n : ToldAbout(n)' = ToldAbout(n)
           /\ \A i : IsLeftToTheUser(i)' <=> IsLeftToTheUser(i)
<1>1. LastAt' = LastAt /\ \A n : ToldAbout(n)' = ToldAbout(n)
  BY DEF LastAt, ToldAbout, IdsOf
<1>2. HistoryIsAnswered'
  BY <1>1 DEF HistoryIsAnswered
<1>3. \A i : IsLeftToTheUser(i)' <=> IsLeftToTheUser(i)
  BY DEF IsLeftToTheUser
<1> QED
  BY <1>1, <1>2, <1>3

\* The use that is handled is one of the last message.
LEMMA HandledUse ==
    ASSUME AccountInv, reply_at = "tools", next_use \in DOMAIN uses
    PROVE  /\ LastAt \in DOMAIN reply_history /\ uses = reply_history[LastAt].uses
           /\ uses \in Seq(UseKinds) /\ kind \in UseKinds
           /\ id = <<LastAt, next_use>> /\ id \in OffloadIds
<1>1. LastAt \in DOMAIN reply_history /\ LastAt \in Nat /\ next_use \in Nat
      /\ reply_history[LastAt] \in OffloadMessage
  BY DEF AccountInv, OffloadTypeOK, LastAt
<1>2. uses = reply_history[LastAt].uses /\ uses \in Seq(UseKinds)
  BY <1>1 DEF uses, LastAt, Last, OffloadMessage
<1>3. kind \in UseKinds
  BY <1>2 DEF kind
<1>4. id = <<LastAt, next_use>>
  BY DEF id, LastAt
<1> QED
  BY <1>1, <1>2, <1>3, <1>4 DEF OffloadIds

\* The asks end, and the user cancels.
LEMMA LeavesKeep ==
    ASSUME AccountInv,
           \/ TurnSeesCancel \/ ChatIsLost \/ TooManyTurns \/ InputIsInvalid
           \/ UserCancelsAsk
    PROVE  AccountInv'
<1>1. UNCHANGED <<reply_history, useVars, interactive>>
  BY DEF TurnSeesCancel, ChatIsLost, TooManyTurns, InputIsInvalid, UserCancelsAsk, loopVars
<1>2. UNCHANGED <<next_use, tool_results, announced, ended, ran>>
  BY <1>1 DEF useVars
<1>3. /\ HistoryIsAnswered' /\ LastAt' = LastAt
      /\ \A n : ToldAbout(n)' = ToldAbout(n)
      /\ \A i : IsLeftToTheUser(i)' <=> IsLeftToTheUser(i)
  BY <1>1, SilentKeeps DEF AccountInv
<1>4. OnlyHarmlessRuns'
  BY <1>1, <1>2 DEF AccountInv, OnlyHarmlessRuns
<1>5. CASE UserCancelsAsk
  <2>1. stop_token' = TRUE /\ reply_at # "done" /\ UNCHANGED <<reply_at, reply_outcome>>
    BY <1>5 DEF UserCancelsAsk
  <2>2. UNCHANGED uses /\ UNCHANGED kind
    BY <1>1, <1>2 DEF uses, kind
  <2>3. OffloadTypeOK' /\ ResponseIsHandled'
    BY <1>1, <1>2, <1>3, <2>1, <2>2 DEF AccountInv, OffloadTypeOK, ResponseIsHandled
  <2>4. UsesEnd'
    BY <1>2, <1>3, <2>1 DEF AccountInv, UsesEnd
  <2> QED
    BY <1>3, <1>4, <2>3, <2>4 DEF AccountInv
<1>6. CASE TurnSeesCancel \/ ChatIsLost \/ TooManyTurns \/ InputIsInvalid
  <2>1. /\ reply_at' = "done" /\ reply_outcome' \notin {"none", "paused", "proposed"}
        /\ reply_at # "done" /\ UNCHANGED stop_token
    BY <1>6 DEF TurnSeesCancel, ChatIsLost, TooManyTurns, InputIsInvalid, Handles, Leave
  <2>2. OffloadTypeOK' /\ ResponseIsHandled'
    BY <1>1, <1>2, <2>1 DEF AccountInv, OffloadTypeOK, ResponseIsHandled
  <2>3. UsesEnd'
    BY <1>2, <1>3, <2>1 DEF AccountInv, UsesEnd
  <2> QED
    BY <1>3, <1>4, <2>2, <2>3 DEF AccountInv
<1> QED
  BY <1>5, <1>6

\* A turn of the model
LEMMA TurnKeeps ==
    ASSUME AccountInv, NEW response \in OffloadResponses, Turn(response)
    PROVE  AccountInv'
<1>1. /\ interactive /\ reply_at = "turn" /\ response \in Seq(UseKinds)
      /\ UNCHANGED <<interactive, announced, ended, ran, stop_token>>
  BY OffloadAssumption DEF Turn
<1>2. OffloadTypeOK /\ HistoryIsAnswered /\ reply_history[LastAt].who = "user"
      /\ reply_outcome = "none"
  BY <1>1 DEF AccountInv, ResponseIsHandled
<1>3. ASSUME NEW message \in OffloadMessage, Push(<<message>>)
      PROVE  /\ HistoryIsAnswered' /\ reply_history' \in Seq(OffloadMessage)
             /\ reply_history' # <<>> /\ reply_history'[LastAt'] = message
             /\ UsesEnd' /\ OnlyHarmlessRuns'
  <2>1. <<message>> \in Seq(OffloadMessage) /\ Len(<<message>>) = 1 /\ <<message>> # <<>>
        /\ DOMAIN <<message>> = {1}
    OBVIOUS
  <2>2. HistoryIsAnswered'
    <3>1. \A n \in 1..(Len(<<message>>) - 1) : <<message>>[n].who = "user"
      BY <2>1
    <3>2. reply_history[LastAt].who # "model"
      BY <1>2
    <3> QED
      BY <1>1, <1>2, <1>3, <2>1, <3>1, <3>2, PushAnswers
  <2>3. /\ reply_history' \in Seq(OffloadMessage) /\ reply_history' # <<>>
        /\ LastAt' = LastAt + 1 /\ reply_history'[LastAt + 1] = message
        /\ \A i : IsLeftToTheUser(i) => IsLeftToTheUser(i)'
    BY <1>1, <1>2, <1>3, <2>1, PushKeeps
  <2>4. UsesEnd' /\ OnlyHarmlessRuns'
    BY <1>1, <2>3 DEF AccountInv, UsesEnd, OnlyHarmlessRuns
  <2> QED
    BY <2>2, <2>3, <2>4
<1>4. CASE response = <<>>
  <2>1. /\ Push(<<FromUser>>) /\ UNCHANGED <<next_use, tool_results>>
        /\ \/ reply_at' = "done" /\ reply_outcome' = "paused"
           \/ UNCHANGED <<reply_at, reply_outcome>>
    BY <1>4 DEF Turn, Leave
  <2>2. /\ HistoryIsAnswered' /\ reply_history' \in Seq(OffloadMessage)
        /\ reply_history' # <<>> /\ reply_history'[LastAt'].who = "user"
        /\ UsesEnd' /\ OnlyHarmlessRuns'
    BY <1>3, <2>1, MessagesOfTurns
  <2> QED
    BY <1>1, <1>2, <2>1, <2>2 DEF AccountInv, OffloadTypeOK, ResponseIsHandled
<1>5. CASE response # <<>>
  <2>1. /\ Push(<<FromModel(response)>>) /\ next_use' = 1 /\ tool_results' = <<>>
        /\ reply_at' = "tools" /\ UNCHANGED reply_outcome
    BY <1>5 DEF Turn
  <2>2. /\ HistoryIsAnswered' /\ reply_history' \in Seq(OffloadMessage)
        /\ reply_history' # <<>> /\ reply_history'[LastAt'].who = "model"
        /\ reply_history'[LastAt'].uses = response
        /\ UsesEnd' /\ OnlyHarmlessRuns'
    BY <1>1, <1>3, <2>1, MessagesOfTurns
  <2>3. uses' = response
    BY <2>2 DEF uses, Last, LastAt
  <2>4. 1 \in 1..(Len(response) + 1) /\ 1..(1 - 1) = {} /\ <<>> \in Seq(OffloadIds)
        /\ <<>> = [i \in 1..(1 - 1) |-> <<LastAt', i>>]
    BY <1>1
  <2> QED
    BY <1>1, <1>2, <2>1, <2>2, <2>3, <2>4 DEF AccountInv, OffloadTypeOK, ResponseIsHandled
<1> QED
  BY <1>4, <1>5

\* The user's messages, and the results, answer the last response.
LEMMA UserAnswers ==
    ASSUME AccountInv, UNCHANGED interactive,
           NEW messages \in Seq(OffloadMessage), messages # <<>>, Push(messages),
           reply_history[LastAt].who = "model" => messages[1].ids = ToldAbout(LastAt),
           \A n \in DOMAIN messages : messages[n].who = "user"
    PROVE  /\ HistoryIsAnswered'
           /\ reply_history' \in Seq(OffloadMessage) /\ reply_history' # <<>>
           /\ reply_history'[LastAt'].who = "user"
           /\ \A i : IsLeftToTheUser(i) => IsLeftToTheUser(i)'
<1>1. /\ OffloadTypeOK /\ HistoryIsAnswered
      /\ Len(messages) \in Nat /\ Len(messages) > 0 /\ DOMAIN messages = 1..Len(messages)
  BY DEF AccountInv
<1>2. \A n \in 1..(Len(messages) - 1) : messages[n].who = "user"
  BY <1>1
<1>3. HistoryIsAnswered'
  BY <1>1, <1>2, PushAnswers
<1>4. /\ reply_history' \in Seq(OffloadMessage) /\ reply_history' # <<>>
      /\ LastAt' = LastAt + Len(messages)
      /\ \A n \in DOMAIN messages : reply_history'[LastAt + n] = messages[n]
      /\ \A i : IsLeftToTheUser(i) => IsLeftToTheUser(i)'
  BY <1>1, PushKeeps
<1>5. Len(messages) \in DOMAIN messages
  BY <1>1
<1> QED
  BY <1>3, <1>4, <1>5

\* The messages that are pushed between two responses
LEMMA BetweenResponses ==
    ASSUME NEW ids \in Seq(OffloadIds),
           NEW messages \in {<<FromUser>>, <<ToolResults(ids)>>, <<ToolResults(ids), FromUser>>}
    PROVE  /\ messages \in Seq(OffloadMessage) /\ messages # <<>>
           /\ messages[1].ids = IF messages = <<FromUser>> THEN <<>> ELSE ids
           /\ \A n \in DOMAIN messages : messages[n].who = "user"
<1>1. /\ FromUser \in OffloadMessage /\ FromUser.who = "user" /\ FromUser.ids = <<>>
      /\ ToolResults(ids) \in OffloadMessage /\ ToolResults(ids).who = "user"
      /\ ToolResults(ids).ids = ids
  BY MessagesOfTurns
<1>2. CASE messages = <<FromUser>>
  BY <1>1, <1>2
<1>3. CASE messages # <<FromUser>> /\ messages = <<ToolResults(ids)>>
  <2>1. DOMAIN messages = {1} /\ messages[1] = ToolResults(ids)
    BY <1>3
  <2> QED
    BY <1>1, <1>3, <2>1
<1>4. CASE messages = <<ToolResults(ids), FromUser>>
  <2>1. /\ DOMAIN messages = {1, 2} /\ messages[1] = ToolResults(ids)
        /\ messages[2] = FromUser /\ messages # <<FromUser>>
    BY <1>4
  <2> QED
    BY <1>1, <1>4, <2>1
<1> QED
  BY <1>2, <1>3, <1>4

\* Nothing but what may run does.
LEMMA RunIsHarmless ==
    ASSUME OnlyHarmlessRuns, UNCHANGED interactive, NEW run, Executes(run),
           kind \in {"safe", "tool"} \/ (kind = "coco" /\ ~interactive)
    PROVE  OnlyHarmlessRuns'
<1>1. ran' = ran \/ ran' = ran \cup {[id |-> id, kind |-> kind]}
  BY DEF Executes
<1> QED
  BY <1>1 DEF OnlyHarmlessRuns

\* A tool of an interactive turn has a result: the next one is handled.
LEMMA AnsweredKeeps ==
    ASSUME AccountInv, interactive, reply_at = "tools", next_use <= Len(uses),
           NEW run, Answered(run), kind # "coco", OnlyHarmlessRuns',
           UNCHANGED <<loopVars, reply_at, reply_outcome, reply_history, stop_token>>
    PROVE  AccountInv'
<1>1. /\ announced' = announced \cup {id} /\ ended' = ended \cup {id}
      /\ tool_results' = Append(tool_results, id) /\ next_use' = next_use + 1
      /\ UNCHANGED <<interactive, reply_at, reply_outcome, reply_history, stop_token>>
  BY DEF Answered, Announce, AnnounceEnd, loopVars
<1>2. /\ OffloadTypeOK /\ HistoryIsAnswered /\ reply_history[LastAt].who = "model"
      /\ next_use \in 1..(Len(uses) + 1)
      /\ tool_results = [i \in 1..(next_use - 1) |-> <<LastAt, i>>]
      /\ \A i \in 1..(next_use - 1) : uses[i] # "coco"
      /\ reply_outcome = "none"
  BY DEF AccountInv, ResponseIsHandled
<1>3. UNCHANGED uses
  BY <1>1 DEF uses
<1>4. LastAt \in DOMAIN reply_history /\ reply_history[LastAt] \in OffloadMessage
  BY <1>2 DEF OffloadTypeOK, LastAt
<1>5. Len(uses) \in Nat /\ DOMAIN uses = 1..Len(uses)
  BY <1>4 DEF uses, Last, LastAt, OffloadMessage
<1>6. next_use \in DOMAIN uses /\ next_use \in Nat
  BY <1>2, <1>5
<1>7. id = <<LastAt, next_use>> /\ id \in OffloadIds
  BY <1>6, HandledUse
<1>8. /\ HistoryIsAnswered' /\ LastAt' = LastAt
      /\ \A i : IsLeftToTheUser(i)' <=> IsLeftToTheUser(i)
  BY <1>1, <1>2, SilentKeeps
<1>9. tool_results' = [i \in 1..(next_use' - 1) |-> <<LastAt', i>>]
  <2>1. tool_results \in Seq(OffloadIds) /\ Len(tool_results) = next_use - 1
    BY <1>2, <1>6 DEF OffloadTypeOK
  <2>2. /\ tool_results' \in Seq(OffloadIds) /\ Len(tool_results') = next_use
        /\ \A i \in 1..(next_use - 1) : tool_results'[i] = tool_results[i]
        /\ tool_results'[next_use] = id
    BY <1>1, <1>6, <1>7, <2>1, AppendProperties
  <2>3. next_use' - 1 = next_use /\ DOMAIN tool_results' = 1..next_use
    BY <1>1, <1>6, <2>2
  <2>4. \A i \in 1..next_use : tool_results'[i] = <<LastAt, i>>
    BY <1>2, <1>6, <1>7, <2>2
  <2>5. tool_results' = [i \in DOMAIN tool_results' |-> tool_results'[i]]
    BY <2>2
  <2> QED
    BY <1>8, <2>3, <2>4, <2>5
<1>10. next_use' \in 1..(Len(uses) + 1) /\ \A i \in 1..(next_use' - 1) : uses[i] # "coco"
  <2>1. uses[next_use] # "coco"
    BY DEF kind
  <2> QED
    BY <1>1, <1>2, <1>5, <1>6, <2>1
<1>11. ResponseIsHandled'
  BY <1>1, <1>2, <1>3, <1>8, <1>9, <1>10 DEF ResponseIsHandled
<1>12. OffloadTypeOK'
  <2>1. tool_results' \in Seq(OffloadIds)
    BY <1>1, <1>2, <1>7, AppendProperties DEF OffloadTypeOK
  <2>2. announced' \in SUBSET OffloadIds /\ ended' \in SUBSET OffloadIds
    <3>1. announced \subseteq OffloadIds /\ ended \subseteq OffloadIds
      BY <1>2 DEF OffloadTypeOK
    <3> QED
      BY <1>1, <1>7, <3>1
  <2>3. next_use' \in Nat
    BY <1>1, <1>6
  <2>4. /\ reply_history \in Seq(OffloadMessage) /\ reply_history # <<>>
        /\ interactive \in BOOLEAN /\ stop_token \in BOOLEAN
        /\ reply_at \in {"turn", "tools", "retry", "done"}
    BY <1>2 DEF OffloadTypeOK
  <2> QED
    BY <1>1, <2>1, <2>2, <2>3, <2>4 DEF OffloadTypeOK
<1>13. UsesEnd'
  BY <1>1, <1>8 DEF AccountInv, UsesEnd
<1> QED
  BY <1>8, <1>11, <1>12, <1>13 DEF AccountInv

\* The tools of an interactive turn
LEMMA ToolsKeep ==
    ASSUME AccountInv, UnsafeIsRejected \/ SafeRuns \/ ToolRuns
    PROVE  AccountInv'
<1>1. /\ interactive /\ reply_at = "tools" /\ next_use <= Len(uses) /\ kind # "coco"
      /\ UNCHANGED <<loopVars, reply_history, stop_token>> /\ UNCHANGED interactive
  BY DEF UnsafeIsRejected, SafeRuns, ToolRuns, Handles, loopVars
<1>2. OnlyHarmlessRuns /\ OffloadTypeOK
  BY DEF AccountInv
<1>3. CASE \/ UnsafeIsRejected \/ ToolRuns
           \/ SafeRuns /\ ~stop_token
  <2>1. CASE UnsafeIsRejected
    <3>1. Answered(FALSE) /\ UNCHANGED <<reply_at, reply_outcome>>
      BY <2>1 DEF UnsafeIsRejected
    <3>2. OnlyHarmlessRuns'
      BY <1>1, <1>2, <3>1 DEF Answered, Executes, OnlyHarmlessRuns
    <3> QED
      BY <1>1, <3>1, <3>2, AnsweredKeeps
  <2>2. CASE ToolRuns
    <3>1. kind = "tool" /\ UNCHANGED <<reply_at, reply_outcome>>
      BY <2>2 DEF ToolRuns, Handles
    <3>2. PICK run \in {TRUE, FALSE} : Answered(run)
      BY <2>2 DEF ToolRuns
    <3>3. OnlyHarmlessRuns'
      BY <1>1, <1>2, <3>1, <3>2, RunIsHarmless DEF Answered
    <3> QED
      BY <1>1, <3>1, <3>2, <3>3, AnsweredKeeps
  <2>3. CASE SafeRuns /\ ~stop_token
    <3>1. kind = "safe" /\ Answered(TRUE) /\ UNCHANGED <<reply_at, reply_outcome>>
      BY <2>3 DEF SafeRuns, Handles
    <3>2. OnlyHarmlessRuns'
      BY <1>1, <1>2, <3>1, RunIsHarmless DEF Answered
    <3> QED
      BY <1>1, <3>1, <3>2, AnsweredKeeps
  <2> QED
    BY <1>3, <2>1, <2>2, <2>3
<1>4. CASE SafeRuns /\ stop_token
  <2>1. /\ kind = "safe" /\ announced' = announced \cup {id} /\ Executes(TRUE)
        /\ reply_at' = "done" /\ reply_outcome' = "cancelled"
        /\ UNCHANGED <<next_use, tool_results, ended>>
    BY <1>4 DEF SafeRuns, Handles, Announce, Leave
  <2>2. OnlyHarmlessRuns'
    BY <1>1, <1>2, <2>1, RunIsHarmless
  <2>3. HistoryIsAnswered'
    BY <1>1, SilentKeeps DEF AccountInv
  <2>4. id \in OffloadIds
    <3>1. next_use \in DOMAIN uses
      <4>1. LastAt \in DOMAIN reply_history /\ reply_history[LastAt] \in OffloadMessage
        BY <1>2 DEF OffloadTypeOK, LastAt
      <4>2. Len(uses) \in Nat /\ DOMAIN uses = 1..Len(uses)
        BY <4>1 DEF uses, Last, LastAt, OffloadMessage
      <4>3. next_use \in 1..(Len(uses) + 1)
        BY <1>1 DEF AccountInv, ResponseIsHandled
      <4> QED
        BY <1>1, <4>2, <4>3
    <3> QED
      BY <1>1, <3>1, HandledUse
  <2>5. OffloadTypeOK' /\ ResponseIsHandled'
    BY <1>1, <1>2, <2>1, <2>4 DEF OffloadTypeOK, ResponseIsHandled
  <2>6. UsesEnd'
    BY <1>1, <1>4, <2>1 DEF UsesEnd
  <2> QED
    BY <2>2, <2>3, <2>5, <2>6 DEF AccountInv
<1> QED
  BY <1>3, <1>4

\* The model is told about its last response what became of all its tools.
LEMMA TurnOverKeeps ==
    ASSUME AccountInv, TurnIsOver
    PROVE  AccountInv'
<1>1. /\ interactive /\ reply_at = "tools" /\ next_use > Len(uses)
      /\ Push(<<ToolResults(tool_results), FromUser>>) /\ reply_at' = "turn"
      /\ UNCHANGED <<interactive, reply_outcome, stop_token>>
      /\ UNCHANGED <<next_use, tool_results, announced, ended, ran>>
  BY DEF TurnIsOver, loopVars, useVars
<1>2. /\ OffloadTypeOK /\ next_use \in 1..(Len(uses) + 1) /\ reply_outcome = "none"
      /\ tool_results = [i \in 1..(next_use - 1) |-> <<LastAt, i>>]
      /\ \A i \in 1..(next_use - 1) : uses[i] # "coco"
  BY <1>1 DEF AccountInv, ResponseIsHandled
<1>3. LastAt \in DOMAIN reply_history /\ reply_history[LastAt] \in OffloadMessage
      /\ uses = reply_history[LastAt].uses
  BY <1>2 DEF OffloadTypeOK, LastAt, uses, Last
<1>4. Len(uses) \in Nat /\ DOMAIN uses = 1..Len(uses)
  BY <1>3 DEF OffloadMessage
<1>5. next_use - 1 = Len(uses)
  BY <1>1, <1>2, <1>4
<1>6. tool_results = IdsOf(LastAt)
  BY <1>2, <1>3, <1>4, <1>5 DEF IdsOf
<1>7. "coco" \notin ToSet(uses)
  BY <1>2, <1>4, <1>5 DEF ToSet
<1>8. ToldAbout(LastAt) = tool_results
  BY <1>1, <1>3, <1>6, <1>7 DEF ToldAbout
<1>9. /\ HistoryIsAnswered'
      /\ reply_history' \in Seq(OffloadMessage) /\ reply_history' # <<>>
      /\ reply_history'[LastAt'].who = "user"
      /\ \A i : IsLeftToTheUser(i) => IsLeftToTheUser(i)'
  <2> DEFINE messages == <<ToolResults(tool_results), FromUser>>
  <2>1. tool_results \in Seq(OffloadIds)
    BY <1>2 DEF OffloadTypeOK
  <2>2. messages # <<FromUser>>
    OBVIOUS
  <2>3. /\ messages \in Seq(OffloadMessage) /\ messages # <<>>
        /\ messages[1].ids = tool_results
        /\ \A n \in DOMAIN messages : messages[n].who = "user"
    BY <2>1, <2>2, BetweenResponses
  <2>4. Push(messages)
    BY <1>1
  <2> HIDE DEF messages
  <2> QED
    BY <1>1, <1>8, <2>3, <2>4, UserAnswers
<1>10. OffloadTypeOK' /\ ResponseIsHandled'
  BY <1>1, <1>2, <1>9 DEF OffloadTypeOK, ResponseIsHandled
<1>11. UsesEnd' /\ OnlyHarmlessRuns'
  BY <1>1, <1>9 DEF AccountInv, UsesEnd, OnlyHarmlessRuns
<1> QED
  BY <1>9, <1>10, <1>11 DEF AccountInv

\* A use that is handled is one of the last response.
LEMMA HandlesAUse ==
    ASSUME AccountInv, reply_at = "tools", interactive => next_use <= Len(uses)
    PROVE  /\ next_use \in DOMAIN uses
           /\ LastAt \in DOMAIN reply_history /\ uses = reply_history[LastAt].uses
           /\ uses \in Seq(UseKinds) /\ kind = uses[next_use]
           /\ id = <<LastAt, next_use>> /\ id \in OffloadIds
<1>1. LastAt \in DOMAIN reply_history /\ reply_history[LastAt] \in OffloadMessage
  BY DEF AccountInv, OffloadTypeOK, LastAt
<1>2. Len(uses) \in Nat /\ DOMAIN uses = 1..Len(uses)
  BY <1>1 DEF uses, Last, LastAt, OffloadMessage
<1>3. next_use \in DOMAIN uses
  BY <1>2 DEF AccountInv, ResponseIsHandled
<1> QED
  BY <1>3, HandledUse DEF kind

\* A reply is left to the user.
LEMMA ProposalKeeps ==
    ASSUME AccountInv, ReplyIsProposed
    PROVE  AccountInv'
<1>1. /\ interactive /\ reply_at = "tools" /\ next_use <= Len(uses) /\ kind = "coco"
      /\ announced' = announced \cup {id}
      /\ reply_at' = "done" /\ reply_outcome' = "proposed"
      /\ UNCHANGED <<interactive, next_use, tool_results, ended, ran, reply_history, stop_token>>
  BY DEF ReplyIsProposed, Handles, Announce, Leave, loopVars
<1>2. /\ next_use \in DOMAIN uses
      /\ LastAt \in DOMAIN reply_history /\ uses = reply_history[LastAt].uses
      /\ uses \in Seq(UseKinds) /\ uses[next_use] = "coco"
      /\ id = <<LastAt, next_use>> /\ id \in OffloadIds
  BY <1>1, HandlesAUse
<1>3. OffloadTypeOK /\ OnlyHarmlessRuns
  BY DEF AccountInv
<1>4. /\ HistoryIsAnswered' /\ LastAt' = LastAt
      /\ \A n : ToldAbout(n)' = ToldAbout(n)
      /\ \A i : IsLeftToTheUser(i)' <=> IsLeftToTheUser(i)
  BY <1>1, <1>3, SilentKeeps DEF AccountInv
<1>5. ToldAbout(LastAt) = <<>>
  <2>1. "coco" \in ToSet(uses)
    BY <1>2 DEF ToSet
  <2> QED
    BY <1>1, <1>2, <2>1 DEF ToldAbout
<1>6. IsLeftToTheUser(id)
  BY <1>1, <1>2 DEF IsLeftToTheUser
<1>7. OffloadTypeOK'
  BY <1>1, <1>2, <1>3 DEF OffloadTypeOK
<1>8. ResponseIsHandled'
  BY <1>1, <1>4, <1>5 DEF ResponseIsHandled
<1>9. UsesEnd'
  BY <1>1, <1>4, <1>6 DEF AccountInv, UsesEnd
<1>10. OnlyHarmlessRuns'
  BY <1>1, <1>3 DEF OnlyHarmlessRuns
<1> QED
  BY <1>4, <1>7, <1>8, <1>9, <1>10 DEF AccountInv

\* The user's word, or another attempt
LEMMA PromptKeeps ==
    ASSUME AccountInv, FeedbackArrives \/ OffloadIsRetried
    PROVE  AccountInv'
<1>1. /\ UNCHANGED <<interactive, stop_token, next_use, tool_results, announced, ended, ran>>
      /\ \/ reply_outcome \in {"paused", "proposed"}
         \/ reply_at = "retry"
  BY DEF FeedbackArrives, OffloadIsRetried, useVars
<1>2. /\ OffloadTypeOK /\ HistoryIsAnswered /\ OnlyHarmlessRuns
      /\ reply_history[LastAt].who = "model" => ToldAbout(LastAt) = <<>>
  BY <1>1 DEF AccountInv, ResponseIsHandled
<1>3. OnlyHarmlessRuns'
  BY <1>1, <1>2 DEF OnlyHarmlessRuns
<1>4. \A i \in announced \ ended : IsLeftToTheUser(i)
  BY <1>1 DEF AccountInv, ResponseIsHandled, UsesEnd
<1>5. CASE Push(<<FromUser>>) /\ reply_at' = "turn" /\ reply_outcome' = "none"
  <2>1. <<>> \in Seq(OffloadIds)
    OBVIOUS
  <2>2. /\ <<FromUser>> \in Seq(OffloadMessage) /\ <<FromUser>> # <<>>
        /\ <<FromUser>>[1].ids = <<>>
        /\ \A n \in DOMAIN <<FromUser>> : <<FromUser>>[n].who = "user"
    BY <2>1, BetweenResponses
  <2>3. /\ HistoryIsAnswered'
        /\ reply_history' \in Seq(OffloadMessage) /\ reply_history' # <<>>
        /\ reply_history'[LastAt'].who = "user"
        /\ \A i : IsLeftToTheUser(i) => IsLeftToTheUser(i)'
    BY <1>1, <1>2, <1>5, <2>2, UserAnswers
  <2>4. OffloadTypeOK' /\ ResponseIsHandled'
    BY <1>1, <1>2, <1>5, <2>3 DEF OffloadTypeOK, ResponseIsHandled
  <2>5. UsesEnd'
    BY <1>1, <1>4, <2>3 DEF UsesEnd
  <2> QED
    BY <1>3, <2>3, <2>4, <2>5 DEF AccountInv
<1>6. CASE /\ UNCHANGED reply_history
           /\ reply_at' = "done" /\ reply_outcome' \in {"no reply", "cancelled"}
  <2>1. HistoryIsAnswered' /\ \A i : IsLeftToTheUser(i)' <=> IsLeftToTheUser(i)
    BY <1>1, <1>2, <1>6, SilentKeeps
  <2>2. OffloadTypeOK' /\ ResponseIsHandled'
    BY <1>1, <1>2, <1>6 DEF OffloadTypeOK, ResponseIsHandled
  <2>3. UsesEnd'
    BY <1>1, <1>4, <2>1 DEF UsesEnd
  <2> QED
    BY <1>3, <2>1, <2>2, <2>3 DEF AccountInv
<1>7. FeedbackArrives => Push(<<FromUser>>) /\ reply_at' = "turn" /\ reply_outcome' = "none"
  BY DEF FeedbackArrives
<1>8. reply_at = "retry" => reply_outcome = "none"
  BY DEF AccountInv, ResponseIsHandled
<1> QED
  BY <1>5, <1>6, <1>7, <1>8 DEF OffloadIsRetried, Leave

\* The only response of an ask that is not interactive, or of an attempt
LEMMA OffloadKeeps ==
    ASSUME AccountInv, NEW response \in OffloadResponses, Offload(response)
    PROVE  AccountInv'
<1>1. /\ ~interactive /\ reply_at = "turn" /\ response \in Seq(UseKinds)
      /\ next_use' = FirstBash(response)
      /\ reply_at' = IF next_use' = 0 \/ response[next_use'] = "invalid" THEN "retry"
                     ELSE "tools"
      /\ UNCHANGED <<interactive, tool_results, announced, ended, ran, reply_outcome, stop_token>>
  BY OffloadAssumption DEF Offload, loopVars
<1>2. /\ OffloadTypeOK /\ HistoryIsAnswered /\ OnlyHarmlessRuns
      /\ reply_history[LastAt].who = "user" /\ reply_outcome = "none"
      /\ \A i \in announced \ ended : IsLeftToTheUser(i)
  BY <1>1 DEF AccountInv, ResponseIsHandled, UsesEnd
<1>3. OnlyHarmlessRuns'
  BY <1>1, <1>2 DEF OnlyHarmlessRuns
<1>4. CASE response = <<>>
  <2>1. UNCHANGED reply_history /\ next_use' = 0 /\ reply_at' = "retry"
    BY <1>1, <1>4, FirstBashOfNone DEF Offload
  <2>2. /\ HistoryIsAnswered' /\ LastAt' = LastAt
        /\ \A i : IsLeftToTheUser(i)' <=> IsLeftToTheUser(i)
    BY <1>1, <1>2, <2>1, SilentKeeps
  <2>3. OffloadTypeOK' /\ ResponseIsHandled'
    BY <1>1, <1>2, <2>1, <2>2 DEF OffloadTypeOK, ResponseIsHandled
  <2>4. UsesEnd'
    BY <1>1, <1>2, <2>2 DEF UsesEnd
  <2> QED
    BY <1>3, <2>2, <2>3, <2>4 DEF AccountInv
<1>5. CASE response # <<>>
  <2> DEFINE messages == <<FromModel(response)>>
  <2>1. Push(messages)
    BY <1>5 DEF Offload
  <2>2. /\ messages \in Seq(OffloadMessage) /\ messages # <<>> /\ Len(messages) = 1
        /\ DOMAIN messages = {1} /\ messages[1].who = "model"
        /\ messages[1].uses = response
    BY <1>1, MessagesOfTurns
  <2> HIDE DEF messages
  <2>3. HistoryIsAnswered'
    <3>1. \A n \in 1..(Len(messages) - 1) : messages[n].who = "user"
      BY <2>2
    <3>2. reply_history[LastAt].who # "model"
      BY <1>2
    <3> QED
      BY <1>1, <1>2, <2>1, <2>2, <3>1, <3>2, PushAnswers
  <2>4. /\ reply_history' \in Seq(OffloadMessage) /\ reply_history' # <<>>
        /\ LastAt' = LastAt + 1 /\ reply_history'[LastAt + 1] = messages[1]
        /\ \A i : IsLeftToTheUser(i) => IsLeftToTheUser(i)'
    BY <1>1, <1>2, <2>1, <2>2, PushKeeps
  <2>5. uses' = response /\ kind' = response[next_use']
    BY <2>2, <2>4 DEF uses, kind, Last, LastAt
  <2>6. next_use' = 0 \/ next_use' \in DOMAIN response
    BY <1>1, FirstBashIsAUse
  <2>7. next_use' \in Nat
    BY <1>1, <2>6
  <2>8. OffloadTypeOK'
    BY <1>1, <1>2, <2>4, <2>7 DEF OffloadTypeOK
  <2>9. reply_at' = "retry" => ToldAbout(LastAt)' = <<>>
    <3>1. (FirstBash(reply_history[LastAt].uses))' = next_use'
      BY <1>1, <2>2, <2>4
    <3> QED
      BY <1>1, <2>2, <2>4, <3>1 DEF ToldAbout
  <2>10. ResponseIsHandled'
    BY <1>1, <1>2, <2>2, <2>4, <2>5, <2>6, <2>9 DEF ResponseIsHandled
  <2>11. UsesEnd'
    BY <1>1, <1>2, <2>4 DEF UsesEnd
  <2> QED
    BY <1>3, <2>3, <2>8, <2>10, <2>11 DEF AccountInv
<1> QED
  BY <1>4, <1>5

\* Its command is refused, or it runs and is answered.
LEMMA OffloadAnswered ==
    ASSUME AccountInv, ~interactive, reply_at = "tools",
           NEW messages \in {<<ToolResults(<<id>>)>>, <<ToolResults(<<id>>), FromUser>>},
           Push(messages), OnlyHarmlessRuns',
           announced' = announced \cup {id}, ended' = ended \cup {id},
           \/ reply_at' = "retry" /\ UNCHANGED reply_outcome
           \/ reply_at' = "done" /\ reply_outcome' = "replied",
           UNCHANGED <<interactive, next_use, tool_results, stop_token>>
    PROVE  AccountInv'
<1>1. /\ LastAt \in DOMAIN reply_history /\ uses = reply_history[LastAt].uses
      /\ next_use \in DOMAIN uses /\ uses \in Seq(UseKinds) /\ kind = uses[next_use]
      /\ id = <<LastAt, next_use>> /\ id \in OffloadIds
  BY HandlesAUse
<1>2. /\ OffloadTypeOK /\ next_use = FirstBash(uses) /\ kind # "invalid"
      /\ reply_outcome = "none"
      /\ \A i \in announced \ ended : IsLeftToTheUser(i)
  BY DEF AccountInv, ResponseIsHandled, UsesEnd
<1>3. ToldAbout(LastAt) = <<id>>
  <2>1. next_use # 0
    BY <1>1
  <2> QED
    BY <1>1, <1>2, <2>1 DEF ToldAbout
<1>4. <<id>> \in Seq(OffloadIds)
  BY <1>1
<1>5. messages # <<FromUser>>
  <2>1. FromUser.ids = <<>> /\ ToolResults(<<id>>).ids = <<id>>
    BY <1>4, MessagesOfTurns
  <2>2. FromUser # ToolResults(<<id>>)
    BY <2>1
  <2> QED
    BY <2>2
<1>6. /\ messages \in Seq(OffloadMessage) /\ messages # <<>>
      /\ messages[1].ids = <<id>>
      /\ \A n \in DOMAIN messages : messages[n].who = "user"
  <2>1. /\ messages \in Seq(OffloadMessage) /\ messages # <<>>
        /\ messages[1].ids = IF messages = <<FromUser>> THEN <<>> ELSE <<id>>
        /\ \A n \in DOMAIN messages : messages[n].who = "user"
    <3>1. messages \in {<<FromUser>>, <<ToolResults(<<id>>)>>,
                        <<ToolResults(<<id>>), FromUser>>}
      OBVIOUS
    <3> QED
      BY <1>4, <3>1, BetweenResponses
  <2> QED
    BY <1>5, <2>1
<1>7. /\ HistoryIsAnswered'
      /\ reply_history' \in Seq(OffloadMessage) /\ reply_history' # <<>>
      /\ reply_history'[LastAt'].who = "user"
      /\ \A i : IsLeftToTheUser(i) => IsLeftToTheUser(i)'
  BY <1>3, <1>6, UserAnswers
<1>8. announced' \in SUBSET OffloadIds /\ ended' \in SUBSET OffloadIds
  BY <1>1, <1>2 DEF OffloadTypeOK
<1>9. OffloadTypeOK'
  BY <1>2, <1>7, <1>8 DEF OffloadTypeOK
<1>10. ResponseIsHandled'
  BY <1>2, <1>7 DEF ResponseIsHandled
<1>11. UsesEnd'
  BY <1>2, <1>7 DEF UsesEnd
<1> QED
  BY <1>7, <1>9, <1>10, <1>11 DEF AccountInv

LEMMA OffloadCommandKeeps ==
    ASSUME AccountInv, OffloadIsRejected \/ OffloadRuns
    PROVE  AccountInv'
<1>1. /\ ~interactive /\ reply_at = "tools" /\ announced' = announced \cup {id}
      /\ UNCHANGED <<interactive, next_use, tool_results, stop_token>>
  BY DEF OffloadIsRejected, OffloadRuns, OffloadHandles, Announce, loopVars
<1>2. OffloadTypeOK /\ OnlyHarmlessRuns /\ id \in OffloadIds
  BY <1>1, HandlesAUse DEF AccountInv
<1>3. CASE OffloadIsRejected
  <2>1. /\ Push(<<ToolResults(<<id>>), FromUser>>) /\ ended' = ended \cup {id}
        /\ reply_at' = "retry" /\ UNCHANGED <<ran, reply_outcome>>
    BY <1>3 DEF OffloadIsRejected, AnnounceEnd
  <2>2. OnlyHarmlessRuns'
    BY <1>1, <1>2, <2>1 DEF OnlyHarmlessRuns
  <2> QED
    BY <1>1, <2>1, <2>2, OffloadAnswered
<1>4. CASE OffloadRuns
  <2>1. kind \in {"safe", "coco"} /\ Executes(TRUE)
    BY <1>4 DEF OffloadRuns
  <2>2. OnlyHarmlessRuns'
    BY <1>1, <1>2, <2>1, RunIsHarmless
  <2>3. CASE stop_token
    <3>1. /\ reply_at' = "done" /\ reply_outcome' = "cancelled"
          /\ UNCHANGED <<ended, reply_history>>
      BY <1>4, <2>3 DEF OffloadRuns, Leave
    <3>2. HistoryIsAnswered'
      BY <1>1, <3>1, SilentKeeps DEF AccountInv
    <3>3. announced' \in SUBSET OffloadIds
      BY <1>1, <1>2 DEF OffloadTypeOK
    <3>4. OffloadTypeOK' /\ ResponseIsHandled' /\ UsesEnd'
      BY <1>1, <1>2, <2>3, <3>1, <3>3 DEF OffloadTypeOK, ResponseIsHandled, UsesEnd
    <3> QED
      BY <2>2, <3>2, <3>4 DEF AccountInv
  <2>4. CASE ~stop_token /\ kind = "coco"
    <3>1. /\ Push(<<ToolResults(<<id>>)>>) /\ ended' = ended \cup {id}
          /\ reply_at' = "done" /\ reply_outcome' = "replied"
      BY <1>4, <2>4 DEF OffloadRuns, Leave, AnnounceEnd
    <3> QED
      BY <1>1, <2>2, <3>1, OffloadAnswered
  <2>5. CASE ~stop_token /\ kind # "coco"
    <3>1. /\ Push(<<ToolResults(<<id>>), FromUser>>) /\ ended' = ended \cup {id}
          /\ reply_at' = "retry" /\ UNCHANGED reply_outcome
      BY <1>4, <2>5 DEF OffloadRuns, AnnounceEnd
    <3> QED
      BY <1>1, <2>2, <3>1, OffloadAnswered
  <2> QED
    BY <2>3, <2>4, <2>5
<1> QED
  BY <1>3, <1>4

-----------------------------------------------------------------------------
(* The turns that answer an ask: the theorem *)

LEMMA OffloadStart ==
    ASSUME OffloadInit
    PROVE  AccountInv
<1>1. <<FromUser>> \in Seq(OffloadMessage) /\ <<FromUser>> # <<>> /\ Len(<<FromUser>>) = 1
      /\ <<FromUser>>[1].who = "user"
  BY MessagesOfTurns
<1>2. /\ reply_history = <<FromUser>> /\ LastAt = 1 /\ <<>> \in Seq(OffloadIds)
      /\ reply_at = "turn" /\ reply_outcome = "none" /\ announced = {} /\ ended = {}
      /\ ran = {} /\ next_use = 1 /\ tool_results = <<>> /\ stop_token = FALSE
      /\ interactive \in BOOLEAN
  BY <1>1 DEF OffloadInit, LastAt
<1>3. OffloadTypeOK
  BY <1>1, <1>2 DEF OffloadTypeOK
<1>4. HistoryIsAnswered
  <2>1. 1..(LastAt - 1) = {}
    BY <1>2
  <2> QED
    BY <2>1 DEF HistoryIsAnswered
<1> QED
  BY <1>1, <1>2, <1>3, <1>4
  DEF AccountInv, ResponseIsHandled, UsesEnd, OnlyHarmlessRuns

LEMMA OffloadStep ==
    ASSUME AccountInv, [OffloadNext]_offloadVars
    PROVE  AccountInv'
<1>1. CASE \/ TurnSeesCancel \/ ChatIsLost \/ TooManyTurns \/ InputIsInvalid
           \/ UserCancelsAsk
  BY <1>1, LeavesKeep
<1>2. CASE \E response \in OffloadResponses : Turn(response) \/ Offload(response)
  BY <1>2, TurnKeeps, OffloadKeeps
<1>3. CASE UnsafeIsRejected \/ SafeRuns \/ ToolRuns
  BY <1>3, ToolsKeep
<1>4. CASE ReplyIsProposed
  BY <1>4, ProposalKeeps
<1>5. CASE TurnIsOver
  BY <1>5, TurnOverKeeps
<1>6. CASE FeedbackArrives \/ OffloadIsRetried
  BY <1>6, PromptKeeps
<1>7. CASE OffloadIsRejected \/ OffloadRuns
  BY <1>7, OffloadCommandKeeps
<1>8. CASE UNCHANGED offloadVars
  <2>1. UNCHANGED <<interactive, reply_at, reply_outcome, reply_history, next_use,
                    tool_results, stop_token, announced, ended, ran>>
    BY <1>8 DEF offloadVars, loopVars, useVars
  <2>2. /\ HistoryIsAnswered' /\ LastAt' = LastAt
        /\ \A n : ToldAbout(n)' = ToldAbout(n)
        /\ \A i : IsLeftToTheUser(i)' <=> IsLeftToTheUser(i)
    BY <2>1, SilentKeeps DEF AccountInv
  <2>3. UNCHANGED uses /\ UNCHANGED kind
    BY <2>1 DEF uses, kind
  <2>4. OffloadTypeOK' /\ ResponseIsHandled'
    BY <2>1, <2>2, <2>3 DEF AccountInv, OffloadTypeOK, ResponseIsHandled
  <2>5. UsesEnd' /\ OnlyHarmlessRuns'
    BY <2>1, <2>2 DEF AccountInv, UsesEnd, OnlyHarmlessRuns
  <2> QED
    BY <2>2, <2>4, <2>5 DEF AccountInv
<1> QED
  BY <1>1, <1>2, <1>3, <1>4, <1>5, <1>6, <1>7, <1>8 DEF OffloadNext

LEMMA AnsweredIsAccountedFor ==
    ASSUME AccountInv
    PROVE  ToolUsesAreAccountedFor
<1>1. ASSUME reply_at = "turn", NEW n \in DOMAIN reply_history, reply_history[n].who = "model"
      PROVE  reply_history[n + 1].ids = ToldAbout(n)
  <2>1. reply_history[LastAt].who = "user" /\ DOMAIN reply_history = 1..LastAt
        /\ LastAt \in Nat
    BY <1>1 DEF AccountInv, OffloadTypeOK, ResponseIsHandled, LastAt
  <2>2. n # LastAt
    BY <1>1, <2>1
  <2>3. n \in 1..(LastAt - 1)
    BY <2>1, <2>2
  <2> QED
    BY <1>1, <2>3 DEF AccountInv, HistoryIsAnswered
<1>2. ASSUME reply_at = "done", NEW i \in announced \ ended
      PROVE  \/ reply_outcome = "cancelled" /\ stop_token
             \/ interactive /\ reply_history[i[1]].uses[i[2]] = "coco"
  BY <1>2 DEF AccountInv, UsesEnd, IsLeftToTheUser
<1>3. \A r \in ran : r.kind \in {"safe", "tool"} \/ (r.kind = "coco" /\ ~interactive)
  BY DEF AccountInv, OnlyHarmlessRuns
<1> QED
  BY <1>1, <1>2, <1>3 DEF ToolUsesAreAccountedFor

\* For any responses, turns, retries, reminders and messages of the user: whenever the
\* runner's model is asked again, the message after each of its responses holds the results
\* of the tools it is told about and no others, what the widget was told of has ended or
\* waits for the user or a cancel, and nothing ran that is not allowlisted
\* (handle_interactive_combo_reply, handle_offload_combo_reply_with_retry).
THEOREM TurnsAreAnswered == OffloadSpec => []ToolUsesAreAccountedFor
<1>1. AccountInv /\ [OffloadNext]_offloadVars => AccountInv'
  BY OffloadStep
<1> QED
  BY OffloadStart, <1>1, AnsweredIsAccountedFor, PTL DEF OffloadSpec


-----------------------------------------------------------------------------
(* The invariant *)

\* What a save task may write: a chat that is not Processing.
Contents ==
    [is : {"none", "whole", "torn"}, session : Sessions \cup {0},
     changes : Nat, processing : {FALSE}]

Chats == [session : Sessions, changes : Nat, processing : BOOLEAN]

Places == {"no", "snapshot", "timer", "summary", "write", "metadata", "done"}

Tasks ==
    [at : Places, content : Contents, due : BOOLEAN, cancelled : BOOLEAN,
     chat : Nat, late : SUBSET Saves]

LoadTypeOK ==
    /\ load.content \in Contents
    /\ load.at # "no" => load.content.session \in Sessions

StoreTypeOK ==
    /\ screen \in Chats
    /\ created \in Sessions /\ scheduled \in 0..MaxSaves
    /\ pending_save \in 0..scheduled
    /\ save \in [Saves -> Tasks]
    /\ files \in [Sessions -> Contents]
    /\ listed \subseteq Sessions
    /\ LoadTypeOK
    /\ chats \in Nat
    /\ wrote \in Seq(1..scheduled)

\* A task that can no longer write its file
Over(t) == save[t].at = "done" \/ (save[t].cancelled /\ ~save[t].due)

\* A task that was scheduled, and one that is past its timer
TasksInv ==
    \A t \in Saves :
       /\ save[t].at = "no" <=> t > scheduled
       /\ save[t].at \in {"summary", "write", "metadata"} => save[t].due
       /\ t <= scheduled => save[t].chat <= chats
                            /\ save[t].content.session \in Sessions

\* The chat holds the token of every timer of its own that may still go off.
TokenInv ==
    \A t \in 1..scheduled :
       save[t].chat = chats /\ ~Over(t) /\ ~save[t].due => pending_save = t

\* Scheduling a save puts an end to the earlier ones that are not late.
LateInv ==
    \A older, newer \in 1..scheduled :
       older < newer /\ save[older].chat = save[newer].chat
          => older \in save[newer].late \/ Over(older)

StoreInv ==
    /\ StoreTypeOK /\ TasksInv /\ TokenInv /\ LateInv
    /\ FilesAreRestorable

-----------------------------------------------------------------------------
(* Scheduling *)

\* What a step may do to the tasks there are: they go on, and what is over
\* stays over.
TasksGoOn(tasks) ==
    \A t \in 1..scheduled :
       /\ tasks[t].content = save[t].content /\ tasks[t].chat = save[t].chat
       /\ tasks[t].late = save[t].late
       /\ tasks[t].at # "no"
       /\ save[t].due => tasks[t].due
       /\ save[t].cancelled => tasks[t].cancelled
       /\ tasks[t].due /\ ~save[t].due => ~save[t].cancelled
       /\ save[t].at = "done" => tasks[t].at = "done"

LEMMA CancelledGoesOn ==
    ASSUME StoreTypeOK, TasksInv
    PROVE  /\ Cancelled(save) \in [Saves -> Tasks]
           /\ TasksGoOn(Cancelled(save))
           /\ \A t \in Saves : /\ Cancelled(save)[t].at = save[t].at
                               /\ Cancelled(save)[t].due = save[t].due
           /\ pending_save # 0 => Cancelled(save)[pending_save].cancelled
<1>1. pending_save # 0 => pending_save \in Saves
  BY StoreAssumption DEF StoreTypeOK, Saves
<1>2. \A t \in 1..scheduled : t \in Saves /\ save[t].at # "no"
  BY StoreAssumption DEF StoreTypeOK, Saves, TasksInv
<1>3. CASE pending_save = 0
  BY <1>2, <1>3 DEF Cancelled, TasksGoOn, StoreTypeOK
<1>4. CASE pending_save # 0
  <2> DEFINE p == pending_save
             task == [save[p] EXCEPT !.cancelled = TRUE]
  <2>1. /\ task \in Tasks /\ task.cancelled
        /\ task.at = save[p].at /\ task.due = save[p].due
        /\ task.content = save[p].content /\ task.chat = save[p].chat
        /\ task.late = save[p].late
    <3>1. save[p] \in Tasks
      BY <1>1, <1>4 DEF StoreTypeOK
    <3>2. task \in Tasks
      BY <3>1 DEF Tasks
    <3> QED
      BY <3>1, <3>2 DEF Tasks
  <2>2. Cancelled(save) = [save EXCEPT ![p] = task]
    BY <1>4 DEF Cancelled
  <2> HIDE DEF task
  <2>3. \A t \in Saves : Cancelled(save)[t] = IF t = p THEN task ELSE save[t]
    BY <2>2 DEF StoreTypeOK
  <2>4. TasksGoOn(Cancelled(save))
    BY <1>2, <2>1, <2>3 DEF TasksGoOn
  <2>5. Cancelled(save) \in [Saves -> Tasks]
    BY <2>1, <2>2 DEF StoreTypeOK
  <2> QED
    BY <1>1, <1>4, <2>1, <2>3, <2>4, <2>5
<1> QED
  BY <1>3, <1>4

\* Files and their order do not depend on tasks that are still to come.
LEMMA OrderStays ==
    ASSUME StoreTypeOK, FilesAreRestorable, TasksGoOn(save'),
           UNCHANGED <<files, wrote>>
    PROVE  FilesAreRestorable'
<1>1. FilesHoldTheirSession'
  BY DEF FilesAreRestorable, FilesHoldTheirSession
<1>2. \A i \in DOMAIN wrote : wrote[i] \in 1..scheduled
  BY DEF StoreTypeOK
<1>3. SavesStayInOrder'
  BY <1>2
  DEF FilesAreRestorable, SavesStayInOrder, OwnSession, TasksGoOn
<1> QED
  BY <1>1, <1>3 DEF FilesAreRestorable

\* Tasks go on, no new one is scheduled and no timer is forgotten.
LEMMA TasksKept ==
    ASSUME StoreInv, TasksGoOn(save'), save' \in [Saves -> Tasks],
           UNCHANGED scheduled, chats' \in {chats, chats + 1},
           pending_save' \in 0..scheduled,
           \A t \in Saves : t > scheduled => save'[t].at = "no",
           \A t \in Saves : save'[t].at \in {"summary", "write", "metadata"}
                               => save'[t].due,
           \/ pending_save' = pending_save
           \/ \A t \in 1..scheduled :
                 save[t].chat = chats' /\ ~Over(t)' => save'[t].due
    PROVE  TasksInv' /\ TokenInv' /\ LateInv'
<1> USE DEF StoreInv
<1>1. \A t \in 1..scheduled : t \in Saves /\ (Over(t) => Over(t)')
  BY StoreAssumption DEF StoreTypeOK, Saves, TasksGoOn, Over, Tasks
<1>2. TasksInv'
  BY <1>1, StoreAssumption DEF TasksInv, TasksGoOn, StoreTypeOK, Tasks, Saves
<1>3. LateInv'
  BY <1>1 DEF LateInv, TasksGoOn
<1>4. \A t \in 1..scheduled : save[t].chat <= chats /\ save[t].chat \in Nat
  BY <1>1 DEF TasksInv, StoreTypeOK, Tasks
<1>5. ASSUME NEW t \in 1..scheduled, save'[t].chat = chats', ~Over(t)',
             ~save'[t].due
      PROVE  pending_save' = t
  <2>1. save[t].chat = chats' /\ ~Over(t) /\ ~save[t].due
    BY <1>1, <1>5 DEF TasksGoOn
  <2>2. chats' = chats
    BY <1>4, <2>1 DEF StoreTypeOK
  <2> QED
    BY <1>5, <2>1, <2>2 DEF TokenInv
<1>6. TokenInv'
  BY <1>5 DEF TokenInv
<1> QED
  BY <1>2, <1>3, <1>6

\* The task of a save that is scheduled now
NewTask(task) ==
    /\ task \in Tasks
    /\ task.at = "snapshot" /\ task.chat = chats /\ task.late = Underway
    /\ task.content.session \in Sessions

LEMMA SnapshotIsNew ==
    ASSUME StoreTypeOK,
           NEW c \in Chats,
           NEW now \in BOOLEAN
    PROVE  \E task \in Tasks :
              /\ NewTask(task) /\ task.due = now
              /\ Scheduled(c, now) = [Cancelled(save) EXCEPT
                                        ![scheduled + 1] = task]
<1> DEFINE task == [NoSave EXCEPT !.at = "snapshot", !.content = Snapshot(c),
                                  !.due = now, !.chat = chats,
                                  !.late = Underway]
<1>1. Snapshot(c) \in Contents
  BY DEF Snapshot, state_to_save, Contents, Chats
<1>2. Underway \in SUBSET Saves /\ chats \in Nat
  BY DEF Underway, StoreTypeOK
<1>3. NoSave \in Tasks
  BY DEF NoSave, NoFile, Tasks, Places, Contents
<1>4. task \in Tasks
  BY <1>1, <1>2, <1>3 DEF Tasks, Places
<1>5. task.content = Snapshot(c) /\ Snapshot(c).session \in Sessions
  BY <1>3 DEF Tasks, Snapshot, Chats
<1>6. NewTask(task) /\ task.due = now
  BY <1>3, <1>4, <1>5 DEF NewTask, Tasks
<1>7. Scheduled(c, now) = [Cancelled(save) EXCEPT ![scheduled + 1] = task]
  BY DEF Scheduled
<1> QED
  BY <1>4, <1>6, <1>7

\* A save is scheduled: the earlier ones are late, over or cancelled.
LEMMA ScheduleKept ==
    ASSUME StoreInv, NEW task, NewTask(task),
           scheduled + 1 \in Saves, scheduled' = scheduled + 1,
           save' = [Cancelled(save) EXCEPT ![scheduled + 1] = task],
           UNCHANGED <<chats, files, wrote>>,
           \/ pending_save' = scheduled + 1
           \/ pending_save' = 0 /\ task.due
    PROVE  /\ save' \in [Saves -> Tasks] /\ pending_save' \in 0..scheduled'
           /\ scheduled' \in 0..MaxSaves /\ wrote \in Seq(1..scheduled')
           /\ TasksInv' /\ TokenInv' /\ LateInv' /\ FilesAreRestorable'
<1> USE DEF StoreInv
<1> DEFINE n == scheduled + 1
<1>1. /\ scheduled \in Nat /\ n \in Nat /\ n \in Saves
      /\ \A t \in 1..scheduled : t \in Saves /\ t # n /\ t \in 1..n
      /\ \A t \in 1..n : t \in 1..scheduled \/ t = n
  BY StoreAssumption DEF StoreTypeOK, Saves
<1>2. /\ Cancelled(save) \in [Saves -> Tasks]
      /\ TasksGoOn(Cancelled(save))
      /\ \A t \in Saves : /\ Cancelled(save)[t].at = save[t].at
                          /\ Cancelled(save)[t].due = save[t].due
      /\ pending_save # 0 => Cancelled(save)[pending_save].cancelled
  BY CancelledGoesOn
<1>3. /\ save' \in [Saves -> Tasks] /\ save'[n] = task
      /\ \A t \in Saves \ {n} : save'[t] = Cancelled(save)[t]
  BY <1>1, <1>2 DEF NewTask
<1>4. TasksGoOn(save')
  BY <1>1, <1>2, <1>3 DEF TasksGoOn
<1>5. FilesAreRestorable'
  BY <1>4, OrderStays
<1>6. ASSUME NEW t \in 1..scheduled
      PROVE  Over(t) => Over(t)'
  BY <1>1, <1>4 DEF StoreTypeOK, TasksGoOn, Over, Tasks
<1>7. TasksInv'
  <2> SUFFICES ASSUME NEW t \in Saves
               PROVE  /\ save'[t].at = "no" <=> t > n
                      /\ save'[t].at \in {"summary", "write", "metadata"}
                            => save'[t].due
                      /\ t <= n => /\ save'[t].chat <= chats
                                   /\ save'[t].content.session \in Sessions
    BY DEF TasksInv
  <2>1. CASE t = n
    BY <1>3, <2>1 DEF NewTask, StoreTypeOK
  <2>2. CASE t # n
    <3>1. /\ save'[t].at = save[t].at /\ save'[t].due = save[t].due
          /\ t \in Nat /\ t >= 1
      BY <1>2, <1>3, <2>2 DEF Saves
    <3>2. t <= n => /\ save'[t].chat = save[t].chat
                    /\ save'[t].content = save[t].content
      BY <1>1, <1>4, <2>2, <3>1 DEF TasksGoOn
    <3> QED
      BY <1>1, <2>2, <3>1, <3>2 DEF TasksInv
  <2> QED
    BY <2>1, <2>2
<1>8. ASSUME NEW t \in 1..scheduled, save[t].chat = chats, ~Over(t)',
             ~save'[t].due
      PROVE  FALSE
  <2>1. ~Over(t) /\ ~save[t].due
    BY <1>4, <1>6, <1>8 DEF TasksGoOn
  <2>2. pending_save = t /\ t # 0
    BY <1>8, <2>1 DEF TokenInv
  <2>3. save'[t].cancelled
    BY <1>1, <1>2, <1>3, <2>2
  <2> QED
    BY <1>8, <2>3 DEF Over
<1>9. TokenInv'
  <2> SUFFICES ASSUME NEW t \in 1..n, save'[t].chat = chats, ~Over(t)',
                      ~save'[t].due
               PROVE  pending_save' = t
    BY DEF TokenInv
  <2>1. CASE t = n
    BY <1>3, <2>1
  <2>2. CASE t \in 1..scheduled
    BY <1>4, <1>8, <2>2 DEF TasksGoOn
  <2> QED
    BY <1>1, <2>1, <2>2
<1>10. LateInv'
  <2> SUFFICES ASSUME NEW older \in 1..n, NEW newer \in 1..n, older < newer,
                      save'[older].chat = save'[newer].chat
               PROVE  older \in save'[newer].late \/ Over(older)'
    BY DEF LateInv
  <2>1. older \in 1..scheduled
    BY <1>1
  <2>2. CASE newer = n
    <3>1. save[older].chat = chats
      BY <1>3, <1>4, <2>1, <2>2 DEF NewTask, TasksGoOn
    <3>2. Over(older)' \/ save'[older].due
      BY <1>8, <2>1, <3>1
    <3>3. CASE ~Over(older)'
      <4>1. save[older].due /\ save[older].at \notin {"no", "done"}
        BY <1>1, <1>2, <1>3, <2>1, <3>2, <3>3 DEF Over, TasksInv
      <4> QED
        BY <1>1, <1>3, <2>1, <2>2, <4>1 DEF NewTask, Underway
    <3> QED
      BY <3>3
  <2>3. CASE newer \in 1..scheduled
    BY <1>4, <1>6, <2>1, <2>3 DEF LateInv, TasksGoOn
  <2> QED
    BY <1>1, <2>2, <2>3
<1>11. wrote \in Seq(1..n)
  BY <1>1 DEF StoreTypeOK
<1>12. pending_save' \in 0..n /\ n \in 0..MaxSaves
  BY <1>1 DEF Saves
<1> QED
  BY <1>3, <1>5, <1>7, <1>9, <1>10, <1>11, <1>12

-----------------------------------------------------------------------------
(* The steps *)

LEMMA TaskStep ==
    ASSUME StoreInv, NEW t \in Saves, save' \in [Saves -> Tasks],
           \A s \in Saves : s # t => save'[s] = save[s],
           save[t].at \notin {"no", "done"}, save'[t].at # "no",
           save'[t].content = save[t].content, save'[t].chat = save[t].chat,
           save'[t].late = save[t].late,
           save'[t].cancelled = save[t].cancelled,
           save'[t].due = save[t].due \/ (save'[t].due /\ ~save[t].cancelled),
           save'[t].at \in {"summary", "write", "metadata"} => save'[t].due,
           UNCHANGED <<scheduled, chats, pending_save>>
    PROVE  TasksGoOn(save') /\ TasksInv' /\ TokenInv' /\ LateInv'
<1> USE DEF StoreInv
<1>1. t \in 1..scheduled
  BY StoreAssumption DEF TasksInv, StoreTypeOK, Saves
<1>2. \A s \in 1..scheduled : s \in Saves /\ save[s].at # "no"
  BY StoreAssumption DEF TasksInv, StoreTypeOK, Saves
<1>3. TasksGoOn(save')
  BY <1>2 DEF TasksGoOn, StoreTypeOK, Tasks
<1>4. \A s \in Saves : /\ s > scheduled => save'[s].at = "no"
                       /\ save'[s].at \in {"summary", "write", "metadata"}
                             => save'[s].due
  BY <1>1 DEF TasksInv
<1> QED
  BY <1>3, <1>4, TasksKept DEF StoreTypeOK

\* A save task goes from one await to the next.
LEMMA GoesKept ==
    ASSUME StoreInv, NEW t \in Saves, NEW from \in Places \ {"no", "done"},
           NEW to \in Places \ {"no"}, Goes(t, from, to),
           to \in {"summary", "write", "metadata"} => save[t].due,
           UNCHANGED chatVars2
    PROVE  /\ save' \in [Saves -> Tasks] /\ TasksGoOn(save')
           /\ TasksInv' /\ TokenInv' /\ LateInv'
           /\ save[t].at = from /\ save'[t].at = to
<1>1. save[t] \in Tasks
  BY DEF StoreInv, StoreTypeOK
<1>2. [save[t] EXCEPT !.at = to] \in Tasks
  BY <1>1 DEF Tasks
<1>3. save' = [save EXCEPT ![t] = [save[t] EXCEPT !.at = to]]
  BY DEF Goes
<1> DEFINE task == [save[t] EXCEPT !.at = to]
<1>4. /\ task.at = to /\ task.content = save[t].content
      /\ task.chat = save[t].chat /\ task.late = save[t].late
      /\ task.cancelled = save[t].cancelled /\ task.due = save[t].due
  BY <1>1 DEF Tasks
<1> HIDE DEF task
<1>5. /\ save' \in [Saves -> Tasks] /\ save'[t] = task
      /\ \A s \in Saves : s # t => save'[s] = save[s]
  BY <1>2, <1>3 DEF StoreInv, StoreTypeOK, task
<1>6. save[t].at = from
  BY DEF Goes
<1> QED
  BY <1>4, <1>5, <1>6, TaskStep DEF chatVars2

LEMMA DueKept ==
    ASSUME StoreInv, NEW t \in Saves, TimerIsDue(t)
    PROVE  StoreInv'
<1>1. save[t] \in Tasks
  BY DEF StoreInv, StoreTypeOK
<1> DEFINE task == [save[t] EXCEPT !.due = TRUE]
<1>2. /\ task \in Tasks
      /\ task.at = save[t].at /\ task.content = save[t].content
      /\ task.chat = save[t].chat /\ task.late = save[t].late
      /\ task.cancelled = save[t].cancelled /\ task.due
  BY <1>1 DEF Tasks
<1>3. save' = [save EXCEPT ![t] = task]
  BY DEF TimerIsDue
<1> HIDE DEF task
<1>4. /\ save' \in [Saves -> Tasks] /\ save'[t] = task
      /\ \A s \in Saves : s # t => save'[s] = save[s]
  BY <1>2, <1>3 DEF StoreInv, StoreTypeOK
<1>5. save[t].at \in {"snapshot", "timer"} /\ ~save[t].cancelled
  BY DEF TimerIsDue
<1>6. UNCHANGED <<chatVars2, files, listed, wrote>>
  BY DEF TimerIsDue
<1>7. TasksGoOn(save') /\ TasksInv' /\ TokenInv' /\ LateInv'
  BY <1>2, <1>4, <1>5, <1>6, TaskStep DEF chatVars2
<1> QED
  BY <1>4, <1>6, <1>7, OrderStays
  DEF StoreInv, StoreTypeOK, LoadTypeOK, chatVars2

LEMMA WriteKept ==
    ASSUME StoreInv, NEW t \in Saves, WriteFile(t)
    PROVE  StoreInv'
<1> USE DEF StoreInv
<1>1. save[t].due /\ save[t].at = "write" /\ UNCHANGED chatVars2
  BY DEF WriteFile, Goes, TasksInv
<1>2. /\ save' \in [Saves -> Tasks] /\ TasksGoOn(save')
      /\ TasksInv' /\ TokenInv' /\ LateInv'
  BY <1>1, GoesKept DEF WriteFile, Places
<1>3. t \in 1..scheduled /\ ~Over(t)
  BY <1>1, StoreAssumption DEF Over, TasksInv, StoreTypeOK, Saves
<1>4. wrote' \in Seq(1..scheduled') /\ files' \in [Sessions -> Contents]
  <2>1. wrote' = Append(wrote, t) /\ scheduled' = scheduled
    BY <1>1 DEF WriteFile, chatVars2
  <2>2. save[t].content \in Contents
    BY DEF StoreTypeOK, Tasks
  <2>3. Append(wrote, t) \in Seq(1..scheduled)
    BY <1>3 DEF StoreTypeOK
  <2>4. files' \in [Sessions -> Contents]
    BY <2>2 DEF WriteFile, StoreTypeOK
  <2> QED
    BY <2>1, <2>3, <2>4
<1>5. FilesHoldTheirSession'
  BY DEF WriteFile, FilesAreRestorable, FilesHoldTheirSession, OwnSession,
         StoreTypeOK, Tasks, Contents
<1>6. ASSUME NEW i \in DOMAIN wrote', NEW j \in DOMAIN wrote', i < j,
             wrote'[j] < wrote'[i],
             save'[wrote'[j]].content.session
                = save'[wrote'[i]].content.session,
             save'[wrote'[j]].chat = save'[wrote'[i]].chat
      PROVE  wrote'[j] \in save'[wrote'[i]].late
  <2>1. /\ i \in DOMAIN wrote /\ wrote'[i] = wrote[i]
        /\ wrote[i] \in 1..scheduled
        /\ \/ j \in DOMAIN wrote /\ wrote'[j] = wrote[j]
              /\ wrote[j] \in 1..scheduled
           \/ wrote'[j] = t
    BY <1>6 DEF WriteFile, StoreTypeOK
  <2>2. CASE j \in DOMAIN wrote /\ wrote'[j] = wrote[j]
             /\ wrote[j] \in 1..scheduled
    BY <1>2, <1>6, <2>1, <2>2
    DEF FilesAreRestorable, SavesStayInOrder, OwnSession, TasksGoOn
  <2>3. CASE wrote'[j] = t
    BY <1>2, <1>3, <1>6, <2>1, <2>3 DEF LateInv, TasksGoOn
  <2> QED
    BY <2>1, <2>2, <2>3
<1>7. SavesStayInOrder'
  BY <1>6 DEF SavesStayInOrder, OwnSession
<1>8. UNCHANGED listed
  BY DEF WriteFile
<1>9. StoreTypeOK'
  BY <1>1, <1>2, <1>4, <1>8 DEF StoreTypeOK, LoadTypeOK, chatVars2
<1> QED
  BY <1>2, <1>5, <1>7, <1>9 DEF FilesAreRestorable

LEMMA SaveKept ==
    ASSUME StoreInv, NEW t \in Saves,
           \/ Snapshots(t) \/ TimerIsDue(t) \/ SeesCancel(t) \/ TimerFires(t)
           \/ OpenFile(t) \/ WriteFile(t) \/ WriteMetadata(t)
    PROVE  StoreInv'
<1> USE DEF StoreInv
<1>1. ASSUME Snapshots(t) \/ SeesCancel(t) \/ TimerFires(t)
             \/ WriteMetadata(t) \/ OpenFile(t)
      PROVE  /\ save' \in [Saves -> Tasks] /\ TasksGoOn(save')
             /\ TasksInv' /\ TokenInv' /\ LateInv'
             /\ UNCHANGED chatVars2 /\ UNCHANGED wrote
  <2>1. UNCHANGED chatVars2 /\ UNCHANGED wrote
    BY <1>1 DEF Snapshots, SeesCancel, TimerFires, WriteMetadata, OpenFile
  <2>2. PICK from \in {"snapshot", "timer", "metadata", "summary"},
             to \in {"timer", "done", "summary", "write"} :
                /\ Goes(t, from, to)
                /\ from = "timer" /\ to # "done" => save[t].due
                /\ to \in {"summary", "write"} => from # "snapshot"
                                                  /\ from # "metadata"
    BY <1>1 DEF Snapshots, SeesCancel, TimerFires, WriteMetadata, OpenFile
  <2>3. to \in {"summary", "write", "metadata"} => save[t].due
    BY <2>2 DEF TasksInv, Goes
  <2> QED
    BY <2>1, <2>2, <2>3, GoesKept DEF Places
<1>2. CASE Snapshots(t) \/ SeesCancel(t) \/ TimerFires(t) \/ WriteMetadata(t)
  <2>1. UNCHANGED files
    BY <1>2 DEF Snapshots, SeesCancel, TimerFires, WriteMetadata
  <2>2. listed' \subseteq Sessions
    <3>1. CASE WriteMetadata(t)
      <4>1. OwnSession(t) \in Sessions
        BY <3>1 DEF WriteMetadata, Goes, OwnSession, TasksInv, StoreTypeOK,
                    Saves
      <4> QED
        BY <3>1, <4>1 DEF WriteMetadata, StoreTypeOK
    <3>2. CASE ~WriteMetadata(t)
      BY <1>2, <3>2 DEF Snapshots, SeesCancel, TimerFires, StoreTypeOK
    <3> QED
      BY <3>1, <3>2
  <2> QED
    BY <1>1, <1>2, <2>1, <2>2, OrderStays
    DEF StoreTypeOK, LoadTypeOK, chatVars2
<1>3. CASE OpenFile(t)
  <2>1. /\ files' \in [Sessions -> Contents]
        /\ \A s \in Sessions : files'[s] = files[s] \/ files'[s].is = "torn"
    BY <1>3 DEF OpenFile, StoreTypeOK, Torn, NoFile, Contents
  <2>2. FilesHoldTheirSession'
    BY <2>1 DEF FilesAreRestorable, FilesHoldTheirSession
  <2>3. \A i \in DOMAIN wrote : wrote[i] \in 1..scheduled
    BY DEF StoreTypeOK
  <2>4. SavesStayInOrder'
    BY <1>1, <1>3, <2>3
    DEF FilesAreRestorable, SavesStayInOrder, OwnSession, TasksGoOn
  <2> QED
    BY <1>1, <1>3, <2>1, <2>2, <2>4
    DEF OpenFile, FilesAreRestorable, StoreTypeOK, LoadTypeOK, chatVars2
<1> QED
  BY <1>2, <1>3, DueKept, WriteKept

\* What the chat does when no save is scheduled: the tasks go on.
LEMMA ChatKept ==
    ASSUME StoreInv, TasksGoOn(save'), save' \in [Saves -> Tasks],
           \A t \in Saves : save'[t].at = "no" <=> save[t].at = "no",
           \A t \in Saves : save'[t].at \in {"summary", "write", "metadata"}
                               => save'[t].due,
           UNCHANGED <<scheduled, files, wrote>>, chats' \in {chats, chats + 1},
           pending_save' \in {pending_save, 0},
           \/ pending_save' = pending_save
           \/ \A t \in 1..scheduled :
                 save[t].chat = chats' /\ ~Over(t)' => save'[t].due,
           screen' \in Chats,
           created' \in Sessions, LoadTypeOK', UNCHANGED listed
    PROVE  StoreInv'
<1> USE DEF StoreInv
<1>1. pending_save' \in 0..scheduled /\ scheduled \in Nat
  BY StoreAssumption DEF StoreTypeOK
<1>2. \A t \in Saves : t > scheduled => save'[t].at = "no"
  BY DEF TasksInv
<1>3. TasksInv' /\ TokenInv' /\ LateInv'
  BY <1>1, <1>2, TasksKept
<1>4. FilesAreRestorable'
  BY OrderStays
<1>5. StoreTypeOK'
  BY <1>1 DEF StoreTypeOK
<1> QED
  BY <1>3, <1>4, <1>5

\* A save is scheduled by the chat as it is on the screen, or is about to be.
LEMMA ScheduleStep ==
    ASSUME StoreInv,
           NEW c \in Chats,
           NEW now \in BOOLEAN, schedule_save_task(c, now),
           UNCHANGED <<created, files, listed, chats, wrote>>,
           screen' \in Chats,
           LoadTypeOK'
    PROVE  StoreInv'
<1> USE DEF StoreInv
<1>1. PICK task \in Tasks :
              /\ NewTask(task)
              /\ save' = [Cancelled(save) EXCEPT ![scheduled + 1] = task]
  BY SnapshotIsNew DEF schedule_save_task
<1>2. /\ scheduled + 1 \in Saves /\ scheduled' = scheduled + 1
      /\ pending_save' = scheduled + 1
  BY DEF schedule_save_task
<1>3. /\ save' \in [Saves -> Tasks] /\ pending_save' \in 0..scheduled'
      /\ scheduled' \in 0..MaxSaves /\ wrote \in Seq(1..scheduled')
      /\ TasksInv' /\ TokenInv' /\ LateInv' /\ FilesAreRestorable'
  BY <1>1, <1>2, ScheduleKept
<1>4. StoreTypeOK'
  BY <1>3 DEF StoreTypeOK
<1> QED
  BY <1>3, <1>4

LEMMA NewSessionStep ==
    ASSUME StoreInv, new_session
    PROVE  StoreInv'
<1> USE DEF StoreInv
<1>1. /\ created' \in Sessions
      /\ screen' \in Chats
      /\ UNCHANGED <<files, listed, load, chats, wrote>> /\ pending_save' = 0
  BY DEF new_session, Blank, Chats
<1>2. CASE screen.changes > 0
  <2>1. PICK task \in Tasks :
                /\ NewTask(task) /\ task.due = TRUE
                /\ Scheduled(screen, TRUE)
                      = [Cancelled(save) EXCEPT ![scheduled + 1] = task]
    BY SnapshotIsNew DEF StoreTypeOK
  <2> DEFINE last == [task EXCEPT !.cancelled = TRUE]
  <2>2. NewTask(last) /\ last.due
    BY <2>1 DEF NewTask, Tasks
  <2>3. /\ scheduled + 1 \in Saves /\ scheduled' = scheduled + 1
        /\ save' = [Scheduled(screen, TRUE) EXCEPT
                      ![scheduled + 1].cancelled = TRUE]
    BY <1>2 DEF new_session
  <2>4. Cancelled(save) \in [Saves -> Tasks]
    BY CancelledGoesOn
  <2>5. save' = [Cancelled(save) EXCEPT ![scheduled + 1] = last]
    BY <2>1, <2>3, <2>4
  <2> HIDE DEF last
  <2>6. /\ save' \in [Saves -> Tasks] /\ pending_save' \in 0..scheduled'
        /\ scheduled' \in 0..MaxSaves /\ wrote \in Seq(1..scheduled')
        /\ TasksInv' /\ TokenInv' /\ LateInv' /\ FilesAreRestorable'
    BY <1>1, <2>2, <2>3, <2>5, ScheduleKept
  <2>7. StoreTypeOK'
    BY <1>1, <2>6 DEF StoreTypeOK, LoadTypeOK
  <2> QED
    BY <2>6, <2>7
<1>3. CASE ~(screen.changes > 0)
  <2>1. save' = Cancelled(save) /\ UNCHANGED scheduled
    BY <1>3 DEF new_session
  <2>2. /\ save' \in [Saves -> Tasks] /\ TasksGoOn(save')
        /\ \A t \in Saves : /\ save'[t].at = save[t].at
                            /\ save'[t].due = save[t].due
        /\ pending_save # 0 => save'[pending_save].cancelled
    BY <2>1, CancelledGoesOn
  <2>3. \A t \in Saves : save'[t].at \in {"summary", "write", "metadata"}
                            => save'[t].due
    BY <2>2 DEF TasksInv
  <2>4. ASSUME NEW t \in 1..scheduled, save[t].chat = chats, ~Over(t)'
        PROVE  save'[t].due
    <3>1. t \in Saves
      BY StoreAssumption DEF StoreTypeOK, Saves
    <3>2. CASE ~Over(t) /\ ~save[t].due
      <4>1. pending_save = t /\ t # 0
        BY <2>4, <3>2 DEF TokenInv
      <4> QED
        BY <2>2, <2>4, <4>1 DEF Over
    <3>3. CASE Over(t) \/ save[t].due
      BY <2>2, <2>4, <3>1, <3>3 DEF Over, TasksGoOn
    <3> QED
      BY <3>2, <3>3
  <2> QED
    BY <1>1, <2>1, <2>2, <2>3, <2>4, ChatKept DEF StoreTypeOK, LoadTypeOK
<1> QED
  BY <1>2, <1>3

\* A chat is restored, or the process starts anew.
LEMMA RestoreSteps ==
    ASSUME StoreInv, load_session \/ Restored \/ Restarts
    PROVE  StoreInv'
<1> USE DEF StoreInv
<1>1. \A t \in Saves : t > scheduled <=> save[t].at = "no"
  BY DEF TasksInv
<1>2. \A t \in 1..scheduled : t \in Saves /\ save[t].at # "no"
  BY <1>1, StoreAssumption DEF StoreTypeOK, Saves
<1>3. UNCHANGED save => TasksGoOn(save')
  BY <1>2 DEF TasksGoOn
<1>4. CASE load_session
  <2>1. LoadTypeOK'
    <3>1. NoFile \in Contents
      BY DEF NoFile, Contents
    <3>2. load.content.session \in Sessions
      BY <1>4 DEF load_session, StoreTypeOK, LoadTypeOK
    <3> QED
      BY <1>4, <3>1, <3>2
      DEF load_session, NoLoad, StoreTypeOK, LoadTypeOK, FilesAreRestorable,
          FilesHoldTheirSession
  <2> QED
    BY <1>3, <1>4, <2>1, ChatKept DEF load_session, StoreTypeOK, TasksInv
<1>5. CASE Restored
  <2>1. /\ screen' \in Chats
        /\ LoadTypeOK'
    BY <1>5
    DEF Restored, StoreTypeOK, LoadTypeOK, Contents, NoLoad, NoFile, Chats
  <2>2. ASSUME NEW t \in 1..scheduled
        PROVE  save[t].chat # chats + 1
    <3>1. save[t].chat \in Nat /\ chats \in Nat
      BY <1>2 DEF StoreTypeOK, Tasks
    <3>2. save[t].chat <= chats
      BY <1>2 DEF TasksInv
    <3> QED
      BY <3>1, <3>2
  <2> QED
    BY <1>3, <1>5, <2>1, <2>2, ChatKept DEF Restored, StoreTypeOK, TasksInv
<1>6. CASE Restarts
  <2>1. /\ screen' \in Chats
        /\ created' \in Sessions
    BY <1>6 DEF Restarts, Blank, Chats
  <2>2. LoadTypeOK'
    <3>1. NoLoad.content \in Contents /\ NoLoad.at = "no"
      BY DEF NoLoad, NoFile, Contents
    <3>2. ASSUME NEW s \in Sessions
          PROVE  /\ [NoFile EXCEPT !.session = s] \in Contents
                 /\ [NoFile EXCEPT !.session = s].session = s
      BY DEF NoFile, Contents
    <3>3. CASE load' = NoLoad
      BY <3>1, <3>3 DEF LoadTypeOK
    <3>4. ASSUME NEW s \in listed,
                 load' = [at |-> "reading",
                          content |-> [NoFile EXCEPT !.session = s]]
          PROVE  LoadTypeOK'
      <4>1. s \in Sessions
        BY DEF StoreTypeOK
      <4>2. load'.at = "reading" /\ load'.content = [NoFile EXCEPT !.session = s]
        BY <3>4
      <4> QED
        BY <3>2, <3>4, <4>1, <4>2 DEF LoadTypeOK
    <3> QED
      BY <1>6, <3>3, <3>4 DEF Restarts
  <2>3. ASSUME NEW t \in Saves
        PROVE  /\ save'[t] \in Tasks
               /\ save[t].at = "no" => save'[t].at = "no"
               /\ save[t].at # "no" =>
                     /\ save'[t].at = "done"
                     /\ save'[t].content = save[t].content
                     /\ save'[t].chat = save[t].chat
                     /\ save'[t].late = save[t].late
                     /\ save'[t].due = save[t].due
                     /\ save'[t].cancelled = save[t].cancelled
    <3>1. CASE save[t].at = "no"
      BY <1>6, <3>1 DEF Restarts, NoSave, NoFile, Tasks, Places, Contents
    <3>2. CASE save[t].at # "no"
      <4>1. save[t] \in Tasks /\ save'[t] = [save[t] EXCEPT !.at = "done"]
        BY <1>6, <3>2 DEF Restarts, StoreTypeOK
      <4> QED
        BY <3>2, <4>1 DEF Tasks, Places
    <3> QED
      BY <3>1, <3>2
  <2>4. save' \in [Saves -> Tasks]
    BY <1>6, <2>3 DEF Restarts
  <2>5. TasksGoOn(save')
    BY <1>2, <2>3 DEF TasksGoOn
  <2>6. \A t \in 1..scheduled : Over(t)'
    BY <1>2, <2>3 DEF Over
  <2>7. /\ UNCHANGED <<scheduled, files, listed, wrote, chats>>
        /\ pending_save' = 0
    BY <1>6 DEF Restarts
  <2> QED
    BY <2>1, <2>2, <2>3, <2>4, <2>5, <2>6, <2>7, ChatKept
<1> QED
  BY <1>4, <1>5, <1>6

LEMMA StoreNextKeeps ==
    ASSUME StoreInv, [StoreNext]_storeVars
    PROVE  StoreInv'
<1> USE DEF StoreInv
<1>1. CASE ScheduleSave
  <2>1. screen' \in Chats
    <3>1. PICK processing \in BOOLEAN :
             screen' = [screen EXCEPT !.changes = @ + 1,
                                      !.processing = processing]
      BY <1>1 DEF ScheduleSave
    <3>2. screen \in [session : Sessions, changes : Nat, processing : BOOLEAN]
      BY DEF StoreTypeOK, Chats
    <3>3. screen.changes + 1 \in Nat
      BY <3>2
    <3> DEFINE counted == [screen EXCEPT !.changes = screen.changes + 1]
    <3>4. counted \in [session : Sessions, changes : Nat, processing : BOOLEAN]
      BY <3>2, <3>3
    <3>5. screen' = [counted EXCEPT !.processing = processing]
      BY <3>1
    <3> HIDE DEF counted
    <3>6. [counted EXCEPT !.processing = processing]
             \in [session : Sessions, changes : Nat, processing : BOOLEAN]
      BY <3>4, Zenon
    <3> QED
      BY <3>5, <3>6 DEF Chats
  <2>2. /\ schedule_save_task(screen', FALSE)
        /\ UNCHANGED <<created, files, listed, load, chats, wrote>>
    BY <1>1 DEF ScheduleSave
  <2> QED
    BY <2>1, <2>2, ScheduleStep DEF StoreTypeOK, LoadTypeOK
<1>2. CASE regenerate_session_summary
  BY <1>2, ScheduleStep
  DEF regenerate_session_summary, StoreTypeOK, LoadTypeOK
<1>3. ASSUME NEW s \in Sessions, RestoreSession(s)
      PROVE  StoreInv'
  <2>1. LoadTypeOK'
    BY <1>3 DEF RestoreSession, NoFile, Contents, LoadTypeOK
  <2>2. CASE screen.changes > 0
    BY <1>3, <2>1, <2>2, ScheduleStep DEF RestoreSession, StoreTypeOK
  <2>3. CASE ~(screen.changes > 0)
    <3>1. UNCHANGED <<save, scheduled, pending_save, screen, created, files,
                      listed, chats, wrote>>
      BY <1>3, <2>3 DEF RestoreSession
    <3>2. TasksGoOn(save')
      BY <3>1, StoreAssumption DEF TasksGoOn, TasksInv, StoreTypeOK, Saves
    <3> QED
      BY <2>1, <3>1, <3>2, ChatKept DEF StoreTypeOK, TasksInv
  <2> QED
    BY <2>2, <2>3
<1>4. CASE UNCHANGED storeVars
  BY <1>4
  DEF storeVars, StoreTypeOK, LoadTypeOK, TasksInv, TokenInv, LateInv, Over,
      FilesAreRestorable, FilesHoldTheirSession, SavesStayInOrder, OwnSession
<1> QED
  BY <1>1, <1>2, <1>3, <1>4, NewSessionStep, RestoreSteps, SaveKept
  DEF StoreNext

\* Whatever the chat does between a snapshot and the write of its file, and
\* whenever the process dies: a file that is whole is of its own session and
\* can be restored, and no file is overwritten with an older snapshot of the
\* same chat unless that one was late already (schedule_save_task,
\* session/fs.rs).
THEOREM StoreCorrect == StoreSpec => []FilesAreRestorable
<1>1. StoreInit => StoreInv
  <2> SUFFICES ASSUME StoreInit PROVE StoreInv
    OBVIOUS
  <2>1. NoSave \in Tasks /\ NoFile \in Contents
    BY DEF NoSave, NoFile, Tasks, Places, Contents
  <2>2. StoreTypeOK
    BY <2>1, StoreAssumption
    DEF StoreInit, StoreTypeOK, LoadTypeOK, Blank, NoLoad, Chats, Sessions
  <2>3. FilesAreRestorable
    BY DEF StoreInit, FilesAreRestorable, FilesHoldTheirSession,
           SavesStayInOrder, NoFile
  <2>4. TasksInv /\ TokenInv /\ LateInv
    BY DEF StoreInit, TasksInv, TokenInv, LateInv, NoSave, Saves
  <2> QED
    BY <2>2, <2>3, <2>4 DEF StoreInv
<1>2. StoreInv /\ [StoreNext]_storeVars => StoreInv'
  BY StoreNextKeeps
<1>3. StoreInv => FilesAreRestorable
  BY DEF StoreInv
<1> QED
  BY <1>1, <1>2, <1>3, PTL DEF StoreSpec

-----------------------------------------------------------------------------
(* The conversation: the invariant *)

ReplyIds      == Nat \X Nat
AgentMessages ==
    [role : {"user", "assistant"}, blocks : Seq(BlockKinds), answers : {<<>>} \cup ReplyIds]

\* A message of the user says something: no request leaves it out.
UsersSay(msgs) == \A n \in DOMAIN msgs : msgs[n].role = "user" => Has(msgs[n].blocks, "text")

UsesATool(message) == message.role = "assistant" /\ Has(message.blocks, "tool")

\* A result stands right after its tool use.
ResultsFollow(msgs) ==
    \A n \in DOMAIN msgs : msgs[n].answers # <<>> => n > 1 /\ UsesATool(msgs[n - 1])

\* The replies the caller got are the ones that have a result.
RepliesAre(msgs, ids) ==
    /\ {msgs[n].answers : n \in DOMAIN msgs} \ {<<>>} = ids
    /\ \A reply \in ids : /\ reply \in ReplyIds /\ reply[1] + 1 \in DOMAIN msgs
                          /\ msgs[reply[1] + 1].answers = reply

GoodHistory(msgs) == msgs \in Seq(AgentMessages) /\ UsersSay(msgs) /\ ResultsFollow(msgs)

EndsWithUser(msgs) == msgs # <<>> /\ msgs[Len(msgs)].role = "user"

Fields == {"model_override", "thinking_enabled"}
Values == Models \cup BOOLEAN

\* What was set once is what its task brings, or what it has brought.
IsFollowed(setting) ==
    \/ /\ \A n \in DOMAIN updates : updates[n].field # setting
       /\ combo_context[setting] = fields[setting]
    \/ \E n \in DOMAIN updates :
          /\ updates[n].field = setting /\ updates[n].value = fields[setting]
          /\ \A k \in DOMAIN updates : updates[k].field = setting => k = n

ContextInv ==
    /\ fields \in [Fields -> Values] /\ combo_context \in [Fields -> Values]
    /\ updates \in Seq([field : Fields, value : Values])
    /\ \A setting \in Fields \ overlapped : IsFollowed(setting)

HistoryInv ==
    /\ GoodHistory(agent_messages) /\ RepliesAre(agent_messages, replied)
    /\ sent_messages \in Seq(AgentMessages) /\ ResultsFollow(sent_messages)
    /\ request # NoRequest =>
          Said(sent_messages) = Said(agent_messages) /\ EndsWithUser(sent_messages)

ConversationInv == HistoryInv /\ ContextInv

-----------------------------------------------------------------------------
(* The conversation: what is sent of a history *)

Thinking       == {"thinking"}
Spoken(blocks) == Excluding(blocks, Thinking)
Silent         == {message \in AgentMessages : message.blocks = <<>>}

Stripped(msgs) == [n \in DOMAIN msgs |-> strip_thinking_block(msgs[n])]

\* What ensure_thinking_blocks makes of one message
Ensured(message) ==
    IF message.role = "assistant" /\ "tool" \in ToSet(message.blocks)
          /\ "thinking" \notin ToSet(message.blocks)
    THEN [message EXCEPT !.blocks = <<"thinking">> \o @] ELSE message

LEMMA SpokenHas ==
    ASSUME NEW blocks \in Seq(BlockKinds)
    PROVE  /\ Spoken(blocks) \in Seq(BlockKinds) /\ Spoken(Spoken(blocks)) = Spoken(blocks)
           /\ \A e : Has(Spoken(blocks), e) <=> Has(blocks, e) /\ e # "thinking"
<1>1. \A e : e \in Thinking <=> e = "thinking"
  BY DEF Thinking
<1>2. /\ Spoken(blocks) \in Seq(BlockKinds)
      /\ \A e : Has(Spoken(blocks), e) <=> Has(blocks, e) /\ e \notin Thinking
  BY ExcludingHas DEF Spoken
<1>3. Excluding(Spoken(blocks), Thinking) = Spoken(blocks)
  BY <1>2, ExcludingAbsent
<1> QED
  BY <1>1, <1>2, <1>3 DEF Spoken

LEMMA StripMessage ==
    ASSUME NEW message \in AgentMessages
    PROVE  /\ strip_thinking_block(message) \in AgentMessages
           /\ strip_thinking_block(message).role = message.role
           /\ strip_thinking_block(message).answers = message.answers
           /\ strip_thinking_block(message).blocks = Spoken(message.blocks)
<1>1. message.blocks \in Seq(BlockKinds)
  BY DEF AgentMessages
<1>2. strip_thinking_block(message) = [message EXCEPT !.blocks = Spoken(message.blocks)]
  BY DEF strip_thinking_block, Spoken, Thinking
<1> QED
  BY <1>1, <1>2, SpokenHas DEF AgentMessages

LEMMA EnsureMessage ==
    ASSUME NEW message \in AgentMessages
    PROVE  /\ Ensured(message) \in AgentMessages
           /\ Ensured(message).role = message.role
           /\ Ensured(message).answers = message.answers
           /\ Spoken(Ensured(message).blocks) = Spoken(message.blocks)
           /\ \A e : Has(message.blocks, e) => Has(Ensured(message).blocks, e)
<1> DEFINE b    == message.blocks
           more == <<"thinking">> \o b
<1>1. b \in Seq(BlockKinds) /\ "thinking" \in BlockKinds
  BY DEF AgentMessages, BlockKinds
<1>2. more \in Seq(BlockKinds) /\ \A e : Has(more, e) <=> Has(<<"thinking">>, e) \/ Has(b, e)
  BY <1>1, OneHas, ConcatHas
<1>3. Spoken(more) = Spoken(b)
  <2> DEFINE one == <<"thinking">>
  <2>1. one \in Seq(BlockKinds) /\ Spoken(b) \in Seq(BlockKinds)
    BY <1>1, SpokenHas
  <2>2. Spoken(one) = <<>>
    <3> DEFINE none == <<>>
    <3>1. none \in Seq(BlockKinds) /\ one = Append(none, "thinking") /\ "thinking" \in Thinking
      BY DEF Thinking
    <3>2. Excluding(none, Thinking) = <<>>
      BY ExcludingNone
    <3> HIDE DEF none, one
    <3> QED
      BY <1>1, <3>1, <3>2, ExcludingAppend DEF Spoken
  <2> HIDE DEF one, b
  <2>3. Spoken(one \o b) = Spoken(one) \o Spoken(b)
    BY <1>1, <2>1, ExcludingConcat DEF Spoken
  <2>4. <<>> \o Spoken(b) = Spoken(b)
    BY <2>1, ConcatEmptySeq
  <2> QED
    BY <2>2, <2>3, <2>4 DEF one
<1> QED
  BY <1>1, <1>2, <1>3 DEF AgentMessages, Ensured

LEMMA StripAppend ==
    ASSUME NEW msgs \in Seq(AgentMessages), NEW message \in AgentMessages
    PROVE  strip_thinking_blocks(Append(msgs, message)) =
              IF Spoken(message.blocks) = <<>> THEN strip_thinking_blocks(msgs)
              ELSE Append(strip_thinking_blocks(msgs), strip_thinking_block(message))
<1>1. ASSUME NEW given \in Seq(AgentMessages)
      PROVE  /\ Stripped(given) \in Seq(AgentMessages)
             /\ strip_thinking_blocks(given) = Excluding(Stripped(given), Silent)
  <2> DEFINE s      == Stripped(given)
             silent == {one \in ToSet(s) : one.blocks = <<>>}
  <2>1. s \in Seq(AgentMessages)
    <3>1. Len(given) \in Nat /\ DOMAIN given = 1..Len(given)
          /\ \A n \in DOMAIN given : given[n] \in AgentMessages
      OBVIOUS
    <3>2. \A n \in DOMAIN given : strip_thinking_block(given[n]) \in AgentMessages
      BY <3>1, StripMessage
    <3> QED
      BY <3>1, <3>2 DEF Stripped
  <2>2. strip_thinking_blocks(given) = Excluding(s, silent)
    BY DEF strip_thinking_blocks, Stripped
  <2> HIDE DEF s
  <2>3. ASSUME NEW e, Has(s, e)
        PROVE  e \in silent <=> e \in Silent
    <3>1. e \in ToSet(s) /\ e \in AgentMessages
      BY <2>1, <2>3 DEF Has, ToSet
    <3> QED
      BY <3>1 DEF Silent
  <2> HIDE DEF silent
  <2>4. Excluding(s, silent) = Excluding(s, Silent)
    BY <2>1, <2>3, ExcludingSame
  <2> QED
    BY <2>1, <2>2, <2>4 DEF s
<1> DEFINE more  == Append(msgs, message)
           s     == Stripped(msgs)
           extra == strip_thinking_block(message)
<1>2. more \in Seq(AgentMessages) /\ s \in Seq(AgentMessages) /\ extra \in AgentMessages
      /\ extra.blocks = Spoken(message.blocks)
  BY <1>1, AppendProperties, StripMessage
<1>3. Stripped(more) = Append(s, extra)
  <2>1. /\ Len(msgs) \in Nat /\ DOMAIN msgs = 1..Len(msgs) /\ DOMAIN more = 1..(Len(msgs) + 1)
        /\ more[Len(msgs) + 1] = message /\ \A n \in 1..Len(msgs) : more[n] = msgs[n]
    BY AppendProperties
  <2>2. /\ Len(s) = Len(msgs) /\ DOMAIN Append(s, extra) = 1..(Len(msgs) + 1)
        /\ Append(s, extra)[Len(msgs) + 1] = extra
        /\ \A n \in 1..Len(msgs) : Append(s, extra)[n] = strip_thinking_block(msgs[n])
    <3>1. Len(s) = Len(msgs) /\ \A n \in 1..Len(msgs) : s[n] = strip_thinking_block(msgs[n])
      BY <2>1 DEF Stripped
    <3> HIDE DEF s, extra
    <3> QED
      BY <1>2, <2>1, <3>1, AppendProperties
  <2>3. Append(s, extra) \in Seq(AgentMessages) /\ Stripped(more) \in Seq(AgentMessages)
    <3> HIDE DEF s, extra, more
    <3> QED
      BY <1>1, <1>2, AppendProperties
  <2>4. \A n \in 1..(Len(msgs) + 1) : Stripped(more)[n] = Append(s, extra)[n]
    <3>1. \A n \in 1..(Len(msgs) + 1) : Stripped(more)[n] = strip_thinking_block(more[n])
      BY <2>1 DEF Stripped
    <3>2. \A n \in 1..(Len(msgs) + 1) : n \in 1..Len(msgs) \/ n = Len(msgs) + 1
      BY <2>1
    <3> HIDE DEF s, more
    <3> QED
      BY <2>1, <2>2, <3>1, <3>2
  <2>5. DOMAIN Stripped(more) = 1..(Len(msgs) + 1)
    BY <2>1 DEF Stripped
  <2> HIDE DEF s, extra, more
  <2> QED
    BY <2>2, <2>3, <2>4, <2>5, SeqEqual
<1>4. extra \in Silent <=> Spoken(message.blocks) = <<>>
  BY <1>2 DEF Silent
<1> HIDE DEF s, extra, more
<1>5. Excluding(Append(s, extra), Silent) =
         IF extra \in Silent THEN Excluding(s, Silent) ELSE Append(Excluding(s, Silent), extra)
  BY <1>2, ExcludingAppend
<1>6. /\ strip_thinking_blocks(more) = Excluding(Stripped(more), Silent)
      /\ strip_thinking_blocks(msgs) = Excluding(s, Silent)
  BY <1>1, <1>2 DEF s
<1> QED
  BY <1>3, <1>4, <1>5, <1>6 DEF extra, more

LEMMA SaidAppend ==
    ASSUME NEW msgs \in Seq(AgentMessages), NEW message \in AgentMessages
    PROVE  /\ Said(msgs) \in Seq(BlockKinds)
           /\ Said(Append(msgs, message)) = Said(msgs) \o Spoken(message.blocks)
<1> DEFINE Parts(given) == [n \in DOMAIN given |-> Spoken(given[n].blocks)]
           more  == Append(msgs, message)
           extra == Spoken(message.blocks)
<1>1. ASSUME NEW given \in Seq(AgentMessages)
      PROVE  Parts(given) \in Seq(Seq(BlockKinds)) /\ Said(given) = FlattenSeq(Parts(given))
  <2>1. Len(given) \in Nat /\ DOMAIN given = 1..Len(given)
        /\ \A n \in DOMAIN given : given[n].blocks \in Seq(BlockKinds)
    <3>1. \A n \in DOMAIN given : given[n] \in AgentMessages
      OBVIOUS
    <3>2. \A one \in AgentMessages : one.blocks \in Seq(BlockKinds)
      BY DEF AgentMessages
    <3> QED
      BY <3>1, <3>2
  <2>2. \A n \in DOMAIN given : Spoken(given[n].blocks) \in Seq(BlockKinds)
    BY <2>1, SpokenHas
  <2>3. Said(given) = FlattenSeq(Parts(given))
    BY DEF Said, Spoken, Thinking
  <2> QED
    BY <2>1, <2>2, <2>3
<1>2. more \in Seq(AgentMessages) /\ extra \in Seq(BlockKinds)
  <2>1. message.blocks \in Seq(BlockKinds)
    BY DEF AgentMessages
  <2> QED
    BY <2>1, AppendProperties, SpokenHas
<1>3. Parts(more) = Append(Parts(msgs), extra)
  <2> DEFINE s == Parts(msgs)
  <2>1. /\ Len(msgs) \in Nat /\ DOMAIN msgs = 1..Len(msgs) /\ DOMAIN more = 1..(Len(msgs) + 1)
        /\ more[Len(msgs) + 1] = message /\ \A n \in 1..Len(msgs) : more[n] = msgs[n]
    BY AppendProperties
  <2>2. /\ s \in Seq(Seq(BlockKinds)) /\ Len(s) = Len(msgs)
        /\ \A n \in 1..Len(msgs) : s[n] = Spoken(msgs[n].blocks)
    <3>1. s \in Seq(Seq(BlockKinds))
      BY <1>1
    <3>2. s = [n \in 1..Len(msgs) |-> Spoken(msgs[n].blocks)]
      BY <2>1
    <3> HIDE DEF s, more
    <3> QED
      BY <2>1, <3>1, <3>2
  <2>3. /\ DOMAIN Parts(more) = 1..(Len(msgs) + 1)
        /\ \A n \in 1..(Len(msgs) + 1) : Parts(more)[n] = Spoken(more[n].blocks)
        /\ Parts(more) \in Seq(Seq(BlockKinds))
    BY <1>1, <1>2, <2>1
  <2> DEFINE p == Parts(more)
  <2> HIDE DEF s, p, more, extra
  <2>4. /\ Append(s, extra) \in Seq(Seq(BlockKinds))
        /\ DOMAIN Append(s, extra) = 1..(Len(msgs) + 1)
        /\ Append(s, extra)[Len(msgs) + 1] = extra
        /\ \A n \in 1..Len(msgs) : Append(s, extra)[n] = s[n]
    BY <1>2, <2>1, <2>2, AppendProperties
  <2>5. \A n \in 1..(Len(msgs) + 1) : n \in 1..Len(msgs) \/ n = Len(msgs) + 1
    BY <2>1
  <2>6. \A n \in 1..(Len(msgs) + 1) : p[n] = Append(s, extra)[n]
    BY <2>1, <2>2, <2>3, <2>4, <2>5 DEF p, extra
  <2>7. DOMAIN p = 1..(Len(msgs) + 1) /\ p \in Seq(Seq(BlockKinds))
    BY <2>3 DEF p
  <2>8. Len(p) = Len(Append(s, extra)) /\ Len(p) = Len(msgs) + 1
    BY <2>1, <2>4, <2>7
  <2>9. p = Append(s, extra)
    BY <2>4, <2>6, <2>7, <2>8, SeqEqual
  <2> QED
    BY <2>9 DEF p, s
<1>4. FlattenSeq(Append(Parts(msgs), extra)) = FlattenSeq(Parts(msgs)) \o extra
  <2> DEFINE s == Parts(msgs)
  <2>1. s \in Seq(Seq(BlockKinds))
    BY <1>1
  <2> HIDE DEF s, extra
  <2> QED
    BY <1>2, <2>1, FlattenAppend DEF s
<1>5. Said(msgs) \in Seq(BlockKinds)
  <2> DEFINE s == Parts(msgs)
  <2>1. s \in Seq(Seq(BlockKinds)) /\ Said(msgs) = FlattenSeq(s)
    BY <1>1
  <2> HIDE DEF s
  <2> QED
    BY <2>1, FlattenHas
<1>6. Said(more) = FlattenSeq(Parts(more)) /\ Said(msgs) = FlattenSeq(Parts(msgs))
  BY <1>1, <1>2
<1> QED
  BY <1>3, <1>4, <1>5, <1>6


LEMMA EnsureAppend ==
    ASSUME NEW msgs \in Seq(AgentMessages), NEW message \in AgentMessages
    PROVE  /\ ensure_thinking_blocks(msgs) \in Seq(AgentMessages)
           /\ ensure_thinking_blocks(Append(msgs, message)) =
                 Append(ensure_thinking_blocks(msgs), Ensured(message))
<1>1. ASSUME NEW given \in Seq(AgentMessages)
      PROVE  /\ ensure_thinking_blocks(given) \in Seq(AgentMessages)
             /\ Len(ensure_thinking_blocks(given)) = Len(given)
             /\ \A n \in 1..Len(given) : ensure_thinking_blocks(given)[n] = Ensured(given[n])
  <2>1. Len(given) \in Nat /\ DOMAIN given = 1..Len(given)
        /\ \A n \in DOMAIN given : given[n] \in AgentMessages
    OBVIOUS
  <2>2. \A n \in DOMAIN given : Ensured(given[n]) \in AgentMessages
    BY <2>1, EnsureMessage
  <2>3. ensure_thinking_blocks(given) = [n \in DOMAIN given |-> Ensured(given[n])]
    BY DEF ensure_thinking_blocks, Ensured
  <2> QED
    BY <2>1, <2>2, <2>3
<1> DEFINE s     == ensure_thinking_blocks(msgs)
           extra == Ensured(message)
           more  == Append(msgs, message)
           p     == ensure_thinking_blocks(more)
<1>2. /\ Len(msgs) \in Nat /\ Len(more) = Len(msgs) + 1 /\ more \in Seq(AgentMessages)
      /\ more[Len(msgs) + 1] = message /\ \A n \in 1..Len(msgs) : more[n] = msgs[n]
  BY AppendProperties
<1> HIDE DEF more
<1>3. /\ s \in Seq(AgentMessages) /\ Len(s) = Len(msgs)
      /\ \A n \in 1..Len(msgs) : s[n] = Ensured(msgs[n])
  BY <1>1
<1>4. /\ p \in Seq(AgentMessages) /\ Len(p) = Len(more)
      /\ \A n \in 1..Len(more) : p[n] = Ensured(more[n])
  BY <1>1, <1>2
<1>5. extra \in AgentMessages
  BY EnsureMessage
<1> HIDE DEF s, p
<1>6. /\ Append(s, extra) \in Seq(AgentMessages) /\ Len(Append(s, extra)) = Len(msgs) + 1
      /\ Append(s, extra)[Len(msgs) + 1] = extra
      /\ \A n \in 1..Len(msgs) : Append(s, extra)[n] = s[n]
  <2> HIDE DEF extra
  <2> QED
    BY <1>2, <1>3, <1>5, AppendProperties
<1>7. \A n \in 1..(Len(msgs) + 1) : n \in 1..Len(msgs) \/ n = Len(msgs) + 1
  BY <1>2
<1>8. \A n \in 1..Len(p) : p[n] = Append(s, extra)[n]
  BY <1>2, <1>3, <1>4, <1>6, <1>7
<1>9. p = Append(s, extra)
  BY <1>2, <1>4, <1>6, <1>8, SeqEqual
<1> QED
  BY <1>3, <1>9 DEF s, p, more

\* A result of what a sequence of messages ends with
LEMMA ResultsFollowAppend ==
    ASSUME NEW msgs \in Seq(AgentMessages), NEW message \in AgentMessages
    PROVE  ResultsFollow(Append(msgs, message)) <=>
              /\ ResultsFollow(msgs)
              /\ message.answers # <<>> => msgs # <<>> /\ UsesATool(Last(msgs))
<1> DEFINE more == Append(msgs, message)
<1>1. /\ Len(msgs) \in Nat /\ DOMAIN msgs = 1..Len(msgs) /\ DOMAIN more = 1..(Len(msgs) + 1)
      /\ more[Len(msgs) + 1] = message /\ \A n \in 1..Len(msgs) : more[n] = msgs[n]
      /\ msgs # <<>> <=> Len(msgs) > 0
  BY AppendProperties, EmptySeq
<1> HIDE DEF more
<1>2. \A n \in 1..(Len(msgs) + 1) : n \in 1..Len(msgs) \/ n = Len(msgs) + 1
  BY <1>1
<1>3. \A n \in 1..Len(msgs) : n > 1 => n - 1 \in 1..Len(msgs)
  BY <1>1
<1>4. ASSUME ResultsFollow(more)
      PROVE  /\ ResultsFollow(msgs)
             /\ message.answers # <<>> => msgs # <<>> /\ UsesATool(Last(msgs))
  <2>1. ASSUME NEW n \in DOMAIN msgs, msgs[n].answers # <<>>
        PROVE  n > 1 /\ UsesATool(msgs[n - 1])
    <3>1. n \in DOMAIN more /\ more[n] = msgs[n]
      BY <1>1
    <3>2. n > 1 /\ UsesATool(more[n - 1])
      BY <1>4, <2>1, <3>1 DEF ResultsFollow
    <3>3. more[n - 1] = msgs[n - 1]
      BY <1>1, <1>3, <3>2
    <3> QED
      BY <3>2, <3>3
  <2>2. ASSUME message.answers # <<>>
        PROVE  msgs # <<>> /\ UsesATool(Last(msgs))
    <3>1. Len(msgs) + 1 \in DOMAIN more
      BY <1>1
    <3>2. Len(msgs) + 1 > 1 /\ UsesATool(more[(Len(msgs) + 1) - 1])
      BY <1>1, <1>4, <2>2, <3>1 DEF ResultsFollow
    <3>3. (Len(msgs) + 1) - 1 = Len(msgs) /\ Len(msgs) \in 1..Len(msgs)
      BY <1>1, <3>2
    <3>4. more[(Len(msgs) + 1) - 1] = Last(msgs)
      BY <1>1, <3>3 DEF Last
    <3> QED
      BY <1>1, <3>2, <3>4
  <2> QED
    BY <2>1, <2>2 DEF ResultsFollow
<1>5. ASSUME ResultsFollow(msgs),
             message.answers # <<>> => msgs # <<>> /\ UsesATool(Last(msgs)),
             NEW n \in DOMAIN more, more[n].answers # <<>>
      PROVE  n > 1 /\ UsesATool(more[n - 1])
  <2>1. CASE n \in 1..Len(msgs)
    <3>1. n > 1 /\ UsesATool(msgs[n - 1])
      BY <1>1, <1>5, <2>1 DEF ResultsFollow
    <3>2. more[n - 1] = msgs[n - 1]
      BY <1>1, <1>3, <2>1, <3>1
    <3> QED
      BY <3>1, <3>2
  <2>2. CASE n = Len(msgs) + 1
    <3>1. msgs # <<>> /\ UsesATool(Last(msgs))
      BY <1>1, <1>5, <2>2
    <3>2. n - 1 = Len(msgs) /\ Len(msgs) \in 1..Len(msgs) /\ n > 1
      BY <1>1, <2>2, <3>1
    <3>3. more[n - 1] = Last(msgs)
      BY <1>1, <3>2 DEF Last
    <3> QED
      BY <3>1, <3>2, <3>3
  <2> QED
    BY <1>1, <1>2, <1>5, <2>1, <2>2
<1>6. /\ ResultsFollow(msgs)
      /\ message.answers # <<>> => msgs # <<>> /\ UsesATool(Last(msgs))
      => ResultsFollow(more)
  BY <1>5 DEF ResultsFollow
<1> QED
  BY <1>4, <1>6 DEF more

LEMMA NothingSaid ==
    /\ <<>> \in Seq(AgentMessages) /\ ResultsFollow(<<>>)
    /\ strip_thinking_blocks(<<>>) = <<>> /\ ensure_thinking_blocks(<<>>) = <<>>
    /\ Said(<<>>) = <<>>
<1>1. <<>> \in Seq(AgentMessages) /\ ResultsFollow(<<>>)
  BY DEF ResultsFollow
<1>2. strip_thinking_blocks(<<>>) = <<>>
  <2>1. [n \in DOMAIN <<>> |-> strip_thinking_block(<<>>[n])] = <<>>
    OBVIOUS
  <2> QED
    BY <2>1, ExcludingNone DEF strip_thinking_blocks
<1>3. ensure_thinking_blocks(<<>>) = <<>>
  BY DEF ensure_thinking_blocks
<1>4. Said(<<>>) = <<>>
  <2>1. [n \in DOMAIN <<>> |-> Excluding(<<>>[n].blocks, {"thinking"})] = <<>>
    OBVIOUS
  <2> QED
    BY <2>1, FlattenNone DEF Said
<1> QED
  BY <1>1, <1>2, <1>3, <1>4


\* Only thinking is left out, and what is not left out is said as it was; a message that
\* says something is still the last.
IsWhole(msgs, sent) ==
    /\ sent \in Seq(AgentMessages) /\ ResultsFollow(sent) /\ Said(sent) = Said(msgs)
    /\ msgs # <<>> /\ Spoken(Last(msgs).blocks) # <<>> =>
          /\ sent # <<>> /\ Last(sent).role = Last(msgs).role
          /\ Spoken(Last(sent).blocks) = Spoken(Last(msgs).blocks)
          /\ Has(Last(msgs).blocks, "tool") => Has(Last(sent).blocks, "tool")

LEMMA AppendIsWhole ==
    ASSUME NEW msgs \in Seq(AgentMessages), NEW message \in AgentMessages,
           ResultsFollow(Append(msgs, message)),
           NEW sent, IsWhole(msgs, sent), NEW given \in AgentMessages,
           given.role = message.role, given.answers = message.answers,
           Spoken(given.blocks) = Spoken(message.blocks),
           Has(message.blocks, "tool") => Has(given.blocks, "tool")
    PROVE  IsWhole(Append(msgs, message), Append(sent, given))
<1> DEFINE before == Append(msgs, message)
           after  == Append(sent, given)
<1>1. sent \in Seq(AgentMessages) /\ ResultsFollow(sent) /\ Said(sent) = Said(msgs)
  BY DEF IsWhole
<1>2. /\ ResultsFollow(msgs)
      /\ message.answers # <<>> => msgs # <<>> /\ UsesATool(Last(msgs))
  BY ResultsFollowAppend
<1>3. /\ before \in Seq(AgentMessages) /\ after \in Seq(AgentMessages)
      /\ after # <<>> /\ Last(before) = message /\ Last(after) = given
  <2>1. Len(msgs) \in Nat /\ Len(sent) \in Nat /\ Len(after) = Len(sent) + 1
        /\ Len(before) = Len(msgs) + 1
    BY <1>1, AppendProperties
  <2> QED
    BY <1>1, <2>1, AppendProperties, EmptySeq DEF Last
<1>4. Said(after) = Said(before)
  BY <1>1, SaidAppend
<1>5. given.answers # <<>> => sent # <<>> /\ UsesATool(Last(sent))
  <2>1. SUFFICES ASSUME given.answers # <<>>
                 PROVE  sent # <<>> /\ UsesATool(Last(sent))
    OBVIOUS
  <2>2. msgs # <<>> /\ UsesATool(Last(msgs))
    BY <1>2, <2>1
  <2>3. Last(msgs) \in AgentMessages
    BY <2>2, EmptySeq, LenProperties DEF Last
  <2>4. Last(msgs).blocks \in Seq(BlockKinds) /\ Has(Last(msgs).blocks, "tool")
    BY <2>2, <2>3 DEF AgentMessages, UsesATool
  <2>5. Has(Spoken(Last(msgs).blocks), "tool")
    BY <2>4, SpokenHas
  <2>6. Spoken(Last(msgs).blocks) # <<>>
    BY <2>5, NoneHas
  <2> QED
    BY <2>2, <2>4, <2>6 DEF IsWhole, UsesATool
<1>6. ResultsFollow(after)
  BY <1>1, <1>5, ResultsFollowAppend
<1> HIDE DEF before, after
<1>7. IsWhole(before, after)
  BY <1>3, <1>4, <1>6 DEF IsWhole
<1> QED
  BY <1>7 DEF before, after

LEMMA StripIsWhole ==
    ASSUME NEW msgs \in Seq(AgentMessages), ResultsFollow(msgs)
    PROVE  IsWhole(msgs, strip_thinking_blocks(msgs))
<1> DEFINE G == {given \in Seq(AgentMessages) :
                    ResultsFollow(given) => IsWhole(given, strip_thinking_blocks(given))}
<1>1. <<>> \in G
  BY NothingSaid DEF IsWhole
<1>2. ASSUME NEW given \in Seq(AgentMessages), NEW message \in AgentMessages, given \in G
      PROVE  Append(given, message) \in G
  <2> DEFINE more == Append(given, message)
  <2>1. more \in Seq(AgentMessages)
    BY AppendProperties
  <2>2. SUFFICES ASSUME ResultsFollow(more)
                 PROVE  IsWhole(more, strip_thinking_blocks(more))
    BY <2>1
  <2>3. IsWhole(given, strip_thinking_blocks(given))
    BY <1>2, <2>2, ResultsFollowAppend
  <2>4. message.blocks \in Seq(BlockKinds)
    BY DEF AgentMessages
  <2>5. CASE Spoken(message.blocks) = <<>>
    <3>1. strip_thinking_blocks(more) = strip_thinking_blocks(given)
      BY <2>5, StripAppend
    <3>2. Said(more) = Said(given)
      <4>1. Said(given) \in Seq(BlockKinds) /\ Said(more) = Said(given) \o <<>>
        BY <2>5, SaidAppend
      <4> QED
        BY <4>1, ConcatEmptySeq
    <3>3. Last(more) = message
      <4>1. Len(given) \in Nat /\ Len(more) = Len(given) + 1
        BY AppendProperties
      <4> QED
        BY <4>1, AppendProperties DEF Last
    <3> HIDE DEF more
    <3> QED
      BY <2>3, <2>5, <3>1, <3>2, <3>3 DEF IsWhole
  <2>6. CASE Spoken(message.blocks) # <<>>
    <3> DEFINE sent     == strip_thinking_blocks(given)
               stripped == strip_thinking_block(message)
    <3>1. /\ stripped \in AgentMessages /\ stripped.role = message.role
          /\ stripped.answers = message.answers /\ stripped.blocks = Spoken(message.blocks)
      BY StripMessage
    <3>2. /\ Spoken(stripped.blocks) = Spoken(message.blocks)
          /\ Has(message.blocks, "tool") => Has(stripped.blocks, "tool")
      BY <2>4, <3>1, SpokenHas
    <3>3. strip_thinking_blocks(more) = Append(sent, stripped)
      BY <2>6, StripAppend
    <3>4. IsWhole(given, sent)
      BY <2>3
    <3> HIDE DEF sent, stripped
    <3>5. IsWhole(more, Append(sent, stripped))
      BY <2>2, <3>1, <3>2, <3>4, AppendIsWhole
    <3> QED
      BY <3>3, <3>5
  <2> QED
    BY <2>5, <2>6
<1>3. msgs \in G
  <2> HIDE DEF G
  <2> QED
    BY <1>1, <1>2, ByAppending
<1> QED
  BY <1>3

LEMMA EnsureIsWhole ==
    ASSUME NEW msgs \in Seq(AgentMessages), ResultsFollow(msgs)
    PROVE  IsWhole(msgs, ensure_thinking_blocks(msgs))
<1> DEFINE G == {given \in Seq(AgentMessages) :
                    ResultsFollow(given) => IsWhole(given, ensure_thinking_blocks(given))}
<1>1. <<>> \in G
  BY NothingSaid DEF IsWhole
<1>2. ASSUME NEW given \in Seq(AgentMessages), NEW message \in AgentMessages, given \in G
      PROVE  Append(given, message) \in G
  <2> DEFINE more == Append(given, message)
             sent == ensure_thinking_blocks(given)
             last == Ensured(message)
  <2>1. more \in Seq(AgentMessages)
    BY AppendProperties
  <2>2. SUFFICES ASSUME ResultsFollow(more)
                 PROVE  IsWhole(more, ensure_thinking_blocks(more))
    BY <2>1
  <2>3. IsWhole(given, sent)
    BY <1>2, <2>2, ResultsFollowAppend
  <2>4. /\ last \in AgentMessages /\ last.role = message.role /\ last.answers = message.answers
        /\ Spoken(last.blocks) = Spoken(message.blocks)
        /\ Has(message.blocks, "tool") => Has(last.blocks, "tool")
    BY EnsureMessage
  <2>5. ensure_thinking_blocks(more) = Append(sent, last)
    BY EnsureAppend
  <2> HIDE DEF sent, last
  <2>6. IsWhole(more, Append(sent, last))
    BY <2>2, <2>3, <2>4, AppendIsWhole
  <2> QED
    BY <2>5, <2>6
<1>3. msgs \in G
  <2> HIDE DEF G
  <2> QED
    BY <1>1, <1>2, ByAppending
<1> QED
  BY <1>3

\* What a request makes of the history says what the history says, whatever the options.
LEMMA PreparedIsWhole ==
    ASSUME NEW msgs, GoodHistory(msgs), EndsWithUser(msgs)
    PROVE  LET sent == prepare_messages_for_request(msgs)
           IN /\ sent \in Seq(AgentMessages) /\ ResultsFollow(sent)
              /\ Said(sent) = Said(msgs) /\ EndsWithUser(sent)
<1> DEFINE stripped == strip_thinking_blocks(msgs)
           sent     == prepare_messages_for_request(msgs)
<1>1. msgs \in Seq(AgentMessages) /\ ResultsFollow(msgs) /\ UsersSay(msgs)
  BY DEF GoodHistory
<1>2. Last(msgs) \in AgentMessages /\ msgs # <<>> /\ Last(msgs).role = "user"
      /\ Has(Last(msgs).blocks, "text")
  <2>1. Len(msgs) \in DOMAIN msgs /\ msgs[Len(msgs)].role = "user" /\ msgs # <<>>
    BY <1>1, EmptySeq, LenProperties DEF EndsWithUser
  <2> QED
    BY <1>1, <2>1 DEF UsersSay, Last
<1>3. Spoken(Last(msgs).blocks) # <<>>
  <2>1. Last(msgs).blocks \in Seq(BlockKinds)
    BY <1>2 DEF AgentMessages
  <2>2. Has(Spoken(Last(msgs).blocks), "text")
    BY <1>2, <2>1, SpokenHas
  <2> QED
    BY <2>2, NoneHas
<1> DEFINE Fine(s) == /\ s \in Seq(AgentMessages) /\ ResultsFollow(s) /\ Said(s) = Said(msgs)
                      /\ s # <<>> /\ Last(s).role = "user" /\ Spoken(Last(s).blocks) # <<>>
<1>4. Fine(msgs)
  BY <1>1, <1>2, <1>3
<1>5. ASSUME NEW s, Fine(s)
      PROVE  Fine(strip_thinking_blocks(s)) /\ Fine(ensure_thinking_blocks(s))
  <2>1. IsWhole(s, strip_thinking_blocks(s)) /\ IsWhole(s, ensure_thinking_blocks(s))
    BY <1>5, StripIsWhole, EnsureIsWhole
  <2> QED
    BY <1>5, <2>1 DEF IsWhole
<1>6. \/ sent = msgs \/ sent = stripped
      \/ sent = ensure_thinking_blocks(msgs) \/ sent = ensure_thinking_blocks(stripped)
  BY DEF prepare_messages_for_request
<1> HIDE DEF sent, stripped, Fine
<1>7. Fine(stripped) /\ Fine(ensure_thinking_blocks(msgs))
  BY <1>4, <1>5 DEF stripped
<1>8. Fine(ensure_thinking_blocks(stripped))
  BY <1>5, <1>7
<1>9. Fine(sent)
  BY <1>4, <1>6, <1>7, <1>8
<1> QED
  BY <1>9 DEF Fine, EndsWithUser, Last, sent

-----------------------------------------------------------------------------
(* The conversation: how the history grows *)

LEMMA UserMessageIsGood ==
    /\ UserMessage \in AgentMessages /\ UserMessage.role = "user"
    /\ UserMessage.answers = <<>> /\ Has(UserMessage.blocks, "text")
<1> DEFINE blocks == <<"text">>
<1>1. blocks \in Seq(BlockKinds) /\ Has(blocks, "text")
  BY OneHas DEF BlockKinds
<1>2. UserMessage = [role |-> "user", blocks |-> blocks, answers |-> <<>>]
  BY DEF UserMessage
<1> HIDE DEF blocks
<1> QED
  BY <1>1, <1>2 DEF AgentMessages

\* The last message of a history is one of the user's, or a model's answer.
LEMMA GrowsWithoutAResult ==
    ASSUME NEW msgs, NEW ids, GoodHistory(msgs), RepliesAre(msgs, ids),
           NEW message \in AgentMessages, message.answers = <<>>,
           message.role = "user" => Has(message.blocks, "text")
    PROVE  /\ GoodHistory(Append(msgs, message)) /\ RepliesAre(Append(msgs, message), ids)
           /\ Append(msgs, message) # <<>> /\ Last(Append(msgs, message)) = message
<1> DEFINE more == Append(msgs, message)
<1>1. msgs \in Seq(AgentMessages) /\ UsersSay(msgs) /\ ResultsFollow(msgs)
  BY DEF GoodHistory
<1>2. /\ Len(msgs) \in Nat /\ DOMAIN msgs = 1..Len(msgs) /\ more \in Seq(AgentMessages)
      /\ Len(more) = Len(msgs) + 1 /\ DOMAIN more = 1..(Len(msgs) + 1)
      /\ more[Len(msgs) + 1] = message /\ \A n \in 1..Len(msgs) : more[n] = msgs[n]
  BY <1>1, AppendProperties
<1>3. ResultsFollow(more)
  BY <1>1, ResultsFollowAppend
<1> HIDE DEF more
<1>4. \A n \in DOMAIN more : n \in DOMAIN msgs \/ n = Len(msgs) + 1
  BY <1>2
<1>5. UsersSay(more)
  BY <1>1, <1>2, <1>4 DEF UsersSay
<1>6. RepliesAre(more, ids)
  <2>1. {more[n].answers : n \in DOMAIN more} \ {<<>>} =
           {msgs[n].answers : n \in DOMAIN msgs} \ {<<>>}
    BY <1>2, <1>4
  <2>2. ASSUME NEW reply \in ids
        PROVE  reply \in ReplyIds /\ reply[1] + 1 \in DOMAIN more /\ more[reply[1] + 1].answers = reply
    <3>1. reply \in ReplyIds /\ reply[1] + 1 \in DOMAIN msgs /\ msgs[reply[1] + 1].answers = reply
      BY DEF RepliesAre
    <3> QED
      BY <1>2, <3>1
  <2> QED
    BY <2>1, <2>2 DEF RepliesAre
<1> QED
  BY <1>2, <1>3, <1>5, <1>6, EmptySeq DEF GoodHistory, Last, more

LEMMA GrowsByTheResult ==
    ASSUME NEW msgs, NEW ids, GoodHistory(msgs), RepliesAre(msgs, ids),
           msgs # <<>>, UsesATool(Last(msgs)), NEW use \in Nat
    PROVE  LET reply == <<Len(msgs), use>>
           IN /\ GoodHistory(Append(msgs, Ok(reply)))
              /\ RepliesAre(Append(msgs, Ok(reply)), ids \cup {reply})
<1> DEFINE reply   == <<Len(msgs), use>>
           message == Ok(reply)
           more    == Append(msgs, message)
<1>1. msgs \in Seq(AgentMessages) /\ UsersSay(msgs) /\ ResultsFollow(msgs) /\ Len(msgs) \in Nat
  BY DEF GoodHistory
<1>2. reply \in ReplyIds /\ reply # <<>> /\ reply[1] = Len(msgs)
  BY <1>1 DEF ReplyIds
<1> HIDE DEF reply
<1>3. /\ message \in AgentMessages /\ message.role = "user" /\ Has(message.blocks, "text")
      /\ message.answers = reply
  <2>1. Ok(reply) = [UserMessage EXCEPT !.answers = reply]
    BY DEF Ok
  <2> QED
    BY <1>2, <2>1, UserMessageIsGood DEF AgentMessages
<1> HIDE DEF message
<1>4. /\ DOMAIN msgs = 1..Len(msgs) /\ more \in Seq(AgentMessages)
      /\ DOMAIN more = 1..(Len(msgs) + 1)
      /\ more[Len(msgs) + 1] = message /\ \A n \in 1..Len(msgs) : more[n] = msgs[n]
  BY <1>1, <1>3, AppendProperties
<1>5. ResultsFollow(more)
  BY <1>1, <1>3, ResultsFollowAppend
<1> HIDE DEF more
<1>6. \A n \in DOMAIN more : n \in DOMAIN msgs \/ n = Len(msgs) + 1
  BY <1>1, <1>4
<1>7. UsersSay(more)
  BY <1>1, <1>3, <1>4, <1>6 DEF UsersSay
<1>8. RepliesAre(more, ids \cup {reply})
  <2>1. {msgs[n].answers : n \in DOMAIN msgs} \ {<<>>} = ids
    BY DEF RepliesAre
  <2>2. {more[n].answers : n \in DOMAIN more} = {msgs[n].answers : n \in DOMAIN msgs} \cup {reply}
    <3>1. \A n \in DOMAIN msgs : n \in DOMAIN more /\ more[n] = msgs[n]
      BY <1>1, <1>4
    <3>2. Len(msgs) + 1 \in DOMAIN more /\ more[Len(msgs) + 1].answers = reply
      BY <1>1, <1>3, <1>4
    <3> QED
      BY <1>6, <3>1, <3>2
  <2>3. {more[n].answers : n \in DOMAIN more} \ {<<>>} = ids \cup {reply}
    BY <1>2, <2>1, <2>2
  <2>4. ASSUME NEW one \in ids \cup {reply}
        PROVE  one \in ReplyIds /\ one[1] + 1 \in DOMAIN more /\ more[one[1] + 1].answers = one
    <3>1. CASE one \in ids
      <4>1. one \in ReplyIds /\ one[1] + 1 \in DOMAIN msgs /\ msgs[one[1] + 1].answers = one
        BY <3>1 DEF RepliesAre
      <4> QED
        BY <1>1, <1>4, <4>1
    <3>2. CASE one = reply
      BY <1>1, <1>2, <1>3, <1>4, <3>2
    <3> QED
      BY <3>1, <3>2
  <2> QED
    BY <2>3, <2>4 DEF RepliesAre
<1> QED
  BY <1>4, <1>5, <1>7, <1>8 DEF GoodHistory, more, message, reply

LEMMA AssistantIsGood ==
    ASSUME NEW blocks \in Seq(BlockKinds)
    PROVE  /\ Assistant_(blocks) \in AgentMessages /\ Assistant_(blocks).role = "assistant"
           /\ Assistant_(blocks).answers = <<>> /\ Assistant_(blocks).blocks = blocks
BY DEF Assistant_, AgentMessages

\* What a model answers is added to the history, unless it is nothing.
LEMMA ReceivedIsGood ==
    ASSUME GoodHistory(agent_messages), RepliesAre(agent_messages, replied),
           NEW blocks \in Seq(BlockKinds)
    PROVE  /\ GoodHistory(Received(blocks)) /\ RepliesAre(Received(blocks), replied)
           /\ Has(blocks, "tool") =>
                 /\ Received(blocks) # <<>> /\ UsesATool(Last(Received(blocks)))
                 /\ Len(Received(blocks)) = Len(agent_messages) + 1
<1>1. CASE blocks = <<>>
  BY <1>1, NoneHas DEF Received
<1>2. CASE blocks # <<>>
  <2> DEFINE message == Assistant_(blocks)
  <2>1. message \in AgentMessages /\ message.role = "assistant" /\ message.answers = <<>>
        /\ message.blocks = blocks
    BY AssistantIsGood
  <2>2. Received(blocks) = Append(agent_messages, message)
    BY <1>2 DEF Received
  <2> HIDE DEF message
  <2>3. /\ GoodHistory(Append(agent_messages, message))
        /\ RepliesAre(Append(agent_messages, message), replied)
        /\ Append(agent_messages, message) # <<>> /\ Last(Append(agent_messages, message)) = message
    BY <2>1, GrowsWithoutAResult
  <2>4. Len(Append(agent_messages, message)) = Len(agent_messages) + 1
    BY <2>1, AppendProperties DEF GoodHistory
  <2> QED
    BY <2>1, <2>2, <2>3, <2>4 DEF UsesATool
<1> QED
  BY <1>1, <1>2

LEMMA ReplyUseIsIn ==
    ASSUME NEW blocks \in Seq(BlockKinds)
    PROVE  reply_tool_use(blocks) \in Nat /\ (reply_tool_use(blocks) # 0 => Has(blocks, "tool"))
<1> DEFINE I == {i \in 1..Len(blocks) : blocks[i] = "tool"}
<1>1. reply_tool_use(blocks) = IF I # {} THEN Max(I) ELSE 0
  BY DEF reply_tool_use, SelectLastInSeq
<1>2. Len(blocks) \in Nat /\ I \in SUBSET (0..Len(blocks))
  OBVIOUS
<1>3. I # {} => Max(I) \in I
  BY <1>2, MaxIsIn
<1>4. \A i \in I : i \in Nat /\ i \in DOMAIN blocks /\ blocks[i] = "tool"
  OBVIOUS
<1> HIDE DEF I
<1> QED
  BY <1>1, <1>3, <1>4 DEF Has

-----------------------------------------------------------------------------
(* The conversation: the steps *)

\* A request is of a history that ends with a message of the user.
LEMMA RequestIsGood ==
    ASSUME NEW msgs, GoodHistory(msgs), RepliesAre(msgs, replied), EndsWithUser(msgs),
           SendRequest(msgs), replied' = replied
    PROVE  HistoryInv'
<1> DEFINE sent == prepare_messages_for_request(msgs)
<1>1. /\ sent \in Seq(AgentMessages) /\ ResultsFollow(sent)
      /\ Said(sent) = Said(msgs) /\ EndsWithUser(sent)
  BY PreparedIsWhole
<1>2. agent_messages' = msgs /\ sent_messages' = sent
  BY DEF SendRequest
<1> HIDE DEF sent
<1> QED
  BY <1>1, <1>2 DEF HistoryInv

\* No request is in flight: what was sent is of no matter any more.
LEMMA HistoryIsGood ==
    ASSUME HistoryInv, GoodHistory(agent_messages'), RepliesAre(agent_messages', replied'),
           sent_messages' = sent_messages, request' = NoRequest
    PROVE  HistoryInv'
BY DEF HistoryInv

LEMMA AppendIsGood ==
    ASSUME NEW msgs, GoodHistory(msgs), RepliesAre(msgs, replied)
    PROVE  /\ GoodHistory(Append(msgs, UserMessage))
           /\ RepliesAre(Append(msgs, UserMessage), replied)
           /\ EndsWithUser(Append(msgs, UserMessage))
BY UserMessageIsGood, GrowsWithoutAResult DEF EndsWithUser, Last

LEMMA ResponsesAreBlocks == \A blocks \in Responses : blocks \in Seq(BlockKinds)
BY ConversationAssumption

LEMMA HistoryStep ==
    ASSUME HistoryInv,
           \/ AppendMessage \/ Chat \/ ChatWithHistory \/ ReplyPrompt \/ ReplyIsRefused
           \/ RequestIsLost
           \/ \E blocks \in Responses : \E reason \in {"end_turn", "tool_use"} :
                 ChatResponds(blocks, reason) \/ ReplyResponds(blocks, reason)
           \/ \E blocks \in Responses : ReplyIsRetried(blocks) \/ ReplyIsMissing(blocks)
    PROVE  HistoryInv' /\ UNCHANGED contextVars
<1> USE DEF Settled, Ready
<1>1. GoodHistory(agent_messages) /\ RepliesAre(agent_messages, replied)
  BY DEF HistoryInv
<1>2. CASE AppendMessage
  <2>1. agent_messages' = Append(agent_messages, UserMessage) /\ replied' = replied
        /\ sent_messages' = sent_messages /\ request' = NoRequest
    BY <1>2 DEF AppendMessage
  <2>2. GoodHistory(agent_messages') /\ RepliesAre(agent_messages', replied')
    BY <1>1, <2>1, AppendIsGood
  <2> QED
    BY <1>2, <2>1, <2>2, HistoryIsGood DEF AppendMessage
<1>3. CASE Chat
  <2>1. SendRequest(Append(agent_messages, UserMessage)) /\ replied' = replied
    BY <1>3 DEF Chat
  <2> QED
    BY <1>1, <1>3, <2>1, AppendIsGood, RequestIsGood DEF Chat
<1>4. CASE ChatWithHistory
  <2>1. SendRequest(agent_messages) /\ replied' = replied /\ EndsWithUser(agent_messages)
    BY <1>4 DEF ChatWithHistory, EndsWithUser, Last
  <2> QED
    BY <1>1, <1>4, <2>1, RequestIsGood DEF ChatWithHistory
<1>5. CASE ReplyPrompt
  <2>1. /\ \/ SendRequest(Append(agent_messages, UserMessage)) \/ SendRequest(agent_messages)
        /\ replied' = replied /\ EndsWithUser(agent_messages)
    BY <1>5 DEF ReplyPrompt, EndsWithUser, Last
  <2> QED
    BY <1>1, <1>5, <2>1, AppendIsGood, RequestIsGood DEF ReplyPrompt
<1>6. CASE ReplyIsRefused
  BY <1>6 DEF ReplyIsRefused, HistoryInv
<1>7. CASE RequestIsLost
  BY <1>1, <1>7, HistoryIsGood DEF RequestIsLost
<1>8. ASSUME NEW blocks \in Responses, NEW reason \in {"end_turn", "tool_use"},
             ChatResponds(blocks, reason)
      PROVE  HistoryInv' /\ UNCHANGED contextVars
  <2>1. GoodHistory(Received(blocks)) /\ RepliesAre(Received(blocks), replied)
    BY <1>1, ResponsesAreBlocks, ReceivedIsGood
  <2>2. agent_messages' = Received(blocks) /\ replied' = replied
        /\ sent_messages' = sent_messages /\ request' = NoRequest
    BY <1>8 DEF ChatResponds
  <2> QED
    BY <1>8, <2>1, <2>2, HistoryIsGood DEF ChatResponds
<1>9. ASSUME NEW blocks \in Responses, NEW reason \in {"end_turn", "tool_use"},
             ReplyResponds(blocks, reason)
      PROVE  HistoryInv' /\ UNCHANGED contextVars
  <2> DEFINE use == reply_tool_use(blocks)
             at  == Len(agent_messages) + 1
             got == Received(blocks)
  <2>1. use \in Nat /\ use # 0 /\ Has(blocks, "tool")
    BY <1>9, ResponsesAreBlocks, ReplyUseIsIn DEF ReplyResponds
  <2>2. /\ GoodHistory(got) /\ RepliesAre(got, replied) /\ got # <<>> /\ UsesATool(Last(got))
        /\ Len(got) = at
    BY <1>1, <2>1, ResponsesAreBlocks, ReceivedIsGood
  <2>3. agent_messages' = Append(got, Ok(<<at, use>>)) /\ replied' = replied \cup {<<at, use>>}
        /\ sent_messages' = sent_messages /\ request' = NoRequest
    BY <1>9 DEF ReplyResponds, answered_use
  <2> HIDE DEF use, at, got
  <2>4. GoodHistory(agent_messages') /\ RepliesAre(agent_messages', replied')
    BY <2>1, <2>2, <2>3, GrowsByTheResult
  <2> QED
    BY <1>9, <2>3, <2>4, HistoryIsGood DEF ReplyResponds
<1>10. ASSUME NEW blocks \in Responses, ReplyIsRetried(blocks)
       PROVE  HistoryInv' /\ UNCHANGED contextVars
  <2>1. GoodHistory(Received(blocks)) /\ RepliesAre(Received(blocks), replied)
    BY <1>1, ResponsesAreBlocks, ReceivedIsGood
  <2>2. SendRequest(Append(Received(blocks), UserMessage)) /\ replied' = replied
    BY <1>10 DEF ReplyIsRetried
  <2> QED
    BY <1>10, <2>1, <2>2, AppendIsGood, RequestIsGood DEF ReplyIsRetried
<1>11. ASSUME NEW blocks \in Responses, ReplyIsMissing(blocks)
       PROVE  HistoryInv' /\ UNCHANGED contextVars
  <2>1. GoodHistory(Received(blocks)) /\ RepliesAre(Received(blocks), replied)
    BY <1>1, ResponsesAreBlocks, ReceivedIsGood
  <2>2. agent_messages' = Received(blocks) /\ replied' = replied
        /\ sent_messages' = sent_messages /\ request' = NoRequest
    BY <1>11 DEF ReplyIsMissing
  <2> QED
    BY <1>11, <2>1, <2>2, HistoryIsGood DEF ReplyIsMissing
<1> QED
  BY <1>2, <1>3, <1>4, <1>5, <1>6, <1>7, <1>8, <1>9, <1>10, <1>11

LEMMA SetIsFollowed ==
    ASSUME ContextInv, NEW setting \in Fields, NEW value \in Values, Set(setting, value)
    PROVE  ContextInv' /\ UNCHANGED historyVars
<1> DEFINE update == [field |-> setting, value |-> value]
           more   == Append(updates, update)
<1>1. /\ fields' = [fields EXCEPT ![setting] = value] /\ updates' = more
      /\ overlapped' = IF \E n \in DOMAIN updates : updates[n].field = setting
                       THEN overlapped \cup {setting} ELSE overlapped
      /\ combo_context' = combo_context /\ UNCHANGED historyVars
  BY DEF Set
<1>2. /\ fields \in [Fields -> Values] /\ combo_context \in [Fields -> Values]
      /\ updates \in Seq([field : Fields, value : Values])
      /\ \A one \in Fields \ overlapped : IsFollowed(one)
  BY DEF ContextInv
<1>3. /\ update \in [field : Fields, value : Values]
      /\ update.field = setting /\ update.value = value
  OBVIOUS
<1> HIDE DEF update
<1>4. /\ Len(updates) \in Nat /\ DOMAIN updates = 1..Len(updates)
      /\ DOMAIN more = 1..(Len(updates) + 1) /\ more \in Seq([field : Fields, value : Values])
      /\ more[Len(updates) + 1] = update /\ \A n \in 1..Len(updates) : more[n] = updates[n]
  BY <1>2, <1>3, AppendProperties
<1> HIDE DEF more
<1>5. /\ \A n \in DOMAIN more : n \in DOMAIN updates \/ n = Len(updates) + 1
      /\ \A n \in DOMAIN updates : n \in DOMAIN more /\ more[n] = updates[n]
      /\ Len(updates) + 1 \in DOMAIN more
  BY <1>4
<1>6. fields' \in [Fields -> Values] /\ fields'[setting] = value
      /\ \A one \in Fields : one # setting => fields'[one] = fields[one]
  BY <1>1, <1>2
<1>7. ASSUME NEW one \in Fields \ overlapped'
      PROVE  IsFollowed(one)'
  <2>1. one \in Fields \ overlapped
    BY <1>1, <1>7
  <2>2. IsFollowed(one)
    BY <1>2, <2>1
  <2>3. CASE one = setting
    <3>1. \A n \in DOMAIN updates : updates[n].field # setting
      BY <1>1, <1>7, <2>3
    <3>2. \A k \in DOMAIN more : more[k].field = setting => k = Len(updates) + 1
      BY <1>5, <3>1
    <3> QED
      BY <1>1, <1>3, <1>4, <1>5, <1>6, <2>3, <3>2 DEF IsFollowed
  <2>4. CASE one # setting
    <3>1. \A n \in DOMAIN more : more[n].field = one => n \in DOMAIN updates
      BY <1>3, <1>4, <1>5, <2>4
    <3>2. fields'[one] = fields[one]
      BY <1>6, <2>4
    <3> QED
      BY <1>1, <1>5, <2>2, <3>1, <3>2 DEF IsFollowed
  <2> QED
    BY <2>3, <2>4
<1> QED
  BY <1>1, <1>2, <1>4, <1>6, <1>7 DEF ContextInv

LEMMA UpdateIsFollowed ==
    ASSUME ContextInv, NEW n, UpdateRuns(n)
    PROVE  ContextInv' /\ UNCHANGED historyVars
<1> DEFINE rest == RemoveAt(updates, n)
<1>1. /\ n \in DOMAIN updates /\ updates' = rest
      /\ combo_context' = [combo_context EXCEPT ![updates[n].field] = updates[n].value]
      /\ fields' = fields /\ overlapped' = overlapped /\ UNCHANGED historyVars
  BY DEF UpdateRuns, update_combo_context
<1>2. /\ fields \in [Fields -> Values] /\ combo_context \in [Fields -> Values]
      /\ updates \in Seq([field : Fields, value : Values])
      /\ \A one \in Fields \ overlapped : IsFollowed(one)
  BY DEF ContextInv
<1>3. updates[n].field \in Fields /\ updates[n].value \in Values
      /\ Len(updates) \in Nat /\ DOMAIN updates = 1..Len(updates)
  <2>1. updates[n] \in [field : Fields, value : Values]
    <3> DEFINE T == [field : Fields, value : Values]
    <3>1. updates \in Seq(T) /\ n \in DOMAIN updates
      BY <1>1, <1>2
    <3> HIDE DEF T
    <3>2. updates[n] \in T
      BY <3>1
    <3> QED
      BY <3>2 DEF T
  <2> QED
    BY <1>2, <2>1
<1>4. /\ rest \in Seq([field : Fields, value : Values])
      /\ DOMAIN rest = 1..(Len(updates) - 1)
      /\ \A i \in 1..(Len(updates) - 1) : rest[i] = IF i < n THEN updates[i] ELSE updates[i + 1]
  BY <1>1, <1>2, RemoveAtIs
<1> HIDE DEF rest
<1>5. ASSUME NEW i \in DOMAIN rest
      PROVE  \E k \in DOMAIN updates :
                k # n /\ rest[i] = updates[k] /\ i = IF k < n THEN k ELSE k - 1
  <2>1. CASE i < n
    BY <1>1, <1>3, <1>4, <2>1
  <2>2. CASE ~(i < n)
    <3>1. i + 1 \in DOMAIN updates /\ i + 1 # n /\ rest[i] = updates[i + 1]
          /\ ~(i + 1 < n) /\ i = (i + 1) - 1
      BY <1>1, <1>3, <1>4, <2>2
    <3> QED
      BY <3>1
  <2> QED
    BY <2>1, <2>2
<1>6. ASSUME NEW k \in DOMAIN updates, k # n
      PROVE  \E i \in DOMAIN rest : rest[i] = updates[k]
  <2>1. CASE k < n
    BY <1>1, <1>3, <1>4, <2>1
  <2>2. CASE ~(k < n)
    <3>1. k - 1 \in DOMAIN rest /\ ~(k - 1 < n) /\ (k - 1) + 1 = k
      BY <1>1, <1>3, <1>4, <1>6, <2>2
    <3> QED
      BY <1>4, <3>1
  <2> QED
    BY <2>1, <2>2
<1>7. /\ combo_context' \in [Fields -> Values]
      /\ combo_context'[updates[n].field] = updates[n].value
      /\ \A one \in Fields : one # updates[n].field => combo_context'[one] = combo_context[one]
  <2> DEFINE setting == updates[n].field
             value == updates[n].value
  <2>1. /\ combo_context' = [combo_context EXCEPT ![setting] = value]
        /\ setting \in Fields /\ value \in Values
    BY <1>1, <1>3
  <2> HIDE DEF setting, value
  <2>2. /\ combo_context' \in [Fields -> Values] /\ combo_context'[setting] = value
        /\ \A one \in Fields : one # setting => combo_context'[one] = combo_context[one]
    BY <1>2, <2>1
  <2> QED
    BY <2>2 DEF setting, value
<1>8. ASSUME NEW one \in Fields \ overlapped
      PROVE  IsFollowed(one)'
  <2>1. CASE /\ \A k \in DOMAIN updates : updates[k].field # one
             /\ combo_context[one] = fields[one]
    <3>1. \A i \in DOMAIN rest : rest[i].field # one
      BY <1>5, <2>1
    <3> QED
      BY <1>1, <1>7, <2>1, <3>1 DEF IsFollowed
  <2>2. ASSUME NEW k \in DOMAIN updates, updates[k].field = one, updates[k].value = fields[one],
               \A j \in DOMAIN updates : updates[j].field = one => j = k
        PROVE  IsFollowed(one)'
    <3>1. CASE k = n
      <4>1. \A i \in DOMAIN rest : rest[i].field # one
        BY <1>5, <2>2, <3>1
      <4> QED
        BY <1>1, <1>7, <2>2, <3>1, <4>1 DEF IsFollowed
    <3>2. CASE k # n
      <4>1. PICK i \in DOMAIN rest : rest[i] = updates[k]
        BY <1>6, <3>2
      <4>2. ASSUME NEW j \in DOMAIN rest, rest[j].field = one
            PROVE  j = IF k < n THEN k ELSE k - 1
        BY <1>5, <2>2, <4>2
      <4>3. \A j \in DOMAIN rest : rest[j].field = one => j = i
        BY <2>2, <4>1, <4>2
      <4> QED
        BY <1>1, <2>2, <4>1, <4>3 DEF IsFollowed
    <3> QED
      BY <3>1, <3>2
  <2> QED
    BY <1>2, <1>8, <2>1, <2>2 DEF IsFollowed
<1> QED
  BY <1>1, <1>2, <1>4, <1>7, <1>8 DEF ContextInv

-----------------------------------------------------------------------------
(* The conversation: the theorem *)

LEMMA ConversationInitInv == ConversationInit => ConversationInv
<1> SUFFICES ASSUME ConversationInit
             PROVE  ConversationInv
  OBVIOUS
<1> DEFINE none == <<>>
<1>1. /\ agent_messages = none /\ sent_messages = none /\ replied = {} /\ request = NoRequest
      /\ fields = [model_override |-> NoModel, thinking_enabled |-> FALSE]
      /\ combo_context = fields /\ updates = <<>>
  BY DEF ConversationInit
<1>2. none \in Seq(AgentMessages) /\ DOMAIN none = {}
  OBVIOUS
<1> HIDE DEF none
<1>3. HistoryInv
  BY <1>1, <1>2 DEF HistoryInv, GoodHistory, UsersSay, ResultsFollow, RepliesAre
<1>4. fields \in [Fields -> Values]
  <2>1. NoModel \in Values /\ FALSE \in Values
    BY ConversationAssumption DEF Values
  <2>2. DOMAIN fields = Fields
    BY <1>1 DEF Fields
  <2>3. \A setting \in Fields : fields[setting] \in Values
    <3>1. fields["model_override"] \in Values
      BY <1>1, <2>1
    <3>2. fields["thinking_enabled"] \in Values
      <4>1. fields["thinking_enabled"] = FALSE
        BY <1>1
      <4> QED
        BY <2>1, <4>1, Zenon
    <3> QED
      BY <3>1, <3>2 DEF Fields
  <2>4. fields = [setting \in Fields |-> fields[setting]]
    BY <1>1, <2>2
  <2> QED
    BY <2>3, <2>4
<1>5. ContextInv
  <2> DEFINE waiting == <<>>
  <2>1. updates = waiting /\ waiting \in Seq([field : Fields, value : Values])
        /\ DOMAIN waiting = {}
    BY <1>1
  <2> HIDE DEF waiting
  <2>2. \A setting \in Fields : IsFollowed(setting)
    BY <1>1, <2>1 DEF IsFollowed
  <2> QED
    BY <1>1, <1>4, <2>1, <2>2 DEF ContextInv
<1> QED
  BY <1>3, <1>5 DEF ConversationInv

LEMMA ConversationStepInv ==
    ASSUME ConversationInv, [ConversationNext]_conversationVars
    PROVE  ConversationInv'
<1>1. HistoryInv /\ ContextInv
  BY DEF ConversationInv
<1>2. ASSUME UNCHANGED contextVars
      PROVE  ContextInv'
  BY <1>1, <1>2 DEF ContextInv, contextVars, IsFollowed
<1>3. ASSUME UNCHANGED historyVars
      PROVE  HistoryInv'
  BY <1>1, <1>3 DEF HistoryInv, historyVars
<1>4. CASE \E m \in Models : Set("model_override", m)
  <2>1. PICK m \in Models : Set("model_override", m)
    BY <1>4
  <2>2. "model_override" \in Fields /\ m \in Values
    BY DEF Fields, Values
  <2> QED
    BY <1>1, <1>3, <2>1, <2>2, SetIsFollowed DEF ConversationInv
<1>5. CASE \E on \in BOOLEAN : Set("thinking_enabled", on)
  <2>1. PICK on \in BOOLEAN : Set("thinking_enabled", on)
    BY <1>5
  <2>2. "thinking_enabled" \in Fields /\ on \in Values
    BY DEF Fields, Values
  <2> QED
    BY <1>1, <1>3, <2>1, <2>2, SetIsFollowed DEF ConversationInv
<1>6. CASE \E n \in 1..MaxUpdates : UpdateRuns(n)
  BY <1>1, <1>3, <1>6, UpdateIsFollowed DEF ConversationInv
<1>7. CASE UNCHANGED conversationVars
  BY <1>1, <1>2, <1>3, <1>7 DEF conversationVars, ConversationInv
<1>8. CASE \/ AppendMessage \/ Chat \/ ChatWithHistory \/ ReplyPrompt \/ ReplyIsRefused
           \/ RequestIsLost
           \/ \E blocks \in Responses : \E reason \in {"end_turn", "tool_use"} :
                 ChatResponds(blocks, reason) \/ ReplyResponds(blocks, reason)
           \/ \E blocks \in Responses : ReplyIsRetried(blocks) \/ ReplyIsMissing(blocks)
  BY <1>1, <1>2, <1>8, HistoryStep DEF ConversationInv
<1> QED
  BY <1>4, <1>5, <1>6, <1>7, <1>8 DEF ConversationNext

LEMMA ConversationInvKeeps == ConversationInv => ConversationIsKept
<1> SUFFICES ASSUME ConversationInv
             PROVE  ConversationIsKept
  OBVIOUS
<1>1. HistoryInv /\ ContextInv
  BY DEF ConversationInv
<1>2. RequestsAreWhole
  <2>1. request # NoRequest =>
           Said(sent_messages) = Said(agent_messages) /\ Last(sent_messages).role = "user"
    BY <1>1 DEF HistoryInv, EndsWithUser, Last
  <2>2. ASSUME NEW n \in DOMAIN sent_messages, sent_messages[n].answers # <<>>
        PROVE  /\ n > 1 /\ sent_messages[n - 1].role = "assistant"
               /\ "tool" \in ToSet(sent_messages[n - 1].blocks)
    <3>1. n > 1 /\ UsesATool(sent_messages[n - 1])
      BY <1>1, <2>2 DEF HistoryInv, ResultsFollow
    <3> QED
      BY <3>1 DEF UsesATool, Has, ToSet
  <2>3. /\ {agent_messages[n].answers : n \in DOMAIN agent_messages} \ {<<>>} = replied
        /\ \A reply \in replied : agent_messages[reply[1] + 1].answers = reply
    BY <1>1 DEF HistoryInv, RepliesAre
  <2> QED
    BY <2>1, <2>2, <2>3 DEF RequestsAreWhole
<1>3. ContextFollowsTheAgent
  <2>1. DOMAIN fields = Fields
    BY <1>1 DEF ContextInv
  <2> QED
    BY <1>1, <2>1 DEF ContextInv, ContextFollowsTheAgent, IsFollowed
<1> QED
  BY <1>2, <1>3 DEF ConversationIsKept

\* Whatever the options of the provider and whatever the models answer: a request says what
\* the history says, a result stands right after its tool use, a reply the caller got has its
\* result, and the combos run with what the agent was set to
\* (prepare_messages_for_request, reply_prompt_with_thinking, update_combo_context).
THEOREM ConversationCorrect == ConversationSpec => []ConversationIsKept
<1>1. ConversationInit => ConversationInv
  BY ConversationInitInv
<1>2. ConversationInv /\ [ConversationNext]_conversationVars => ConversationInv'
  BY ConversationStepInv
<1>3. ConversationInv => ConversationIsKept
  BY ConversationInvKeeps
<1> QED
  BY <1>1, <1>2, <1>3, PTL DEF ConversationSpec

-----------------------------------------------------------------------------
(* Output: the invariant *)

Outputs == Seq(Characters)

LimitTypeOK ==
    /\ stdout \in Outputs /\ stderr \in Outputs /\ max_bytes \in Nat
    /\ stdout_budget \in Nat /\ stderr_budget \in Nat /\ round \in 0..5 /\ wasted \in BOOLEAN

\* The first round may be too long; if it took nothing for nothing, the second is not, or
\* one of the outputs is gone, and then the third is not.
RoundsEnd ==
    /\ round > 0 => BaseLength < max_bytes
    /\ content = Unlimited /\ round > 1 /\ ~wasted =>
          \/ shortened.length <= max_bytes
          \/ round = 2 /\ (stdout_budget = 0 \/ stderr_budget = 0)

LimitInv == LimitTypeOK /\ RoundsEnd /\ OutputIsCutToFit

-----------------------------------------------------------------------------
(* Output: texts and what is left of them *)

LEMMA CharactersMeasured ==
    \A c \in Characters : /\ c["bytes"] \in Nat \ {0} /\ c["json"] \in Nat
                          /\ c["bytes"] <= c["json"]
BY OutputLimitAssumption

LEMMA Measured ==
    ASSUME NEW full \in Outputs
    PROVE  Bytes(full) \in Nat /\ Json(full) \in Nat /\ Bytes(full) <= Json(full)
BY CharactersMeasured, TotalOrdered DEF Outputs, Bytes, Json

LEMMA NothingMeasured == Bytes(<<>>) = 0 /\ Json(<<>>) = 0
BY TotalNone DEF Bytes, Json

LEMMA NoBytesNoText ==
    ASSUME NEW full \in Outputs, Bytes(full) = 0
    PROVE  full = <<>>
<1> DEFINE G == {u \in Outputs : Bytes(u) = 0 => u = <<>>}
<1>1. <<>> \in G
  BY DEF Outputs
<1>2. ASSUME NEW u \in Seq(Characters), NEW c \in Characters, u \in G
      PROVE  Append(u, c) \in G
  <2>1. Append(u, c) \in Outputs
    BY AppendHas DEF Outputs
  <2>2. Bytes(u) \in Nat /\ Bytes(Append(u, c)) = Bytes(u) + c["bytes"]
    BY CharactersMeasured, TotalAppend DEF Bytes
  <2>3. c["bytes"] \in Nat \ {0}
    BY CharactersMeasured
  <2> QED
    BY <2>1, <2>2, <2>3
<1>3. full \in G
  <2> HIDE DEF G
  <2> QED
    BY <1>1, <1>2, ByAppending DEF Outputs
<1> QED
  BY <1>3

\* The number of characters that are left
LEMMA TruncatedAt ==
    ASSUME NEW full \in Outputs, NEW max \in Nat
    PROVE  \E n \in 0..Len(full) :
              /\ truncate_to_boundary(full, max) = SubSeq(full, 1, n)
              /\ Bytes(SubSeq(full, 1, n)) <= max
              /\ \A m \in 0..Len(full) : Bytes(SubSeq(full, 1, m)) <= max => m <= n
<1> DEFINE fit == {n \in 0..Len(full) : Bytes(SubSeq(full, 1, n)) <= max}
           most == CHOOSE n \in fit : \A m \in fit : m <= n
<1>1. Len(full) \in Nat /\ 0 \in 0..Len(full)
  BY DEF Outputs
<1>2. 0 \in fit
  <2>1. SubSeq(full, 1, 0) = <<>>
    BY SubSeqEmpty
  <2>2. Bytes(SubSeq(full, 1, 0)) = 0
    BY <2>1, NothingMeasured, Zenon
  <2> QED
    BY <1>1, <2>2
<1>3. fit \in SUBSET (0..Len(full)) /\ fit # {}
  BY <1>2
<1>4. \E n \in fit : \A m \in fit : m <= n
  <2> HIDE DEF fit
  <2>1. \A m \in fit : Len(full) - m \in Nat
    BY <1>1, <1>3
  <2> DEFINE rest == {Len(full) - m : m \in fit}
  <2>2. rest \in SUBSET Nat /\ rest # {}
    BY <1>2, <2>1
  <2>3. PICK y \in rest : \A z \in rest : y <= z
    BY <2>2, LeastOf
  <2>4. PICK n \in fit : y = Len(full) - n
    BY <2>3
  <2>5. ASSUME NEW m \in fit
        PROVE  m <= n
    <3>1. Len(full) - n <= Len(full) - m
      BY <2>3, <2>4
    <3> QED
      BY <1>1, <1>3, <3>1
  <2> QED
    BY <2>5
<1>5. most \in fit /\ \A m \in fit : m <= most
  <2> HIDE DEF fit
  <2> QED
    BY <1>4
<1>6. truncate_to_boundary(full, max) = SubSeq(full, 1, most)
  BY DEF truncate_to_boundary
<1> HIDE DEF most
<1> QED
  BY <1>5, <1>6

LEMMA TruncatedFits ==
    ASSUME NEW full \in Outputs, NEW max \in Nat
    PROVE  /\ truncate_to_boundary(full, max) \in Outputs
           /\ IsPrefix(truncate_to_boundary(full, max), full)
           /\ Bytes(truncate_to_boundary(full, max)) <= max
<1>1. PICK n \in 0..Len(full) :
         /\ truncate_to_boundary(full, max) = SubSeq(full, 1, n)
         /\ Bytes(SubSeq(full, 1, n)) <= max
  BY TruncatedAt
<1> DEFINE cut == SubSeq(full, 1, n)
<1>2. cut \in Outputs /\ Len(cut) = n /\ n <= Len(full)
  BY PrefixHas DEF Outputs
<1>3. SubSeq(cut, 1, n) = cut
  <2> HIDE DEF cut
  <2> QED
    BY <1>2, SubSeqFull DEF Outputs
<1>4. IsPrefix(cut, full)
  <2>1. SubSeq(cut, 1, Len(cut)) = SubSeq(full, 1, Len(cut))
    BY <1>2, <1>3
  <2> HIDE DEF cut
  <2> QED
    BY <1>2, <2>1 DEF IsPrefix
<1> QED
  BY <1>1, <1>2, <1>4

LEMMA PrefixOfAll ==
    ASSUME NEW full \in Outputs
    PROVE  IsPrefix(full, full) /\ IsPrefix(<<>>, full)
<1>1. Len(full) \in Nat /\ SubSeq(full, 1, 0) = <<>> /\ Len(<<>>) = 0
  BY SubSeqEmpty DEF Outputs
<1> QED
  BY <1>1 DEF IsPrefix

LEMMA NothingLeft ==
    ASSUME NEW full \in Outputs
    PROVE  truncate_to_boundary(full, 0) = <<>>
<1> DEFINE cut == truncate_to_boundary(full, 0)
<1>1. cut \in Outputs /\ Bytes(cut) <= 0
  BY TruncatedFits
<1> HIDE DEF cut
<1>2. Bytes(cut) = 0
  BY <1>1, Measured
<1>3. cut = <<>>
  BY <1>1, <1>2, NoBytesNoText
<1> QED
  BY <1>3 DEF cut

\* A smaller budget takes as many bytes from the JSON as from the text, or more.
LEMMA TruncatedLess ==
    ASSUME NEW full \in Outputs, NEW less \in Nat, NEW more \in Nat, less <= more
    PROVE  LET p == truncate_to_boundary(full, less)
               q == truncate_to_boundary(full, more)
           IN Json(p) + Bytes(q) <= Json(q) + Bytes(p)
<1> DEFINE p == truncate_to_boundary(full, less)
           q == truncate_to_boundary(full, more)
<1>1. PICK n \in 0..Len(full) : p = SubSeq(full, 1, n) /\ Bytes(SubSeq(full, 1, n)) <= less
  BY TruncatedAt
<1>2. PICK m \in 0..Len(full) :
         /\ q = SubSeq(full, 1, m)
         /\ \A k \in 0..Len(full) : Bytes(SubSeq(full, 1, k)) <= more => k <= m
  BY TruncatedAt
<1>3. p \in Outputs /\ q \in Outputs
  BY TruncatedFits
<1> HIDE DEF p, q
<1>4. Len(full) \in Nat /\ Bytes(p) \in Nat
  BY <1>3, Measured DEF Outputs
<1>5. n <= m
  BY <1>1, <1>2, <1>4
<1>6. Len(q) = m /\ Len(p) = n /\ \A i \in 1..m : q[i] = full[i]
  BY <1>1, <1>2, PrefixHas DEF Outputs
<1>7. SubSeq(q, 1, n) = p
  <2> DEFINE again == SubSeq(q, 1, n)
  <2>1. n \in 0..Len(q)
    BY <1>4, <1>5, <1>6
  <2>2. again \in Seq(Characters) /\ Len(again) = n /\ \A i \in 1..n : again[i] = q[i]
    BY <1>3, <2>1, PrefixHas DEF Outputs
  <2>3. p \in Seq(Characters) /\ \A i \in 1..n : p[i] = full[i]
    BY <1>1, <1>3, PrefixHas DEF Outputs
  <2> HIDE DEF again
  <2>4. \A i \in 1..n : again[i] = p[i]
    BY <1>4, <1>5, <1>6, <2>2, <2>3
  <2>5. again = p
    BY <1>4, <1>6, <2>2, <2>3, <2>4, SeqEqual
  <2> QED
    BY <2>5 DEF again
<1> DEFINE rest == SubSeq(q, n + 1, Len(q))
<1>8. rest \in Outputs /\ q = p \o rest
  <2>1. q \in Seq(Characters) /\ n \in 0..Len(q)
    BY <1>3, <1>4, <1>5, <1>6 DEF Outputs
  <2>2. rest \in Seq(Characters) /\ q = SubSeq(q, 1, n) \o rest
    BY <2>1, PrefixAndRest
  <2> HIDE DEF rest
  <2> QED
    BY <1>7, <2>2 DEF Outputs
<1> HIDE DEF rest
<1>9. Bytes(q) = Bytes(p) + Bytes(rest)
  BY <1>3, <1>8, CharactersMeasured, TotalConcat DEF Outputs, Bytes
<1>10. Json(q) = Json(p) + Json(rest)
  BY <1>3, <1>8, CharactersMeasured, TotalConcat DEF Outputs, Json
<1>11. Json(p) + Bytes(q) <= Json(q) + Bytes(p)
  BY <1>3, <1>8, <1>9, <1>10, Measured
<1> QED
  BY <1>11 DEF p, q

\* A round that takes nothing for nothing makes the text as much shorter as it was too long.
LEMMA RoundHelps ==
    ASSUME NEW full \in Outputs, NEW budget \in Nat, NEW over \in Nat,
           budget <= Bytes(truncate_to_boundary(full, budget)),
           Saturating(budget, over) # 0
    PROVE  Json(truncate_to_boundary(full, Saturating(budget, over))) + over
             <= Json(truncate_to_boundary(full, budget))
<1> DEFINE less == Saturating(budget, over)
           p == truncate_to_boundary(full, less)
           q == truncate_to_boundary(full, budget)
<1>1. less \in Nat /\ less <= budget /\ less + over = budget
  BY DEF Saturating
<1> HIDE DEF less
<1>2. Json(p) + Bytes(q) <= Json(q) + Bytes(p)
  BY <1>1, TruncatedLess
<1>3. p \in Outputs /\ q \in Outputs /\ Bytes(p) <= less
  BY <1>1, TruncatedFits
<1> HIDE DEF p, q
<1>4. Bytes(p) \in Nat /\ Bytes(q) \in Nat /\ Json(p) \in Nat /\ Json(q) \in Nat
  BY <1>3, Measured
<1>5. budget <= Bytes(q)
  BY DEF q
<1>6. Json(p) + over <= Json(q)
  BY <1>1, <1>2, <1>3, <1>4, <1>5
<1> QED
  BY <1>6 DEF p, q, less

-----------------------------------------------------------------------------
(* Output: a round *)

\* What the message takes with these budgets
LengthWith(out, err) ==
    BaseLength + Json(truncate_to_boundary(stdout, out)) + Json(truncate_to_boundary(stderr, err))

LEMMA ShortenedIs ==
    /\ shortened.kind = "truncated"
    /\ shortened.stdout = truncate_to_boundary(stdout, stdout_budget)
    /\ shortened.stderr = truncate_to_boundary(stderr, stderr_budget)
    /\ shortened.length = LengthWith(stdout_budget, stderr_budget)
BY DEF shortened, JsonContent, LengthWith

LEMMA Lengths ==
    ASSUME LimitTypeOK, NEW out \in Nat, NEW err \in Nat
    PROVE  /\ LengthWith(out, err) \in Nat
           /\ Json(truncate_to_boundary(stdout, out)) \in Nat
           /\ Json(truncate_to_boundary(stderr, err)) \in Nat
           /\ BaseLength \in Nat
<1>1. truncate_to_boundary(stdout, out) \in Outputs /\ truncate_to_boundary(stderr, err) \in Outputs
  BY TruncatedFits DEF LimitTypeOK
<1>2. BaseLength \in Nat
  BY OutputLimitAssumption
<1> QED
  BY <1>1, <1>2, Measured DEF LengthWith

LEMMA NoLength ==
    ASSUME LimitTypeOK
    PROVE  LengthWith(0, 0) = BaseLength
<1>1. truncate_to_boundary(stdout, 0) = <<>> /\ truncate_to_boundary(stderr, 0) = <<>>
  BY NothingLeft DEF LimitTypeOK
<1>2. Json(truncate_to_boundary(stdout, 0)) = 0 /\ Json(truncate_to_boundary(stderr, 0)) = 0
  BY <1>1, NothingMeasured, Zenon
<1> QED
  BY <1>2, OutputLimitAssumption DEF LengthWith

\* The round that shortens one output
LEMMA StdoutHelps ==
    ASSUME LimitTypeOK, NEW out \in Nat, NEW err \in Nat,
           LengthWith(out, err) > max_bytes,
           out <= Bytes(truncate_to_boundary(stdout, out)),
           Saturating(out, LengthWith(out, err) - max_bytes) # 0
    PROVE  LengthWith(Saturating(out, LengthWith(out, err) - max_bytes), err) <= max_bytes
<1> DEFINE over == LengthWith(out, err) - max_bytes
           less == Saturating(out, over)
<1>1. max_bytes \in Nat /\ LengthWith(out, err) \in Nat
  BY Lengths DEF LimitTypeOK
<1>2. over \in Nat
  BY <1>1
<1> HIDE DEF over
<1>3. less # 0 /\ stdout \in Outputs
  BY DEF over, LimitTypeOK
<1>4. Json(truncate_to_boundary(stdout, less)) + over <= Json(truncate_to_boundary(stdout, out))
  BY <1>2, <1>3, RoundHelps
<1>5. less \in Nat
  BY <1>2 DEF Saturating
<1> HIDE DEF less
<1>6. /\ Json(truncate_to_boundary(stdout, less)) \in Nat /\ BaseLength \in Nat
      /\ Json(truncate_to_boundary(stdout, out)) \in Nat
      /\ Json(truncate_to_boundary(stderr, err)) \in Nat
  BY <1>5, Lengths
<1>7. LengthWith(out, err) = over + max_bytes
  BY <1>1 DEF over
<1>8. LengthWith(less, err) <= max_bytes
  BY <1>1, <1>2, <1>4, <1>6, <1>7 DEF LengthWith
<1> QED
  BY <1>8 DEF less, over

LEMMA StderrHelps ==
    ASSUME LimitTypeOK, NEW out \in Nat, NEW err \in Nat,
           LengthWith(out, err) > max_bytes,
           err <= Bytes(truncate_to_boundary(stderr, err)),
           Saturating(err, LengthWith(out, err) - max_bytes) # 0
    PROVE  LengthWith(out, Saturating(err, LengthWith(out, err) - max_bytes)) <= max_bytes
<1> DEFINE over == LengthWith(out, err) - max_bytes
           less == Saturating(err, over)
<1>1. max_bytes \in Nat /\ LengthWith(out, err) \in Nat
  BY Lengths DEF LimitTypeOK
<1>2. over \in Nat
  BY <1>1
<1> HIDE DEF over
<1>3. less # 0 /\ stderr \in Outputs
  BY DEF over, LimitTypeOK
<1>4. Json(truncate_to_boundary(stderr, less)) + over <= Json(truncate_to_boundary(stderr, err))
  BY <1>2, <1>3, RoundHelps
<1>5. less \in Nat
  BY <1>2 DEF Saturating
<1> HIDE DEF less
<1>6. /\ Json(truncate_to_boundary(stderr, less)) \in Nat /\ BaseLength \in Nat
      /\ Json(truncate_to_boundary(stderr, err)) \in Nat
      /\ Json(truncate_to_boundary(stdout, out)) \in Nat
  BY <1>5, Lengths
<1>7. LengthWith(out, err) = over + max_bytes
  BY <1>1 DEF over
<1>8. LengthWith(out, less) <= max_bytes
  BY <1>1, <1>2, <1>4, <1>6, <1>7 DEF LengthWith
<1> QED
  BY <1>8 DEF less, over

-----------------------------------------------------------------------------
(* Output: the steps *)

LEMMA LimitBegins == LimitInit => LimitInv
<1> SUFFICES ASSUME LimitInit PROVE LimitInv
  OBVIOUS
<1>1. MaxOutput \in Nat /\ Limits \subseteq Nat
  BY OutputLimitAssumption
<1>2. \A m \in 0..MaxOutput : [1..m -> Characters] \subseteq Seq(Characters)
  BY <1>1
<1>3. BoundedSeq(Characters, MaxOutput) \subseteq Seq(Characters)
  BY <1>2 DEF BoundedSeq, SeqOf
<1>4. LimitTypeOK
  <2>1. /\ stdout \in BoundedSeq(Characters, MaxOutput) /\ max_bytes \in Limits
        /\ stderr \in BoundedSeq(Characters, MaxOutput)
    BY DEF LimitInit
  <2>2. stdout \in Outputs /\ stderr \in Outputs /\ max_bytes \in Nat
    BY <1>1, <1>3, <2>1 DEF Outputs
  <2>3. stdout_budget \in Nat /\ stderr_budget \in Nat /\ round \in 0..5
    BY DEF LimitInit
  <2>4. wasted \in BOOLEAN
    BY Zenon DEF LimitInit
  <2> QED
    BY <2>2, <2>3, <2>4 DEF LimitTypeOK
<1>5. RoundsEnd /\ OutputIsCutToFit
  BY DEF LimitInit, RoundsEnd, OutputIsCutToFit
<1> QED
  BY <1>4, <1>5 DEF LimitInv

\* What is given has its property, and its rounds are over.
LEMMA GivenIsRight ==
    ASSUME LimitInv, NEW value, Give(value), value.kind # "none",
           value.length <= max_bytes, IsPrefix(value.stdout, stdout),
           IsPrefix(value.stderr, stderr),
           value.kind = "cut json" => BaseLength >= max_bytes \/ wasted,
           value.kind \in {"whole", "message"} => value.stdout = stdout /\ value.stderr = stderr
    PROVE  LimitInv'
<1>1. content' # Unlimited
  <2>1. Unlimited.kind = "none"
    BY DEF Unlimited
  <2> QED
    BY <2>1 DEF Give
<1> QED
  BY <1>1 DEF LimitInv, LimitTypeOK, RoundsEnd, OutputIsCutToFit, Give, limitGiven

LEMMA MessageKeepsLimit ==
    ASSUME LimitInv, MessageIsGiven
    PROVE  LimitInv'
<1> DEFINE value == truncate_with_suffix(stdout, max_bytes)
<1>0. /\ Give(value) /\ stderr = <<>> /\ stdout \in Outputs /\ stderr \in Outputs
      /\ max_bytes \in Nat /\ SuffixLength \in Nat
  BY OutputLimitAssumption DEF MessageIsGiven, LimitInv, LimitTypeOK
<1>1. IsPrefix(<<>>, stderr) /\ IsPrefix(stdout, stdout)
  BY <1>0, PrefixOfAll
<1>2. CASE Bytes(stdout) <= max_bytes
  <2>1. /\ value.kind = "message" /\ value.stdout = stdout /\ value.stderr = <<>>
        /\ value.length = Bytes(stdout)
    BY <1>2 DEF truncate_with_suffix, Unlimited
  <2> HIDE DEF value
  <2> QED
    BY <1>0, <1>1, <1>2, <2>1, GivenIsRight
<1>3. CASE ~(Bytes(stdout) <= max_bytes)
  <2> DEFINE suffix == Least(SuffixLength, max_bytes)
             prefix == truncate_to_boundary(stdout, max_bytes - suffix)
  <2>1. suffix \in 0..max_bytes
    BY <1>0 DEF Least
  <2>2. /\ value.kind = "cut message" /\ value.stdout = prefix /\ value.stderr = <<>>
        /\ value.length = Bytes(prefix) + suffix
    BY <1>3 DEF truncate_with_suffix, Unlimited
  <2> HIDE DEF suffix
  <2>3. max_bytes - suffix \in Nat
    BY <1>0, <2>1
  <2>4. prefix \in Outputs /\ IsPrefix(prefix, stdout) /\ Bytes(prefix) <= max_bytes - suffix
    BY <1>0, <2>3, TruncatedFits
  <2> HIDE DEF prefix, value
  <2>5. Bytes(prefix) + suffix <= max_bytes
    BY <1>0, <2>1, <2>4, Measured
  <2> QED
    BY <1>0, <1>1, <2>2, <2>4, <2>5, GivenIsRight
<1> QED
  BY <1>2, <1>3

LEMMA WholeKeepsLimit ==
    ASSUME LimitInv, WholeIsGiven
    PROVE  LimitInv'
<1>1. Give(whole) /\ whole.length <= max_bytes /\ stdout \in Outputs /\ stderr \in Outputs
  BY DEF WholeIsGiven, LimitInv, LimitTypeOK
<1>2. whole.kind = "whole" /\ whole.stdout = stdout /\ whole.stderr = stderr
  BY DEF whole, JsonContent
<1>3. IsPrefix(stdout, stdout) /\ IsPrefix(stderr, stderr)
  BY <1>1, PrefixOfAll
<1> QED
  BY <1>1, <1>2, <1>3, GivenIsRight

LEMMA CutJsonKeepsLimit ==
    ASSUME LimitInv, NEW length \in Nat, Give(CutJson(length)),
           BaseLength >= max_bytes \/ wasted
    PROVE  LimitInv'
<1> DEFINE value == CutJson(length)
<1>0. stdout \in Outputs /\ stderr \in Outputs /\ max_bytes \in Nat
  BY DEF LimitInv, LimitTypeOK
<1>1. IsPrefix(<<>>, stderr) /\ IsPrefix(<<>>, stdout)
  BY <1>0, PrefixOfAll
<1>2. /\ value.kind = "cut json" /\ value.stdout = <<>> /\ value.stderr = <<>>
      /\ value.length = Least(length, max_bytes)
  BY DEF CutJson, Unlimited
<1>3. Least(length, max_bytes) <= max_bytes
  BY <1>0 DEF Least
<1> HIDE DEF value
<1>4. Give(value)
  BY DEF value
<1> QED
  BY <1>1, <1>2, <1>3, <1>4, GivenIsRight

LEMMA BaseKeepsLimit ==
    ASSUME LimitInv, BaseIsCut
    PROVE  LimitInv'
BY OutputLimitAssumption, CutJsonKeepsLimit DEF BaseIsCut

LEMMA BudgetsKeepLimit ==
    ASSUME LimitInv, Budgets
    PROVE  LimitInv'
<1> DEFINE available == max_bytes - BaseLength
           total == Bytes(stdout) + Bytes(stderr)
<1>0. stdout \in Outputs /\ stderr \in Outputs /\ max_bytes \in Nat /\ BaseLength \in Nat
  BY OutputLimitAssumption DEF LimitInv, LimitTypeOK
<1>1. Bytes(stdout) \in Nat /\ Bytes(stderr) \in Nat
  BY <1>0, Measured
<1>2. /\ BaseLength < max_bytes /\ round' = 1 /\ content = Unlimited
      /\ stdout_budget' = IF total = 0 THEN 0 ELSE IF stderr = <<>> THEN available
                          ELSE (available * Bytes(stdout)) \div total
      /\ stderr_budget' = IF total = 0 \/ stderr = <<>> THEN 0
                          ELSE Saturating(available, stdout_budget')
      /\ UNCHANGED <<limitGiven, content, wasted>>
  BY DEF Budgets, Begin
<1>3. available \in Nat /\ total \in Nat
  BY <1>0, <1>1, <1>2
<1>4. stdout_budget' \in Nat
  <2>1. \A a, b \in Nat : a * b \in Nat
    OBVIOUS
  <2>2. \A a, b \in Nat : b # 0 => a \div b \in Nat
    OBVIOUS
  <2> DEFINE product == available * Bytes(stdout)
  <2>3. product \in Nat
    BY <1>1, <1>3, <2>1
  <2> HIDE DEF product, available, total
  <2>4. total # 0 => product \div total \in Nat
    BY <1>3, <2>2, <2>3
  <2>5. stdout_budget' = IF total = 0 THEN 0 ELSE IF stderr = <<>> THEN available
                         ELSE product \div total
    BY <1>2 DEF product, available, total
  <2> QED
    BY <1>3, <2>4, <2>5
<1>5. stderr_budget' \in Nat
  <2> HIDE DEF available, total
  <2>1. Saturating(available, stdout_budget') \in Nat
    <3>1. \A a, b \in Nat : Saturating(a, b) \in Nat
      BY DEF Saturating
    <3> QED
      BY <1>3, <1>4, <3>1
  <2>2. stderr_budget' = IF total = 0 \/ stderr = <<>> THEN 0
                         ELSE Saturating(available, stdout_budget')
    BY <1>2 DEF available, total
  <2> QED
    BY <2>1, <2>2
<1>6. LimitTypeOK'
  BY <1>2, <1>4, <1>5 DEF LimitInv, LimitTypeOK, limitGiven
<1>7. RoundsEnd'
  BY <1>2 DEF RoundsEnd, limitGiven
<1>8. OutputIsCutToFit'
  BY <1>2 DEF OutputIsCutToFit
<1> QED
  BY <1>6, <1>7, <1>8 DEF LimitInv

LEMMA FitKeepsLimit ==
    ASSUME LimitInv, AttemptFits
    PROVE  LimitInv'
<1>0. /\ stdout \in Outputs /\ stderr \in Outputs
      /\ stdout_budget \in Nat /\ stderr_budget \in Nat
  BY DEF LimitInv, LimitTypeOK
<1>1. Give(shortened) /\ shortened.length <= max_bytes
  BY DEF AttemptFits
<1>2. /\ IsPrefix(truncate_to_boundary(stdout, stdout_budget), stdout)
      /\ IsPrefix(truncate_to_boundary(stderr, stderr_budget), stderr)
  BY <1>0, TruncatedFits
<1> QED
  BY <1>1, <1>2, ShortenedIs, GivenIsRight

\* The round that follows
LEMMA NextRound ==
    ASSUME LimitInv, Looking, shortened.length > max_bytes, round # 5,
           ~(stdout_budget = 0 /\ stderr_budget = 0),
           Reduced(shortened.length - max_bytes), round' = round + 1,
           wasted' = (wasted \/ (stdout_budget' < stdout_budget
                                   /\ stdout_budget > Bytes(shortened.stdout))
                             \/ (stderr_budget' < stderr_budget
                                   /\ stderr_budget > Bytes(shortened.stderr))),
           UNCHANGED <<limitGiven, content>>
    PROVE  LimitInv'
<1> DEFINE over == LengthWith(stdout_budget, stderr_budget) - max_bytes
<1>0. /\ LimitTypeOK /\ RoundsEnd /\ stdout \in Outputs /\ stderr \in Outputs
      /\ max_bytes \in Nat /\ stdout_budget \in Nat /\ stderr_budget \in Nat
      /\ round \in 1..4 /\ content = Unlimited /\ wasted \in BOOLEAN
  BY DEF LimitInv, LimitTypeOK, Looking
<1>1. /\ shortened.length = LengthWith(stdout_budget, stderr_budget)
      /\ LengthWith(stdout_budget, stderr_budget) \in Nat
      /\ shortened.stdout = truncate_to_boundary(stdout, stdout_budget)
      /\ shortened.stderr = truncate_to_boundary(stderr, stderr_budget)
  BY <1>0, ShortenedIs, Lengths
<1>2. over \in Nat \ {0} /\ Reduced(over)
  BY <1>0, <1>1
<1>3. shortened.length' = LengthWith(stdout_budget', stderr_budget')
  BY DEF shortened, JsonContent, LengthWith, limitGiven
<1>4. /\ Bytes(shortened.stdout) \in Nat /\ Bytes(shortened.stderr) \in Nat
  BY <1>0, <1>1, TruncatedFits, Measured
<1> HIDE DEF over
<1>5. BaseLength < max_bytes /\ LengthWith(0, 0) <= max_bytes
  BY <1>0, OutputLimitAssumption, NoLength DEF RoundsEnd
<1>6. round > 1 /\ ~wasted => round = 2 /\ (stdout_budget = 0 \/ stderr_budget = 0)
  BY <1>0, <1>1 DEF RoundsEnd
<1>7. stdout_budget' \in Nat /\ stderr_budget' \in Nat
  BY <1>0, <1>2 DEF Reduced, Saturating
<1>8. ~wasted' => \/ LengthWith(stdout_budget', stderr_budget') <= max_bytes
                  \/ round' = 2 /\ (stdout_budget' = 0 \/ stderr_budget' = 0)
  <2> SUFFICES ASSUME ~wasted'
               PROVE  \/ LengthWith(stdout_budget', stderr_budget') <= max_bytes
                      \/ round' = 2 /\ (stdout_budget' = 0 \/ stderr_budget' = 0)
    OBVIOUS
  <2>1. /\ ~wasted
        /\ stdout_budget' < stdout_budget => ~(stdout_budget > Bytes(shortened.stdout))
        /\ stderr_budget' < stderr_budget => ~(stderr_budget > Bytes(shortened.stderr))
    BY <1>0
  <2>2. CASE stdout_budget >= stderr_budget
    <3>1. stdout_budget' = Saturating(stdout_budget, over) /\ stderr_budget' = stderr_budget
      BY <1>2, <2>2 DEF Reduced
    <3>2. stdout_budget' < stdout_budget
      BY <1>0, <1>2, <2>2, <3>1 DEF Saturating
    <3>3. stdout_budget <= Bytes(truncate_to_boundary(stdout, stdout_budget))
      BY <1>0, <1>1, <1>4, <2>1, <3>2
    <3>4. CASE stdout_budget' # 0
      <4>1. LengthWith(Saturating(stdout_budget, over), stderr_budget) <= max_bytes
        BY <1>0, <1>1, <3>1, <3>3, <3>4, StdoutHelps DEF over
      <4> QED
        BY <3>1, <4>1
    <3>5. CASE stdout_budget' = 0 /\ round = 1
      BY <3>5
    <3>6. CASE stdout_budget' = 0 /\ round # 1
      <4>1. stderr_budget = 0
        BY <1>0, <1>6, <2>1, <2>2, <3>6
      <4> QED
        BY <1>5, <3>1, <3>6, <4>1
    <3> QED
      BY <3>4, <3>5, <3>6
  <2>3. CASE ~(stdout_budget >= stderr_budget)
    <3>1. stderr_budget' = Saturating(stderr_budget, over) /\ stdout_budget' = stdout_budget
      BY <1>2, <2>3 DEF Reduced
    <3>2. stderr_budget' < stderr_budget
      BY <1>0, <1>2, <2>3, <3>1 DEF Saturating
    <3>3. stderr_budget <= Bytes(truncate_to_boundary(stderr, stderr_budget))
      BY <1>0, <1>1, <1>4, <2>1, <3>2
    <3>4. CASE stderr_budget' # 0
      <4>1. LengthWith(stdout_budget, Saturating(stderr_budget, over)) <= max_bytes
        BY <1>0, <1>1, <3>1, <3>3, <3>4, StderrHelps DEF over
      <4> QED
        BY <3>1, <4>1
    <3>5. CASE stderr_budget' = 0 /\ round = 1
      BY <3>5
    <3>6. CASE stderr_budget' = 0 /\ round # 1
      <4>1. stdout_budget = 0
        BY <1>0, <1>6, <2>1, <2>3, <3>6
      <4> QED
        BY <1>5, <3>1, <3>6, <4>1
    <3> QED
      BY <3>4, <3>5, <3>6
  <2> QED
    BY <2>2, <2>3
<1>9. RoundsEnd'
  BY <1>3, <1>5, <1>8 DEF RoundsEnd, limitGiven
<1>10. LimitTypeOK'
  BY <1>0, <1>7 DEF LimitTypeOK, limitGiven
<1>11. OutputIsCutToFit'
  BY <1>0 DEF OutputIsCutToFit
<1> QED
  BY <1>9, <1>10, <1>11 DEF LimitInv

LEMMA TooLongKeepsLimit ==
    ASSUME LimitInv, AttemptIsTooLong
    PROVE  LimitInv'
<1>0. LimitTypeOK /\ RoundsEnd /\ max_bytes \in Nat /\ round \in 1..5 /\ content = Unlimited
  BY DEF LimitInv, LimitTypeOK, AttemptIsTooLong, Looking
<1>1. shortened.length > max_bytes /\ Looking
  BY DEF AttemptIsTooLong
<1>2. /\ shortened.length = LengthWith(stdout_budget, stderr_budget) /\ shortened.length \in Nat
  BY <1>0, ShortenedIs, Lengths DEF LimitTypeOK
<1>3. CASE round = 5 \/ (stdout_budget = 0 /\ stderr_budget = 0)
  <2>1. BaseLength < max_bytes /\ BaseLength \in Nat
    BY <1>0, OutputLimitAssumption DEF RoundsEnd
  <2>2. ~(stdout_budget = 0 /\ stderr_budget = 0)
    BY <1>0, <1>1, <1>2, <2>1, NoLength
  <2>3. wasted
    BY <1>0, <1>1, <1>2, <1>3, <2>2 DEF RoundsEnd
  <2>4. Give(CutJson(shortened.length))
    BY <1>3 DEF AttemptIsTooLong
  <2> QED
    BY <1>2, <2>3, <2>4, CutJsonKeepsLimit
<1>4. CASE ~(round = 5 \/ (stdout_budget = 0 /\ stderr_budget = 0))
  BY <1>1, <1>4, NextRound DEF AttemptIsTooLong
<1> QED
  BY <1>3, <1>4

\* A message about an output is never too long and never changes what it holds; it is cut as
\* JSON only when even the JSON without the outputs is too long, or a round took bytes that no
\* output used (truncate_json_tool_output): for all characters, outputs, limits and lengths.
THEOREM OutputCorrect == LimitSpec => []OutputIsCutToFit
<1>1. LimitInit => LimitInv
  BY LimitBegins
<1>2. LimitInv /\ [LimitNext]_limitVars => LimitInv'
  <2> SUFFICES ASSUME LimitInv, [LimitNext]_limitVars PROVE LimitInv'
    OBVIOUS
  <2>1. CASE MessageIsGiven
    BY <2>1, MessageKeepsLimit
  <2>2. CASE WholeIsGiven
    BY <2>2, WholeKeepsLimit
  <2>3. CASE BaseIsCut
    BY <2>3, BaseKeepsLimit
  <2>4. CASE Budgets
    BY <2>4, BudgetsKeepLimit
  <2>5. CASE AttemptFits
    BY <2>5, FitKeepsLimit
  <2>6. CASE AttemptIsTooLong
    BY <2>6, TooLongKeepsLimit
  <2>7. CASE UNCHANGED limitVars
    <3>1. UNCHANGED shortened.length
      BY <2>7 DEF limitVars, shortened, JsonContent
    <3> QED
      BY <2>7, <3>1 DEF limitVars, LimitInv, LimitTypeOK, RoundsEnd, OutputIsCutToFit
  <2> QED
    BY <2>1, <2>2, <2>3, <2>4, <2>5, <2>6, <2>7 DEF LimitNext
<1>3. LimitInv => OutputIsCutToFit
  BY DEF LimitInv
<1> QED
  BY <1>1, <1>2, <1>3, PTL DEF LimitSpec

-----------------------------------------------------------------------------
(* Edits by hunk: texts in the order of their lines *)

AllLines == 1..(3 * Length)

\* Where a line stands: what is inserted before line i comes before it, what replaces it is
\* in its place.
Place(x) ==
    IF x <= Length THEN 2 * x
    ELSE IF x <= 2 * Length THEN 2 * (x - Length) ELSE 2 * (x - 2 * Length) - 1

Ascending(s) == \A i, j \in DOMAIN s : i < j => Place(s[i]) < Place(s[j])

\* Where the lines of both texts stand.
LEMMA PlacesAre ==
    /\ \A x \in AllLines : Place(x) \in 1..(2 * Length)
    /\ \A i \in Lines :
          /\ {i, NewLine(i), Ins(i)} \subseteq AllLines
          /\ Place(i) = 2 * i /\ Place(NewLine(i)) = 2 * i /\ Place(Ins(i)) = 2 * i - 1
<1> USE HunkAssumption
<1>1. ASSUME NEW x \in AllLines
      PROVE  Place(x) \in 1..(2 * Length)
  <2>1. x \in Int /\ 1 <= x /\ x <= 3 * Length /\ Length \in Nat
    BY DEF AllLines
  <2> QED
    BY <2>1 DEF Place
<1>2. ASSUME NEW i \in Lines
      PROVE  /\ {i, NewLine(i), Ins(i)} \subseteq AllLines
             /\ Place(i) = 2 * i /\ Place(NewLine(i)) = 2 * i /\ Place(Ins(i)) = 2 * i - 1
  <2>1. i \in Int /\ 1 <= i /\ i <= Length /\ Length \in Nat
    BY DEF Lines
  <2> QED
    BY <2>1 DEF Place, NewLine, Ins, AllLines
<1> QED
  BY <1>1, <1>2

\* Texts of which one ends before the other begins are in order one behind the other.
LEMMA OrderOfConcat ==
    ASSUME NEW s \in Seq(AllLines), NEW t \in Seq(AllLines), Ascending(s), Ascending(t),
           NEW k \in Int, \A i \in DOMAIN s : Place(s[i]) <= k,
           \A i \in DOMAIN t : k < Place(t[i])
    PROVE  Ascending(s \o t)
<1> DEFINE u == s \o t
<1>1. /\ Len(s) \in Nat /\ Len(t) \in Nat /\ DOMAIN s = 1..Len(s) /\ DOMAIN t = 1..Len(t)
      /\ DOMAIN u = 1..(Len(s) + Len(t))
      /\ \A i \in 1..(Len(s) + Len(t)) : u[i] = IF i <= Len(s) THEN s[i] ELSE t[i - Len(s)]
  BY ConcatProperties
<1> HIDE DEF u
<1>2. ASSUME NEW i \in DOMAIN u
      PROVE  \/ i \in DOMAIN s /\ u[i] = s[i]
             \/ i > Len(s) /\ i - Len(s) \in DOMAIN t /\ u[i] = t[i - Len(s)]
  BY <1>1
<1>3. /\ \A i \in DOMAIN s : s[i] \in AllLines /\ Place(s[i]) \in Int
      /\ \A i \in DOMAIN t : t[i] \in AllLines /\ Place(t[i]) \in Int
  BY <1>1, PlacesAre
<1>4. ASSUME NEW i \in DOMAIN u, NEW j \in DOMAIN u, i < j
      PROVE  Place(u[i]) < Place(u[j])
  <2>1. CASE i \in DOMAIN s /\ j \in DOMAIN s
    <3>1. u[i] = s[i] /\ u[j] = s[j]
      BY <1>1, <2>1
    <3> QED
      BY <1>4, <2>1, <3>1 DEF Ascending
  <2>2. CASE i \in DOMAIN s /\ j \notin DOMAIN s
    <3>1. u[i] = s[i] /\ j - Len(s) \in DOMAIN t /\ u[j] = t[j - Len(s)]
      BY <1>1, <1>2, <2>2
    <3>2. Place(s[i]) <= k /\ k < Place(t[j - Len(s)])
      BY <2>2, <3>1
    <3>3. Place(s[i]) \in Int /\ Place(t[j - Len(s)]) \in Int
      BY <1>3, <2>2, <3>1
    <3> QED
      BY <3>1, <3>2, <3>3
  <2>3. CASE i \notin DOMAIN s
    <3>1. /\ j \notin DOMAIN s /\ i - Len(s) \in DOMAIN t /\ u[i] = t[i - Len(s)]
          /\ i - Len(s) < j - Len(s)
      BY <1>1, <1>2, <1>4, <2>3
    <3>2. j - Len(s) \in DOMAIN t /\ u[j] = t[j - Len(s)]
      BY <1>2, <3>1
    <3> QED
      BY <3>1, <3>2 DEF Ascending
  <2> QED
    BY <2>1, <2>2, <2>3
<1> QED
  BY <1>4 DEF Ascending, u

\* Two texts in order that have the same lines are the same.
LEMMA SamePrefix ==
    ASSUME NEW s \in Seq(AllLines), NEW t \in Seq(AllLines), Ascending(s), Ascending(t),
           \A e : Has(s, e) <=> Has(t, e)
    PROVE  \A i \in 1..Len(s) : i \in 1..Len(t) /\ s[i] = t[i]
<1>1. /\ Len(s) \in Nat /\ Len(t) \in Nat /\ DOMAIN s = 1..Len(s) /\ DOMAIN t = 1..Len(t)
      /\ \A i \in DOMAIN s : Place(s[i]) \in Int
      /\ \A i \in DOMAIN t : Place(t[i]) \in Int
  <2>1. /\ \A i \in DOMAIN s : s[i] \in AllLines
        /\ \A i \in DOMAIN t : t[i] \in AllLines
    OBVIOUS
  <2> QED
    BY <2>1, PlacesAre
<1> DEFINE Good(n) == \A i \in 1..n : i \in 1..Len(t) /\ s[i] = t[i]
           G == {n \in 0..Len(s) : Good(n)}
<1>2. 0 \in G
  BY <1>1
<1>3. ASSUME NEW n \in 1..Len(s), n - 1 \in G
      PROVE  n \in G
  <2>1. Good(n - 1)
    BY <1>3
  <2>2. \A i \in 1..(n - 1) : i \in DOMAIN t /\ i \in DOMAIN s /\ i < n /\ s[i] = t[i]
    BY <1>1, <2>1
  <2>3. n \in DOMAIN s /\ Has(s, s[n])
    BY <1>1 DEF Has
  <2>4. PICK j \in DOMAIN t : t[j] = s[n]
    BY <2>3 DEF Has
  <2>5. j >= n
    <3>1. CASE j \in 1..(n - 1)
      <4>1. s[j] = s[n] /\ j < n /\ j \in DOMAIN s
        BY <2>2, <2>4, <3>1
      <4>2. Place(s[j]) < Place(s[n]) /\ Place(s[n]) \in Int
        BY <1>1, <2>3, <4>1 DEF Ascending
      <4> QED
        BY <4>1, <4>2
    <3>2. CASE j \notin 1..(n - 1)
      BY <1>1, <3>2
    <3> QED
      BY <3>1, <3>2
  <2>6. n \in DOMAIN t /\ Has(t, t[n])
    <3>1. n \in DOMAIN t
      BY <1>1, <2>5
    <3> QED
      BY <3>1 DEF Has
  <2>7. PICK k \in DOMAIN s : s[k] = t[n]
    BY <2>6 DEF Has
  <2>8. k >= n
    <3>1. CASE k \in 1..(n - 1)
      <4>1. t[k] = t[n] /\ k < n /\ k \in DOMAIN t
        BY <2>2, <2>7, <3>1
      <4>2. Place(t[k]) < Place(t[n]) /\ Place(t[n]) \in Int
        BY <1>1, <2>6, <4>1 DEF Ascending
      <4> QED
        BY <4>1, <4>2
    <3>2. CASE k \notin 1..(n - 1)
      BY <1>1, <3>2
    <3> QED
      BY <3>1, <3>2
  <2>9. /\ Place(s[n]) \in Int /\ Place(t[n]) \in Int
        /\ n < k => Place(s[n]) < Place(t[n])
        /\ n = k => s[n] = t[n]
        /\ n < j => Place(t[n]) < Place(s[n])
        /\ n = j => s[n] = t[n]
    BY <1>1, <2>3, <2>4, <2>6, <2>7 DEF Ascending
  <2>10. s[n] = t[n]
    <3>1. j \in Int /\ k \in Int /\ n \in Int
      BY <1>1
    <3>2. (n < k \/ n = k) /\ (n < j \/ n = j)
      BY <2>5, <2>8, <3>1
    <3> QED
      BY <2>9, <3>2
  <2>11. Good(n)
    <3> SUFFICES ASSUME NEW i \in 1..n
                 PROVE  i \in 1..Len(t) /\ s[i] = t[i]
      OBVIOUS
    <3>1. i \in 1..(n - 1) \/ i = n
      OBVIOUS
    <3> QED
      BY <1>1, <2>2, <2>6, <2>10, <3>1
  <2> QED
    BY <1>1, <2>11
<1>4. Len(s) \in G
  <2> HIDE DEF G
  <2>1. \A n \in 0..Len(s) : n \in G
    BY <1>1, <1>2, <1>3, AllUpTo
  <2> QED
    BY <1>1, <2>1
<1> QED
  BY <1>4

\* Texts in order with the same lines are the same.
LEMMA SameLines ==
    ASSUME NEW s \in Seq(AllLines), NEW t \in Seq(AllLines), Ascending(s), Ascending(t),
           \A e : Has(s, e) <=> Has(t, e)
    PROVE  s = t
<1>1. Len(s) \in Nat /\ Len(t) \in Nat
  OBVIOUS
<1>2. /\ \A i \in 1..Len(s) : i \in 1..Len(t) /\ s[i] = t[i]
      /\ \A i \in 1..Len(t) : i \in 1..Len(s)
  BY SamePrefix
<1>3. Len(s) = Len(t)
  <2>1. Len(s) <= Len(t)
    <3>1. CASE Len(s) = 0
      BY <1>1, <3>1
    <3>2. CASE Len(s) # 0
      <4>1. Len(s) \in 1..Len(s)
        BY <1>1, <3>2
      <4>2. Len(s) \in 1..Len(t)
        BY <1>2, <4>1
      <4> QED
        BY <1>1, <4>2
    <3> QED
      BY <3>1, <3>2
  <2>2. Len(t) <= Len(s)
    <3>1. CASE Len(t) = 0
      BY <1>1, <3>1
    <3>2. CASE Len(t) # 0
      <4>1. Len(t) \in 1..Len(t)
        BY <1>1, <3>2
      <4>2. Len(t) \in 1..Len(s)
        BY <1>2, <4>1
      <4> QED
        BY <1>1, <4>2
    <3> QED
      BY <3>1, <3>2
  <2> QED
    BY <1>1, <2>1, <2>2
<1> QED
  BY <1>2, <1>3, SeqEqual

-----------------------------------------------------------------------------
(* Edits by hunk: what stands between two places *)

\* The first n lines of a text are those up to a place.
IsCut(s, n, k) ==
    n \in 0..Len(s) /\ \A i \in 1..Len(s) : i <= n <=> Place(s[i]) <= k

\* t is a text of the lines of s between two places.
IsPart(t, s, k, l) ==
    /\ t \in Seq(AllLines) /\ Ascending(t)
    /\ \A e : Has(t, e) <=> Has(s, e) /\ k < Place(e) /\ Place(e) <= l

\* Between two cuts are the lines that stand between their places.
LEMMA PartIs ==
    ASSUME NEW s \in Seq(AllLines), Ascending(s), NEW k \in Int, NEW l \in Int, k <= l,
           NEW m, NEW n, IsCut(s, m, k), IsCut(s, n, l)
    PROVE  IsPart(SubSeq(s, m + 1, n), s, k, l)
<1> DEFINE t == SubSeq(s, m + 1, n)
<1>1. /\ Len(s) \in Nat /\ DOMAIN s = 1..Len(s) /\ m \in 0..Len(s) /\ n \in 0..Len(s)
      /\ \A i \in DOMAIN s : s[i] \in AllLines /\ Place(s[i]) \in Int
      /\ \A i \in DOMAIN s : (i <= m <=> Place(s[i]) <= k) /\ (i <= n <=> Place(s[i]) <= l)
  <2>1. \A i \in DOMAIN s : s[i] \in AllLines
    OBVIOUS
  <2>2. \A i \in DOMAIN s : Place(s[i]) \in Int
    BY <2>1, PlacesAre
  <2> QED
    BY <2>1, <2>2 DEF IsCut
<1>2. m <= n
  <2> SUFFICES ASSUME n < m
               PROVE  FALSE
    BY <1>1
  <2>1. m \in DOMAIN s /\ m <= m /\ ~(m <= n)
    BY <1>1
  <2>2. Place(s[m]) <= k /\ ~(Place(s[m]) <= l) /\ Place(s[m]) \in Int
    BY <1>1, <2>1
  <2> QED
    BY <2>2
<1>3. /\ t \in Seq(AllLines) /\ Len(t) = n - m /\ n - m \in Nat
      /\ \A i \in 1..(n - m) : t[i] = s[m + i]
  <2>1. m + 1 \in Int /\ n \in Int /\ \A i \in (m + 1)..n : s[i] \in AllLines
    BY <1>1
  <2>2. /\ t \in Seq(AllLines) /\ Len(t) = IF m + 1 <= n THEN n - (m + 1) + 1 ELSE 0
        /\ \A i \in 1..(n - (m + 1) + 1) : t[i] = s[(m + 1) + i - 1]
    BY <2>1, SubSeqProperties
  <2> HIDE DEF t
  <2>3. n - (m + 1) + 1 = n - m /\ \A i \in 1..(n - m) : (m + 1) + i - 1 = m + i
    BY <1>1
  <2>4. Len(t) = n - m /\ n - m \in Nat
    BY <1>1, <1>2, <2>2
  <2> QED
    BY <2>2, <2>3, <2>4
<1> HIDE DEF t
<1>4. DOMAIN t = 1..(n - m) /\ \A i \in 1..(n - m) : m + i \in DOMAIN s /\ m < m + i /\ m + i <= n
  BY <1>1, <1>3
<1>5. Ascending(t)
  <2> SUFFICES ASSUME NEW i \in DOMAIN t, NEW j \in DOMAIN t, i < j
               PROVE  Place(t[i]) < Place(t[j])
    BY DEF Ascending
  <2>1. m + i \in DOMAIN s /\ m + j \in DOMAIN s /\ m + i < m + j
    BY <1>1, <1>4
  <2>2. t[i] = s[m + i] /\ t[j] = s[m + j]
    BY <1>3, <1>4
  <2> QED
    BY <2>1, <2>2 DEF Ascending
<1>6. ASSUME NEW e, Has(t, e)
      PROVE  Has(s, e) /\ k < Place(e) /\ Place(e) <= l
  <2>1. PICK i \in DOMAIN t : t[i] = e
    BY <1>6 DEF Has
  <2>2. m + i \in DOMAIN s /\ s[m + i] = e /\ ~(m + i <= m) /\ m + i <= n
    BY <1>1, <1>3, <1>4, <2>1
  <2>3. ~(Place(e) <= k) /\ Place(e) <= l /\ Place(e) \in Int
    BY <1>1, <2>2
  <2> QED
    BY <2>2, <2>3 DEF Has
<1>7. ASSUME NEW e, Has(s, e), k < Place(e), Place(e) <= l
      PROVE  Has(t, e)
  <2>1. PICK i \in DOMAIN s : s[i] = e
    BY <1>7 DEF Has
  <2>2. Place(e) \in Int /\ ~(Place(e) <= k)
    <3>1. Place(e) \in Int
      BY <1>1, <2>1
    <3> QED
      BY <1>7, <3>1
  <2>3. ~(i <= m) /\ i <= n /\ i \in Int
    BY <1>1, <1>7, <2>1, <2>2
  <2>4. i - m \in 1..(n - m) /\ m + (i - m) = i
    BY <1>1, <2>3
  <2>5. t[i - m] = e
    BY <1>3, <2>1, <2>4
  <2> QED
    BY <1>4, <2>4, <2>5 DEF Has
<1> QED
  BY <1>3, <1>5, <1>6, <1>7 DEF IsPart, t

\* The cuts before the first line and behind the last
LEMMA EndsAreCuts ==
    ASSUME NEW s \in Seq(AllLines)
    PROVE  IsCut(s, 0, 0) /\ IsCut(s, Len(s), 2 * Length)
<1>1. Len(s) \in Nat /\ \A i \in 1..Len(s) : s[i] \in AllLines
  OBVIOUS
<1>2. \A i \in 1..Len(s) : Place(s[i]) \in 1..(2 * Length)
  BY <1>1, PlacesAre
<1>3. Length \in Nat
  BY HunkAssumption
<1> QED
  BY <1>1, <1>2, <1>3 DEF IsCut

\* s with the lines of t between two places
IsSpliced(u, s, t, k, l) ==
    /\ u \in Seq(AllLines) /\ Ascending(u)
    /\ \A e : Has(u, e) <=> IF k < Place(e) /\ Place(e) <= l THEN Has(t, e) ELSE Has(s, e)

\* Two texts cut at the same places can be spliced.
LEMMA SplicedIs ==
    ASSUME NEW s \in Seq(AllLines), Ascending(s), NEW t \in Seq(AllLines), Ascending(t),
           NEW k \in 0..(2 * Length), NEW l \in k..(2 * Length), NEW m, NEW n, NEW p, NEW q,
           IsCut(s, m, k), IsCut(s, n, l), IsCut(t, p, k), IsCut(t, q, l)
    PROVE  IsSpliced(SubSeq(s, 1, m) \o SubSeq(t, p + 1, q) \o SubSeq(s, n + 1, Len(s)),
                     s, t, k, l)
<1> DEFINE before == SubSeq(s, 1, m)
           middle == SubSeq(t, p + 1, q)
           after  == SubSeq(s, n + 1, Len(s))
           end    == 2 * Length
<1>1. Length \in Nat /\ end \in Int /\ 0 <= k /\ k \in Int /\ l \in Int /\ k <= l /\ l <= end
  BY HunkAssumption
<1>2. IsPart(before, s, 0, k)
  <2>1. PICK none \in Int : none = 0
    OBVIOUS
  <2>2. IsCut(s, none, none) /\ none <= k
    BY <1>1, <2>1, EndsAreCuts
  <2>3. IsPart(SubSeq(s, none + 1, m), s, none, k)
    BY <1>1, <2>2, PartIs
  <2> QED
    BY <2>1, <2>3
<1>3. IsPart(middle, t, k, l)
  BY <1>1, PartIs
<1>4. IsPart(after, s, l, end)
  BY <1>1, EndsAreCuts, PartIs
<1> HIDE DEF before, middle, after, end
<1>5. \A e : Has(s, e) \/ Has(t, e) => Place(e) \in Int /\ 0 < Place(e) /\ Place(e) <= end
  <2>1. \A e : Has(s, e) \/ Has(t, e) => e \in AllLines
    BY DEF Has
  <2> QED
    BY <2>1, PlacesAre DEF end
<1>6. /\ \A i \in DOMAIN before : Place(before[i]) <= k
      /\ \A i \in DOMAIN middle : k < Place(middle[i]) /\ Place(middle[i]) <= l
      /\ \A i \in DOMAIN after : l < Place(after[i])
  <2>1. /\ \A i \in DOMAIN before : Has(before, before[i])
        /\ \A i \in DOMAIN middle : Has(middle, middle[i])
        /\ \A i \in DOMAIN after : Has(after, after[i])
    BY DEF Has
  <2> QED
    BY <1>2, <1>3, <1>4, <2>1 DEF IsPart
<1> DEFINE two == before \o middle
<1>7. /\ two \in Seq(AllLines) /\ Ascending(two)
      /\ \A e : Has(two, e) <=> Has(before, e) \/ Has(middle, e)
  BY <1>1, <1>2, <1>3, <1>6, OrderOfConcat, ConcatHas DEF IsPart
<1>8. \A i \in DOMAIN two : Place(two[i]) <= l
  <2> SUFFICES ASSUME NEW i \in DOMAIN two
               PROVE  Place(two[i]) <= l
    OBVIOUS
  <2> HIDE DEF two
  <2>1. Has(two, two[i])
    BY DEF Has
  <2>2. CASE Has(before, two[i])
    <3>1. Place(two[i]) <= k /\ Has(s, two[i])
      BY <1>2, <2>2 DEF IsPart
    <3> QED
      BY <1>1, <1>5, <3>1
  <2>3. CASE Has(middle, two[i])
    BY <1>3, <2>3 DEF IsPart
  <2> QED
    BY <1>7, <2>1, <2>2, <2>3
<1> HIDE DEF two
<1> DEFINE u == two \o after
<1>9. /\ u \in Seq(AllLines) /\ Ascending(u)
      /\ \A e : Has(u, e) <=> Has(two, e) \/ Has(after, e)
  BY <1>1, <1>4, <1>6, <1>7, <1>8, OrderOfConcat, ConcatHas DEF IsPart
<1> HIDE DEF u
<1>10. ASSUME NEW e
       PROVE  Has(u, e) <=> IF k < Place(e) /\ Place(e) <= l THEN Has(t, e) ELSE Has(s, e)
  <2>1. Has(u, e) <=> \/ Has(s, e) /\ 0 < Place(e) /\ Place(e) <= k
                      \/ Has(t, e) /\ k < Place(e) /\ Place(e) <= l
                      \/ Has(s, e) /\ l < Place(e) /\ Place(e) <= end
    BY <1>2, <1>3, <1>4, <1>7, <1>9 DEF IsPart
  <2>2. CASE Has(s, e) \/ Has(t, e)
    <3>1. Place(e) \in Int /\ 0 < Place(e) /\ Place(e) <= end
      BY <1>5, <2>2
    <3> QED
      BY <1>1, <2>1, <3>1
  <2>3. CASE ~(Has(s, e) \/ Has(t, e))
    BY <2>1, <2>3
  <2> QED
    BY <2>2, <2>3
<1> QED
  BY <1>9, <1>10 DEF IsSpliced, u, two, before, middle, after

-----------------------------------------------------------------------------
(* Edits by hunk: the common lines *)

\* A set of numbers up to a bound has a largest one.
LEMMA LargestOf ==
    ASSUME NEW n \in Nat, NEW S \in SUBSET (0..n), S # {}
    PROVE  Max(S) \in S /\ \A x \in S : x <= Max(S)
<1> DEFINE G == {x \in 0..n : \A y \in S : y <= x}
<1>1. G \in SUBSET Nat /\ n \in G
  OBVIOUS
<1>2. PICK x \in G : \A y \in G : x <= y
  BY <1>1, LeastOf
<1>3. x \in S
  <2> SUFFICES ASSUME x \notin S
               PROVE  FALSE
    OBVIOUS
  <2>1. PICK z \in S : TRUE
    OBVIOUS
  <2>2. z <= x /\ z # x /\ z \in 0..n
    BY <2>1
  <2>3. x - 1 \in 0..n /\ \A y \in S : y <= x - 1
    BY <2>2
  <2>4. x - 1 \in G
    BY <2>3
  <2>5. x <= x - 1 /\ x \in Int
    BY <1>2, <2>4
  <2> QED
    BY <2>5
<1>4. x \in S /\ \A y \in S : x >= y
  BY <1>3
<1> HIDE DEF G
<1> QED
  BY <1>4 DEF Max

\* One of the members of a set comes behind as many others as one likes.
LEMMA RankedIs ==
    ASSUME NEW m \in Nat, NEW S \in SUBSET (0..m), NEW idx \in Nat, idx < Cardinality(S)
    PROVE  \E r \in S : Cardinality({p \in S : p < r}) = idx
<1> DEFINE Below(j) == {p \in S : p < j}
           G == {j \in Nat : idx < Cardinality(Below(j))}
<1>1. IsFiniteSet(S)
  <2>1. IsFiniteSet(0..m)
    BY FS_Interval
  <2> QED
    BY <2>1, FS_Subset
<1>2. \A p \in S : p \in Int /\ 0 <= p /\ p < m + 1
  OBVIOUS
<1>3. ASSUME NEW j \in Nat
      PROVE  IsFiniteSet(Below(j)) /\ Cardinality(Below(j)) \in Nat
  BY <1>1, FS_Subset, FS_CardinalityType
<1>4. m + 1 \in G
  <2>1. Below(m + 1) = S
    BY <1>2
  <2> QED
    BY <2>1
<1>5. PICK j \in G : \A i \in G : j <= i
  <2>1. G \in SUBSET Nat /\ G # {}
    BY <1>4
  <2> QED
    BY <2>1, LeastOf
<1>6. j # 0
  <2>1. \A p \in S : ~(p < 0)
    BY <1>2
  <2>2. Below(0) = {}
    BY <2>1
  <2>3. Cardinality(Below(0)) = 0
    BY <2>2, FS_EmptySet
  <2> QED
    BY <1>5, <2>3
<1>7. j - 1 \in Nat /\ j - 1 \notin G
  <2>1. j \in Nat
    BY <1>5
  <2>2. j - 1 \in Nat /\ ~(j <= j - 1)
    BY <1>6, <2>1
  <2> QED
    BY <1>5, <2>2
<1>8. ~(idx < Cardinality(Below(j - 1))) /\ idx < Cardinality(Below(j))
  BY <1>5, <1>7
<1>9. \A p \in S : p < j <=> p < j - 1 \/ p = j - 1
  <2>1. j \in Int
    BY <1>5
  <2> QED
    BY <1>2, <2>1
<1>10. ~(j - 1 < j - 1) /\ j - 1 < j
  BY <1>7
<1>11. j - 1 \in S
  <2> SUFFICES ASSUME j - 1 \notin S
               PROVE  FALSE
    OBVIOUS
  <2>1. Below(j) = Below(j - 1)
    BY <1>9
  <2> QED
    BY <1>8, <2>1
<1>12. Below(j) = Below(j - 1) \cup {j - 1} /\ j - 1 \notin Below(j - 1)
  BY <1>11, <1>9, <1>10
<1>13. Cardinality(Below(j)) = Cardinality(Below(j - 1)) + 1
  <2> HIDE DEF Below
  <2>1. IsFiniteSet(Below(j - 1))
    BY <1>3, <1>7
  <2> QED
    BY <1>12, <2>1, FS_AddElement
<1>14. Cardinality(Below(j - 1)) = idx
  <2>1. Cardinality(Below(j - 1)) \in Nat
    BY <1>3, <1>7
  <2> HIDE DEF Below
  <2> QED
    BY <1>8, <1>13, <2>1
<1> QED
  BY <1>11, <1>14

\* What a filter leaves of a text in order is in order.
LEMMA OrderOfRest ==
    ASSUME NEW s \in Seq(AllLines), Ascending(s), NEW dropped
    PROVE  Ascending(Excluding(s, dropped))
<1> DEFINE Good(t) == Ascending(t) => Ascending(Excluding(t, dropped))
           G == {t \in Seq(AllLines) : Good(t)}
<1>1. <<>> \in G
  <2>1. <<>> \in Seq(AllLines) /\ DOMAIN <<>> = {}
    OBVIOUS
  <2>2. Ascending(<<>>)
    BY <2>1 DEF Ascending
  <2> QED
    BY <2>1, <2>2, ExcludingNone
<1>2. ASSUME NEW t \in Seq(AllLines), NEW x \in AllLines, t \in G
      PROVE  Append(t, x) \in G
  <2> DEFINE u == Append(t, x)
             rest == Excluding(t, dropped)
  <2>1. /\ u \in Seq(AllLines) /\ DOMAIN u = 1..(Len(t) + 1) /\ Len(t) \in Nat
        /\ DOMAIN t = 1..Len(t)
        /\ u[Len(t) + 1] = x /\ \A i \in 1..Len(t) : u[i] = t[i]
    BY AppendProperties
  <2>2. Excluding(u, dropped) = IF x \in dropped THEN rest ELSE Append(rest, x)
    BY ExcludingAppend
  <2>3. rest \in Seq(AllLines) /\ \A e : Has(rest, e) => Has(t, e)
    BY ExcludingHas
  <2>4. Good(t)
    BY <1>2
  <2> HIDE DEF u, rest
  <2>5. ASSUME Ascending(u)
        PROVE  Ascending(Excluding(u, dropped))
    <3>1. Ascending(t) /\ \A i \in DOMAIN t : Place(t[i]) < Place(x)
      <4>1. \A i \in DOMAIN t : i \in DOMAIN u /\ i < Len(t) + 1 /\ u[i] = t[i]
        BY <2>1
      <4>2. Len(t) + 1 \in DOMAIN u
        BY <2>1
      <4> QED
        BY <2>1, <2>5, <4>1, <4>2 DEF Ascending
    <3>2. Ascending(rest)
      BY <2>4, <3>1 DEF rest
    <3>3. \A i \in DOMAIN rest : Place(rest[i]) < Place(x)
      <4>1. \A i \in DOMAIN rest : Has(t, rest[i])
        BY <2>3 DEF Has
      <4> QED
        BY <3>1, <4>1 DEF Has
    <3>4. Ascending(Append(rest, x))
      <4> DEFINE v == Append(rest, x)
      <4>1. /\ DOMAIN v = 1..(Len(rest) + 1) /\ Len(rest) \in Nat /\ DOMAIN rest = 1..Len(rest)
            /\ v[Len(rest) + 1] = x /\ \A i \in 1..Len(rest) : v[i] = rest[i]
        BY <2>3, AppendProperties
      <4> HIDE DEF v
      <4>2. ASSUME NEW i \in DOMAIN v, NEW j \in DOMAIN v, i < j
            PROVE  Place(v[i]) < Place(v[j])
        <5>1. i \in DOMAIN rest /\ v[i] = rest[i]
          BY <4>1, <4>2
        <5>2. CASE j \in DOMAIN rest
          <6>1. v[j] = rest[j]
            BY <4>1, <5>2
          <6> QED
            BY <3>2, <4>2, <5>1, <5>2, <6>1 DEF Ascending
        <5>3. CASE j \notin DOMAIN rest
          <6>1. v[j] = x
            BY <4>1, <5>3
          <6> QED
            BY <3>3, <5>1, <6>1
        <5> QED
          BY <5>2, <5>3
      <4> QED
        BY <4>2 DEF Ascending, v
    <3> QED
      BY <2>2, <3>2, <3>4
  <2> QED
    BY <2>1, <2>5 DEF u
<1>3. s \in G
  <2> HIDE DEF G
  <2> QED
    BY <1>1, <1>2, ByAppending
<1> QED
  BY <1>3

\* c has lines of both texts, in their order.
AreCommon(c, s, t) ==
    /\ c \in Seq(AllLines) /\ Ascending(c)
    /\ \A r \in DOMAIN c : Has(s, c[r]) /\ Has(t, c[r])

\* The common lines are in order, and both texts have them.
LEMMA CommonAre ==
    ASSUME NEW s \in Seq(AllLines), Ascending(s), NEW t \in Seq(AllLines)
    PROVE  AreCommon(Common(s, t), s, t)
<1> DEFINE dropped == ToSet(s) \ ToSet(t)
           c == Excluding(s, dropped)
<1>1. /\ c \in Seq(AllLines) /\ Ascending(c)
      /\ \A e : Has(c, e) <=> Has(s, e) /\ e \notin dropped
  BY ExcludingHas, OrderOfRest
<1>2. \A e : /\ e \in ToSet(s) <=> Has(s, e)
             /\ e \in ToSet(t) <=> Has(t, e)
  BY DEF ToSet, Has
<1> HIDE DEF c
<1>3. ASSUME NEW r \in DOMAIN c
      PROVE  Has(s, c[r]) /\ Has(t, c[r])
  <2>1. Has(c, c[r])
    BY DEF Has
  <2> QED
    BY <1>1, <1>2, <2>1
<1> QED
  BY <1>1, <1>3 DEF AreCommon, Common, c

-----------------------------------------------------------------------------
(* Edits by hunk: the places of the common lines *)

\* The places of the cuts behind and before a common line
Behind(c, r) == IF r = 0 THEN 0 ELSE Place(c[r])
Before(c, r) == IF r > Len(c) THEN 2 * Length ELSE Place(c[r]) - 1

\* How many lines come before the end of a common line is a cut at its place.
LEMMA UpToIs ==
    ASSUME NEW s \in Seq(AllLines), Ascending(s), NEW c \in Seq(AllLines),
           \A r \in DOMAIN c : Has(s, c[r])
    PROVE  /\ \A r \in 0..Len(c) : IsCut(s, UpTo(s, c, r), Behind(c, r))
           /\ \A r \in 1..(Len(c) + 1) : IsCut(s, UpTo(s, c, r) - 1, Before(c, r))
<1>1. /\ Len(s) \in Nat /\ DOMAIN s = 1..Len(s) /\ Len(c) \in Nat /\ DOMAIN c = 1..Len(c)
      /\ \A i \in DOMAIN s : s[i] \in AllLines /\ Place(s[i]) \in Int
  <2>1. \A i \in DOMAIN s : s[i] \in AllLines
    OBVIOUS
  <2> QED
    BY <2>1, PlacesAre
<1>2. ASSUME NEW r \in 1..Len(c)
      PROVE  /\ IsCut(s, UpTo(s, c, r), Behind(c, r))
             /\ IsCut(s, UpTo(s, c, r) - 1, Before(c, r))
  <2> DEFINE k == UpTo(s, c, r)
  <2>1. r # 0 /\ ~(r > Len(c)) /\ r \in DOMAIN c
    BY <1>1
  <2>2. k = CHOOSE i \in DOMAIN s : s[i] = c[r]
    BY <2>1 DEF UpTo
  <2>3. \E i \in DOMAIN s : s[i] = c[r]
    BY <2>1 DEF Has
  <2> HIDE DEF k
  <2>4. k \in DOMAIN s /\ s[k] = c[r]
    BY <2>2, <2>3
  <2>5. ASSUME NEW i \in DOMAIN s
        PROVE  /\ i <= k <=> Place(s[i]) <= Place(c[r])
               /\ i <= k - 1 <=> Place(s[i]) <= Place(c[r]) - 1
    <3>1. Place(s[i]) \in Int /\ Place(s[k]) \in Int /\ i \in Int /\ k \in Int
      BY <1>1, <2>4
    <3>2. CASE i < k
      <4>1. Place(s[i]) < Place(s[k])
        BY <2>4, <3>2 DEF Ascending
      <4> QED
        BY <2>4, <3>1, <3>2, <4>1
    <3>3. CASE i = k
      BY <2>4, <3>1, <3>3
    <3>4. CASE k < i
      <4>1. Place(s[k]) < Place(s[i])
        BY <2>4, <3>4 DEF Ascending
      <4> QED
        BY <2>4, <3>1, <3>4, <4>1
    <3> QED
      BY <3>1, <3>2, <3>3, <3>4
  <2>6. k \in 0..Len(s) /\ k - 1 \in 0..Len(s)
    BY <1>1, <2>4
  <2>7. Behind(c, r) = Place(c[r]) /\ Before(c, r) = Place(c[r]) - 1
    BY <2>1 DEF Behind, Before
  <2> QED
    BY <1>1, <2>5, <2>6, <2>7 DEF IsCut, k
<1>3. IsCut(s, UpTo(s, c, 0), Behind(c, 0))
  <2>1. UpTo(s, c, 0) = 0 /\ Behind(c, 0) = 0
    BY DEF UpTo, Behind
  <2> QED
    BY <2>1, EndsAreCuts
<1>4. IsCut(s, UpTo(s, c, Len(c) + 1) - 1, Before(c, Len(c) + 1))
  <2>1. Len(c) + 1 > Len(c) /\ Len(c) + 1 # 0 /\ (Len(s) + 1) - 1 = Len(s)
    BY <1>1
  <2>2. UpTo(s, c, Len(c) + 1) = Len(s) + 1 /\ Before(c, Len(c) + 1) = 2 * Length
    BY <2>1 DEF UpTo, Before
  <2> QED
    BY <2>1, <2>2, EndsAreCuts
<1>5. /\ \A r \in 0..Len(c) : r = 0 \/ r \in 1..Len(c)
      /\ \A r \in 1..(Len(c) + 1) : r = Len(c) + 1 \/ r \in 1..Len(c)
  BY <1>1
<1> QED
  BY <1>2, <1>3, <1>4, <1>5

\* The cuts are in the order of the common lines.
LEMMA CutsInOrder ==
    ASSUME NEW c \in Seq(AllLines), Ascending(c)
    PROVE  /\ \A r \in 0..Len(c) : Behind(c, r) \in 0..(2 * Length)
           /\ \A r \in 1..(Len(c) + 1) : Before(c, r) \in 0..(2 * Length)
           /\ \A r \in 0..Len(c) : \A q \in r..Len(c) : Behind(c, r) <= Behind(c, q)
           /\ \A r \in 0..Len(c) : \A q \in (r + 1)..(Len(c) + 1) : Behind(c, r) <= Before(c, q)
<1>1. /\ Len(c) \in Nat /\ DOMAIN c = 1..Len(c) /\ Length \in Nat
      /\ \A r \in 1..Len(c) : Place(c[r]) \in 1..(2 * Length)
  <2>1. \A r \in 1..Len(c) : c[r] \in AllLines
    OBVIOUS
  <2>2. Len(c) \in Nat /\ DOMAIN c = 1..Len(c)
    OBVIOUS
  <2> QED
    BY <2>1, <2>2, PlacesAre, HunkAssumption
<1>2. /\ Behind(c, 0) = 0 /\ \A r \in 1..Len(c) : Behind(c, r) = Place(c[r])
      /\ \A r \in 1..Len(c) : Before(c, r) = Place(c[r]) - 1
      /\ Before(c, Len(c) + 1) = 2 * Length
  <2>1. \A r \in 1..Len(c) : r # 0 /\ ~(r > Len(c))
    BY <1>1
  <2>2. Len(c) + 1 > Len(c)
    BY <1>1
  <2> QED
    BY <2>1, <2>2 DEF Behind, Before
<1>3. ASSUME NEW r \in 1..Len(c), NEW q \in 1..Len(c), r < q
      PROVE  Place(c[r]) < Place(c[q])
  BY <1>1, <1>3 DEF Ascending
<1>4. /\ \A r \in 0..Len(c) : r = 0 \/ r \in 1..Len(c)
      /\ \A r \in 1..(Len(c) + 1) : r = Len(c) + 1 \/ r \in 1..Len(c)
  BY <1>1
<1>5. ASSUME NEW r \in 0..Len(c)
      PROVE  Behind(c, r) \in 0..(2 * Length)
  BY <1>1, <1>2, <1>4
<1>6. ASSUME NEW r \in 1..(Len(c) + 1)
      PROVE  Before(c, r) \in 0..(2 * Length)
  BY <1>1, <1>2, <1>4
<1>7. ASSUME NEW r \in 0..Len(c), NEW q \in r..Len(c)
      PROVE  Behind(c, r) <= Behind(c, q)
  <2>1. q \in 0..Len(c) /\ r \in Int /\ q \in Int
    BY <1>1
  <2>2. Behind(c, q) \in 0..(2 * Length)
    BY <1>5, <2>1
  <2>3. CASE r = 0
    BY <1>1, <1>2, <2>2, <2>3
  <2>4. CASE r = q
    BY <1>1, <2>2, <2>4
  <2>5. CASE r # 0 /\ r # q
    <3>1. r \in 1..Len(c) /\ q \in 1..Len(c) /\ r < q
      BY <1>1, <2>1, <2>5
    <3>2. Place(c[r]) < Place(c[q]) /\ Place(c[r]) \in Int /\ Place(c[q]) \in Int
      BY <1>1, <1>3, <3>1
    <3> QED
      BY <1>2, <3>1, <3>2
  <2> QED
    BY <2>3, <2>4, <2>5
<1>8. ASSUME NEW r \in 0..Len(c), NEW q \in (r + 1)..(Len(c) + 1)
      PROVE  Behind(c, r) <= Before(c, q)
  <2>1. q \in 1..(Len(c) + 1) /\ r \in Int /\ q \in Int /\ r < q
    BY <1>1
  <2>2. Before(c, q) \in 0..(2 * Length) /\ Behind(c, r) \in 0..(2 * Length)
    BY <1>5, <1>6, <2>1
  <2>3. CASE r = 0
    BY <1>1, <1>2, <2>2, <2>3
  <2>4. CASE q = Len(c) + 1
    BY <1>1, <1>2, <2>2, <2>4
  <2>5. CASE r # 0 /\ q # Len(c) + 1
    <3>1. r \in 1..Len(c) /\ q \in 1..Len(c) /\ r < q
      BY <1>1, <2>1, <2>5
    <3>2. Place(c[r]) < Place(c[q]) /\ Place(c[r]) \in Int /\ Place(c[q]) \in Int
      BY <1>1, <1>3, <3>1
    <3>3. Place(c[r]) <= Place(c[q]) - 1
      BY <3>2
    <3> QED
      BY <1>2, <3>1, <3>3
  <2> QED
    BY <2>3, <2>4, <2>5
<1> QED
  BY <1>5, <1>6, <1>7, <1>8

\* Between two common lines without a gap, a text goes on line by line.
LEMMA NoGap ==
    ASSUME NEW s \in Seq(AllLines), Ascending(s), NEW c \in Seq(AllLines), Ascending(c),
           \A r \in DOMAIN c : Has(s, c[r]),
           NEW q \in 0..Len(c), NEW n \in 0..(Len(c) - q),
           \A r \in q..(q + n - 1) : ~(UpTo(s, c, r + 1) > UpTo(s, c, r) + 1)
    PROVE  UpTo(s, c, q + n) = UpTo(s, c, q) + n
<1>1. Len(c) \in Nat /\ DOMAIN c = 1..Len(c) /\ Len(s) \in Nat /\ DOMAIN s = 1..Len(s)
  OBVIOUS
<1>2. ASSUME NEW r \in 0..Len(c)
      PROVE  UpTo(s, c, r) \in 0..Len(s)
  BY <1>2, UpToIs DEF IsCut
<1>3. ASSUME NEW r \in q..(q + n - 1)
      PROVE  UpTo(s, c, r + 1) = UpTo(s, c, r) + 1
  <2> DEFINE i == UpTo(s, c, r)
             j == UpTo(s, c, r + 1)
  <2>1. r \in 0..Len(c) /\ r + 1 \in 1..Len(c) /\ r + 1 \in 0..Len(c)
        /\ r + 1 \in (r + 1)..(Len(c) + 1) /\ r + 1 \in 1..(Len(c) + 1)
    BY <1>1
  <2>2. i \in 0..Len(s) /\ j \in 0..Len(s) /\ i \in Int /\ j \in Int
    BY <1>1, <1>2, <2>1
  <2>3. IsCut(s, i, Behind(c, r)) /\ IsCut(s, j - 1, Before(c, r + 1))
    BY <2>1, UpToIs
  <2>4. Behind(c, r) <= Before(c, r + 1) /\ Behind(c, r) \in Int /\ Before(c, r + 1) \in Int
    <3>1. Length \in Nat
      BY HunkAssumption
    <3> QED
      BY <2>1, <3>1, CutsInOrder
  <2>5. ~(j > i + 1)
    OBVIOUS
  <2> HIDE DEF i, j
  <2>6. i <= j - 1
    <3> SUFFICES ASSUME j - 1 < i
                 PROVE  FALSE
      BY <2>2
    <3>1. i \in DOMAIN s /\ i <= i /\ ~(i <= j - 1)
      BY <1>1, <2>2, <2>3 DEF IsCut
    <3>2. Place(s[i]) <= Behind(c, r) /\ ~(Place(s[i]) <= Before(c, r + 1))
      BY <1>1, <2>3, <3>1 DEF IsCut
    <3>3. Place(s[i]) \in Int
      <4>1. s[i] \in AllLines
        BY <3>1
      <4> QED
        BY <4>1, PlacesAre
    <3> QED
      BY <2>4, <3>2, <3>3
  <2>7. j = i + 1
    BY <2>2, <2>5, <2>6
  <2> QED
    BY <2>7 DEF i, j
<1> DEFINE G == {m \in 0..n : UpTo(s, c, q + m) = UpTo(s, c, q) + m}
<1>4. 0 \in G
  <2>1. q + 0 = q /\ UpTo(s, c, q) + 0 = UpTo(s, c, q) /\ 0 \in 0..n
    BY <1>1, <1>2
  <2> QED
    BY <2>1
<1>5. ASSUME NEW m \in 1..n, m - 1 \in G
      PROVE  m \in G
  <2>1. UpTo(s, c, q + (m - 1)) = UpTo(s, c, q) + (m - 1)
    BY <1>5
  <2>2. q + (m - 1) \in q..(q + n - 1) /\ (q + (m - 1)) + 1 = q + m /\ m \in Int
    BY <1>1
  <2>3. UpTo(s, c, q + m) = UpTo(s, c, q + (m - 1)) + 1
    BY <1>3, <2>2
  <2>4. UpTo(s, c, q) \in Int
    BY <1>1, <1>2
  <2>5. UpTo(s, c, q + m) = UpTo(s, c, q) + m
    BY <2>1, <2>2, <2>3, <2>4
  <2> QED
    BY <2>5
<1>6. n \in G
  <2> HIDE DEF G
  <2>1. n \in Nat
    BY <1>1
  <2>2. \A m \in 0..n : m \in G
    BY <1>4, <1>5, <2>1, AllUpTo
  <2> QED
    BY <2>1, <2>2
<1> QED
  BY <1>6

-----------------------------------------------------------------------------
(* Edits by hunk: a hunk cuts both texts at the same places *)

\* The hunk has the lines of both texts that stand between two places.
HunkCuts(s, t, h, k, l) ==
    /\ IsCut(s, h.old_start, k) /\ IsCut(s, h.old_end, l)
    /\ IsCut(t, h.new_start, k) /\ IsCut(t, h.new_end, l)

\* The gaps of the idx-th hunk
Opening(s, t, n, idx) ==
    CHOOSE r \in Firsts(s, t, n) : Cardinality({p \in Firsts(s, t, n) : p < r}) = idx
InHunk(s, t, n, first) ==
    {r \in Gaps(s, t) : r >= first /\ \A p \in Firsts(s, t, n) : p > first => r < p}

Fewer(x, y) == IF x < y THEN x ELSE y

\* Where a hunk begins and ends, from its first and last gap
HunkOf(s, t, c, n, first, last) ==
    [old_start |-> UpTo(s, c, first) - Fewer(n, first),
     old_end   |-> UpTo(s, c, last + 1) - 1 + Fewer(n, Len(c) - last),
     new_start |-> UpTo(t, c, first) - Fewer(n, first),
     new_end   |-> UpTo(t, c, last + 1) - 1 + Fewer(n, Len(c) - last)]

\* The hunk, by its first and last gap.
LEMMA HunkIs ==
    ASSUME NEW s, NEW t, NEW n, NEW idx
    PROVE  Hunk(s, t, n, idx)
             = HunkOf(s, t, Common(s, t), n, Opening(s, t, n, idx),
                      Max(InHunk(s, t, n, Opening(s, t, n, idx))))
BY DEF Hunk, HunkOf, Opening, InHunk, Fewer

\* The first gap of a hunk, and the last; no gap is as near as the context before or behind.
Spans(s, t, n, first, last) ==
    /\ first \in 0..Len(Common(s, t)) /\ last \in first..Len(Common(s, t))
    /\ \A r \in Gaps(s, t) : r < first => first - r > n
    /\ \A r \in Gaps(s, t) : r > last => r - last > n

\* No gap outside a hunk is as near to it as the context.
LEMMA SpansIs ==
    ASSUME NEW s \in Seq(AllLines), Ascending(s), NEW t \in Seq(AllLines),
           NEW n \in Nat, NEW idx \in Nat, idx < hunk_total(s, t, n)
    PROVE  Spans(s, t, n, Opening(s, t, n, idx), Max(InHunk(s, t, n, Opening(s, t, n, idx))))
<1> DEFINE m == Len(Common(s, t))
           gaps == Gaps(s, t)
           firsts == Firsts(s, t, n)
           first == Opening(s, t, n, idx)
           last == Max(InHunk(s, t, n, first))
<1>1. m \in Nat
  <2>1. Common(s, t) \in Seq(AllLines)
    BY CommonAre DEF AreCommon
  <2> QED
    BY <2>1
<1>2. gaps \in SUBSET (0..m) /\ firsts \subseteq gaps
  BY DEF Gaps, Firsts
<1>3. \A r \in firsts : \A p \in gaps : p < r => r - p > 2 * n
  BY DEF Firsts
<1>4. idx < Cardinality(firsts)
  BY DEF hunk_total
<1>5. first = CHOOSE r \in firsts : Cardinality({p \in firsts : p < r}) = idx
  BY DEF Opening
<1>6. InHunk(s, t, n, first) = {r \in gaps : r >= first /\ \A p \in firsts : p > first => r < p}
  BY DEF InHunk
<1> HIDE DEF m, gaps, firsts
<1>7. first \in firsts
  <2>1. firsts \in SUBSET (0..m)
    BY <1>2
  <2>2. \E r \in firsts : Cardinality({p \in firsts : p < r}) = idx
    BY <1>1, <1>4, <2>1, RankedIs
  <2> HIDE DEF first
  <2> QED
    BY <1>5, <2>2
<1> HIDE DEF first
<1> DEFINE T == {r \in gaps : r >= first /\ \A p \in firsts : p > first => r < p}
<1>8. first \in T /\ T \in SUBSET (0..m) /\ T # {}
  <2>1. first \in gaps /\ first \in Int
    BY <1>1, <1>2, <1>7
  <2>2. first >= first /\ \A p \in firsts : p > first => first < p
    BY <1>1, <1>2, <2>1
  <2> QED
    BY <1>2, <2>1, <2>2
<1>9. last \in T /\ \A r \in T : r <= last
  <2>1. last = Max(T)
    BY <1>6
  <2> HIDE DEF T, last
  <2> QED
    BY <1>1, <1>8, <2>1, LargestOf
<1> HIDE DEF last
<1>10. first \in 0..m /\ last \in first..m
  BY <1>1, <1>2, <1>7, <1>8, <1>9
<1>11. ASSUME NEW r \in gaps, r < first
       PROVE  first - r > n
  <2>1. first - r > 2 * n /\ r \in Int /\ first \in Int
    BY <1>1, <1>2, <1>3, <1>7, <1>11
  <2> QED
    BY <2>1
<1>12. ASSUME NEW r \in gaps, r > last
       PROVE  r - last > n
  <2>1. r \in Int /\ last \in Int /\ first \in Int /\ first <= last /\ last \in gaps
    BY <1>1, <1>2, <1>9, <1>10
  <2>2. r \notin T
    BY <1>9, <1>12, <2>1
  <2>3. PICK p \in firsts : p > first /\ ~(r < p)
    BY <1>12, <2>1, <2>2
  <2>4. p \in Int /\ last < p
    BY <1>1, <1>2, <1>9, <2>3
  <2>5. p - last > 2 * n
    BY <1>3, <2>1, <2>4
  <2> QED
    BY <2>1, <2>3, <2>4, <2>5
<1> QED
  BY <1>10, <1>11, <1>12 DEF Spans, m, gaps, first, last

\* What is told of a hunk holds of each of the two texts.
StartIsCut(s, c, n, first) ==
    IsCut(s, UpTo(s, c, first) - Fewer(n, first), Behind(c, first - Fewer(n, first)))

EndPlace(c, n, last) ==
    LET after == Fewer(n, Len(c) - last) IN
    IF after = 0 THEN Before(c, last + 1) ELSE Behind(c, last + after)

EndIsCut(s, c, n, last) ==
    IsCut(s, UpTo(s, c, last + 1) - 1 + Fewer(n, Len(c) - last), EndPlace(c, n, last))

\* Where no gap is near, the context has the same lines in both texts.
LEMMA HunkEnds ==
    ASSUME NEW s \in Seq(AllLines), Ascending(s), NEW c \in Seq(AllLines), Ascending(c),
           \A r \in DOMAIN c : Has(s, c[r]),
           NEW n \in Nat, NEW first \in 0..Len(c), NEW last \in first..Len(c),
           \A r \in 0..Len(c) : r < first /\ first - r <= n
              => ~(UpTo(s, c, r + 1) > UpTo(s, c, r) + 1),
           \A r \in 0..Len(c) : r > last /\ r - last <= n
              => ~(UpTo(s, c, r + 1) > UpTo(s, c, r) + 1)
    PROVE  StartIsCut(s, c, n, first) /\ EndIsCut(s, c, n, last)
<1>1. /\ Len(c) \in Nat /\ first \in Nat /\ last \in Nat /\ first <= last /\ last <= Len(c)
      /\ last \in 0..Len(c)
  OBVIOUS
<1>2. ASSUME NEW r \in 0..Len(c)
      PROVE  UpTo(s, c, r) \in Int
  <2>1. IsCut(s, UpTo(s, c, r), Behind(c, r))
    BY UpToIs
  <2> QED
    BY <2>1 DEF IsCut
<1>3. StartIsCut(s, c, n, first)
  <2> DEFINE before == Fewer(n, first)
             q == first - before
  <2>1. before \in 0..first /\ before <= n /\ before \in Int
    BY <1>1 DEF Fewer
  <2> HIDE DEF before
  <2>2. q \in 0..Len(c) /\ before \in 0..(Len(c) - q) /\ q + before = first
    BY <1>1, <2>1
  <2>3. ASSUME NEW r \in q..(q + before - 1)
        PROVE  ~(UpTo(s, c, r + 1) > UpTo(s, c, r) + 1)
    <3>1. r \in 0..Len(c) /\ r < first /\ first - r <= n
      BY <1>1, <2>1, <2>2
    <3> QED
      BY <3>1
  <2>4. IsCut(s, UpTo(s, c, q), Behind(c, q)) /\ UpTo(s, c, q) \in Int
    BY <1>2, <2>2, UpToIs
  <2> HIDE DEF q
  <2>5. UpTo(s, c, first) = UpTo(s, c, q) + before
    <3>1. UpTo(s, c, q + before) = UpTo(s, c, q) + before
      BY <2>2, <2>3, NoGap
    <3> QED
      BY <2>2, <3>1
  <2>6. UpTo(s, c, first) - before = UpTo(s, c, q)
    <3>1. PICK u \in Int : u = UpTo(s, c, q)
      BY <2>4
    <3>2. UpTo(s, c, first) = u + before
      BY <2>5, <3>1
    <3>3. (u + before) - before = u
      BY <2>1
    <3> QED
      BY <3>1, <3>2, <3>3
  <2> QED
    BY <2>4, <2>6 DEF StartIsCut, before, q
<1>4. EndIsCut(s, c, n, last)
  <2> DEFINE after == Fewer(n, Len(c) - last)
  <2>1. after \in 0..(Len(c) - last) /\ after <= n /\ after \in Int
    BY <1>1 DEF Fewer
  <2>2. EndPlace(c, n, last) = IF after = 0 THEN Before(c, last + 1) ELSE Behind(c, last + after)
    BY DEF EndPlace
  <2> HIDE DEF after
  <2>3. CASE after = 0
    <3>1. last + 1 \in 1..(Len(c) + 1)
      BY <1>1
    <3>2. IsCut(s, UpTo(s, c, last + 1) - 1, Before(c, last + 1))
      BY <3>1, UpToIs
    <3>3. UpTo(s, c, last + 1) - 1 + after = UpTo(s, c, last + 1) - 1
      <4>1. UpTo(s, c, last + 1) - 1 \in Int
        BY <3>2 DEF IsCut
      <4> QED
        BY <2>3, <4>1
    <3> QED
      BY <2>2, <2>3, <3>2, <3>3 DEF EndIsCut, after
  <2>4. CASE after # 0
    <3> DEFINE q == last + 1
               more == after - 1
    <3>1. /\ q \in 0..Len(c) /\ more \in 0..(Len(c) - q) /\ q + more = last + after
          /\ more \in Int /\ after = more + 1 /\ last + after \in 0..Len(c)
      BY <1>1, <2>1, <2>4
    <3>2. ASSUME NEW r \in q..(q + more - 1)
          PROVE  ~(UpTo(s, c, r + 1) > UpTo(s, c, r) + 1)
      <4>1. r \in 0..Len(c) /\ r > last /\ r - last <= n
        BY <1>1, <2>1, <3>1
      <4> QED
        BY <4>1
    <3>3. IsCut(s, UpTo(s, c, last + after), Behind(c, last + after)) /\ UpTo(s, c, q) \in Int
      BY <1>2, <3>1, UpToIs
    <3>4. UpTo(s, c, q + more) = UpTo(s, c, q) + more
      <4> HIDE DEF q, more
      <4> QED
        BY <3>1, <3>2, NoGap
    <3>5. UpTo(s, c, q) - 1 + after = UpTo(s, c, last + after)
      <4>1. PICK u \in Int : u = UpTo(s, c, q)
        BY <3>3
      <4> HIDE DEF q, more
      <4>2. UpTo(s, c, last + after) = u + more
        BY <3>1, <3>4, <4>1
      <4>3. u - 1 + after = u + more
        BY <2>1, <3>1
      <4> QED
        BY <4>1, <4>2, <4>3
    <3> QED
      BY <2>2, <2>4, <3>3, <3>5 DEF EndIsCut, after
  <2> QED
    BY <2>3, <2>4
<1> QED
  BY <1>3, <1>4

\* A hunk cuts both texts at the same two places.
LEMMA HunkIsCut ==
    ASSUME NEW s \in Seq(AllLines), Ascending(s), NEW t \in Seq(AllLines), Ascending(t),
           NEW n \in Nat, NEW idx \in Nat, idx < hunk_total(s, t, n)
    PROVE  \E k \in 0..(2 * Length) : \E l \in k..(2 * Length) :
              HunkCuts(s, t, Hunk(s, t, n, idx), k, l)
<1> DEFINE c == Common(s, t)
           first == Opening(s, t, n, idx)
           last == Max(InHunk(s, t, n, first))
<1>1. Spans(s, t, n, first, last)
  BY SpansIs
<1>2. Hunk(s, t, n, idx) = HunkOf(s, t, c, n, first, last)
  BY HunkIs
<1>3. AreCommon(c, s, t)
  BY CommonAre
<1> HIDE DEF first, last
<1>4. Gaps(s, t) = {r \in 0..Len(c) : \/ UpTo(s, c, r + 1) > UpTo(s, c, r) + 1
                                      \/ UpTo(t, c, r + 1) > UpTo(t, c, r) + 1}
  BY DEF Gaps
<1>5. /\ first \in 0..Len(c) /\ last \in first..Len(c)
      /\ \A r \in Gaps(s, t) : r < first => first - r > n
      /\ \A r \in Gaps(s, t) : r > last => r - last > n
  BY <1>1 DEF Spans
<1> HIDE DEF c
<1>6. c \in Seq(AllLines) /\ Ascending(c) /\ \A r \in DOMAIN c : Has(s, c[r]) /\ Has(t, c[r])
  BY <1>3 DEF AreCommon
<1>7. Len(c) \in Nat /\ first \in Nat /\ last \in Nat /\ first <= last /\ last <= Len(c)
      /\ Length \in Nat
  BY <1>5, <1>6, HunkAssumption
<1>8. ASSUME NEW r \in 0..Len(c),
             (r < first /\ first - r <= n) \/ (r > last /\ r - last <= n)
      PROVE  /\ ~(UpTo(s, c, r + 1) > UpTo(s, c, r) + 1)
             /\ ~(UpTo(t, c, r + 1) > UpTo(t, c, r) + 1)
  <2>1. r \notin Gaps(s, t)
    <3>1. r \in Int /\ first - r \in Int /\ r - last \in Int
      BY <1>7
    <3> QED
      BY <1>5, <1>8, <3>1
  <2> QED
    BY <1>4, <2>1
<1>9. StartIsCut(s, c, n, first) /\ EndIsCut(s, c, n, last)
  BY <1>5, <1>6, <1>8, HunkEnds
<1>10. StartIsCut(t, c, n, first) /\ EndIsCut(t, c, n, last)
  BY <1>5, <1>6, <1>8, HunkEnds
<1> DEFINE k == Behind(c, first - Fewer(n, first))
           l == EndPlace(c, n, last)
<1>11. k \in 0..(2 * Length) /\ l \in k..(2 * Length)
  <2>1. first - Fewer(n, first) \in 0..last
    BY <1>7 DEF Fewer
  <2> DEFINE q == first - Fewer(n, first)
             after == Fewer(n, Len(c) - last)
  <2>2. q \in 0..Len(c) /\ q \in Int
    BY <1>7, <2>1
  <2>3. after \in 0..(Len(c) - last)
    BY <1>7 DEF Fewer
  <2>4. l = IF after = 0 THEN Before(c, last + 1) ELSE Behind(c, last + after)
    BY DEF EndPlace
  <2>5. k = Behind(c, q)
    OBVIOUS
  <2> HIDE DEF q, after, k, l
  <2>6. k \in 0..(2 * Length)
    BY <1>6, <2>2, <2>5, CutsInOrder
  <2>7. CASE after = 0
    <3>1. last + 1 \in 1..(Len(c) + 1) /\ last + 1 \in (q + 1)..(Len(c) + 1)
      BY <1>7, <2>1, <2>2 DEF q
    <3>2. Before(c, last + 1) \in 0..(2 * Length) /\ Behind(c, q) <= Before(c, last + 1)
      BY <1>6, <2>2, <3>1, CutsInOrder
    <3> QED
      BY <1>7, <2>4, <2>5, <2>6, <2>7, <3>2
  <2>8. CASE after # 0
    <3>1. last + after \in 0..Len(c) /\ last + after \in q..Len(c)
      BY <1>7, <2>1, <2>2, <2>3 DEF q
    <3>2. Behind(c, last + after) \in 0..(2 * Length) /\ Behind(c, q) <= Behind(c, last + after)
      BY <1>6, <2>2, <3>1, CutsInOrder
    <3> QED
      BY <1>7, <2>4, <2>5, <2>6, <2>8, <3>2
  <2> QED
    BY <2>7, <2>8, <2>6
<1>12. HunkCuts(s, t, Hunk(s, t, n, idx), k, l)
  BY <1>2, <1>9, <1>10 DEF HunkCuts, HunkOf, StartIsCut, EndIsCut
<1> HIDE DEF k, l
<1> QED
  BY <1>11, <1>12

-----------------------------------------------------------------------------
(* Edits by hunk: the text with some of the changes *)

\* What becomes of line i
Piece(of, lines, i) ==
    IF i \notin lines \/ of[i] = "same" THEN <<i>>
    ELSE CASE of[i] = "replace" -> <<NewLine(i)>>
           [] of[i] = "delete"  -> <<>>
           [] of[i] = "insert"  -> <<Ins(i), i>>

Comes(of, lines, i, e) ==
    \/ e = i /\ ~(i \in lines /\ of[i] \in {"replace", "delete"})
    \/ e = NewLine(i) /\ i \in lines /\ of[i] = "replace"
    \/ e = Ins(i) /\ i \in lines /\ of[i] = "insert"

\* A text in order, of the lines that come of the first m
IsText(s, of, lines, m) ==
    /\ s \in Seq(AllLines) /\ Ascending(s)
    /\ \A e : Has(s, e) <=> \E i \in 1..m : Comes(of, lines, i, e)

\* What becomes of a line stands in its place or just before it.
LEMMA PieceIs ==
    ASSUME NEW of \in [Lines -> Changes], NEW lines, NEW i \in Lines
    PROVE  /\ Piece(of, lines, i) \in Seq(AllLines) /\ Ascending(Piece(of, lines, i))
           /\ \A e : Has(Piece(of, lines, i), e) <=> Comes(of, lines, i, e)
           /\ \A e : Comes(of, lines, i, e) => 2 * (i - 1) < Place(e) /\ Place(e) <= 2 * i
<1>1. /\ i \in AllLines /\ NewLine(i) \in AllLines /\ Ins(i) \in AllLines
      /\ Place(i) = 2 * i /\ Place(NewLine(i)) = 2 * i /\ Place(Ins(i)) = 2 * i - 1
      /\ i \in Int
  BY PlacesAre, HunkAssumption DEF Lines
<1>2. of[i] \in Changes
  OBVIOUS
<1>3. \A e : Comes(of, lines, i, e) => 2 * (i - 1) < Place(e) /\ Place(e) <= 2 * i
  BY <1>1 DEF Comes
<1>4. ASSUME NEW x \in AllLines
      PROVE  <<x>> \in Seq(AllLines) /\ Ascending(<<x>>) /\ \A e : Has(<<x>>, e) <=> e = x
  <2>1. <<x>> \in Seq(AllLines) /\ DOMAIN <<x>> = {1} /\ \A e : Has(<<x>>, e) <=> e = x
    BY OneHas
  <2> QED
    BY <2>1 DEF Ascending
<1>5. CASE i \notin lines \/ of[i] = "same"
  <2>1. Piece(of, lines, i) = <<i>>
    BY <1>5 DEF Piece
  <2>2. \A e : Comes(of, lines, i, e) <=> e = i
    BY <1>5 DEF Comes
  <2>3. /\ <<i>> \in Seq(AllLines) /\ Ascending(<<i>>)
        /\ \A e : Has(<<i>>, e) <=> e = i
    BY <1>1, <1>4
  <2>4. /\ Piece(of, lines, i) \in Seq(AllLines) /\ Ascending(Piece(of, lines, i))
        /\ \A e : Has(Piece(of, lines, i), e) <=> e = i
    BY <2>1, <2>3
  <2> QED
    BY <1>3, <2>2, <2>4
<1>6. CASE i \in lines /\ of[i] = "replace"
  <2>1. Piece(of, lines, i) = <<NewLine(i)>>
    BY <1>6 DEF Piece
  <2>2. \A e : Comes(of, lines, i, e) <=> e = NewLine(i)
    BY <1>6 DEF Comes
  <2> DEFINE x == NewLine(i)
  <2>3. x \in AllLines /\ Piece(of, lines, i) = <<x>> /\ \A e : Comes(of, lines, i, e) <=> e = x
    BY <1>1, <2>1, <2>2
  <2> HIDE DEF x
  <2>4. <<x>> \in Seq(AllLines) /\ Ascending(<<x>>) /\ \A e : Has(<<x>>, e) <=> e = x
    BY <1>4, <2>3
  <2>5. /\ Piece(of, lines, i) \in Seq(AllLines) /\ Ascending(Piece(of, lines, i))
        /\ \A e : Has(Piece(of, lines, i), e) <=> e = x
    BY <2>3, <2>4
  <2> QED
    BY <1>3, <2>3, <2>5
<1>7. CASE i \in lines /\ of[i] = "delete"
  <2>1. Piece(of, lines, i) = <<>>
    BY <1>7 DEF Piece
  <2>2. \A e : ~Comes(of, lines, i, e)
    BY <1>7 DEF Comes
  <2>3. <<>> \in Seq(AllLines) /\ DOMAIN <<>> = {}
    OBVIOUS
  <2>4. Ascending(<<>>)
    BY <2>3 DEF Ascending
  <2> QED
    BY <1>3, <2>1, <2>2, <2>3, <2>4, NoneHas
<1>8. CASE i \in lines /\ of[i] = "insert"
  <2> DEFINE s == <<Ins(i), i>>
  <2>1. Piece(of, lines, i) = s
    BY <1>8 DEF Piece
  <2>2. \A e : Comes(of, lines, i, e) <=> e = Ins(i) \/ e = i
    BY <1>8 DEF Comes
  <2>3. s \in Seq(AllLines) /\ DOMAIN s = {1, 2} /\ s[1] = Ins(i) /\ s[2] = i
    BY <1>1
  <2> HIDE DEF s
  <2>4. Place(s[1]) < Place(s[2])
    BY <1>1, <2>3
  <2>5. Ascending(s)
    BY <2>3, <2>4 DEF Ascending
  <2>6. \A e : Has(s, e) <=> e = Ins(i) \/ e = i
    BY <2>3 DEF Has
  <2> QED
    BY <1>3, <2>1, <2>2, <2>3, <2>5, <2>6
<1> QED
  BY <1>2, <1>5, <1>6, <1>7, <1>8 DEF Changes

\* The text with some changes is in order, and has what comes of each line.
LEMMA WithIs ==
    ASSUME NEW of \in [Lines -> Changes], NEW lines
    PROVE  IsText(With(of, lines), of, lines, Length)
<1> DEFINE P(i) == Piece(of, lines, i)
           pieces(m) == [i \in 1..m |-> P(i)]
           Upto(m) == FlattenSeq(pieces(m))
           G == {m \in 0..Length : IsText(Upto(m), of, lines, m)}
<1>1. Length \in Nat /\ Lines = 1..Length
  BY HunkAssumption DEF Lines
<1>2. ASSUME NEW m \in 0..Length
      PROVE  pieces(m) \in Seq(Seq(AllLines)) /\ Len(pieces(m)) = m
  <2>1. \A i \in 1..m : P(i) \in Seq(AllLines)
    <3>1. \A i \in 1..m : i \in Lines
      BY <1>1
    <3> QED
      BY <3>1, PieceIs
  <2> HIDE DEF P
  <2> QED
    BY <1>1, <2>1
<1>3. 0 \in G
  <2>1. pieces(0) = <<>>
    <3>1. pieces(0) \in Seq(Seq(AllLines)) /\ Len(pieces(0)) = 0
      BY <1>1, <1>2
    <3> HIDE DEF pieces
    <3> QED
      BY <3>1
  <2>2. Upto(0) = <<>>
    BY <2>1, FlattenNone
  <2>3. <<>> \in Seq(AllLines) /\ DOMAIN <<>> = {}
    OBVIOUS
  <2>4. IsText(<<>>, of, lines, 0)
    BY <2>3, NoneHas DEF IsText, Ascending
  <2> HIDE DEF Upto
  <2> QED
    BY <1>1, <2>2, <2>4
<1>4. ASSUME NEW m \in 1..Length, m - 1 \in G
      PROVE  m \in G
  <2> DEFINE s == Upto(m - 1)
             t == P(m)
  <2>1. m \in Lines /\ m - 1 \in 0..Length /\ m \in 0..Length /\ m \in Int
    BY <1>1
  <2>2. /\ t \in Seq(AllLines) /\ Ascending(t)
        /\ \A e : Has(t, e) <=> Comes(of, lines, m, e)
    BY <2>1, PieceIs
  <2>3. IsText(s, of, lines, m - 1)
    BY <1>4
  <2>4. pieces(m) = Append(pieces(m - 1), t)
    <3> DEFINE all == pieces(m)
               some == pieces(m - 1)
    <3>1. /\ all \in Seq(Seq(AllLines)) /\ Len(all) = m /\ \A i \in 1..m : all[i] = P(i)
          /\ some \in Seq(Seq(AllLines)) /\ Len(some) = m - 1
          /\ \A i \in 1..(m - 1) : some[i] = P(i)
      BY <1>2, <2>1
    <3> HIDE DEF all, some, t, P
    <3>2. /\ Append(some, t) \in Seq(Seq(AllLines)) /\ Len(Append(some, t)) = m
          /\ Append(some, t)[m] = t /\ \A i \in 1..(m - 1) : Append(some, t)[i] = some[i]
      BY <2>1, <2>2, <3>1, AppendProperties
    <3>3. \A i \in 1..m : all[i] = Append(some, t)[i]
      <4>1. \A i \in 1..m : i = m \/ i \in 1..(m - 1)
        BY <2>1
      <4> QED
        BY <3>1, <3>2, <4>1 DEF t
    <3>4. all = Append(some, t)
      BY <3>1, <3>2, <3>3, SeqEqual
    <3> QED
      BY <3>4 DEF all, some
  <2>5. Upto(m) = s \o t
    <3>1. pieces(m - 1) \in Seq(Seq(AllLines))
      BY <1>2, <2>1
    <3> HIDE DEF pieces, t
    <3> QED
      BY <2>2, <2>4, <3>1, FlattenAppend
  <2> HIDE DEF s, t, Upto
  <2>6. /\ \A i \in DOMAIN s : Place(s[i]) <= 2 * (m - 1)
        /\ \A i \in DOMAIN t : 2 * (m - 1) < Place(t[i])
    <3>1. ASSUME NEW i \in DOMAIN s
          PROVE  Place(s[i]) <= 2 * (m - 1)
      <4>1. Has(s, s[i])
        BY DEF Has
      <4>2. PICK j \in 1..(m - 1) : Comes(of, lines, j, s[i])
        BY <2>3, <4>1 DEF IsText
      <4>3. j \in Lines /\ j \in Int /\ j <= m - 1
        BY <1>1, <2>1
      <4>4. Place(s[i]) <= 2 * j
        BY <4>2, <4>3, PieceIs
      <4>5. Place(s[i]) \in Int
        <5>1. s[i] \in AllLines
          BY <2>3 DEF IsText
        <5> QED
          BY <5>1, PlacesAre
      <4> QED
        BY <2>1, <4>3, <4>4, <4>5
    <3>2. ASSUME NEW i \in DOMAIN t
          PROVE  2 * (m - 1) < Place(t[i])
      <4>1. Has(t, t[i])
        BY DEF Has
      <4>2. Comes(of, lines, m, t[i])
        BY <2>2, <4>1
      <4> QED
        BY <2>1, <4>2, PieceIs
    <3> QED
      BY <3>1, <3>2
  <2>7. s \in Seq(AllLines) /\ Ascending(s)
    BY <2>3 DEF IsText
  <2>8. Ascending(s \o t)
    <3>1. 2 * (m - 1) \in Int
      BY <2>1
    <3> QED
      BY <2>2, <2>6, <2>7, <3>1, OrderOfConcat
  <2>9. s \o t \in Seq(AllLines) /\ \A e : Has(s \o t, e) <=> Has(s, e) \/ Has(t, e)
    BY <2>2, <2>7, ConcatHas
  <2>10. \A i : i \in 1..m <=> i \in 1..(m - 1) \/ i = m
    BY <2>1
  <2>11. IsText(s \o t, of, lines, m)
    BY <2>2, <2>3, <2>8, <2>9, <2>10 DEF IsText
  <2> QED
    BY <2>1, <2>5, <2>11
<1>5. Length \in G
  <2> HIDE DEF G
  <2>1. \A m \in 0..Length : m \in G
    BY <1>1, <1>3, <1>4, AllUpTo
  <2> QED
    BY <1>1, <2>1
<1>6. With(of, lines) = Upto(Length)
  <2>1. pieces(Length) = [i \in Lines |-> P(i)]
    BY <1>1
  <2> HIDE DEF P
  <2>2. With(of, lines) = FlattenSeq([i \in Lines |-> P(i)])
    BY DEF With, P, Piece
  <2> QED
    BY <2>1, <2>2
<1> QED
  BY <1>5, <1>6

\* Which of the lines a text has
LEMMA WithHas ==
    ASSUME NEW of \in [Lines -> Changes], NEW lines
    PROVE  /\ With(of, lines) \in Seq(AllLines) /\ Ascending(With(of, lines))
           /\ \A e : Has(With(of, lines), e) => \E i \in Lines : e \in {i, NewLine(i), Ins(i)}
           /\ \A i \in Lines :
                 /\ Has(With(of, lines), i) <=> ~(i \in lines /\ of[i] \in {"replace", "delete"})
                 /\ Has(With(of, lines), NewLine(i)) <=> i \in lines /\ of[i] = "replace"
                 /\ Has(With(of, lines), Ins(i)) <=> i \in lines /\ of[i] = "insert"
<1> DEFINE s == With(of, lines)
<1>1. /\ s \in Seq(AllLines) /\ Ascending(s)
      /\ \A e : Has(s, e) <=> \E i \in Lines : Comes(of, lines, i, e)
  BY WithIs DEF IsText, Lines
<1> HIDE DEF s
<1>2. ASSUME NEW i \in Lines, NEW j \in Lines
      PROVE  /\ i # NewLine(j) /\ i # Ins(j) /\ NewLine(i) # Ins(j)
             /\ NewLine(i) = NewLine(j) => i = j
             /\ Ins(i) = Ins(j) => i = j
  <2>1. i \in Int /\ j \in Int /\ 1 <= i /\ i <= Length /\ 1 <= j /\ j <= Length /\ Length \in Nat
    BY HunkAssumption DEF Lines
  <2> QED
    BY <2>1 DEF NewLine, Ins
<1>3. \A e : Has(s, e) => \E i \in Lines : e \in {i, NewLine(i), Ins(i)}
  BY <1>1 DEF Comes
<1>4. ASSUME NEW i \in Lines
      PROVE  /\ Has(s, i) <=> ~(i \in lines /\ of[i] \in {"replace", "delete"})
             /\ Has(s, NewLine(i)) <=> i \in lines /\ of[i] = "replace"
             /\ Has(s, Ins(i)) <=> i \in lines /\ of[i] = "insert"
  <2>1. Has(s, i) <=> Comes(of, lines, i, i)
    BY <1>1, <1>2 DEF Comes
  <2>2. Has(s, NewLine(i)) <=> Comes(of, lines, i, NewLine(i))
    BY <1>1, <1>2 DEF Comes
  <2>3. Has(s, Ins(i)) <=> Comes(of, lines, i, Ins(i))
    BY <1>1, <1>2 DEF Comes
  <2> QED
    BY <1>2, <2>1, <2>2, <2>3 DEF Comes
<1> QED
  BY <1>1, <1>3, <1>4 DEF s

-----------------------------------------------------------------------------
(* Edits by hunk: what a decision makes of the texts *)

Inside(k, l, e) == k < Place(e) /\ Place(e) <= l

\* The change of line i stands between two places.
Touched(of, k, l, i) ==
    \/ of[i] \in {"replace", "delete"} /\ Inside(k, l, i)
    \/ of[i] = "insert" /\ Inside(k, l, Ins(i))

\* The text with some changes, and the text with more
Between(of, k, l, some, more) == {i \in more \ some : Touched(of, k, l, i)}

\* The shown lines that differ are those whose change is between the places of the hunk.
LEMMA LinesInAre ==
    ASSUME NEW of \in [Lines -> Changes], NEW some, NEW more \in SUBSET Lines, some \subseteq more,
           NEW n, NEW idx, NEW k \in 0..(2 * Length), NEW l \in k..(2 * Length),
           HunkCuts(With(of, some), With(of, more),
                    Hunk(With(of, some), With(of, more), n, idx), k, l)
    PROVE  LinesIn(With(of, some), With(of, more), n, idx) = Between(of, k, l, some, more)
<1> DEFINE s == With(of, some)
           t == With(of, more)
           h == Hunk(s, t, n, idx)
           left == SubSeq(s, h.old_start + 1, h.old_end)
           right == SubSeq(t, h.new_start + 1, h.new_end)
<1>1. /\ s \in Seq(AllLines) /\ Ascending(s) /\ t \in Seq(AllLines) /\ Ascending(t)
      /\ \A i \in Lines :
            /\ Has(s, i) <=> ~(i \in some /\ of[i] \in {"replace", "delete"})
            /\ Has(s, NewLine(i)) <=> i \in some /\ of[i] = "replace"
            /\ Has(s, Ins(i)) <=> i \in some /\ of[i] = "insert"
            /\ Has(t, i) <=> ~(i \in more /\ of[i] \in {"replace", "delete"})
            /\ Has(t, NewLine(i)) <=> i \in more /\ of[i] = "replace"
            /\ Has(t, Ins(i)) <=> i \in more /\ of[i] = "insert"
  BY WithHas
<1>2. HunkCuts(s, t, h, k, l)
  OBVIOUS
<1>3. LinesIn(s, t, n, idx)
        = {i \in Lines : \/ i \in ToSet(left) \ ToSet(right)
                         \/ {NewLine(i), Ins(i)} \cap (ToSet(right) \ ToSet(left)) # {}}
  BY DEF LinesIn
<1> HIDE DEF s, t, h
<1>4. IsPart(left, s, k, l) /\ IsPart(right, t, k, l)
  <2>1. k \in Int /\ l \in Int /\ k <= l
    BY HunkAssumption
  <2> QED
    BY <1>1, <1>2, <2>1, PartIs DEF HunkCuts
<1> HIDE DEF left, right
<1>5. \A e : /\ e \in ToSet(left) <=> Has(s, e) /\ Inside(k, l, e)
             /\ e \in ToSet(right) <=> Has(t, e) /\ Inside(k, l, e)
  <2>1. \A e : /\ e \in ToSet(left) <=> Has(left, e)
               /\ e \in ToSet(right) <=> Has(right, e)
    BY DEF ToSet, Has
  <2> QED
    BY <1>4, <2>1 DEF IsPart, Inside
<1>6. ASSUME NEW i \in Lines
      PROVE  /\ Inside(k, l, NewLine(i)) <=> Inside(k, l, i)
             /\ of[i] \in {"same", "replace", "delete", "insert"}
  BY PlacesAre DEF Inside, Changes
<1>7. ASSUME NEW i \in Lines
      PROVE  i \in LinesIn(s, t, n, idx) <=> i \in Between(of, k, l, some, more)
  <2>1. i \in LinesIn(s, t, n, idx)
          <=> \/ i \in ToSet(left) /\ i \notin ToSet(right)
              \/ NewLine(i) \in ToSet(right) /\ NewLine(i) \notin ToSet(left)
              \/ Ins(i) \in ToSet(right) /\ Ins(i) \notin ToSet(left)
    BY <1>3
  <2>2. i \in Between(of, k, l, some, more)
          <=> i \in more /\ i \notin some /\ Touched(of, k, l, i)
    BY DEF Between
  <2>3. i \in LinesIn(s, t, n, idx)
          <=> \/ Inside(k, l, i) /\ Has(s, i) /\ ~Has(t, i)
              \/ Inside(k, l, i) /\ Has(t, NewLine(i)) /\ ~Has(s, NewLine(i))
              \/ Inside(k, l, Ins(i)) /\ Has(t, Ins(i)) /\ ~Has(s, Ins(i))
    BY <1>5, <1>6, <2>1
  <2>4. i \in some => i \in more
    OBVIOUS
  <2> QED
    BY <1>1, <1>6, <2>2, <2>3, <2>4 DEF Touched
<1>8. LinesIn(s, t, n, idx) \subseteq Lines /\ Between(of, k, l, some, more) \subseteq Lines
  BY <1>3 DEF Between
<1>9. LinesIn(s, t, n, idx) = Between(of, k, l, some, more)
  BY <1>7, <1>8
<1> QED
  BY <1>9 DEF s, t

\* What is spliced of two texts is the text with the changes that were between the places
\* of the one, and those that were elsewhere of the other.
LEMMA SplicedWith ==
    ASSUME NEW of \in [Lines -> Changes], NEW some, NEW others, NEW k, NEW l, NEW u,
           IsSpliced(u, With(of, some), With(of, others), k, l),
           NEW result, \A i \in Lines : of[i] # "same" =>
              (i \in result <=> IF Touched(of, k, l, i) THEN i \in others ELSE i \in some)
    PROVE  u = With(of, result)
<1> DEFINE s == With(of, some)
           t == With(of, others)
           v == With(of, result)
<1>1. /\ u \in Seq(AllLines) /\ Ascending(u)
      /\ \A e : Has(u, e) <=> IF Inside(k, l, e) THEN Has(t, e) ELSE Has(s, e)
  BY DEF IsSpliced, Inside
<1>2. /\ v \in Seq(AllLines) /\ Ascending(v)
      /\ \A e : Has(s, e) => \E i \in Lines : e \in {i, NewLine(i), Ins(i)}
      /\ \A e : Has(t, e) => \E i \in Lines : e \in {i, NewLine(i), Ins(i)}
      /\ \A e : Has(v, e) => \E i \in Lines : e \in {i, NewLine(i), Ins(i)}
  BY WithHas
<1>3. \A i \in Lines :
         /\ Has(s, i) <=> ~(i \in some /\ of[i] \in {"replace", "delete"})
         /\ Has(s, NewLine(i)) <=> i \in some /\ of[i] = "replace"
         /\ Has(s, Ins(i)) <=> i \in some /\ of[i] = "insert"
         /\ Has(t, i) <=> ~(i \in others /\ of[i] \in {"replace", "delete"})
         /\ Has(t, NewLine(i)) <=> i \in others /\ of[i] = "replace"
         /\ Has(t, Ins(i)) <=> i \in others /\ of[i] = "insert"
         /\ Has(v, i) <=> ~(i \in result /\ of[i] \in {"replace", "delete"})
         /\ Has(v, NewLine(i)) <=> i \in result /\ of[i] = "replace"
         /\ Has(v, Ins(i)) <=> i \in result /\ of[i] = "insert"
  BY WithHas
<1> HIDE DEF s, t, v
<1>4. ASSUME NEW i \in Lines
      PROVE  /\ Has(u, i) <=> Has(v, i)
             /\ Has(u, NewLine(i)) <=> Has(v, NewLine(i))
             /\ Has(u, Ins(i)) <=> Has(v, Ins(i))
  <2>1. of[i] \in {"same", "replace", "delete", "insert"}
        /\ (Inside(k, l, NewLine(i)) <=> Inside(k, l, i))
    BY PlacesAre DEF Inside, Changes
  <2>2. of[i] # "same" =>
           (i \in result <=> IF Touched(of, k, l, i) THEN i \in others ELSE i \in some)
    OBVIOUS
  <2>3. of[i] \in {"replace", "delete"} => (Touched(of, k, l, i) <=> Inside(k, l, i))
    BY DEF Touched
  <2>4. of[i] = "insert" => (Touched(of, k, l, i) <=> Inside(k, l, Ins(i)))
    BY DEF Touched
  <2>5. /\ Has(u, i) <=> IF Inside(k, l, i) THEN Has(t, i) ELSE Has(s, i)
        /\ Has(u, NewLine(i)) <=> IF Inside(k, l, i) THEN Has(t, NewLine(i)) ELSE Has(s, NewLine(i))
        /\ Has(u, Ins(i)) <=> IF Inside(k, l, Ins(i)) THEN Has(t, Ins(i)) ELSE Has(s, Ins(i))
    BY <1>1, <2>1
  <2>6. CASE of[i] = "same"
    BY <1>3, <2>5, <2>6
  <2>7. CASE of[i] \in {"replace", "delete"}
    BY <1>3, <2>2, <2>3, <2>5, <2>7
  <2>8. CASE of[i] = "insert"
    BY <1>3, <2>2, <2>4, <2>5, <2>8
  <2> QED
    BY <2>1, <2>6, <2>7, <2>8
<1>5. ASSUME NEW e
      PROVE  Has(u, e) <=> Has(v, e)
  <2>1. CASE \E i \in Lines : e \in {i, NewLine(i), Ins(i)}
    BY <1>4, <2>1
  <2>2. CASE ~\E i \in Lines : e \in {i, NewLine(i), Ins(i)}
    BY <1>1, <1>2, <2>2
  <2> QED
    BY <2>1, <2>2
<1>6. u = v
  BY <1>1, <1>2, <1>5, SameLines
<1> QED
  BY <1>6 DEF v

\* Applying a hunk makes its changes, rejecting it takes them back, and the lines that the
\* user sees differ are these changes.
LEMMA DecisionIs ==
    ASSUME NEW of \in [Lines -> Changes], NEW some, NEW more \in SUBSET Lines, some \subseteq more,
           NEW n \in Nat, NEW idx \in Nat, idx < hunk_total(With(of, some), With(of, more), n),
           NEW shown, shown = LinesIn(With(of, some), With(of, more), n, idx)
    PROVE  /\ apply_hunk(With(of, some), With(of, more), n, idx) = With(of, some \cup shown)
           /\ reject_hunk(With(of, some), With(of, more), n, idx) = With(of, more \ shown)
           /\ shown \subseteq more \ some /\ \A i \in shown : of[i] # "same"
<1> DEFINE s == With(of, some)
           t == With(of, more)
           h == Hunk(s, t, n, idx)
<1>1. s \in Seq(AllLines) /\ Ascending(s) /\ t \in Seq(AllLines) /\ Ascending(t)
  BY WithHas
<1>2. idx < hunk_total(s, t, n)
  OBVIOUS
<1> HIDE DEF s, t
<1>3. PICK k \in 0..(2 * Length) : \E l \in k..(2 * Length) : HunkCuts(s, t, h, k, l)
  BY <1>1, <1>2, HunkIsCut
<1>4. PICK l \in k..(2 * Length) : HunkCuts(s, t, h, k, l)
  BY <1>3
<1>5. shown = Between(of, k, l, some, more)
  BY <1>4, LinesInAre DEF s, t
<1>6. apply_hunk(s, t, n, idx) = SubSeq(s, 1, h.old_start) \o SubSeq(t, h.new_start + 1, h.new_end)
                                    \o SubSeq(s, h.old_end + 1, Len(s))
  BY DEF apply_hunk
<1>7. reject_hunk(s, t, n, idx) = SubSeq(t, 1, h.new_start) \o SubSeq(s, h.old_start + 1, h.old_end)
                                    \o SubSeq(t, h.new_end + 1, Len(t))
  BY DEF reject_hunk
<1> HIDE DEF h
<1>8. IsSpliced(apply_hunk(s, t, n, idx), s, t, k, l)
  BY <1>1, <1>4, <1>6, SplicedIs DEF HunkCuts
<1>9. IsSpliced(reject_hunk(s, t, n, idx), t, s, k, l)
  BY <1>1, <1>4, <1>7, SplicedIs DEF HunkCuts
<1>10. shown \subseteq more \ some /\ \A i \in shown : of[i] # "same"
  BY <1>5 DEF Between, Touched
<1>11. apply_hunk(s, t, n, idx) = With(of, some \cup shown)
  <2>1. \A i \in Lines : of[i] # "same" =>
           (i \in some \cup shown <=> IF Touched(of, k, l, i) THEN i \in more ELSE i \in some)
    BY <1>5 DEF Between
  <2> QED
    BY <1>8, <2>1, SplicedWith DEF s, t
<1>12. reject_hunk(s, t, n, idx) = With(of, more \ shown)
  <2>1. \A i \in Lines : of[i] # "same" =>
           (i \in more \ shown <=> IF Touched(of, k, l, i) THEN i \in some ELSE i \in more)
    BY <1>5 DEF Between
  <2> QED
    BY <1>9, <2>1, SplicedWith DEF s, t
<1> QED
  BY <1>10, <1>11, <1>12 DEF s, t

-----------------------------------------------------------------------------
(* Edits by hunk: what the texts tell of the changes *)

\* Texts with different changes differ.
LEMMA SameChanges ==
    ASSUME NEW of \in [Lines -> Changes], NEW some, NEW others,
           With(of, some) = With(of, others)
    PROVE  \A i \in Lines : of[i] # "same" => (i \in some <=> i \in others)
<1> SUFFICES ASSUME NEW i \in Lines, of[i] # "same"
             PROVE  i \in some <=> i \in others
  OBVIOUS
<1>1. of[i] \in {"replace", "delete", "insert"}
  BY DEF Changes
<1>2. /\ Has(With(of, some), i) <=> ~(i \in some /\ of[i] \in {"replace", "delete"})
      /\ Has(With(of, some), Ins(i)) <=> i \in some /\ of[i] = "insert"
      /\ Has(With(of, some), i) <=> ~(i \in others /\ of[i] \in {"replace", "delete"})
      /\ Has(With(of, some), Ins(i)) <=> i \in others /\ of[i] = "insert"
  BY WithHas
<1> QED
  BY <1>1, <1>2

\* Equal texts have no hunks.
LEMMA NoHunks ==
    ASSUME NEW s \in Seq(AllLines), Ascending(s), NEW n
    PROVE  hunk_total(s, s, n) = 0
<1>1. Common(s, s) = s
  <2>1. Common(s, s) = Excluding(s, {})
    BY DEF Common
  <2>2. \A e : Has(s, e) => e \notin {}
    OBVIOUS
  <2> QED
    BY <2>1, <2>2, ExcludingAbsent
<1>2. Len(s) \in Nat /\ DOMAIN s = 1..Len(s) /\ \A i \in DOMAIN s : Place(s[i]) \in Int
  <2>1. \A i \in DOMAIN s : s[i] \in AllLines
    OBVIOUS
  <2> QED
    BY <2>1, PlacesAre
<1>3. ASSUME NEW r \in 0..(Len(s) + 1)
      PROVE  UpTo(s, s, r) = r
  <2>1. CASE r = 0 \/ r = Len(s) + 1
    <3>1. Len(s) + 1 > Len(s) /\ Len(s) + 1 # 0
      BY <1>2
    <3> QED
      BY <2>1, <3>1 DEF UpTo
  <2>2. CASE r \in 1..Len(s)
    <3>1. r # 0 /\ ~(r > Len(s)) /\ r \in DOMAIN s
      BY <1>2, <2>2
    <3>2. ASSUME NEW k \in DOMAIN s, s[k] = s[r]
          PROVE  k = r
      <4>1. ~(Place(s[k]) < Place(s[r])) /\ ~(Place(s[r]) < Place(s[k]))
        BY <1>2, <3>1, <3>2
      <4>2. ~(k < r) /\ ~(r < k)
        BY <3>1, <4>1 DEF Ascending
      <4> QED
        BY <1>2, <3>1, <4>2
    <3>3. (CHOOSE k \in DOMAIN s : s[k] = s[r]) = r
      BY <3>1, <3>2
    <3> QED
      BY <3>1, <3>3 DEF UpTo
  <2> QED
    BY <1>2, <2>1, <2>2
<1>4. Gaps(s, s) = {}
  <2>1. ASSUME NEW r \in 0..Len(s)
        PROVE  ~(UpTo(s, s, r + 1) > UpTo(s, s, r) + 1)
    <3>1. r \in 0..(Len(s) + 1) /\ r + 1 \in 0..(Len(s) + 1) /\ ~(r + 1 > r + 1)
      BY <1>2
    <3> QED
      BY <1>3, <3>1
  <2> QED
    BY <1>1, <2>1 DEF Gaps
<1>5. Firsts(s, s, n) = {}
  BY <1>4 DEF Firsts
<1> QED
  BY <1>5, FS_EmptySet DEF hunk_total

\* There are finitely many hunks.
LEMMA TotalIsNat ==
    ASSUME NEW s \in Seq(AllLines), Ascending(s), NEW t \in Seq(AllLines), NEW n
    PROVE  hunk_total(s, t, n) \in Nat
<1>1. Common(s, t) \in Seq(AllLines)
  BY CommonAre DEF AreCommon
<1>2. IsFiniteSet(0..Len(Common(s, t)))
  <2>1. Len(Common(s, t)) \in Int
    BY <1>1
  <2> QED
    BY <2>1, FS_Interval
<1>3. Firsts(s, t, n) \subseteq 0..Len(Common(s, t))
  BY DEF Firsts, Gaps
<1> QED
  BY <1>2, <1>3, FS_Subset, FS_CardinalityType DEF hunk_total

-----------------------------------------------------------------------------
(* Edits by hunk: the invariant *)

\* There is a hunk to show, and it is one of the text's; after the last there is none.
Shows(s, t, n, idx) == hunk_total(s, t, n) > 0 => idx < hunk_total(s, t, n)

\* The clamped index is that of a hunk, if there is one.
LEMMA ClampedShows ==
    ASSUME NEW s \in Seq(AllLines), Ascending(s), NEW t \in Seq(AllLines), NEW n, NEW idx \in Nat
    PROVE  Clamped(idx, s, t, n) \in Nat /\ Shows(s, t, n, Clamped(idx, s, t, n))
<1>1. hunk_total(s, t, n) \in Nat
  BY TotalIsNat
<1> QED
  BY <1>1 DEF Clamped, Shows

Holders == {"widget", "applying", "rejecting", "nobody"}

HunkTypeOK ==
    /\ change \in [Lines -> Changes] /\ radius \in Nat /\ hunk_idx \in Nat /\ holder \in Holders
    /\ accepted \in SUBSET Wanted /\ rejected \in SUBSET Wanted

\* The two texts, of changes that were accepted and rejected
TextsAre(taken, refused) ==
    text = With(change, taken) /\ new_text = With(change, Lines \ refused)

\* The hunk under decision is there, and it is told by the texts before.
InDecision ==
    /\ hunk_idx < hunk_total(text, new_text, radius)
    /\ holder = "applying" =>
          \E before \in SUBSET accepted :
             TextsAre(before, rejected) /\ accepted = before \cup LinesInHunk
    /\ holder = "rejecting" =>
          \E before \in SUBSET rejected :
             TextsAre(accepted, before) /\ rejected = before \cup LinesInHunk

HunkInv ==
    /\ HunkTypeOK
    /\ accepted \cap rejected = {}
    /\ holder # "nobody" => file = text
    /\ holder = "widget" =>
          TextsAre(accepted, rejected) /\ Shows(text, new_text, radius, hunk_idx)
    /\ holder \in {"applying", "rejecting"} => InDecision
    /\ holder = "nobody" /\ answer # "failed" =>
          /\ file = With(change, accepted) /\ accepted \cup rejected = Wanted
          /\ answer = "rejects all" <=> accepted = {}

LEMMA HunkBegins == HunkInit => HunkInv
<1> SUFFICES ASSUME HunkInit
             PROVE  HunkInv
  OBVIOUS
<1>1. /\ change \in [Lines -> Changes] /\ radius = DefaultRadius /\ hunk_idx = 0
      /\ holder = "widget" /\ accepted = {} /\ rejected = {} /\ file = text
      /\ text = With(change, {}) /\ new_text = With(change, Lines)
  BY DEF HunkInit
<1>2. HunkTypeOK
  BY <1>1, HunkAssumption DEF HunkTypeOK, Holders
<1>3. TextsAre(accepted, rejected)
  <2>1. Lines \ {} = Lines
    OBVIOUS
  <2> QED
    BY <1>1, <2>1 DEF TextsAre
<1>4. Shows(text, new_text, radius, hunk_idx)
  <2>1. hunk_total(text, new_text, radius) \in Nat
    BY <1>1, WithHas, TotalIsNat
  <2> QED
    BY <1>1, <2>1 DEF Shows
<1> QED
  BY <1>1, <1>2, <1>3, <1>4 DEF HunkInv

LEMMA WalkKeeps ==
    ASSUME HunkInv, shift_hunk \/ adjust_context
    PROVE  HunkInv'
<1>1. /\ holder = "widget" /\ UNCHANGED <<change, file, text, new_text, holder, answer>>
      /\ UNCHANGED <<accepted, rejected>>
  BY DEF shift_hunk, adjust_context
<1>2. /\ HunkTypeOK /\ TextsAre(accepted, rejected) /\ Shows(text, new_text, radius, hunk_idx)
      /\ accepted \cap rejected = {} /\ file = text
  BY <1>1 DEF HunkInv
<1>3. hunk_idx' \in Nat /\ radius' \in Nat /\ Shows(text, new_text, radius', hunk_idx')
  <2>1. CASE shift_hunk
    <3>1. hunk_idx' < hunk_total(text, new_text, radius) /\ radius' = radius
      BY <2>1 DEF shift_hunk
    <3>2. hunk_idx' \in Nat
      <4>1. hunk_idx \in Nat
        BY <1>2 DEF HunkTypeOK
      <4> QED
        BY <2>1, <4>1 DEF shift_hunk
    <3> QED
      BY <1>2, <3>1, <3>2 DEF Shows, HunkTypeOK
  <2>2. CASE adjust_context
    <3>1. radius' \in Nat /\ hunk_idx' = Clamped(hunk_idx, text, new_text, radius')
      BY <2>2, HunkAssumption DEF adjust_context
    <3>2. text \in Seq(AllLines) /\ Ascending(text) /\ new_text \in Seq(AllLines)
      BY <1>2, WithHas DEF TextsAre, HunkTypeOK
    <3>3. hunk_idx \in Nat
      BY <1>2 DEF HunkTypeOK
    <3> QED
      BY <3>1, <3>2, <3>3, ClampedShows
  <2> QED
    BY <2>1, <2>2
<1>4. HunkTypeOK'
  BY <1>1, <1>2, <1>3 DEF HunkTypeOK, Wanted
<1>5. TextsAre(accepted, rejected)'
  BY <1>1, <1>2 DEF TextsAre
<1>6. Shows(text, new_text, radius, hunk_idx)'
  BY <1>1, <1>3 DEF Shows
<1> QED
  BY <1>1, <1>2, <1>4, <1>5, <1>6 DEF HunkInv

-----------------------------------------------------------------------------
(* Edits by hunk: the steps *)

\* The texts of a decision: what it shows was not decided, and what it makes of the texts.
Decision(a, b, taken, refused, n, idx, shown) ==
    /\ shown = LinesIn(a, b, n, idx)
    /\ shown \subseteq Wanted /\ shown \cap taken = {} /\ shown \cap refused = {}
    /\ apply_hunk(a, b, n, idx) = With(change, taken \cup shown)
    /\ reject_hunk(a, b, n, idx) = With(change, Lines \ (refused \cup shown))

\* What a decision of the widget shows and makes, from the lines decided before.
LEMMA DecisionOf ==
    ASSUME HunkTypeOK, NEW taken \in SUBSET Wanted, NEW refused \in SUBSET Wanted,
           taken \cap refused = {}, TextsAre(taken, refused),
           hunk_idx < hunk_total(text, new_text, radius)
    PROVE  Decision(text, new_text, taken, refused, radius, hunk_idx, LinesInHunk)
<1> DEFINE shown == LinesInHunk
           more == Lines \ refused
<1>1. /\ change \in [Lines -> Changes] /\ radius \in Nat /\ hunk_idx \in Nat
      /\ text = With(change, taken) /\ new_text = With(change, more)
  BY DEF HunkTypeOK, TextsAre
<1>2. taken \in SUBSET Lines /\ more \in SUBSET Lines /\ taken \subseteq more
  BY DEF Wanted
<1>3. shown = LinesIn(With(change, taken), With(change, more), radius, hunk_idx)
  BY <1>1 DEF LinesInHunk
<1>4. hunk_idx < hunk_total(With(change, taken), With(change, more), radius)
  BY <1>1
<1> HIDE DEF shown, more
<1>5. /\ apply_hunk(With(change, taken), With(change, more), radius, hunk_idx)
            = With(change, taken \cup shown)
      /\ reject_hunk(With(change, taken), With(change, more), radius, hunk_idx)
            = With(change, more \ shown)
      /\ shown \subseteq more \ taken /\ \A i \in shown : change[i] # "same"
  BY <1>1, <1>2, <1>3, <1>4, DecisionIs
<1>6. more \ shown = Lines \ (refused \cup shown)
  BY DEF more
<1>7. shown \subseteq Wanted /\ shown \cap taken = {} /\ shown \cap refused = {}
  BY <1>5 DEF more, Wanted
<1>8. Decision(text, new_text, taken, refused, radius, hunk_idx, shown)
  BY <1>1, <1>3, <1>5, <1>6, <1>7 DEF Decision
<1> QED
  BY <1>8 DEF shown

LEMMA DecidesKeeps ==
    ASSUME HunkInv, KeyApply \/ KeyRejectHunk
    PROVE  HunkInv'
<1> DEFINE shown == LinesInHunk
<1>1. /\ holder = "widget" /\ hunk_total(text, new_text, radius) > 0
      /\ UNCHANGED <<change, file, text, new_text, radius, hunk_idx, answer>>
      /\ \/ holder' = "applying" /\ accepted' = accepted \cup shown /\ rejected' = rejected
         \/ holder' = "rejecting" /\ rejected' = rejected \cup shown /\ accepted' = accepted
  BY DEF KeyApply, KeyRejectHunk, Decides
<1>2. /\ HunkTypeOK /\ accepted \cap rejected = {} /\ file = text
      /\ TextsAre(accepted, rejected) /\ Shows(text, new_text, radius, hunk_idx)
  BY <1>1 DEF HunkInv
<1>3. hunk_idx < hunk_total(text, new_text, radius)
  BY <1>1, <1>2 DEF Shows
<1>4. accepted \in SUBSET Wanted /\ rejected \in SUBSET Wanted
  BY <1>2 DEF HunkTypeOK
<1>5. shown \subseteq Wanted /\ shown \cap accepted = {} /\ shown \cap rejected = {}
  BY <1>2, <1>3, <1>4, DecisionOf DEF Decision
<1>6. LinesInHunk' = shown /\ Wanted' = Wanted
  BY <1>1 DEF LinesInHunk, Wanted
<1>7. (hunk_idx < hunk_total(text, new_text, radius))'
  BY <1>1, <1>3
<1> HIDE DEF shown
<1>8. HunkTypeOK'
  <2>1. accepted' \in SUBSET Wanted /\ rejected' \in SUBSET Wanted
    BY <1>1, <1>4, <1>5
  <2> QED
    BY <1>1, <1>2, <1>6, <2>1 DEF HunkTypeOK, Holders
<1>9. (accepted \cap rejected = {})'
  BY <1>1, <1>2, <1>5
<1>10. CASE holder' = "applying" /\ accepted' = accepted \cup shown /\ rejected' = rejected
  <2>1. /\ accepted \in SUBSET accepted' /\ accepted' = accepted \cup LinesInHunk'
        /\ text' = With(change', accepted) /\ new_text' = With(change', Lines \ rejected')
    BY <1>1, <1>2, <1>6, <1>10 DEF TextsAre
  <2>2. InDecision'
    BY <1>7, <1>10, <2>1 DEF InDecision, TextsAre
  <2> QED
    BY <1>1, <1>2, <1>8, <1>9, <1>10, <2>2 DEF HunkInv
<1>11. CASE holder' = "rejecting" /\ rejected' = rejected \cup shown /\ accepted' = accepted
  <2>1. /\ rejected \in SUBSET rejected' /\ rejected' = rejected \cup LinesInHunk'
        /\ text' = With(change', accepted') /\ new_text' = With(change', Lines \ rejected)
    BY <1>1, <1>2, <1>6, <1>11 DEF TextsAre
  <2>2. InDecision'
    BY <1>7, <1>11, <2>1 DEF InDecision, TextsAre
  <2> QED
    BY <1>1, <1>2, <1>8, <1>9, <1>11, <2>2 DEF HunkInv
<1> QED
  BY <1>1, <1>10, <1>11

\* When the two texts are the same, each change was decided.
LEMMA AllDecided ==
    ASSUME HunkTypeOK, accepted \cap rejected = {},
           With(change, accepted) = With(change, Lines \ rejected)
    PROVE  accepted \cup rejected = Wanted
<1>1. change \in [Lines -> Changes] /\ accepted \subseteq Wanted /\ rejected \subseteq Wanted
  BY DEF HunkTypeOK
<1>2. \A i \in Lines : change[i] # "same" => (i \in accepted <=> i \in Lines \ rejected)
  BY <1>1, SameChanges
<1>3. ASSUME NEW i \in Wanted
      PROVE  i \in accepted \cup rejected
  BY <1>2 DEF Wanted
<1> QED
  BY <1>1, <1>3

\* A text is the first one only if no change was made.
LEMMA NoneTaken ==
    ASSUME HunkTypeOK
    PROVE  With(change, accepted) = With(change, {}) <=> accepted = {}
<1>1. change \in [Lines -> Changes] /\ accepted \subseteq Wanted
  BY DEF HunkTypeOK
<1>2. ASSUME With(change, accepted) = With(change, {})
      PROVE  accepted = {}
  <2>1. \A i \in Lines : change[i] # "same" => (i \in accepted <=> i \in {})
    BY <1>1, <1>2, SameChanges
  <2> QED
    BY <1>1, <2>1 DEF Wanted
<1> QED
  BY <1>2

\* The edit comes back to the widget, with texts of what was decided.
LEMMA ComesBack ==
    ASSUME HunkTypeOK, UNCHANGED <<change, radius, accepted, rejected>>, update_text_edit,
           accepted \cap rejected = {}, file' = text', TextsAre(accepted, rejected)'
    PROVE  HunkInv'
<1>1. holder' = "widget" /\ hunk_idx' = Clamped(hunk_idx, text', new_text', radius)
  BY DEF update_text_edit
<1>2. /\ change' \in [Lines -> Changes] /\ hunk_idx \in Nat
      /\ text' = With(change', accepted') /\ new_text' = With(change', Lines \ rejected')
  BY DEF HunkTypeOK, TextsAre
<1>3. text' \in Seq(AllLines) /\ Ascending(text') /\ new_text' \in Seq(AllLines)
  BY <1>2, WithHas
<1>4. hunk_idx' \in Nat /\ Shows(text', new_text', radius, hunk_idx')
  BY <1>1, <1>2, <1>3, ClampedShows
<1>5. Shows(text, new_text, radius, hunk_idx)'
  BY <1>4 DEF Shows
<1>6. HunkTypeOK'
  BY <1>1, <1>4 DEF HunkTypeOK, Holders, Wanted
<1> QED
  BY <1>1, <1>5, <1>6 DEF HunkInv

LEMMA ApplyKeeps ==
    ASSUME HunkInv, task_apply_text_edit
    PROVE  HunkInv'
<1>1. /\ holder = "applying" /\ UNCHANGED <<change, new_text, radius, accepted, rejected>>
      /\ text' = apply_hunk(text, new_text, radius, hunk_idx)
      /\ \/ file' = text' /\ text' = new_text /\ Ends("applied")
         \/ file' = text' /\ text' # new_text /\ update_text_edit
         \/ Ends("failed")
  BY DEF task_apply_text_edit
<1>2. /\ HunkTypeOK /\ accepted \cap rejected = {} /\ InDecision
  BY <1>1 DEF HunkInv
<1>3. PICK before \in SUBSET accepted :
         TextsAre(before, rejected) /\ accepted = before \cup LinesInHunk
  BY <1>1, <1>2 DEF InDecision
<1>4. /\ accepted \in SUBSET Wanted /\ rejected \in SUBSET Wanted /\ before \in SUBSET Wanted
      /\ before \cap rejected = {} /\ hunk_idx < hunk_total(text, new_text, radius)
      /\ change \in [Lines -> Changes]
  BY <1>2 DEF HunkTypeOK, InDecision
<1>5. text' = With(change, accepted)
  BY <1>1, <1>2, <1>3, <1>4, DecisionOf DEF Decision
<1>6. new_text' = With(change, Lines \ rejected)
  BY <1>1, <1>3 DEF TextsAre
<1>7. ASSUME holder' = "nobody", hunk_idx' = hunk_idx
      PROVE  HunkTypeOK'
  BY <1>1, <1>2, <1>7 DEF HunkTypeOK, Holders, Wanted
<1>8. CASE Ends("failed")
  <2>1. holder' = "nobody" /\ answer' = "failed" /\ hunk_idx' = hunk_idx
    BY <1>8 DEF Ends
  <2> QED
    BY <1>1, <1>2, <1>7, <2>1 DEF HunkInv
<1>9. CASE file' = text' /\ text' # new_text /\ update_text_edit
  <2>1. TextsAre(accepted, rejected)'
    BY <1>1, <1>5, <1>6 DEF TextsAre
  <2> QED
    BY <1>1, <1>2, <1>9, <2>1, ComesBack
<1>10. CASE file' = text' /\ text' = new_text /\ Ends("applied")
  <2>1. holder' = "nobody" /\ answer' = "applied" /\ hunk_idx' = hunk_idx
    BY <1>10 DEF Ends
  <2>2. accepted \cup rejected = Wanted
    BY <1>1, <1>2, <1>5, <1>6, <1>10, AllDecided
  <2>3. accepted # {}
    <3> SUFFICES ASSUME accepted = {}
                 PROVE  FALSE
      OBVIOUS
    <3>1. before = {} /\ accepted = before
      OBVIOUS
    <3>2. text = With(change, before) /\ text' = text /\ new_text = text
      BY <1>1, <1>3, <1>5, <1>10, <3>1 DEF TextsAre
    <3>3. text \in Seq(AllLines) /\ Ascending(text)
      BY <1>4, <3>2, WithHas
    <3>4. hunk_total(text, text, radius) = 0
      BY <3>3, NoHunks
    <3>5. hunk_idx < 0 /\ hunk_idx \in Nat
      BY <1>2, <1>4, <3>2, <3>4 DEF HunkTypeOK
    <3> QED
      BY <3>5
  <2>4. Wanted' = Wanted
    BY <1>1 DEF Wanted
  <2>5. /\ file' = With(change', accepted') /\ accepted' \cup rejected' = Wanted'
        /\ answer' = "rejects all" <=> accepted' = {}
    BY <1>1, <1>5, <1>10, <2>1, <2>2, <2>3, <2>4
  <2> QED
    BY <1>1, <1>2, <1>7, <2>1, <2>5 DEF HunkInv
<1> QED
  BY <1>1, <1>8, <1>9, <1>10

LEMMA RejectKeeps ==
    ASSUME HunkInv, reject_text_edit
    PROVE  HunkInv'
<1>1. /\ holder = "rejecting" /\ UNCHANGED <<change, file, text, radius, accepted, rejected>>
      /\ new_text' = reject_hunk(text, new_text, radius, hunk_idx)
      /\ \/ /\ new_text' = text
            /\ Ends(IF text # With(change, {}) THEN "rejects some" ELSE "rejects all")
         \/ new_text' # text /\ update_text_edit
  BY DEF reject_text_edit
<1>2. /\ HunkTypeOK /\ accepted \cap rejected = {} /\ InDecision /\ file = text
  BY <1>1 DEF HunkInv
<1>3. PICK before \in SUBSET rejected :
         TextsAre(accepted, before) /\ rejected = before \cup LinesInHunk
  BY <1>1, <1>2 DEF InDecision
<1>4. /\ accepted \in SUBSET Wanted /\ rejected \in SUBSET Wanted /\ before \in SUBSET Wanted
      /\ accepted \cap before = {} /\ hunk_idx < hunk_total(text, new_text, radius)
  BY <1>2 DEF HunkTypeOK, InDecision
<1>5. new_text' = With(change, Lines \ rejected)
  BY <1>1, <1>2, <1>3, <1>4, DecisionOf DEF Decision
<1>6. text = With(change, accepted)
  BY <1>3 DEF TextsAre
<1>7. CASE new_text' # text /\ update_text_edit
  <2>1. TextsAre(accepted, rejected)'
    BY <1>1, <1>5, <1>6 DEF TextsAre
  <2> QED
    BY <1>1, <1>2, <1>7, <2>1, ComesBack
<1>8. CASE /\ new_text' = text
           /\ Ends(IF text # With(change, {}) THEN "rejects some" ELSE "rejects all")
  <2>1. /\ holder' = "nobody" /\ hunk_idx' = hunk_idx
        /\ answer' = IF text # With(change, {}) THEN "rejects some" ELSE "rejects all"
    BY <1>8 DEF Ends
  <2>2. accepted \cup rejected = Wanted
    BY <1>2, <1>5, <1>6, <1>8, AllDecided
  <2>3. answer' = "rejects all" <=> accepted = {}
    BY <1>2, <1>6, <2>1, NoneTaken
  <2>4. Wanted' = Wanted
    BY <1>1 DEF Wanted
  <2>5. HunkTypeOK'
    BY <1>1, <1>2, <2>1, <2>4 DEF HunkTypeOK, Holders
  <2>6. /\ file' = With(change', accepted') /\ accepted' \cup rejected' = Wanted'
        /\ answer' = "rejects all" <=> accepted' = {}
    BY <1>1, <1>2, <1>6, <2>2, <2>3, <2>4
  <2> QED
    BY <1>1, <1>2, <2>1, <2>5, <2>6 DEF HunkInv
<1> QED
  BY <1>1, <1>7, <1>8

LEMMA HunkStep == HunkInv /\ [HunkNext]_hunkVars => HunkInv'
<1> SUFFICES ASSUME HunkInv, [HunkNext]_hunkVars
             PROVE  HunkInv'
  OBVIOUS
<1>1. CASE shift_hunk \/ adjust_context
  BY <1>1, WalkKeeps
<1>2. CASE KeyApply \/ KeyRejectHunk
  BY <1>2, DecidesKeeps
<1>3. CASE task_apply_text_edit
  BY <1>3, ApplyKeeps
<1>4. CASE reject_text_edit
  BY <1>4, RejectKeeps
<1>5. CASE UNCHANGED hunkVars
  <2>1. UNCHANGED <<change, file, text, new_text, holder, radius, hunk_idx, answer>>
        /\ UNCHANGED <<accepted, rejected>>
    BY <1>5 DEF hunkVars
  <2>2. Wanted' = Wanted /\ LinesInHunk' = LinesInHunk
    BY <2>1 DEF Wanted, LinesInHunk
  <2>3. HunkTypeOK' <=> HunkTypeOK
    BY <2>1, <2>2 DEF HunkTypeOK
  <2>4. InDecision' <=> InDecision
    BY <2>1, <2>2 DEF InDecision, TextsAre
  <2>5. TextsAre(accepted, rejected)' <=> TextsAre(accepted, rejected)
    BY <2>1 DEF TextsAre
  <2>6. Shows(text, new_text, radius, hunk_idx)' <=> Shows(text, new_text, radius, hunk_idx)
    BY <2>1 DEF Shows
  <2> QED
    BY <2>1, <2>2, <2>3, <2>4, <2>5, <2>6 DEF HunkInv
<1> QED
  BY <1>1, <1>2, <1>3, <1>4, <1>5 DEF HunkNext

LEMMA HunkInvShows == HunkInv => FileIsWhatWasAccepted
<1> SUFFICES ASSUME HunkInv
             PROVE  FileIsWhatWasAccepted
  OBVIOUS
<1>1. holder = "widget" => file = With(change, accepted)
  BY DEF HunkInv, TextsAre
<1>2. holder = "rejecting" => file = With(change, accepted)
  BY DEF HunkInv, InDecision, TextsAre
<1> QED
  BY <1>1, <1>2 DEF HunkInv, FileIsWhatWasAccepted

\* However the user walked through the hunks, the file has the changes that were in a hunk
\* when it was accepted, and no other.
THEOREM HunkCorrect == HunkSpec => []FileIsWhatWasAccepted
<1>1. HunkSpec => []HunkInv
  BY HunkBegins, HunkStep, PTL DEF HunkSpec
<1> QED
  BY <1>1, HunkInvShows, PTL
=============================================================================
