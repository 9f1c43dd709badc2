----------------------------- MODULE EventStream -----------------------------
(****************************************************************************)
(* A request to a provider and the body of its answer, of both clients:     *)
(* the request is retried (with_retry! of                                    *)
(* crates/anthropic/src/client/messages.rs and crates/openai/src/client.rs), *)
(* and the body, which arrives in chunks cut anywhere, is read line by line  *)
(* into events (SseEventStream).                                             *)
(*                                                                          *)
(* A body is a sequence of symbols: "data:" and "event:" stand for these     *)
(* words, "obj" for a JSON object, "{" and "}" for the halves of one, "!"    *)
(* for bytes that are not UTF-8.  Whether the object has the fields its type *)
(* needs is part of whether it is one.                                       *)
(****************************************************************************)
EXTENDS Naturals, Sequences, SequencesExt

CONSTANTS
    Bodies,             \* what a provider may answer with
    ConnectRetries      \* retry_max_attempts

ASSUME EventStreamAssumption == ConnectRetries \in Nat

VARIABLES
    flavor,             \* ProviderKind: anthropic or openai
    streamed,          \* messages_stream, or messages
    exchange,           \* sent, open, ended, failed (the stream), refused, answered
    told_updates,       \* RetryUpdates given to the notifier
    wire, at_hand,      \* what the provider answers, and how much of it is here
    sse,                \* SseEventStream: buffer, event, data, pending; failed
    finished, delivered

eventVars == <<flavor, streamed, exchange, told_updates, wire, at_hand, sse, finished, delivered>>

\* event is an option: the empty sequence or the name in one.
NoEvents == [buffer |-> <<>>, event |-> <<>>, data |-> <<>>, pending |-> <<>>, failed |-> FALSE]

EventInit ==
    /\ flavor \in {"anthropic", "openai"} /\ streamed \in BOOLEAN
    /\ exchange = "sent" /\ told_updates = <<>>
    /\ wire \in (IF streamed THEN Bodies ELSE {<<>>})
    /\ at_hand = 0 /\ sse = NoEvents /\ finished = FALSE /\ delivered = <<>>

-----------------------------------------------------------------------------
(* The request *)

\* What may come of a request: no answer, or a status with a body.
Replies_ ==
    [at : {"connect", "timeout", "lost"}] \cup
    [at : {"response"}, status : {"200", "400", "429", "500", "503"},
     content : {"whole", "invalid", "lost"}]

\* A body that cannot be read is an error of its own for one client, whatever the
\* status; for the other the status counts, or the answer is one that does not decode.
AnthropicError(r) ==
    IF r.content = "lost" /\ ~(streamed /\ r.status = "200") THEN "lost"
    ELSE IF r.status # "200" THEN r.status
    ELSE IF streamed \/ r.content = "whole" THEN "none" ELSE "decode"

OpenAIError(r) ==
    IF r.status # "200" THEN r.status
    ELSE IF streamed \/ r.content = "whole" THEN "none" ELSE "decode"

RequestError(r) ==
    IF r.at # "response" THEN r.at
    ELSE IF flavor = "anthropic" THEN AnthropicError(r) ELSE OpenAIError(r)

is_retryable(e) == e \in {"connect", "timeout", "decode", "429", "500", "503"}

Attempt(n)      == [attempt |-> n, success |-> FALSE]
Finished(ok)    == [attempt |-> 0, success |-> ok]

RequestIsRetried ==
    /\ exchange = "sent" /\ Len(told_updates) < ConnectRetries
    /\ \E r \in Replies_ : is_retryable(RequestError(r))
    /\ told_updates' = Append(told_updates, Attempt(Len(told_updates) + 1))
    /\ UNCHANGED <<flavor, streamed, exchange, wire, at_hand, sse, finished, delivered>>

RequestReturns ==
    /\ exchange = "sent"
    /\ \E r \in Replies_ : LET e == RequestError(r) IN
         /\ ~(is_retryable(e) /\ Len(told_updates) < ConnectRetries)
         /\ exchange' = IF e # "none" THEN "refused" ELSE IF streamed THEN "open" ELSE "answered"
         /\ told_updates' = Append(told_updates, Finished(e = "none"))
    /\ UNCHANGED <<flavor, streamed, wire, at_hand, sse, finished, delivered>>

-----------------------------------------------------------------------------
(* SseEventStream *)

trim_leading_space(line) == IF line # <<>> /\ line[1] = " " THEN Tail(line) ELSE line

flush_event(s) ==
    IF s.event = <<>> /\ s.data = <<>> THEN s
    ELSE [s EXCEPT !.event = <<>>, !.data = <<>>,
                   !.pending = Append(@, [event |-> IF s.event = <<>> THEN <<"message">>
                                                    ELSE s.event[1],
                                          data |-> s.data])]

\* Event names are of no meaning to the openai client.
NameLine(s, name) ==
    IF flavor = "openai" THEN s
    ELSE IF "!" \in ToSet(name) THEN [s EXCEPT !.failed = TRUE]
    ELSE [s EXCEPT !.event = <<name>>]

process_line(s, line) ==
    IF line = <<>> THEN flush_event(s)
    ELSE IF line[1] = "event:" THEN NameLine(s, trim_leading_space(Tail(line)))
    ELSE IF line[1] = "data:"
    THEN [s EXCEPT !.data = (IF @ = <<>> THEN @ ELSE Append(@, "LF"))
                            \o trim_leading_space(Tail(line))]
    ELSE s

WithoutReturn(line) == IF line # <<>> /\ Last(line) = "CR" THEN Front(line) ELSE line

\* The line is popped when its end is here; an error leaves the rest unread.
pop_line(s, byte) ==
    IF s.failed THEN s
    ELSE IF byte # "LF" THEN [s EXCEPT !.buffer = Append(@, byte)]
    ELSE process_line([s EXCEPT !.buffer = <<>>], WithoutReturn(s.buffer))

\* Mutant of Arrived: what the last chunk left of a line is forgotten.
ArrivedByLines(chunk) == FoldLeft(pop_line, [sse EXCEPT !.buffer = <<>>], chunk)

Arrived(chunk) == FoldLeft(pop_line, sse, chunk)

\* An event that completed before the error, in the same chunk, is not given out:
\* the error is, and nobody polls the stream again.
ChunkIsRead ==
    /\ exchange = "open" /\ sse.pending = <<>> /\ ~finished
    /\ \E n \in at_hand + 1..Len(wire) :
         /\ at_hand' = n
         /\ sse' = Arrived(SubSeq(wire, at_hand + 1, n))
    /\ exchange' = IF sse'.failed THEN "failed" ELSE exchange
    /\ UNCHANGED <<flavor, streamed, told_updates, wire, finished, delivered>>

\* The body ends, maybe too early.  A line without an end is dropped.
BodyEnds ==
    /\ exchange = "open" /\ sse.pending = <<>> /\ ~finished
    /\ finished' = TRUE /\ sse' = flush_event(sse)
    /\ UNCHANGED <<flavor, streamed, exchange, told_updates, wire, at_hand, delivered>>

BodyBreaks ==
    /\ exchange = "open" /\ sse.pending = <<>> /\ ~finished
    /\ exchange' = "failed"
    /\ UNCHANGED <<flavor, streamed, told_updates, wire, at_hand, sse, finished, delivered>>

-----------------------------------------------------------------------------
(* MessagesStream and ChatCompletionStream: what an event says *)

WithoutSpace(d) == SelectSeq(d, LAMBDA b : b \notin {" ", "LF"})
IsDone(e)  == flavor = "openai" /\ WithoutSpace(e.data) = <<"[DONE]">>
Decodes(e) == \/ WithoutSpace(e.data) \in {<<"obj">>, <<"{", "}">>}
              \/ flavor = "anthropic" /\ e.data = <<>>

EventIsGiven ==
    /\ exchange = "open" /\ sse.pending # <<>>
    /\ LET e == Head(sse.pending) IN
         /\ exchange' = IF IsDone(e) THEN "ended" ELSE IF Decodes(e) THEN "open" ELSE "failed"
         /\ delivered' = IF exchange' = "open" THEN Append(delivered, e) ELSE delivered
    /\ sse' = [sse EXCEPT !.pending = Tail(@)]
    /\ UNCHANGED <<flavor, streamed, told_updates, wire, at_hand, finished>>

StreamIsOverNow ==
    /\ exchange = "open" /\ sse.pending = <<>> /\ finished
    /\ exchange' = "ended"
    /\ UNCHANGED <<flavor, streamed, told_updates, wire, at_hand, sse, finished, delivered>>

EventNext ==
    \/ RequestIsRetried \/ RequestReturns
    \/ ChunkIsRead \/ BodyEnds \/ BodyBreaks \/ EventIsGiven \/ StreamIsOverNow

-----------------------------------------------------------------------------
(* What a body says, read as a whole *)

LinesOf(bytes) ==
    LET ends == SetToSortSeq({i \in DOMAIN bytes : bytes[i] = "LF"}, <)
        first(n) == IF n = 1 THEN 1 ELSE ends[n - 1] + 1
    IN  [n \in DOMAIN ends |-> WithoutReturn(SubSeq(bytes, first(n), ends[n] - 1))]

FieldsOf(lines, field) ==
    LET given == SelectSeq(lines, LAMBDA l : l # <<>> /\ l[1] = field)
    IN  [n \in DOMAIN given |-> trim_leading_space(Tail(given[n]))]

\* The data of a block's lines, joined by line ends, without those of empty first lines.
Joined(parts) ==
    FoldLeft(LAMBDA d, p : IF d = <<>> THEN p ELSE d \o <<"LF">> \o p, <<>>, parts)

EventOf(lines) ==
    LET names == IF flavor = "openai" THEN <<>> ELSE FieldsOf(lines, "event:")
    IN  [named |-> names # <<>>,
         event |-> IF names = <<>> THEN <<"message">> ELSE Last(names),
         data |-> Joined(FieldsOf(lines, "data:"))]

\* The lines up to one that cannot be read.
Readable(lines) ==
    LET bad == {n \in DOMAIN lines :
                  /\ flavor = "anthropic" /\ lines[n] # <<>>
                  /\ lines[n][1] = "event:" /\ "!" \in ToSet(lines[n])}
    IN  SubSeq(lines, 1, IF bad = {} THEN Len(lines)
                         ELSE (CHOOSE n \in bad : \A m \in bad : n <= m) - 1)

\* The blocks of lines between empty ones; the last has no end yet.
EventsOf(lines, whole) ==
    LET blanks == SetToSortSeq({n \in DOMAIN lines : lines[n] = <<>>}, <)
        count  == Len(blanks) + (IF whole THEN 1 ELSE 0)
        block(k) == SubSeq(lines, IF k = 1 THEN 1 ELSE blanks[k - 1] + 1,
                           IF k <= Len(blanks) THEN blanks[k] - 1 ELSE Len(lines))
        events == [k \in 1..count |-> EventOf(block(k))]
        real   == SelectSeq(events, LAMBDA e : e.named \/ e.data # <<>>)
    IN  [k \in DOMAIN real |-> [event |-> real[k].event, data |-> real[k].data]]

UpToDone(events) ==
    LET done == {k \in DOMAIN events : IsDone(events[k])}
    IN  SubSeq(events, 1, IF done = {} THEN Len(events)
                          ELSE (CHOOSE k \in done : \A j \in done : k <= j) - 1)

\* However the body is cut into chunks, the events given out are those of the whole
\* body so far, in its order, none twice; all of them if the stream ends by itself,
\* an error cuts them short and nothing is given out after the end marker.  The
\* notifier hears of every retry in turn and of the end of the request once.
EventsAreTheBodys ==
    LET sent == EventsOf(Readable(LinesOf(SubSeq(wire, 1, at_hand))), finished) IN
    /\ exchange = "open"   => delivered \o sse.pending = sent
    /\ exchange = "ended"  => delivered = UpToDone(sent)
    /\ exchange = "failed" => IsPrefix(delivered, sent)
    /\ \A n \in DOMAIN told_updates :
          (exchange = "sent" \/ n < Len(told_updates)) => told_updates[n] = Attempt(n)
    /\ exchange # "sent" =>
          Len(told_updates) > 0 /\ Last(told_updates) = Finished(exchange # "refused")
=============================================================================
