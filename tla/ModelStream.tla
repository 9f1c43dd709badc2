----------------------------- MODULE ModelStream -----------------------------
(****************************************************************************)
(* One streamed request to the model: the client opens the stream, with     *)
(* retries of its own (crates/openai/src/client.rs, crates/anthropic), the  *)
(* chunks of an OpenAI-compatible provider are translated to block events   *)
(* (src/provider/openai.rs), the accumulator builds the blocks               *)
(* (src/agent/streaming.rs), the agent retries a stream that breaks         *)
(* (chat_stream_internal of src/agent.rs) and the chat shows the updates    *)
(* (crates/coco-tui/src/components/messages.rs).                            *)
(*                                                                          *)
(* Texts are counted in deltas, a tool's input in JSON fragments.  Usage,   *)
(* signatures, pings and unknown events change none of this.                *)
(****************************************************************************)
EXTENDS Naturals, Sequences, FiniteSets, SequencesExt

CONSTANTS
    RetryMaxAttempts,   \* retry_max_attempts, of a request and of a stream
    MaxTools,           \* bound: tool calls of one answer
    OrderedKinds,       \* the provider sends thinking before text before tool calls
    MaxChunks           \* bound: chunks of one stream

ASSUME StreamAssumption ==
    /\ RetryMaxAttempts \in Nat /\ MaxChunks \in Nat
    /\ MaxTools \in Nat
    /\ OrderedKinds \in BOOLEAN

\* Indexes of the tool calls: a provider numbers them without gaps.
Tools == 0..(MaxTools - 1)

VARIABLES
    phase,              \* of chat_stream_internal
    attempt, tries,     \* retries of the stream, of the request that opens it
    retried, cancelled, outcome,
    indicator,          \* retry_status of the chat: the attempt it shows, 0 for none
    source,             \* OpenAIStream: what was started and closed
    chunks, sent,       \* how many chunks arrived, and what they held (history)
    acc,                \* StreamAccumulator
    seen,               \* plain_seen and thinking_seen of task_chat
    shown, stream_map,  \* Messages: the bot's messages, and block index to message
    stored              \* the blocks pushed to the agent's history

streamVars == <<phase, attempt, tries, retried, cancelled, outcome, indicator, source, chunks,
                sent, acc, seen, shown, stream_map, stored>>

NoSource == [thinking |-> "no", text |-> "no", tools |-> {}]
NoSent   == [thinking |-> 0, text |-> 0, tool |-> [i \in Tools |-> 0]]
NoAcc    == [blocks |-> <<>>, inputs |-> <<>>, updates |-> <<>>, failed |-> FALSE]

StreamInit ==
    /\ phase = "requesting" /\ attempt = 0 /\ tries = 0 /\ retried = FALSE
    /\ cancelled = FALSE /\ outcome = "none" /\ indicator = 0
    /\ source = NoSource /\ chunks = 0 /\ sent = NoSent /\ acc = NoAcc
    /\ seen = {} /\ shown = <<>> /\ stream_map = <<>> /\ stored = <<>>

-----------------------------------------------------------------------------
(* OpenAIStream: the block events of a chunk *)

started(s)  == (IF s.thinking = "no" THEN 0 ELSE 1) + (IF s.text = "no" THEN 0 ELSE 1)
text_index(s) == IF s.thinking = "no" THEN 0 ELSE 1

Start(i, k) == [type |-> "start", index |-> i, kind |-> k]
Delta(i, k) == [type |-> "delta", index |-> i, kind |-> k]
Stop(i)     == [type |-> "stop", index |-> i, kind |-> "text"]

OnlyIf(condition, events) == IF condition THEN events ELSE <<>>

close_thinking_block(s) == OnlyIf(s.thinking = "open", <<Stop(0)>>)

AfterThinking(s, c) ==
    IF c.thinking /\ s.thinking = "no" THEN [s EXCEPT !.thinking = "open"] ELSE s
AfterText(s, c) ==
    IF c.text THEN [s EXCEPT !.text = "open",
                             !.thinking = IF @ = "open" THEN "closed" ELSE @] ELSE s

\* Mutant of tool_base_index: only the text comes before the tools.
tool_base_after_text(s) == IF s.text = "no" THEN 0 ELSE 1

\* Read when the chunk is handled: it moves if thinking or text starts later.
tool_base_index(s) == started(s)

ToolIndexes(s, c) == {tool_base_index(s) + i : i \in c.tools}
AfterTools(s, c)  == [s EXCEPT !.tools = @ \cup ToolIndexes(s, c)]

BlockEvents(i, k, first) == OnlyIf(first, <<Start(i, k)>>) \o <<Delta(i, k)>>

ThinkingEvents(s, c) == OnlyIf(c.thinking, BlockEvents(0, "thinking", s.thinking = "no"))

TextEvents(s, c) ==
    OnlyIf(c.text, close_thinking_block(s) \o BlockEvents(text_index(s), "text", s.text = "no"))

ToolEvents(s, c, i) ==
    LET at == tool_base_index(s) + i IN
    OnlyIf(i \in c.tools, BlockEvents(at, "tool", at \notin s.tools))

ToolCallEvents(s, c) == FlattenSeq([n \in 1..MaxTools |-> ToolEvents(s, c, n - 1)])

ChunkEvents(s, c) ==
    LET s1 == AfterThinking(s, c)
    IN  ThinkingEvents(s, c) \o TextEvents(s1, c) \o ToolCallEvents(AfterText(s1, c), c)

AfterChunk(s, c) == AfterTools(AfterText(AfterThinking(s, c), c), c)

\* The tools' blocks in the order of their indexes: in another, the same would come of it.
close_all_blocks(s) ==
    close_thinking_block(s)
    \o OnlyIf(s.text = "open", <<Stop(text_index(s))>>)
    \o FlattenSeq([n \in 1..(MaxTools + 2) |-> OnlyIf(n - 1 \in s.tools, <<Stop(n - 1)>>)])

-----------------------------------------------------------------------------
(* StreamAccumulator *)

ensure_block_slot(blocks, i) ==
    blocks \o [n \in 1..(IF Len(blocks) > i THEN 0 ELSE i + 1 - Len(blocks)) |->
                 [kind |-> "text", n |-> 0]]

InputOf(inputs, i) == IF i \in DOMAIN inputs THEN inputs[i] ELSE 0
SetInput(inputs, i, n) == [j \in DOMAIN inputs \cup {i} |-> IF j = i THEN n ELSE inputs[j]]

apply_delta(a, i, k) ==
    LET blocks == ensure_block_slot(a.blocks, i) IN
    IF k = "tool"
    THEN [a EXCEPT !.blocks = blocks, !.inputs = SetInput(@, i, InputOf(@, i) + 1)]
    ELSE [a EXCEPT !.blocks = [blocks EXCEPT ![i + 1] =
                                 [kind |-> k, n |-> (IF @.kind = k THEN @.n ELSE 0) + 1]],
                   !.updates = Append(@, [index |-> i, kind |-> k])]

\* The buffered fragments decode if they are a whole input.
finalize_tool_input(a, i, whole) ==
    IF i \notin DOMAIN a.inputs THEN a
    ELSE IF ~whole THEN [a EXCEPT !.failed = TRUE]
    ELSE [a EXCEPT !.inputs = [j \in DOMAIN @ \ {i} |-> @[j]],
                   !.blocks = IF i + 1 \in DOMAIN @ /\ @[i + 1].kind = "tool"
                              THEN [@ EXCEPT ![i + 1].n = a.inputs[i]] ELSE @]

handle_event(a, e, whole) ==
    IF a.failed THEN a
    ELSE IF e.type = "start"
    THEN [a EXCEPT !.blocks = [ensure_block_slot(@, e.index) EXCEPT ![e.index + 1] =
                                 [kind |-> e.kind, n |-> 0]]]
    ELSE IF e.type = "delta" THEN apply_delta(a, e.index, e.kind)
    ELSE finalize_tool_input(a, e.index, whole)

Accumulated(a, events, whole) ==
    LET after[n \in 0..Len(events)] ==
            IF n = 0 THEN a ELSE handle_event(after[n - 1], events[n], whole)
    IN  after[Len(events)]

Accumulate(events, whole) == Accumulated([acc EXCEPT !.updates = <<>>], events, whole)

-----------------------------------------------------------------------------
(* The chat's messages *)

Lengthened(m, kind) == IF m.kind = kind THEN [m EXCEPT !.n = @ + 1] ELSE m

\* A message that the map does not know is pushed; the map goes by the block's index
\* alone, and text for a message of the other kind is dropped.
append_stream_text(view, u) ==
    LET known == u.index \in DOMAIN view.map
        list  == IF known THEN view.list
                 ELSE Append(view.list, [kind |-> u.kind, n |-> 0, attempt |-> attempt])
        map   == IF known THEN view.map ELSE SetInput(view.map, u.index, Len(list))
    IN  [list |-> [list EXCEPT ![map[u.index]] = Lengthened(@, u.kind)], map |-> map]

WithUpdates(view, updates) ==
    LET after[n \in 0..Len(updates)] ==
            IF n = 0 THEN view ELSE append_stream_text(after[n - 1], updates[n])
    IN  after[Len(updates)]

Show(updates) ==
    LET view == WithUpdates([list |-> shown, map |-> stream_map], updates) IN
    /\ shown' = view.list /\ stream_map' = view.map
    /\ seen' = seen \cup {updates[n].kind : n \in DOMAIN updates}

\* Mutant of reset_stream: the next attempt writes into the messages of the last one.
keep_stream == stream_map' = stream_map

\* Forgets which messages the stream writes to; the messages stay.
reset_stream == stream_map' = <<>>

-----------------------------------------------------------------------------
(* chat_stream_internal *)

StreamIsOver(result) == phase' = "done" /\ outcome' = result

notify_stream_retry_finished(result) == indicator' = IF retried THEN 0 ELSE indicator

RequestRetries ==
    /\ phase = "requesting" /\ tries < RetryMaxAttempts
    /\ tries' = tries + 1 /\ indicator' = tries + 1
    /\ UNCHANGED <<phase, attempt, retried, cancelled, outcome, source, chunks, sent, acc, seen,
                   shown, stream_map, stored>>

\* complete_with_retry_status reports the end of the request in either case.  The
\* cancelled token is not looked at before the stream is open.
RequestEnds(opened) ==
    /\ phase = "requesting"
    /\ tries' = 0 /\ indicator' = 0
    /\ source' = NoSource /\ chunks' = 0 /\ sent' = NoSent /\ acc' = NoAcc
    /\ IF opened THEN phase' = "reading" /\ UNCHANGED outcome ELSE StreamIsOver("failed")
    /\ UNCHANGED <<attempt, retried, cancelled, seen, shown, stream_map, stored>>

Chunk == [thinking : BOOLEAN, text : BOOLEAN, tools : SUBSET Tools]

\* What providers do: thinking, then text, then the tool calls, numbered without gaps.
InOrder(c) ==
    /\ c.thinking => source.text = "no" /\ source.tools = {}
    /\ c.text => source.tools = {}
    /\ \A j \in c.tools : \A i \in Tools : i < j => i \in c.tools \/ sent.tool[i] > 0

ChunkArrives(c) ==
    /\ phase = "reading" /\ chunks < MaxChunks
    /\ c.thinking \/ c.text \/ c.tools # {}
    /\ OrderedKinds => InOrder(c)
    /\ chunks' = chunks + 1
    /\ sent' = [thinking |-> sent.thinking + (IF c.thinking THEN 1 ELSE 0),
                text |-> sent.text + (IF c.text THEN 1 ELSE 0),
                tool |-> [i \in Tools |-> sent.tool[i] + (IF i \in c.tools THEN 1 ELSE 0)]]
    /\ source' = AfterChunk(source, c)
    /\ acc' = Accumulate(ChunkEvents(source, c), FALSE)
    /\ Show(acc'.updates)
    /\ UNCHANGED <<phase, attempt, tries, retried, cancelled, outcome, indicator, stored>>

\* A finish_reason, or the end of the body without one, which counts as a success; then
\* the tools' inputs may be cut short, and an input that does not decode is an error
\* that is not retried.
StreamEnds(finished) ==
    \E whole \in {TRUE, finished} :
       /\ phase = "reading"
       /\ acc' = Accumulate(close_all_blocks(source), whole)
       /\ IF acc'.failed
          THEN StreamIsOver("failed") /\ UNCHANGED stored
          ELSE StreamIsOver("ok") /\ stored' = acc'.blocks
       /\ notify_stream_retry_finished(outcome')
       /\ UNCHANGED <<attempt, tries, retried, cancelled, source, chunks, sent, seen, shown,
                      stream_map>>

\* The body breaks off.
StreamBreaks ==
    /\ phase = "reading"
    /\ IF attempt < RetryMaxAttempts
       THEN /\ attempt' = attempt + 1 /\ retried' = TRUE /\ indicator' = attempt + 1
            /\ seen' = {} /\ reset_stream
            /\ phase' = "waiting" /\ UNCHANGED outcome
       ELSE /\ notify_stream_retry_finished("failed")
            /\ StreamIsOver("failed") /\ UNCHANGED <<attempt, retried, seen, stream_map>>
    /\ UNCHANGED <<tries, cancelled, source, chunks, sent, acc, shown, stored>>

WaitEnds ==
    /\ phase = "waiting" /\ phase' = "requesting"
    /\ UNCHANGED <<attempt, tries, retried, cancelled, outcome, indicator, source, chunks, sent,
                   acc, seen, shown, stream_map, stored>>

UserCancels ==
    /\ phase # "done" /\ ~cancelled /\ cancelled' = TRUE
    /\ UNCHANGED <<phase, attempt, tries, retried, outcome, indicator, source, chunks, sent, acc,
                   seen, shown, stream_map, stored>>

\* Either select! may also take its other branch.
CancelIsSeen ==
    /\ phase \in {"reading", "waiting"} /\ cancelled
    /\ notify_stream_retry_finished("cancelled")
    /\ StreamIsOver("cancelled")
    /\ UNCHANGED <<attempt, tries, retried, cancelled, source, chunks, sent, acc, seen, shown,
                   stream_map, stored>>

StreamNext ==
    \/ RequestRetries
    \/ \E opened \in BOOLEAN : RequestEnds(opened)
    \/ \E c \in Chunk : ChunkArrives(c)
    \/ \E finished \in BOOLEAN : StreamEnds(finished)
    \/ StreamBreaks \/ WaitEnds \/ UserCancels \/ CancelIsSeen

StreamSpec == StreamInit /\ [][StreamNext]_streamVars

-----------------------------------------------------------------------------
(* Properties *)

Sent(kind, n) == OnlyIf(n > 0, <<[kind |-> kind, n |-> n]>>)

\* What goes into the history is what the model said in the last attempt, block by block:
\* every tool call once, under its own index and with its own input, nothing of an
\* attempt that broke off (OpenAIStream::poll_next, StreamAccumulator::handle_event).
StoredIsWhatWasSent ==
    outcome = "ok" =>
       stored = Sent("thinking", sent.thinking) \o Sent("text", sent.text)
                \o FlattenSeq([n \in 1..MaxTools |-> Sent("tool", sent.tool[n - 1])])

ShownInLastAttempt(kind) ==
    {n \in DOMAIN shown : shown[n].attempt = attempt /\ shown[n].kind = kind}

BlocksOf(kind) == {n \in DOMAIN stored : stored[n].kind = kind}

\* What the user saw stream in since the last attempt began is what is stored, in
\* messages of its own (append_stream_text, reset_stream).  Messages of an attempt that
\* broke off stay on the screen.
ShownIsStored ==
    outcome = "ok" =>
       \A kind \in {"thinking", "text"} :
          /\ Cardinality(ShownInLastAttempt(kind)) = Cardinality(BlocksOf(kind))
          /\ {shown[n].n : n \in ShownInLastAttempt(kind)} = {stored[n].n : n \in BlocksOf(kind)}

\* Both: what the user saw, what the model is told it said, and what it did say agree.
AnswerIsWhatWasSent == StoredIsWhatWasSent /\ ShownIsStored
=============================================================================
