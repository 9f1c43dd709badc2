--------------------------- MODULE ProviderMessages ---------------------------
(****************************************************************************)
(* The agent's messages as the providers read and write them.  An answer of *)
(* an OpenAI-compatible provider becomes blocks, and every later request     *)
(* turns the blocks of the whole history into its messages again             *)
(* (src/provider/openai.rs); an answer of Anthropic is already blocks        *)
(* (src/provider/anthropic.rs).  The user may change the provider between    *)
(* any two requests, so each reads what the other wrote.                     *)
(*                                                                          *)
(* A text is a sequence of pieces.  An input is "json", or "broken": what    *)
(* is no JSON is kept as a string and shown as one, "quoted".                *)
(****************************************************************************)
EXTENDS Naturals, Sequences, FiniteSets, SequencesExt

CONSTANTS
    OpenAIAnswers,      \* [reasoning, content, calls]: what one provider may write
    BlockAnswers,       \* blocks: what the other may write
    UsageReports,       \* sequences of the usage updates of one answer
    NoTokens,           \* a count that is not given
    MaxTalk, MaxAnswers \* bounds: messages of the history, answers

ASSUME ProviderMessagesAssumption == MaxTalk \in Nat /\ MaxAnswers \in Nat

VARIABLES
    talk,               \* Agent.messages
    heard,              \* the answers as their provider wrote them (history)
    tokens              \* the usage of the last answer

providerVars == <<talk, heard, tokens>>

NoUsage == [input |-> NoTokens, output |-> NoTokens, total |-> NoTokens]

ProviderInit == talk = <<>> /\ heard = <<>> /\ tokens = NoUsage

-----------------------------------------------------------------------------
(* Usage: each update may give the input, the output or the total *)

Given(new, old) == IF new = NoTokens THEN old ELSE new

\* Mutant of merge: a total that is there is kept.
merge_keeping_total(u, new) ==
    LET input  == Given(new.input, u.input)
        output == Given(new.output, u.output)
        total  == Given(new.total, u.total)
    IN  [input |-> input, output |-> output,
         total |-> IF total = NoTokens /\ NoTokens \notin {input, output}
                   THEN input + output ELSE total]

merge(u, new) ==
    LET input  == Given(new.input, u.input)
        output == Given(new.output, u.output)
        old    == Given(new.total, u.total)
        stale  == new.total = NoTokens
                  /\ (new.input # NoTokens \/ new.output # NoTokens \/ old = NoTokens)
    IN  [input |-> input, output |-> output,
         total |-> IF stale /\ NoTokens \notin {input, output} THEN input + output ELSE old]

update_usage(reports) == FoldLeft(merge, NoUsage, reports)

-----------------------------------------------------------------------------
(* Answers become blocks *)

TextPart(t)     == [type |-> "text", text |-> t, id |-> 0, input |-> "none"]
ThinkingPart(t) == [type |-> "thinking", text |-> t, id |-> 0, input |-> "none"]
UsePart(i, v)   == [type |-> "tool_use", text |-> <<>>, id |-> i, input |-> v]
ResultPart(i, t) == [type |-> "tool_result", text |-> t, id |-> i, input |-> "none"]

parse_tool_arguments(a) == IF a = "json" THEN "json" ELSE "text"

response_into_messages(a) ==
    (IF a.reasoning = <<>> THEN <<>> ELSE <<ThinkingPart(a.reasoning)>>)
    \o (IF a.content = <<>> THEN <<>> ELSE <<TextPart(a.content)>>)
    \o [n \in DOMAIN a.calls |->
           UsePart(a.calls[n].id, parse_tool_arguments(a.calls[n].arguments))]

-----------------------------------------------------------------------------
(* Blocks become messages *)

ChatMessage(role, text, reasoning, calls, id) ==
    [role |-> role, content |-> text, reasoning |-> reasoning, calls |-> calls, id |-> id]

Nothing == [text |-> <<>>, reasoning |-> <<>>, calls |-> <<>>, results |-> <<>>]

Quoted(v) == IF v = "json" THEN "json" ELSE "quoted"

Read(c, b) ==
    IF b.type = "text" THEN [c EXCEPT !.text = @ \o b.text]
    ELSE IF b.type = "thinking"
    THEN [c EXCEPT !.reasoning = (IF @ = <<>> THEN @ ELSE Append(@, "LF")) \o b.text]
    ELSE IF b.type = "tool_use"
    THEN [c EXCEPT !.calls = Append(@, [id |-> b.id, arguments |-> Quoted(b.input)])]
    ELSE [c EXCEPT !.results = Append(@, ChatMessage("tool", b.text, <<>>, <<>>, b.id))]

ReadAll(blocks) == FoldLeft(Read, Nothing, blocks)

convert_user_message(content) ==
    LET c == ReadAll(content) IN
    (IF c.text = <<>> THEN <<>> ELSE <<ChatMessage("user", c.text, <<>>, <<>>, 0)>>) \o c.results

\* Mutant of convert_assistant_message: thinking alone is not worth a message.
convert_spoken_message(content) ==
    LET c == ReadAll(content) IN
    IF c.text = <<>> /\ c.calls = <<>> THEN <<>>
    ELSE <<ChatMessage("assistant", c.text, c.reasoning, c.calls, 0)>>

convert_assistant_message(content) ==
    LET c == ReadAll(content) IN
    IF c.text = <<>> /\ c.calls = <<>> /\ c.reasoning = <<>> THEN <<>>
    ELSE <<ChatMessage("assistant", c.text, c.reasoning, c.calls, 0)>>

convert_messages(conversation) ==
    FlattenSeq([n \in DOMAIN conversation |->
        IF conversation[n].role = "user" THEN convert_user_message(conversation[n].content)
        ELSE convert_assistant_message(conversation[n].content)])

\* The request: a system prompt that is not blank comes first.
build_request(system) ==
    (IF system = <<>> THEN <<>> ELSE <<ChatMessage("system", system, <<>>, <<>>, 0)>>)
        \o convert_messages(talk)

-----------------------------------------------------------------------------
(* The conversation *)

UsesOf(m) == {n \in DOMAIN m.content : m.content[n].type = "tool_use"}
IsOpen    == talk # <<>> /\ Last(talk).role = "assistant" /\ UsesOf(Last(talk)) # {}

UserPrompts ==
    /\ Len(talk) < MaxTalk /\ ~IsOpen
    /\ talk' = Append(talk, [role |-> "user", content |-> <<TextPart(<<"p">>)>>])
    /\ UNCHANGED <<heard, tokens>>

\* An answer without a block is not kept.
Hears(blocks, answer) ==
    /\ talk' = IF blocks = <<>> THEN talk
               ELSE Append(talk, [role |-> "assistant", content |-> blocks])
    /\ heard' = Append(heard, answer)
    /\ \E reports \in UsageReports : tokens' = update_usage(reports)

Answers ==
    /\ Len(talk) < MaxTalk /\ talk # <<>> /\ Last(talk).role = "user"
    /\ Len(heard) < MaxAnswers
    /\ \/ \E a \in OpenAIAnswers : Hears(response_into_messages(a), a)
       \/ \E b \in BlockAnswers : Hears(b, [blocks |-> b])

\* The results of all tool uses come in one message, in the order they arrived; a result
\* of several blocks is shown by its texts.
ToolsAnswer ==
    /\ Len(talk) < MaxTalk /\ IsOpen
    /\ \E order \in SetToSeqs(UsesOf(Last(talk))), t \in {<<>>, <<"o", "o">>} :
         talk' = Append(talk, [role |-> "user",
                               content |-> [n \in DOMAIN order |->
                                   ResultPart(Last(talk).content[order[n]].id, t)]])
    /\ UNCHANGED <<heard, tokens>>

ProviderNext == UserPrompts \/ Answers \/ ToolsAnswer

-----------------------------------------------------------------------------
\* What a provider wrote, as one that reads OpenAI's messages should see it: the texts
\* one after another, the thoughts each on its line, the calls.
Parts(blocks, type) == SelectSeq(blocks, LAMBDA b : b.type = type)
Texts(blocks, type) ==
    LET parts == Parts(blocks, type) IN [n \in DOMAIN parts |-> parts[n].text]

AsRead(a) ==
    IF "blocks" \in DOMAIN a
    THEN LET uses == Parts(a.blocks, "tool_use")
             thoughts == Texts(a.blocks, "thinking") IN
         ChatMessage("assistant", FlattenSeq(Texts(a.blocks, "text")),
                     FlattenSeq([n \in DOMAIN thoughts |->
                         IF n = 1 THEN thoughts[n] ELSE <<"LF">> \o thoughts[n]]),
                     [n \in DOMAIN uses |-> [id |-> uses[n].id, arguments |-> uses[n].input]], 0)
    ELSE ChatMessage("assistant", a.content, a.reasoning,
                     [n \in DOMAIN a.calls |->
                         [a.calls[n] EXCEPT !.arguments = IF @ = "json" THEN @ ELSE "quoted"]], 0)

IsSomething(s) == s.content # <<>> \/ s.reasoning # <<>> \/ s.calls # <<>>

\* Whoever wrote them, a request shows the model the answers as they were written and in
\* their order, those that said something; the messages right after one with tool calls
\* are the results of these calls; and the tokens add up after every answer.
RequestReadsAsWritten ==
    LET request_ == build_request(<<"s">>)
        spoken   == SelectSeq(request_, LAMBDA s : s.role = "assistant")
        written_ == [n \in DOMAIN heard |-> AsRead(heard[n])]
    IN  /\ Head(request_).role = "system"
        /\ spoken = SelectSeq(written_, IsSomething)
        /\ \A i \in DOMAIN request_ : LET ids == {c.id : c \in ToSet(request_[i].calls)} IN
              ids # {} /\ ~(IsOpen /\ i = Len(request_)) =>
                  /\ i + Cardinality(ids) <= Len(request_)
                  /\ ids = {request_[i + k].id : k \in 1..Cardinality(ids)}
                  /\ \A k \in 1..Cardinality(ids) : request_[i + k].role = "tool"
        /\ NoTokens \notin {tokens.input, tokens.output} =>
              tokens.total = tokens.input + tokens.output
=============================================================================
