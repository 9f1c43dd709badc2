------------------------------ MODULE OutputLimit ------------------------------
(****************************************************************************)
(* How the output of a tool is cut to what a message to the model may hold  *)
(* (final_to_tool_content in src/combo/runner.rs; the chat has a copy).     *)
(* A character is what it takes in UTF-8 and what it takes in JSON, where   *)
(* it may have to be escaped.                                               *)
(****************************************************************************)
EXTENDS Naturals, Sequences, SequencesExt, SequenceFilters

CONSTANTS
    Characters,         \* [bytes, json]
    MaxOutput,          \* bound: characters of an output
    Limits,             \* TOOL_RESULT_MAX_BYTES
    BaseLength,         \* of the JSON whose outputs are empty, marked as truncated
    MarkLength,         \* of the mark
    SuffixLength        \* of TOOL_RESULT_TRUNCATION_SUFFIX

ASSUME OutputLimitAssumption ==
    /\ Characters \subseteq [bytes : Nat \ {0}, json : Nat \ {0}]
    /\ \A c \in Characters : c.json >= c.bytes
    /\ MaxOutput \in Nat /\ Limits \subseteq Nat
    /\ BaseLength \in Nat /\ MarkLength \in 0..BaseLength /\ SuffixLength \in Nat

VARIABLES
    stdout, stderr, max_bytes,
    stdout_budget, stderr_budget,   \* bytes
    round,                          \* of the loop that looks for budgets that fit
    content,                        \* what the message gets
    wasted                          \* a round took what the output did not use (history)

limitVars  == <<stdout, stderr, max_bytes, stdout_budget, stderr_budget, round, content, wasted>>
limitGiven == <<stdout, stderr, max_bytes>>

Unlimited == [kind |-> "none", stdout |-> <<>>, stderr |-> <<>>, length |-> 0]

Bytes(text) == Total(text, "bytes")
Json(text)  == Total(text, "json")

LimitInit ==
    /\ stdout \in BoundedSeq(Characters, MaxOutput) /\ stderr \in BoundedSeq(Characters, MaxOutput)
    /\ max_bytes \in Limits
    /\ stdout_budget = 0 /\ stderr_budget = 0 /\ round = 0 /\ content = Unlimited
    /\ wasted = FALSE

-----------------------------------------------------------------------------
(* Texts *)

Saturating(a, b) == IF a > b THEN a - b ELSE 0
Least(a, b)      == IF a < b THEN a ELSE b

\* The longest prefix that fits and ends between two characters.
truncate_to_boundary(text, max) ==
    LET fit == {n \in 0..Len(text) : Bytes(SubSeq(text, 1, n)) <= max}
    IN SubSeq(text, 1, CHOOSE n \in fit : \A m \in fit : m <= n)

\* Of a message: its prefix and the suffix, or the beginning of the suffix.
truncate_with_suffix(text, max) ==
    IF Bytes(text) <= max THEN [Unlimited EXCEPT !.kind = "message", !.stdout = text,
                                                 !.length = Bytes(text)]
    ELSE LET suffix == Least(SuffixLength, max)
             prefix == truncate_to_boundary(text, max - suffix)
         IN [Unlimited EXCEPT !.kind = "cut message", !.stdout = prefix,
                              !.length = Bytes(prefix) + suffix]

\* Of a JSON text, which is no JSON any more.
CutJson(length) ==
    [Unlimited EXCEPT !.kind = "cut json", !.length = Least(length, max_bytes)]

JsonContent(kind, out, err, base) ==
    [kind |-> kind, stdout |-> out, stderr |-> err, length |-> base + Json(out) + Json(err)]

-----------------------------------------------------------------------------
(* truncate_json_tool_output *)

Give(value) ==
    content' = value /\ UNCHANGED <<limitGiven, stdout_budget, stderr_budget, round, wasted>>

Begin == content = Unlimited /\ round = 0

whole == JsonContent("whole", stdout, stderr, BaseLength - MarkLength)

\* Final::Message, or a JSON without outputs.
MessageIsGiven == Begin /\ stderr = <<>> /\ Give(truncate_with_suffix(stdout, max_bytes))

WholeIsGiven == Begin /\ whole.length <= max_bytes /\ Give(whole)

BaseIsCut ==
    Begin /\ whole.length > max_bytes /\ BaseLength >= max_bytes /\ Give(CutJson(BaseLength))

\* In proportion to the outputs; what the division leaves goes to stderr.
Budgets ==
    LET available == max_bytes - BaseLength
        total == Bytes(stdout) + Bytes(stderr)
    IN
    /\ Begin /\ whole.length > max_bytes /\ BaseLength < max_bytes
    /\ round' = 1
    /\ stdout_budget' = IF total = 0 THEN 0 ELSE IF stderr = <<>> THEN available
                        ELSE (available * Bytes(stdout)) \div total
    /\ stderr_budget' = IF total = 0 \/ stderr = <<>> THEN 0
                        ELSE Saturating(available, stdout_budget')
    /\ UNCHANGED <<limitGiven, content, wasted>>

shortened ==
    JsonContent("truncated", truncate_to_boundary(stdout, stdout_budget),
                              truncate_to_boundary(stderr, stderr_budget), BaseLength)

Looking == content = Unlimited /\ round > 0

AttemptFits == Looking /\ shortened.length <= max_bytes /\ Give(shortened)

\* Mutant of Reduced: always the first.
ReducedStdout(overshoot) ==
    /\ stdout_budget' = Saturating(stdout_budget, overshoot)
    /\ UNCHANGED stderr_budget
\* The larger budget, by all that is too much.
Reduced(overshoot) ==
    IF stdout_budget >= stderr_budget
    THEN stdout_budget' = Saturating(stdout_budget, overshoot) /\ UNCHANGED stderr_budget
    ELSE stderr_budget' = Saturating(stderr_budget, overshoot) /\ UNCHANGED stdout_budget

AttemptIsTooLong ==
    /\ Looking /\ shortened.length > max_bytes
    /\ IF round = 5 \/ (stdout_budget = 0 /\ stderr_budget = 0)
       THEN Give(CutJson(shortened.length))
       ELSE /\ Reduced(shortened.length - max_bytes) /\ round' = round + 1
            /\ wasted' = (wasted \/ (stdout_budget' < stdout_budget
                                       /\ stdout_budget > Bytes(shortened.stdout))
                                 \/ (stderr_budget' < stderr_budget
                                       /\ stderr_budget > Bytes(shortened.stderr)))
            /\ UNCHANGED <<limitGiven, content>>

LimitNext ==
    MessageIsGiven \/ WholeIsGiven \/ BaseIsCut \/ Budgets \/ AttemptFits \/ AttemptIsTooLong

LimitSpec == LimitInit /\ [][LimitNext]_limitVars

-----------------------------------------------------------------------------
(* Properties *)

\* What the model gets is never longer than the limit and its outputs are prefixes of the
\* outputs.  It is JSON whenever the JSON without the outputs fits, however many characters must
\* be escaped, unless a round took bytes from a budget that its output did not use: five such
\* rounds change nothing, and the text is cut in the middle of the JSON
\* (truncate_json_tool_output).
OutputIsCutToFit ==
    content # Unlimited =>
       /\ content.length <= max_bytes
       /\ IsPrefix(content.stdout, stdout) /\ IsPrefix(content.stderr, stderr)
       /\ content.kind = "cut json" => BaseLength >= max_bytes \/ wasted
       /\ content.kind \in {"whole", "message"} =>
             content.stdout = stdout /\ content.stderr = stderr
=============================================================================
