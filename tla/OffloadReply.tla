------------------------------ MODULE OffloadReply ------------------------------
(****************************************************************************)
(* How the runner's model answers an ask with coco reply                    *)
(* (src/combo/runner.rs): in turns, whose tools it runs itself, when the    *)
(* ask is interactive; in one turn that may be retried when it is not.      *)
(* A tool use is what the runner makes of it: a bash command that is coco   *)
(* reply, allowlisted (safe) or not (unsafe), one whose input is invalid,   *)
(* or another tool.                                                         *)
(****************************************************************************)
EXTENDS Naturals, Sequences, SequencesExt

CONSTANTS
    OffloadResponses,   \* tool uses of the responses looked at
    max_turns,          \* 50 in the code
    NudgeLimit,         \* AUTO_IMPLICIT_NUDGE_LIMIT, 2 in the code
    OffloadRetries,     \* combo_reply_retries
    MaxFeedback         \* bound: messages of the user that re-enter an interactive ask

UseKinds == {"coco", "safe", "unsafe", "invalid", "tool"}

ASSUME OffloadAssumption ==
    /\ OffloadResponses \subseteq Seq(UseKinds)
    /\ max_turns \in Nat /\ NudgeLimit \in Nat /\ OffloadRetries \in Nat /\ MaxFeedback \in Nat

VARIABLES
    interactive,
    reply_at,           \* "turn": about to ask the model; "tools", "retry", "done"
    reply_outcome,      \* why it is done
    reply_history,      \* messages of the reply agent since the prompt
    turn, empty_tool_use_turns, reply_attempt, feedback,
    next_use, tool_results,
    stop_token,         \* the cancel token
    announced, ended, ran   \* tool uses: events emitted, and what was executed

loopVars    == <<interactive, turn, empty_tool_use_turns, reply_attempt, feedback>>
useVars    == <<next_use, tool_results, announced, ended, ran>>
offloadVars == <<loopVars, useVars, reply_at, reply_outcome, reply_history, stop_token>>

FromUser       == [who |-> "user", uses |-> <<>>, ids |-> <<>>]
FromModel(u)   == [FromUser EXCEPT !.who = "model", !.uses = u]
ToolResults(s) == [FromUser EXCEPT !.ids = s]

OffloadInit ==
    /\ interactive \in BOOLEAN
    /\ reply_at = "turn" /\ reply_outcome = "none"
    /\ reply_history = <<FromUser>>             \* the directive
    /\ turn = 0 /\ empty_tool_use_turns = 0 /\ reply_attempt = 0 /\ feedback = 0
    /\ next_use = 1 /\ tool_results = <<>> /\ stop_token = FALSE
    /\ announced = {} /\ ended = {} /\ ran = {}

-----------------------------------------------------------------------------
(* Both kinds *)

Leave(outcome) == reply_at' = "done" /\ reply_outcome' = outcome

Push(msgs) == reply_history' = reply_history \o msgs

\* Looked at before every turn, and by the stream of the response.
TurnSeesCancel ==
    /\ reply_at = "turn" /\ stop_token /\ (interactive => turn < max_turns)
    /\ Leave("cancelled")
    /\ UNCHANGED <<loopVars, useVars, reply_history, stop_token>>

ChatIsLost ==
    /\ reply_at = "turn" /\ Leave("chat failed")
    /\ UNCHANGED <<loopVars, useVars, reply_history, stop_token>>

UserCancelsAsk ==
    /\ ~stop_token /\ reply_at # "done" /\ stop_token' = TRUE
    /\ UNCHANGED <<loopVars, useVars, reply_at, reply_outcome, reply_history>>

uses       == Last(reply_history).uses
id         == <<Len(reply_history), next_use>>
kind       == uses[next_use]

\* Announced, and its end announced, or not.
Announce      == announced' = announced \cup {id}
AnnounceEnd   == ended' = ended \cup {id}
Executes(run) == ran' = IF run THEN ran \cup {[id |-> id, kind |-> kind]} ELSE ran

-----------------------------------------------------------------------------
(* handle_interactive_combo_reply *)

TooManyTurns ==
    /\ interactive /\ reply_at = "turn" /\ turn = max_turns
    /\ Leave("exceeded max turns")
    /\ UNCHANGED <<loopVars, useVars, reply_history, stop_token>>

Turn(response) ==
    /\ interactive /\ reply_at = "turn" /\ turn < max_turns
    /\ turn' = turn + 1
    /\ IF response = <<>>
       THEN \* an empty response is not kept; a reminder is, and after too many the user is asked
            /\ Push(<<FromUser>>)
            /\ empty_tool_use_turns' = empty_tool_use_turns + 1
            /\ IF empty_tool_use_turns' > NudgeLimit THEN Leave("paused")
               ELSE UNCHANGED <<reply_at, reply_outcome>>
            /\ UNCHANGED <<next_use, tool_results>>
       ELSE /\ Push(<<FromModel(response)>>) /\ empty_tool_use_turns' = 0
            /\ next_use' = 1 /\ tool_results' = <<>>
            /\ reply_at' = "tools" /\ UNCHANGED reply_outcome
    /\ UNCHANGED <<interactive, reply_attempt, feedback, announced, ended, ran, stop_token>>

Handles(k) == interactive /\ reply_at = "tools" /\ next_use <= Len(uses) /\ kind = k

InputIsInvalid ==
    /\ Handles("invalid") /\ Leave("invalid input")
    /\ UNCHANGED <<loopVars, useVars, reply_history, stop_token>>

\* The user grants it or not in the combo's widget: nothing more of this turn is handled, and
\* the results of the tools before it are dropped.
ReplyIsProposed ==
    /\ Handles("coco") /\ Announce /\ Leave("proposed")
    /\ UNCHANGED <<loopVars, next_use, tool_results, ended, ran, reply_history, stop_token>>

\* Mutant of Answered: a command that is not allowlisted gets no result.
AnsweredIfRun(run) ==
    /\ Announce /\ AnnounceEnd /\ Executes(run)
    /\ tool_results' = IF run THEN Append(tool_results, id) ELSE tool_results
    /\ next_use' = next_use + 1
Answered(run) ==
    /\ Announce /\ AnnounceEnd /\ Executes(run)
    /\ tool_results' = Append(tool_results, id)
    /\ next_use' = next_use + 1

UnsafeIsRejected ==
    /\ Handles("unsafe") /\ Answered(FALSE)
    /\ UNCHANGED <<loopVars, reply_at, reply_outcome, reply_history, stop_token>>

SafeRuns ==
    /\ Handles("safe")
    /\ IF stop_token
       THEN \* killed: no result of it
            /\ Announce /\ Executes(TRUE) /\ Leave("cancelled")
            /\ UNCHANGED <<next_use, tool_results, ended>>
       ELSE Answered(TRUE) /\ UNCHANGED <<reply_at, reply_outcome>>
    /\ UNCHANGED <<loopVars, reply_history, stop_token>>

\* execute_interactive_tool_use: a permission it would need, a cancel and an error are results.
ToolRuns ==
    /\ Handles("tool")
    /\ \E run \in {TRUE, FALSE} : Answered(run)
    /\ UNCHANGED <<loopVars, reply_at, reply_outcome, reply_history, stop_token>>

\* The results in one message, then a reminder or the guidance.
TurnIsOver ==
    /\ interactive /\ reply_at = "tools" /\ next_use > Len(uses)
    /\ Push(<<ToolResults(tool_results), FromUser>>)
    /\ reply_at' = "turn"
    /\ UNCHANGED <<loopVars, useVars, reply_outcome, stop_token>>

\* coco tell of the user, or a rejected reply: the loop begins anew, without the directive.
FeedbackArrives ==
    /\ interactive /\ reply_outcome \in {"paused", "proposed"} /\ feedback < MaxFeedback
    /\ feedback' = feedback + 1 /\ Push(<<FromUser>>)
    /\ turn' = 0 /\ empty_tool_use_turns' = 0
    /\ reply_at' = "turn" /\ reply_outcome' = "none"
    /\ UNCHANGED <<interactive, reply_attempt, useVars, stop_token>>

-----------------------------------------------------------------------------
(* handle_offload_combo_reply_with_retry *)

\* The first bash command of a response; 0: there is none.
FirstBash(response) == SelectInSeq(response, LAMBDA k : k # "tool")

Offload(response) ==
    /\ ~interactive /\ reply_at = "turn"
    /\ IF response = <<>> THEN UNCHANGED reply_history ELSE Push(<<FromModel(response)>>)
    /\ next_use' = FirstBash(response)
    /\ reply_at' = IF next_use' = 0 \/ response[next_use'] = "invalid" THEN "retry" ELSE "tools"
    /\ UNCHANGED <<loopVars, tool_results, announced, ended, ran, reply_outcome, stop_token>>

OffloadHandles == ~interactive /\ reply_at = "tools"

OffloadIsRejected ==
    /\ OffloadHandles /\ kind = "unsafe"
    /\ Announce /\ AnnounceEnd
    /\ Push(<<ToolResults(<<id>>), FromUser>>) /\ reply_at' = "retry"
    /\ UNCHANGED <<loopVars, next_use, tool_results, ran, reply_outcome, stop_token>>

\* The reply is sent, or another command ran: then it is asked again.
OffloadRuns ==
    /\ OffloadHandles /\ kind \in {"safe", "coco"}
    /\ Announce /\ Executes(TRUE)
    /\ IF stop_token
       THEN Leave("cancelled") /\ UNCHANGED <<ended, reply_history>>
       ELSE /\ AnnounceEnd
            /\ IF kind = "coco"
               THEN Push(<<ToolResults(<<id>>)>>) /\ Leave("replied")
               ELSE /\ Push(<<ToolResults(<<id>>), FromUser>>)
                    /\ reply_at' = "retry" /\ UNCHANGED reply_outcome
    /\ UNCHANGED <<loopVars, next_use, tool_results, stop_token>>

\* should_retry: everything but a cancel and a failed request.
OffloadIsRetried ==
    /\ reply_at = "retry"
    /\ IF reply_attempt >= OffloadRetries
       THEN Leave("no reply") /\ UNCHANGED <<reply_attempt, reply_history>>
       ELSE IF stop_token
       THEN Leave("cancelled") /\ UNCHANGED <<reply_attempt, reply_history>>
       ELSE /\ reply_attempt' = reply_attempt + 1 /\ Push(<<FromUser>>)
            /\ reply_at' = "turn" /\ UNCHANGED reply_outcome
    /\ UNCHANGED <<interactive, turn, empty_tool_use_turns, feedback, useVars, stop_token>>

OffloadNext ==
    \/ TurnSeesCancel \/ ChatIsLost \/ UserCancelsAsk \/ TooManyTurns
    \/ \E response \in OffloadResponses : Turn(response) \/ Offload(response)
    \/ InputIsInvalid \/ ReplyIsProposed \/ UnsafeIsRejected \/ SafeRuns \/ ToolRuns
    \/ TurnIsOver \/ FeedbackArrives
    \/ OffloadIsRejected \/ OffloadRuns \/ OffloadIsRetried

OffloadSpec == OffloadInit /\ [][OffloadNext]_offloadVars

-----------------------------------------------------------------------------
(* Properties *)

IdsOf(n) == [u \in DOMAIN reply_history[n].uses |-> <<n, u>>]

\* The uses of a response the model is told about in the next message: all of them, unless one
\* is a reply the user decides on; outside of interactive asks the first bash command.
ToldAbout(n) ==
    IF interactive
    THEN IF "coco" \in ToSet(reply_history[n].uses) THEN <<>> ELSE IdsOf(n)
    ELSE LET first == FirstBash(reply_history[n].uses)
         IN IF first = 0 \/ reply_history[n].uses[first] = "invalid" THEN <<>>
            ELSE << <<n, first>> >>

\* When the model is asked again it was told what became of its tool uses, except that a turn
\* with a proposed reply is never answered, not even for the tools that ran before the reply,
\* and that an ask that is not interactive answers one command only.  What the widget was
\* told of has ended, unless the user decides on it or cancelled; and nothing but allowlisted
\* commands, tools, and the reply of an ask that is not interactive was run
\* (handle_interactive_combo_reply, handle_offload_combo_reply).
ToolUsesAreAccountedFor ==
    /\ reply_at = "turn" => \A n \in DOMAIN reply_history :
          reply_history[n].who = "model" => reply_history[n + 1].ids = ToldAbout(n)
    /\ reply_at = "done" => \A i \in announced \ ended :
          \/ reply_outcome = "cancelled" /\ stop_token
          \/ interactive /\ reply_history[i[1]].uses[i[2]] = "coco"
    /\ \A r \in ran : r.kind \in {"safe", "tool"} \/ (r.kind = "coco" /\ ~interactive)
=============================================================================
