----------------------------- MODULE Transcripts -----------------------------
(****************************************************************************)
(* The transcript view of the chat (chat.rs): what the agent was told and   *)
(* said, and behind the calls of combos and subagents the transcripts of    *)
(* those, which are stored as the runs report them while the user reads.    *)
(* The view is a copy: it is built when something is opened, and again when *)
(* what is stored concerns it.                                              *)
(*                                                                          *)
(* A message is the sequence of its tool uses: [tool, id, name].            *)
(****************************************************************************)
EXTENDS Naturals, Sequences, SequencesExt

CONSTANTS
    MessagesSeen,       \* messages of the agent, of combos and of subagents
    MaxSaid,            \* bound: messages of the agent
    MaxReported,        \* bound: messages of a run
    MaxScopes           \* bound: transcripts opened one from the other

ASSUME TranscriptAssumption == MaxSaid \in Nat /\ MaxReported \in Nat /\ MaxScopes \in Nat

VARIABLES
    view,               \* "Chat" or "Transcript"
    scopes,             \* transcript_scopes: [kind, id, name]
    shown_messages,              \* the messages of the view, with the link of each
    selected,           \* the message in focus, 0 for none
    transcripts,        \* combo_transcripts and subagent_transcripts, by kind
    agent_said             \* the messages of the agent

transcriptVars == <<view, scopes, shown_messages, selected, transcripts, agent_said>>

Kinds == {"combo", "subagent"}
Nowhere == [kind |-> "none", id |-> "", name |-> ""]

TranscriptInit ==
    /\ view = "Chat" /\ scopes = <<>> /\ shown_messages = <<>> /\ selected = 0
    /\ transcripts = [kind \in Kinds |-> <<>>]
    /\ agent_said = <<>>

Stored(kept, kind, id) == SelectSeq(kept[kind], LAMBDA entry : entry.id = id)

-----------------------------------------------------------------------------
(* Links *)

combo_name_from_bash_tool_use(kept, use) ==
    LET own == Stored(kept, "combo", use.id)
    IN IF own = <<>> THEN use.name ELSE own[1].name

\* A combo run by bash is looked up by its name: the first one that is stored.
BashTarget(kept, use) ==
    LET name == combo_name_from_bash_tool_use(kept, use)
        named == SelectSeq(kept["combo"], LAMBDA entry : entry.name = name)
    IN [kind |-> "combo", id |-> IF named = <<>> THEN use.id ELSE named[1].id, name |-> name]

\* build_transcript_link_map, at a tool use
Target(kept, use) ==
    CASE use.tool = "run_combo" -> [kind |-> "combo", id |-> use.id, name |-> use.name]
      [] use.tool = "run_task"  -> [kind |-> "subagent", id |-> use.id, name |-> use.name]
      [] use.tool = "bash"      -> BashTarget(kept, use)

\* A message has one link, of its first tool use that has one.
message_link_target(kept, message) ==
    IF message = <<>> THEN Nowhere ELSE Target(kept, message[1])

\* append_transcript_messages
Linked(kept, messages) ==
    [i \in DOMAIN messages |->
        [of |-> messages[i], link |-> message_link_target(kept, messages[i])]]

-----------------------------------------------------------------------------
(* The view *)

NotFound(scope) == <<[of |-> <<scope>>, link |-> Nowhere]>>

BuildScope(kept, scope) ==
    LET entries == Stored(kept, scope.kind, scope.id)
    IN IF entries = <<>> THEN NotFound(scope) ELSE Linked(kept, entries[1].messages)

\* rebuild_transcript_view, with ensure_transcript_focus: the list was cleared.
BuiltAgain(path, kept) ==
    /\ shown_messages' = IF path = <<>> THEN Linked(kept, agent_said) ELSE BuildScope(kept, Last(path))
    /\ selected' = IF shown_messages' = <<>> THEN 0 ELSE 1

opens_transcript ==
    /\ view = "Chat"
    /\ view' = "Transcript" /\ scopes' = <<>> /\ BuiltAgain(<<>>, transcripts)
    /\ UNCHANGED <<transcripts, agent_said>>

back_or_close_transcript ==
    /\ view = "Transcript"
    /\ IF scopes = <<>>
       THEN view' = "Chat" /\ UNCHANGED <<scopes, shown_messages, selected>>
       ELSE scopes' = Front(scopes) /\ BuiltAgain(scopes', transcripts) /\ UNCHANGED view
    /\ UNCHANGED <<transcripts, agent_said>>

open_transcript_link ==
    /\ view = "Transcript" /\ selected # 0 /\ shown_messages[selected].link # Nowhere
    /\ Len(scopes) < MaxScopes
    /\ scopes' = Append(scopes, shown_messages[selected].link) /\ BuiltAgain(scopes', transcripts)
    /\ UNCHANGED <<view, transcripts, agent_said>>

move_transcript_selection ==
    /\ view = "Transcript" /\ selected # 0
    /\ selected' \in {selected - 1, selected + 1} \cap DOMAIN shown_messages
    /\ UNCHANGED <<view, scopes, shown_messages, transcripts, agent_said>>

-----------------------------------------------------------------------------
(* What the others do meanwhile *)

\* Mutant of ShouldRefresh: only the root is built again.
RefreshesRoot(kind, id) == view = "Transcript" /\ scopes = <<>>

ShouldRefresh(kind, id) ==
    /\ view = "Transcript"
    /\ scopes # <<>> => Last(scopes).kind = kind /\ Last(scopes).id = id

\* The entry of this id is replaced, name and messages; a new one is the last.
Updated(entries, entry) ==
    IF \E i \in DOMAIN entries : entries[i].id = entry.id
    THEN [i \in DOMAIN entries |-> IF entries[i].id = entry.id THEN entry ELSE entries[i]]
    ELSE Append(entries, entry)

KindOf(use) == IF use.tool = "run_task" THEN "subagent" ELSE "combo"

\* store_combo_transcript and store_subagent_transcript; a run reports all it has so far.
StoresTranscript(use, messages) ==
    LET kind == KindOf(use) IN
    /\ messages # <<>>
    /\ transcripts' = [transcripts EXCEPT ![kind] =
          Updated(@, [id |-> use.id, name |-> use.name, messages |-> messages])]
    /\ IF ShouldRefresh(kind, use.id) THEN BuiltAgain(scopes, transcripts')
       ELSE UNCHANGED <<shown_messages, selected>>
    /\ UNCHANGED <<view, scopes, agent_said>>

RunReports ==
    \E use \in UNION {Range(message) : message \in MessagesSeen}, next \in MessagesSeen :
       LET before == Stored(transcripts, KindOf(use), use.id)
           said == IF before = <<>> THEN <<>> ELSE before[1].messages
       IN /\ Len(said) < MaxReported
          /\ StoresTranscript(use, Append(said, next))

\* The agent goes on, and nobody builds the view again.
AgentSays ==
    /\ Len(agent_said) < MaxSaid
    /\ \E message \in MessagesSeen : agent_said' = Append(agent_said, message)
    /\ UNCHANGED <<view, scopes, shown_messages, selected, transcripts>>

\* new_session forgets the stored transcripts, not the messages of the agent.
NewSessionForgets ==
    /\ view = "Chat"
    /\ transcripts' = [kind \in Kinds |-> <<>>]
    /\ UNCHANGED <<view, scopes, shown_messages, selected, agent_said>>

TranscriptNext ==
    \/ opens_transcript \/ back_or_close_transcript \/ open_transcript_link
    \/ move_transcript_selection \/ RunReports \/ AgentSays \/ NewSessionForgets

TranscriptSpec == TranscriptInit /\ [][TranscriptNext]_transcriptVars

-----------------------------------------------------------------------------
Messages(list) == [i \in DOMAIN list |-> list[i].of]

\* What is read is what is stored: while a run reports, the transcript that is open follows
\* it, and one that was not there yet appears in place of the note that it was not found.
\* The root is behind the agent, never ahead of it nor different.
OpenTranscriptIsCurrent ==
    view = "Transcript" =>
        IF scopes = <<>> THEN IsPrefix(Messages(shown_messages), agent_said)
        ELSE Messages(shown_messages) = Messages(BuildScope(transcripts, Last(scopes)))

\* Enter always has a message to look at, when there is one.
SelectionIsShown == view = "Transcript" => (selected = 0 <=> shown_messages = <<>>) /\ selected <= Len(shown_messages)

\* A link leads to a transcript that was reported for it or for a run of its name, or there
\* is none yet: never to a run of another kind or name.
LinksLeadToTheirKind ==
    \A i \in DOMAIN shown_messages :
        LET link == shown_messages[i].link IN
        link # Nowhere =>
            \A entry \in Range(Stored(transcripts, link.kind, link.id)) : entry.name = link.name

TranscriptFollowsTheRuns ==
    /\ OpenTranscriptIsCurrent
    /\ SelectionIsShown
    /\ LinksLeadToTheirKind
=============================================================================
