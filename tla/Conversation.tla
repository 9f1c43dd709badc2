----------------------------- MODULE Conversation -----------------------------
(****************************************************************************)
(* The agent's conversation with a model (src/agent.rs): the history its    *)
(* clones share, what a request makes of it, the loop that asks for a       *)
(* combo's reply, and the contexts that detached tasks bring up to date.    *)
(****************************************************************************)
EXTENDS Naturals, Sequences, SequencesExt, SequenceFilters

CONSTANTS
    ProviderLists,      \* sequences of [name, models, options]
    Models,             \* what the user may select; None for the default
    NoModel,
    combo_reply_retries,
    MaxHistory,         \* bound: messages of the history
    Responses,          \* blocks of the responses looked at
    MaxUpdates          \* bound: updates of the context before they ran

BlockKinds == {"text", "thinking", "tool"}

ASSUME ConversationAssumption ==
    /\ NoModel \in Models /\ combo_reply_retries \in Nat /\ MaxHistory \in Nat
    /\ Responses \subseteq Seq(BlockKinds)

VARIABLES
    providers,
    agent_messages,             \* Arc<Mutex<Vec<Message>>>
    thinking_cleanup_pending,
    request,                    \* the request in flight
    sent_messages,              \* messages of the last request
    replied,                    \* tool uses returned as replies
    fields,                     \* the agent's own settings
    combo_context,              \* what the combos run with
    updates,                    \* detached tasks that have not run yet
    overlapped                  \* fields set while an older update waited (history variable)

historyVars ==
    <<agent_messages, thinking_cleanup_pending, request, sent_messages, replied>>
contextVars      == <<fields, combo_context, updates, overlapped>>
conversationVars == <<providers, historyVars, contextVars>>

NoRequest == [op |-> "none"]
UserMessage      == [role |-> "user", blocks |-> <<"text">>, answers |-> <<>>]
Ok(id)    == [UserMessage EXCEPT !.answers = id]
Assistant_(blocks) == [role |-> "assistant", blocks |-> blocks, answers |-> <<>>]

ConversationInit ==
    /\ providers \in ProviderLists
    /\ agent_messages = <<>> /\ thinking_cleanup_pending = FALSE
    /\ request = NoRequest /\ sent_messages = <<>> /\ replied = {}
    /\ fields = [model_override |-> NoModel, thinking_enabled |-> FALSE]
    /\ combo_context = fields /\ updates = <<>> /\ overlapped = {}

-----------------------------------------------------------------------------
(* The provider and its options *)

model == fields.model_override

Named(p)    == p.name = model \/ model \in ToSet(p.models)
Wildcard(p) == p.models = <<>>

\* 0 when no provider supports the model.
select_provider_index ==
    LET first(Test(_)) == SelectInSeq(providers, Test) IN
    IF model = NoModel THEN 1
    ELSE IF first(Named) # 0 THEN first(Named) ELSE first(Wildcard)

options == providers[select_provider_index].options

use_tool_choice_fallback == options.disable_tool_choice /\ options.tool_choice_fallback

-----------------------------------------------------------------------------
(* What is sent of the history *)

\* Mutant of strip_thinking_block: a message with thinking is left out.
strip_thinking_message(message) ==
    IF "thinking" \in ToSet(message.blocks) THEN [message EXCEPT !.blocks = <<>>] ELSE message

strip_thinking_block(message) ==
    [message EXCEPT !.blocks = Excluding(@, {"thinking"})]

\* A message that has nothing else is left out.
strip_thinking_blocks(msgs) ==
    LET stripped == [n \in DOMAIN msgs |-> strip_thinking_block(msgs[n])]
    IN Excluding(stripped, {message \in ToSet(stripped) : message.blocks = <<>>})

ensure_thinking_blocks(msgs) ==
    [n \in DOMAIN msgs |->
       LET blocks == msgs[n].blocks IN
       IF msgs[n].role = "assistant" /\ "tool" \in ToSet(blocks) /\ "thinking" \notin ToSet(blocks)
       THEN [msgs[n] EXCEPT !.blocks = <<"thinking">> \o @] ELSE msgs[n]]

prepare_messages_for_request(msgs) ==
    LET mode == options.thinking_blocks
        kept == IF \/ mode = "drop_always"
                   \/ mode = "drop_after_turn" /\ thinking_cleanup_pending
                THEN strip_thinking_blocks(msgs) ELSE msgs
    IN IF options.ensure_toolcall_thinking /\ mode # "drop_always"
       THEN ensure_thinking_blocks(kept) ELSE kept

\* The history is extended, and a request made of it.
SendRequest(msgs) ==
    /\ agent_messages' = msgs
    /\ sent_messages' = prepare_messages_for_request(msgs)
    /\ thinking_cleanup_pending' =
          (thinking_cleanup_pending /\ options.thinking_blocks = "keep")

mark_thinking_cleanup_pending(reason) ==
    thinking_cleanup_pending' = (thinking_cleanup_pending \/ reason = "end_turn")

Received(blocks) ==
    IF blocks = <<>> THEN agent_messages ELSE Append(agent_messages, Assistant_(blocks))

-----------------------------------------------------------------------------
(* Requests: nothing is changed when no provider supports the model *)

\* bound: no request reads the context, so updates that overlap are looked at before the first
\* message, and a request starts when the updates ran.
Settled == request = NoRequest /\ updates = <<>> /\ overlapped = {}

Ready(room) ==
    /\ Settled
    /\ select_provider_index # 0 /\ Len(agent_messages) + room <= MaxHistory

\* The caller's next message (append_message), not sent_messages yet.
AppendMessage ==
    /\ Settled /\ Len(agent_messages) < MaxHistory
    /\ agent_messages' = Append(agent_messages, UserMessage)
    /\ UNCHANGED <<providers, thinking_cleanup_pending, request, sent_messages, replied, contextVars>>

\* chat, chat_stream
Chat ==
    /\ Ready(2) /\ SendRequest(Append(agent_messages, UserMessage)) /\ request' = [op |-> "chat"]
    /\ UNCHANGED <<providers, replied, contextVars>>

\* chat_with_history, chat_stream_with_history: the callers append a message before.
ChatWithHistory ==
    /\ Ready(1) /\ agent_messages # <<>> /\ Last(agent_messages).role = "user"
    /\ SendRequest(agent_messages) /\ request' = [op |-> "chat"]
    /\ UNCHANGED <<providers, replied, contextVars>>

\* build_chat_response_from_blocks
ChatResponds(blocks, reason) ==
    /\ request.op = "chat"
    /\ agent_messages' = Received(blocks) /\ mark_thinking_cleanup_pending(reason)
    /\ request' = NoRequest
    /\ UNCHANGED <<providers, sent_messages, replied, contextVars>>

\* Not without the reply tool, and not when nothing would make the model use it.
ReplyPrompt ==
    /\ Ready(3) /\ agent_messages # <<>> /\ Last(agent_messages).role = "user"
    /\ ~options.disable_tools
    /\ options.disable_tool_choice => options.tool_choice_fallback
    /\ SendRequest(IF use_tool_choice_fallback THEN Append(agent_messages, UserMessage)
                   ELSE agent_messages)
    /\ request' = [op |-> "reply", attempt |-> 0]
    /\ UNCHANGED <<providers, replied, contextVars>>

\* The history was prepared for it already.
ReplyIsRefused ==
    /\ Ready(0) /\ ~options.disable_tools
    /\ options.disable_tool_choice /\ ~options.tool_choice_fallback
    /\ thinking_cleanup_pending' =
          (thinking_cleanup_pending /\ options.thinking_blocks = "keep")
    /\ UNCHANGED <<providers, agent_messages, request, sent_messages, replied, contextVars>>

\* Mutant of answered_use: the result is for the first of several uses.
first_reply_use(blocks) == SelectInSeq(blocks, LAMBDA block : block = "tool")
\* The loop over the blocks keeps the last.
reply_tool_use(blocks)  == SelectLastInSeq(blocks, LAMBDA block : block = "tool")
answered_use(blocks)    == reply_tool_use(blocks)

ReplyResponds(blocks, reason) ==
    LET use == reply_tool_use(blocks)
        at  == Len(agent_messages) + 1
    IN
    /\ request.op = "reply" /\ use # 0
    /\ agent_messages' = Append(Received(blocks), Ok(<<at, answered_use(blocks)>>))
    /\ replied' = replied \cup {<<at, use>>}
    /\ mark_thinking_cleanup_pending(reason)
    /\ request' = NoRequest
    /\ UNCHANGED <<providers, sent_messages, contextVars>>

\* Asked again, with a message that says so.
ReplyIsRetried(blocks) ==
    /\ request.op = "reply" /\ reply_tool_use(blocks) = 0
    /\ request.attempt < combo_reply_retries /\ Len(agent_messages) + 4 <= MaxHistory
    /\ SendRequest(Append(Received(blocks), UserMessage))
    /\ request' = [request EXCEPT !.attempt = @ + 1]
    /\ UNCHANGED <<providers, replied, contextVars>>

ReplyIsMissing(blocks) ==
    /\ request.op = "reply" /\ reply_tool_use(blocks) = 0
    /\ request.attempt >= combo_reply_retries
    /\ agent_messages' = Received(blocks) /\ request' = NoRequest
    /\ UNCHANGED <<providers, thinking_cleanup_pending, sent_messages, replied, contextVars>>

\* An error, a cancel, or a caller that drops the future: the prompts stay.
RequestIsLost ==
    /\ request # NoRequest /\ request' = NoRequest
    /\ UNCHANGED <<providers, agent_messages, thinking_cleanup_pending, sent_messages, replied,
                   contextVars>>

-----------------------------------------------------------------------------
(* The context of the combos *)

\* set_model_override, set_thinking_enabled: at once in the agent, by a task in the context.
Set(field, value) ==
    /\ request = NoRequest /\ Len(updates) < MaxUpdates
    /\ agent_messages = <<>> \/ (updates = <<>> /\ field = "model_override")
    /\ fields' = [fields EXCEPT ![field] = value]
    /\ updates' = Append(updates, [field |-> field, value |-> value])
    /\ overlapped' = IF \E n \in DOMAIN updates : updates[n].field = field
                     THEN overlapped \cup {field} ELSE overlapped
    /\ UNCHANGED <<providers, historyVars, combo_context>>

\* Mutant of update_combo_context: one field is taken from what it was.
update_only_model(update) ==
    IF update.field = "model_override" THEN [combo_context EXCEPT !.model_override = update.value]
    ELSE combo_context
update_combo_context(update) == [combo_context EXCEPT ![update.field] = update.value]

\* The runtime may run the tasks in any order.
UpdateRuns(n) ==
    /\ n \in DOMAIN updates
    /\ combo_context' = update_combo_context(updates[n])
    /\ updates' = RemoveAt(updates, n)
    /\ UNCHANGED <<providers, historyVars, fields, overlapped>>

ConversationNext ==
    \/ AppendMessage \/ Chat \/ ChatWithHistory \/ ReplyPrompt \/ ReplyIsRefused
    \/ RequestIsLost
    \/ \E blocks \in Responses : \E reason \in {"end_turn", "tool_use"} :
          ChatResponds(blocks, reason) \/ ReplyResponds(blocks, reason)
    \/ \E blocks \in Responses : ReplyIsRetried(blocks) \/ ReplyIsMissing(blocks)
    \/ \E m \in Models : Set("model_override", m)
    \/ \E on \in BOOLEAN : Set("thinking_enabled", on)
    \/ \E n \in 1..MaxUpdates : UpdateRuns(n)

ConversationSpec == ConversationInit /\ [][ConversationNext]_conversationVars

-----------------------------------------------------------------------------
(* Properties *)

Said(msgs) ==
    FlattenSeq([n \in DOMAIN msgs |-> Excluding(msgs[n].blocks, {"thinking"})])

\* A request says what the history says, in its order, and leaves out thinking alone; it ends
\* with a message of the user, and a result stands right after its tool use.  A reply the
\* caller got has its result, and no other use of the reply tool has one
\* (prepare_messages_for_request, reply_prompt_with_thinking).
RequestsAreWhole ==
    /\ request # NoRequest =>
          Said(sent_messages) = Said(agent_messages) /\ Last(sent_messages).role = "user"
    /\ \A n \in DOMAIN sent_messages : sent_messages[n].answers # <<>> =>
          /\ n > 1 /\ sent_messages[n - 1].role = "assistant"
          /\ "tool" \in ToSet(sent_messages[n - 1].blocks)
    /\ {agent_messages[n].answers : n \in DOMAIN agent_messages} \ {<<>>} = replied
    /\ \A id \in replied : agent_messages[id[1] + 1].answers = id

\* What the combos run with follows the agent once the detached tasks have run, unless a
\* setting was changed again before the task of the older change had run: the tasks may then
\* run in the opposite order, and the older value stays (update_combo_context).
ContextFollowsTheAgent ==
    \A field \in DOMAIN fields :
       \/ field \in overlapped \/ combo_context[field] = fields[field]
       \/ \E n \in DOMAIN updates : updates[n].field = field

\* What the agent sends and what it tells the combos are what it was given.
ConversationIsKept ==
    /\ RequestsAreWhole
    /\ ContextFollowsTheAgent
=============================================================================
