----------------------------- MODULE MCServices ------------------------------
(****************************************************************************)
(* Small instances of the components that meet the others only through the  *)
(* chat or the runner: each is run alone, under every order of its own      *)
(* steps; service says which, and the others stay where they begin.         *)
(****************************************************************************)
EXTENDS ModelStream, McpManager, CommandRules, CommandRun, SubagentTask, SessionStore,
        ComboRuns, ComboReply, HunkEdits, MessageText, MessageList, Conversation, OutputLimit,
        OffloadReply, ChatFocus, CommandPalette, AppLoop, Notifications,
        Transcripts, TranscriptLayout, EventStream, ToolInputs,
        ProviderMessages, Configuration

VARIABLE service

Components == {"stream", "mcp", "rules", "command", "subagent", "store", "runs", "reply",
               "hunks", "text", "list", "agent", "limit", "offload", "focus", "palette", "app",
               "notice", "transcripts", "layout", "events",
               "inputs", "provider", "config"}

-----------------------------------------------------------------------------
(* Commands and allowlists: a word is its dashes and what follows them *)

W(dashes, body) == [dashes |-> dashes, body |-> body, expansion |-> FALSE]

MCWords ==
    {W(0, <<"a">>), W(0, <<"/">>), W(0, <<"'", "/", "'">>), W(0, <<"a", "/", ".", ".">>),
     [W(0, <<"a">>) EXCEPT !.expansion = TRUE], Dash, DashDash,
     W(1, <<"f">>), W(1, <<"f", "/">>), W(1, <<"g", "f">>),
     W(2, <<"f">>), W(2, <<"f", "=", "/">>), W(2, <<"g">>)}

PathFlags(arg) == {[key |-> <<1, <<"f">>>>, arg |-> arg, path |-> TRUE],
                   [key |-> <<2, <<"f">>>>, arg |-> arg, path |-> TRUE]}

Entry(chain, flags) ==
    [chain |-> chain, flags |-> flags, allow_any |-> FALSE, allow_positional |-> TRUE,
     positional_path_from |-> 0, allow_dash |-> FALSE]

Free      == [Entry(<<>>, {}) EXCEPT !.allow_any = TRUE, !.positional_path_from = 9]
Layer(mode, entry) == [mode |-> mode, entries |-> <<entry>>]

MCLayerings ==
    {<<Layer("append", Free), Layer(mode, entry)>> :
        mode \in {"append", "override"},
        entry \in {Entry(chain, PathFlags(arg)) : chain \in {<<>>, <<W(0, <<"a">>)>>},
                                                  arg \in {"none", "required", "optional"}}
             \cup {[Entry(<<>>, {}) EXCEPT !.allow_positional = p, !.allow_dash = ~p] :
                     p \in BOOLEAN}
             \cup {[Entry(<<AnyWord>>, {}) EXCEPT !.allow_positional = FALSE],
                   [Entry(<<>>, PathFlags("required")) EXCEPT !.allow_any = TRUE]}}

-----------------------------------------------------------------------------
(* Providers and their options, responses, characters *)

CONSTANTS m1, m2

Provider(named, supports, mode, no_tools, no_choice, falls_back) ==
    [name |-> named, models |-> supports,
     options |-> [thinking_blocks |-> mode, ensure_toolcall_thinking |-> TRUE,
                  disable_tools |-> no_tools, disable_tool_choice |-> no_choice,
                  tool_choice_fallback |-> falls_back]]

P1 == Provider("p1", <<m1>>, "drop_after_turn", FALSE, TRUE, TRUE)
P2 == Provider("p2", <<>>, "drop_always", FALSE, FALSE, FALSE)
P3 == Provider("p3", <<>>, "keep", TRUE, FALSE, FALSE)
P4 == Provider("p4", <<>>, "drop_after_turn", FALSE, TRUE, FALSE)

MCProviderLists == {<<P1, P4>>, <<P1, P2>>, <<P3, P1>>}

MCResponses ==
    {<<>>, <<"thinking">>, <<"text", "tool">>, <<"thinking", "tool", "tool">>}

MCOffloadResponses ==
    {<<>>, <<"coco">>, <<"safe", "coco">>, <<"tool", "unsafe">>, <<"unsafe", "safe">>,
     <<"tool">>, <<"invalid">>}

\* Plain, escaped in JSON, and of several bytes.
MCCharacters ==
    {[bytes |-> 1, json |-> 1], [bytes |-> 1, json |-> 6], [bytes |-> 3, json |-> 3]}

\* Providers that share a model, and one that names none.
MCOffers ==
    <<[name |-> "p1", models |-> <<m1, m2>>], [name |-> "p2", models |-> <<>>],
      [name |-> "p3", models |-> <<m2>>]>>

UseOf(with, of, named) == [tool |-> with, id |-> of, name |-> named]

\* Two runs of one combo by bash, and a subagent.
MCMessages ==
    {<<UseOf("run_task", "t1", "s1"), UseOf("bash", "b2", "n1")>>, <<UseOf("bash", "b1", "n1")>>}

\* Short and long texts, and what a tool answered, as a text and as blocks.
Blocks(type, cells) ==
    {[type |-> type, lines |-> cells, signature |-> signed, id |-> 3, is_error |-> signed # 0,
      nested |-> <<>>] : signed \in {0, 4}}

MCBlocks ==
    Blocks("text", <<>>) \cup Blocks("text", <<5, 0, 2>>) \cup Blocks("thinking", <<4>>)
        \cup Blocks("tool_use", <<1, 6>>) \cup Blocks("tool_result", <<3>>)
        \cup {[given EXCEPT !.nested = <<part, part>>] :
                 given \in Blocks("tool_result", <<>>), part \in Blocks("text", <<7>>)}

MCLayoutMessages == BoundedSeq(MCBlocks, 2)

\* Bodies of events, ends of events, comments and what no client can read.
MCEventLines ==
    {<<"data:", " ", "obj", "LF">>, <<"data:", "{", "CR", "LF">>, <<"CR", "LF">>}

MCBodies ==
    {FlattenSeq(w) : w \in SeqOf(MCEventLines, 3)}
        \cup {<<"data:", "obj", "LF", "LF">> \o line \o <<"LF", "data:", "obj", "LF", "LF">> :
                 line \in {<<"data:", "[DONE]", "LF">>, <<"event:", "!", "LF">>,
                           <<"data:", "!", "LF">>, <<"event:", " ", "n", "LF">>,
                           <<"event:", "n", "LF", "data:", "LF">>, <<":", "obj", "LF">>,
                           <<"data:", "{", "LF", "data:", "}", "LF">>, <<>>}}

Schema(types) ==
    [types |-> types, properties |-> <<>>, items |-> <<>>, additional |-> <<>>,
     any_of |-> <<>>, json |-> FALSE]

MCPropertySchemas ==
    {Schema(t) : t \in {{"string"}, {"number"}, {"object"}, {"array", "number"},
                        {"string", "object"}}}
        \cup {[Schema({}) EXCEPT !.items = <<Schema({"array"})>>],
              [Schema({}) EXCEPT !.any_of = <<Schema({"number"}), Schema({"array"})>>],
              [Schema({}) EXCEPT !.properties = [q |-> Schema({"string"})]]}

MCToolSchemas ==
    {[Schema({"object"}) EXCEPT !.properties = [p1 |-> p, p2 |-> q], !.additional = <<q>>] :
        p, q \in MCPropertySchemas}

Calls_(args) == [n \in DOMAIN args |-> [id |-> n, arguments |-> args[n]]]

MCOpenAIAnswers ==
    {[reasoning |-> r, content |-> c, calls |-> Calls_(args)] :
        r \in {<<>>, <<"r">>}, c \in {<<>>, <<"a">>}, args \in {<<>>, <<"json", "broken">>}}

MCBlockAnswers ==
    {<<ThinkingPart(<<"r">>), TextPart(<<"a">>), ThinkingPart(<<"r">>), UsePart(3, "json"),
       TextPart(<<"b">>), UsePart(4, "json")>>,
     <<TextPart(<<>>)>>, <<ThinkingPart(<<"r">>)>>}

Tokens(i, o, t) == [input |-> i, output |-> o, total |-> t]

\* All at once, or what Anthropic says at the start and as the answer goes on.
MCUsageReports ==
    {<<>>, <<Tokens(4, 2, 6)>>, <<Tokens(4, 1, 5), Tokens(NoTokens, 3, NoTokens)>>,
     <<Tokens(4, NoTokens, NoTokens), Tokens(NoTokens, 3, NoTokens)>>}

\* Files of the configuration: each section with and without what it may override.
Titled(name, given) == TableOf([f \in DOMAIN given \cup {"name"} |->
                                  IF f = "name" THEN LeafOf(name) ELSE LeafOf(given[f])])
Offering(lists) == {<<>>} \cup {[providers |-> ListOf(l)] : l \in lists}
Serving(entries) ==
    {<<>>} \cup {[mcp |-> TableOf([servers |-> ListOf(<<Titled("s", e)>>)])] : e \in entries}
WithEach(these, others) ==
    {[k \in DOMAIN f \cup DOMAIN g |-> IF k \in DOMAIN f THEN f[k] ELSE g[k]] :
        f \in these, g \in others}

MCPresets(v) == LeafOf(<<[model |-> m1, options |-> [x |-> LeafOf(v)]], [model |-> m2, options |-> [y |-> LeafOf(v)]]>>)
MCShown(v) == {TableOf([k |-> LeafOf(v)]), TableOf([k |-> TableOf([l |-> LeafOf(v)])])}

\* A provider with all it needs, from v on.
Whole(name, v, given) ==
    Titled(name, [f \in {"kind", "api_key", "base_url"} \cup DOMAIN given |->
                     IF f \in DOMAIN given THEN given[f] ELSE v])

MCGlobalFiles ==
    WithEach(Offering({<<Whole("a", 1, [x |-> 1])>>,
                     <<Whole("a", 1, [x |-> 1]), Whole("b", 1, <<>>)>>,
                     <<Whole("a", 1, <<>>), Whole("a", 1, [x |-> 1])>>,
                     <<Titled("a", [kind |-> 1, x |-> 1])>>}),
           Serving({[url |-> 1], [command |-> 1, args |-> 1], [command |-> 1, env |-> 1]}))
        \cup {[ui |-> v] : v \in MCShown(1)}
        \cup {[agent |-> TableOf([agent_config_path |-> LeafOf(0)]),
               providers |-> ListOf(<<Whole("a", 1, <<>>)>>),
               model_presets |-> MCPresets(1)]}

MCWorkspaceFiles ==
    WithEach(Offering({<<Titled("b", [y |-> 2])>>,
                     <<Whole("c", 2, [x |-> 2]), Titled("a", [y |-> 2])>>,
                     <<Titled("c", [kind |-> 2]), Titled("c", [api_key |-> 2, base_url |-> 2])>>,
                     <<Titled("a", [kind |-> 2, api_key |-> 2, base_url |-> 2])>>}),
           Serving({[url |-> 2], [command |-> 2], [args |-> 2], [url |-> 2, args |-> 2]}))
        \cup {[ui |-> v] : v \in MCShown(2) \cup {LeafOf(2)}}
        \cup {[agent |-> TableOf([agent_config_path |-> LeafOf(0)]), model_presets |-> MCPresets(2)],
              [agent |-> LeafOf(2)], [agent |-> TableOf([model |-> LeafOf(2)])], [providers |-> LeafOf(2)],
              [providers |-> ListOf(<<TableOf([x |-> LeafOf(2)])>>)]}

MCAgentFiles == {[tools |-> 1], [tools |-> 2, model |-> 2]}
MCBuiltInAgent == [tools |-> 0, prompt |-> 0]
MCBuiltInPresets == <<[model |-> m1, options |-> [y |-> LeafOf(3)]], [model |-> m2, options |-> <<>>]>>
MCDefaultOptions == [x |-> LeafOf(0), y |-> LeafOf(0)]

MCSettings ==
    {[when |-> w, timeout |-> 2, max |-> 2, interval |-> i, osc9 |-> o] :
        w \in {"Focused", "Unfocused", "Always"}, i \in {0, 2}, o \in BOOLEAN}

MCLetters ==
    {[kind |-> k, bytes |-> 1] : k \in {"plain", "space", "newline", "control", "semicolon"}}
        \cup {[kind |-> "plain", bytes |-> 2]}

-----------------------------------------------------------------------------
\* Where the components begin that may begin in several ways, when they do not run.
AtRest ==
    /\ service # "rules" => /\ layers = CHOOSE l \in MCLayerings : TRUE
                            /\ command = <<>>
    /\ service # "command" => offspring = FALSE /\ batched = FALSE
    /\ service # "subagent" =>
          allow_tools = {} /\ session_grant = FALSE /\ auto_accept_edits = FALSE
    /\ service # "hunks" => change = [i \in Lines |-> "delete"]
    /\ service # "text" => owner = "stream"
    /\ service # "agent" => providers = CHOOSE l \in MCProviderLists : TRUE
    /\ service # "limit" => stdout = <<>> /\ stderr = <<>> /\ max_bytes = 0
    /\ service # "offload" => interactive = FALSE
    /\ service # "palette" => theme = "t1" /\ current = 1 /\ last_override = NoChoice
    /\ service # "app" => picture = Cleared
    /\ service # "layout" => laid_out = <<>> /\ layout_width = 0
    /\ service # "events" => flavor = "openai" /\ streamed = FALSE
    /\ service # "inputs" => /\ tool_schema = CHOOSE t \in MCToolSchemas : TRUE
                             /\ compat = FALSE
    /\ service # "config" => /\ global_file = Unreadable /\ workspace_file = Missing
                             /\ agent_files = [n \in 1..2 |-> Missing]
    /\ service # "notice" => settings = CHOOSE s \in MCSettings : TRUE

Init ==
    /\ service \in Components /\ AtRest
    /\ StreamInit /\ McpInit /\ RuleInit /\ CommandInit /\ SubagentInit /\ StoreInit
    /\ RunsInit /\ ReplyInit /\ HunkInit /\ TextInit /\ ListInit
    /\ ConversationInit /\ LimitInit /\ OffloadInit /\ FocusInit /\ PaletteInit
    /\ AppInit /\ NoticeInit /\ TranscriptInit /\ LayoutInit
    /\ EventInit /\ InputInit /\ ProviderInit /\ ConfigInit

\* The variables of every component but one.
Still(one) ==
    /\ UNCHANGED service
    /\ one # "stream"   => UNCHANGED streamVars
    /\ one # "mcp"      => UNCHANGED mcpVars
    /\ one # "rules"    => UNCHANGED ruleVars
    /\ one # "command"  => UNCHANGED commandVars
    /\ one # "subagent" => UNCHANGED subagentVars
    /\ one # "store"    => UNCHANGED storeVars
    /\ one # "runs"     => UNCHANGED runsVars
    /\ one # "reply"    => UNCHANGED replyVars
    /\ one # "hunks"    => UNCHANGED hunkVars
    /\ one # "text"     => UNCHANGED textVars
    /\ one # "list"     => UNCHANGED listVars
    /\ one # "agent"    => UNCHANGED conversationVars
    /\ one # "limit"    => UNCHANGED limitVars
    /\ one # "offload"  => UNCHANGED offloadVars
    /\ one # "focus"    => UNCHANGED focusVars
    /\ one # "palette"  => UNCHANGED paletteVars
    /\ one # "app"      => UNCHANGED appVars
    /\ one # "notice"   => UNCHANGED noticeVars
    /\ one # "transcripts" => UNCHANGED transcriptVars
    /\ one # "layout"   => UNCHANGED layoutVars
    /\ one # "events"   => UNCHANGED eventVars
    /\ one # "inputs"   => UNCHANGED inputVars
    /\ one # "provider" => UNCHANGED providerVars
    /\ one # "config"   => UNCHANGED configurationVars

Next ==
    \/ service = "stream"   /\ StreamNext   /\ Still("stream")
    \/ service = "mcp"      /\ McpNext      /\ Still("mcp")
    \/ service = "rules"    /\ RuleNext     /\ Still("rules")
    \/ service = "command"  /\ CommandNext  /\ Still("command")
    \/ service = "subagent" /\ SubagentNext /\ Still("subagent")
    \/ service = "store"    /\ StoreNext    /\ Still("store")
    \/ service = "runs"     /\ RunsNext     /\ Still("runs")
    \/ service = "reply"    /\ ReplyNext    /\ Still("reply")
    \/ service = "hunks"    /\ HunkNext     /\ Still("hunks")
    \/ service = "text"     /\ TextNext     /\ Still("text")
    \/ service = "list"     /\ ListNext     /\ Still("list")
    \/ service = "agent"    /\ ConversationNext /\ Still("agent")
    \/ service = "limit"    /\ LimitNext    /\ Still("limit")
    \/ service = "offload"  /\ OffloadNext  /\ Still("offload")
    \/ service = "focus"    /\ FocusNext    /\ Still("focus")
    \/ service = "palette"  /\ PaletteNext  /\ Still("palette")
    \/ service = "app"      /\ AppNext      /\ Still("app")
    \/ service = "notice"   /\ NoticeNext   /\ Still("notice")
    \/ service = "transcripts" /\ TranscriptNext /\ Still("transcripts")
    \/ service = "layout"   /\ LayoutNext   /\ Still("layout")
    \/ service = "events"   /\ EventNext    /\ Still("events")
    \/ service = "inputs"   /\ InputNext    /\ Still("inputs")
    \/ service = "provider" /\ ProviderNext /\ Still("provider")
    \/ service = "config"   /\ ConfigNext   /\ Still("config")

vars == <<service, streamVars, mcpVars, ruleVars, commandVars, subagentVars, storeVars,
          runsVars, replyVars, hunkVars, textVars, listVars, conversationVars, limitVars,
          offloadVars, focusVars, paletteVars, appVars, noticeVars, transcriptVars,
          layoutVars, eventVars, inputVars, providerVars, configurationVars>>

Spec == Init /\ [][Next]_vars

\* The transcript view shows what is stored, and each message of it whole.
TranscriptsAreShown ==
    /\ TranscriptFollowsTheRuns
    /\ MessageIsDrawnWhole

\* A provider's answers are read as they were written: the events of its streams, the
\* inputs of its tool uses, and its messages in every later request.
AnswersAreRead ==
    /\ EventsAreTheBodys
    /\ ToolGetsWhatItAskedFor
    /\ RequestReadsAsWritten
=============================================================================
