---------------------------- MODULE Configuration ----------------------------
(****************************************************************************)
(* The configuration of coco: the global file is overridden by the           *)
(* workspace's, key by key, with rules of their own for the providers and    *)
(* the MCP servers (src/config.rs); the agent's configuration is three       *)
(* layers, the first built in (src/agent/config.rs); and the options of a    *)
(* request are the defaults, under the built-in presets, the user's and the  *)
(* provider's own (src/config/provider.rs).                                  *)
(*                                                                          *)
(* A TOML value is a leaf, a table (a function of its keys) or a list of     *)
(* tables with names.  Of a text only whether it is blank counts, and of a   *)
(* leaf not which type it has.                                               *)
(****************************************************************************)
EXTENDS Naturals, Sequences, FiniteSets, SequencesExt

CONSTANTS
    GlobalFiles,        \* tables, what config.toml may hold
    WorkspaceFiles,     \* tables, what .coco/config.toml may hold
    AgentFiles,         \* partial functions, what an agent.toml may hold
    BuiltInAgent,       \* the agent.toml of the program
    BuiltInPresets,     \* the presets of the program
    DefaultOptions,     \* a function of every option
    Missing,             \* there is none, or it was not asked for
    Unreadable          \* it cannot be read, or is not what it should be

VARIABLES
    global_file, workspace_file,
    agent_files,        \* the files the configurations may name: global, workspace
    config,             \* what load_config_with_overrides returned
    agent_config,       \* what Agent::new made of the layers
    chosen             \* a provider, a model, and the options of requests to them

configurationVars == <<global_file, workspace_file, agent_files, config, agent_config, chosen>>

LeafOf(v)  == [leaf |-> v]
TableOf(f) == [table |-> f]
ListOf(s)  == [list |-> s]
IsTable(v) == "table" \in DOMAIN v
IsList(v)  == "list" \in DOMAIN v
Without(f, keys) == [k \in DOMAIN f \ keys |-> f[k]]
Keys(t) == IF t \in {Missing, Unreadable} THEN {} ELSE DOMAIN t

\* The configuration names an agent.toml.
NamesAgent(n) ==
    LET file == <<global_file, workspace_file>>[n] IN
    /\ "agent" \in Keys(file) /\ IsTable(file.agent)
    /\ "agent_config_path" \in DOMAIN file.agent.table

ConfigInit ==
    /\ global_file \in GlobalFiles \cup {Unreadable}
    /\ workspace_file \in WorkspaceFiles \cup {Missing, Unreadable}
    /\ agent_files \in [1..2 -> AgentFiles \cup {Missing, Unreadable}]
    /\ \A n \in 1..2 : ~NamesAgent(n) => agent_files[n] = Missing
    /\ config = Missing /\ agent_config = Missing /\ chosen = Missing

-----------------------------------------------------------------------------
(* Merging: tables key by key, lists of named tables entry by entry; of anything else
   the override's value is taken *)

RECURSIVE merge_tables(_, _)
merge_tables(base, over) ==
    [k \in DOMAIN base \cup DOMAIN over |->
        IF k \notin DOMAIN over THEN base[k]
        ELSE IF k \in DOMAIN base /\ IsTable(base[k]) /\ IsTable(over[k])
        THEN TableOf(merge_tables(base[k].table, over[k].table))
        ELSE over[k]]

CommandFields == {"command", "args", "cwd", "env"}
MixesConnections(entry) == "url" \in DOMAIN entry /\ DOMAIN entry \cap CommandFields # {}

\* Mutant of ReplacedConnection: the arguments of the former command stay.
ReplacedButArgs(base, over) ==
    IF "url" \in DOMAIN over THEN Without(base, CommandFields \ {"args"})
    ELSE IF DOMAIN over \cap CommandFields # {} THEN Without(base, {"url"}) ELSE base

\* A connection of the other kind makes way.
ReplacedConnection(base, over) ==
    IF "url" \in DOMAIN over THEN Without(base, CommandFields)
    ELSE IF DOMAIN over \cap CommandFields # {} THEN Without(base, {"url"}) ELSE base

merge_provider(base, over)   == merge_tables(base, over)
merge_mcp_server(base, over) == merge_tables(ReplacedConnection(base, over), over)

EntryName(v) == IF IsTable(v) /\ "name" \in DOMAIN v.table THEN v.table.name ELSE LeafOf("")
EntryNames(items) == [n \in DOMAIN items |-> EntryName(items[n])]
EntriesNamed(items, name) ==
    LET those == SelectSeq(items, LAMBDA v : EntryName(v) = name)
    IN  [n \in DOMAIN those |-> those[n].table]

merge_entry(key, base, over) ==
    IF key = "servers" THEN merge_mcp_server(base, over) ELSE merge_provider(base, over)

merge_named_table_array(key, base, over) ==
    LET add(items, v) ==
            LET at == {n \in DOMAIN items : EntryName(items[n]) = EntryName(v)} IN
            IF at = {} THEN Append(items, TableOf(merge_entry(key, <<>>, v.table)))
            ELSE [items EXCEPT ![CHOOSE n \in at : TRUE] =
                     TableOf(merge_entry(key, @.table, v.table))]
    IN  FoldLeft(add, base, over)

ListAt(t, key)  == IF key \in Keys(t) THEN t[key].list ELSE <<>>
TableAt(t, key) == IF key \in Keys(t) THEN t[key].table ELSE <<>>
Put(t, key, v)  == [k \in DOMAIN t \cup {key} |-> IF k = key THEN v ELSE t[k]]

merge_mcp_table(base, over) ==
    LET merged == merge_tables(base, Without(over, {"servers"})) IN
    IF "servers" \notin DOMAIN over THEN merged
    ELSE Put(merged, "servers",
             ListOf(merge_named_table_array("servers", ListAt(base, "servers"),
                                            ListAt(over, "servers"))))

merge_config_values(base, over) ==
    LET merged  == merge_tables(base, Without(over, {"providers", "mcp"}))
        offered == IF "providers" \notin DOMAIN over THEN merged
                   ELSE Put(merged, "providers",
                            ListOf(merge_named_table_array("providers",
                                                           ListAt(base, "providers"),
                                                           ListAt(over, "providers"))))
    IN  IF "mcp" \notin DOMAIN over THEN offered
        ELSE Put(offered, "mcp",
                 TableOf(merge_mcp_table(TableAt(base, "mcp"), TableAt(over, "mcp"))))

-----------------------------------------------------------------------------
(* What is refused: by a file's own sections, by the merge, by what reads the result *)

AllNamed(items) == LeafOf("") \notin ToSet(EntryNames(items))

extract_sections(t) == \A key \in {"bash", "agent"} \cap DOMAIN t : IsTable(t[key])

\* The names of the base are looked at only when they are needed.
ListIsRefused(base, over, key) ==
    /\ key \in DOMAIN over
    /\ \/ ~IsList(over[key]) \/ ~AllNamed(over[key].list)
       \/ key \in DOMAIN base /\ (~IsList(base[key]) \/ ~AllNamed(base[key].list)
                                  \/ ~IsInjective(EntryNames(base[key].list)))

MergeIsRefused(base, over) ==
    \/ ListIsRefused(base, over, "providers")
    \/ /\ "mcp" \in DOMAIN over
       /\ \/ ~IsTable(over.mcp)
          \/ "mcp" \in DOMAIN base /\ ~IsTable(base.mcp)
          \/ ListIsRefused(TableAt(base, "mcp"), over.mcp.table, "servers")
          \/ \E v \in ToSet(ListAt(over.mcp.table, "servers")) : MixesConnections(v.table)

\* A server is a command or an address, and nothing else.
ServerParses(entry) ==
    LET fields == DOMAIN entry \ {"name", "description"} IN
    /\ "name" \in DOMAIN entry
    /\ \/ fields = {"url"}
       \/ "command" \in fields /\ fields \subseteq CommandFields

\* Mutant of ProviderParses: a name is enough.
NamedProvider(entry) == "name" \in DOMAIN entry

ProviderFields == {"name", "kind", "api_key", "base_url"}
ProviderParses(entry) == ProviderFields \subseteq DOMAIN entry

ui_parses(t) == "ui" \in DOMAIN t => IsTable(t.ui)

Parses(t) ==
    /\ extract_sections(t) /\ ui_parses(t)
    /\ "providers" \in DOMAIN t =>
          IsList(t.providers) /\ \A v \in ToSet(t.providers.list) : ProviderParses(v.table)
    /\ "mcp" \in DOMAIN t =>
          /\ IsTable(t.mcp)
          /\ "servers" \in DOMAIN t.mcp.table =>
                /\ IsList(t.mcp.table.servers)
                /\ \A v \in ToSet(t.mcp.table.servers.list) : ServerParses(v.table)

load_config_with_overrides ==
    LET over   == IF workspace_file = Missing THEN <<>> ELSE workspace_file
        merged == merge_config_values(global_file, over)
    IN
    /\ config = Missing
    /\ config' = IF \/ global_file = Unreadable \/ workspace_file = Unreadable
                    \/ ~extract_sections(global_file) \/ ~extract_sections(over)
                    \/ MergeIsRefused(global_file, over) \/ ~Parses(merged)
                 THEN Unreadable ELSE merged
    /\ UNCHANGED <<global_file, workspace_file, agent_files, agent_config, chosen>>

-----------------------------------------------------------------------------
(* The agent's configuration and the options of a request: the last layer that gives a
   field gives its value *)

IsLoaded == config \notin {Missing, Unreadable}

merge_fields(layer, other) ==
    [f \in DOMAIN layer \cup DOMAIN other |-> IF f \in DOMAIN other THEN other[f] ELSE layer[f]]

\* The agent.toml a configuration names, each in its own file and not in the merged one.
AgentLayer(n) ==
    IF NamesAgent(n) THEN agent_files[n] ELSE Missing
AgentLayers ==
    <<BuiltInAgent>> \o SelectSeq(<<AgentLayer(1), AgentLayer(2)>>, LAMBDA l : l # Missing)

\* One that cannot be read takes every layer with it: Agent::new goes on with none.
load_agent_config_with_layers ==
    /\ IsLoaded /\ agent_config = Missing
    /\ agent_config' = IF Unreadable \in ToSet(AgentLayers) THEN <<>>
                       ELSE FoldLeft(merge_fields, <<>>, AgentLayers)
    /\ UNCHANGED <<global_file, workspace_file, agent_files, config, chosen>>

PresetsIn(t) == IF "model_presets" \in Keys(t) THEN t.model_presets.leaf ELSE <<>>
OptionsFor(model, presets) ==
    LET those == SelectSeq(presets, LAMBDA p : p.model = model)
    IN  [n \in DOMAIN those |-> those[n].options]

request_options_for_model(model) ==
    FoldLeft(merge_fields, DefaultOptions,
             OptionsFor(model, BuiltInPresets) \o OptionsFor(model, PresetsIn(config)))

request_options ==
    /\ IsLoaded /\ chosen = Missing
    /\ \E v \in ToSet(ListAt(config, "providers")),
          model \in {p.model : p \in ToSet(BuiltInPresets)} :
          chosen' = [provider |-> EntryName(v), model |-> model,
                      options |-> merge_fields(request_options_for_model(model),
                                               Without(v.table, ProviderFields))]
    /\ UNCHANGED <<global_file, workspace_file, agent_files, config, agent_config>>

ConfigNext == load_config_with_overrides \/ load_agent_config_with_layers \/ request_options

-----------------------------------------------------------------------------
\* The leaves of a table outside its named lists, and what is at a path.
RECURSIVE PathsOf(_)
PathsOf(t) ==
    UNION {IF IsTable(t[k]) THEN {<<k>> \o p : p \in PathsOf(t[k].table)}
           ELSE IF IsList(t[k]) THEN {} ELSE {<<k>>} : k \in DOMAIN t}

RECURSIVE ValueAt(_, _)
ValueAt(t, p) ==
    IF p[1] \notin DOMAIN t THEN {}
    ELSE IF Len(p) = 1 THEN {t[p[1]]}
    ELSE IF IsTable(t[p[1]]) THEN ValueAt(t[p[1]].table, Tail(p)) ELSE {}

\* The layer says something of the path: a value, or something else than a table above it.
Speaks(t, p) ==
    \/ ValueAt(t, p) # {}
    \/ \E n \in 1..Len(p) - 1 : \E v \in ValueAt(t, SubSeq(p, 1, n)) : ~IsTable(v)

\* Each value is that of the last layer that speaks of it.
Layered(merged, layers, gone) ==
    /\ \A p \in PathsOf(merged) : \E n \in DOMAIN layers :
          /\ ValueAt(layers[n], p) = ValueAt(merged, p)
          /\ \A m \in n + 1..Len(layers) : ~Speaks(layers[m], p)
    /\ \A n \in DOMAIN layers : \A p \in PathsOf(layers[n]) :
          \/ p \in PathsOf(merged) \/ p[1] \in gone
          \/ \E m \in n + 1..Len(layers) : Speaks(layers[m], p)

\* The entries of the base in their place, then the new ones, and each one layered.
ListIsLayered(merged, base, over, gone) ==
    /\ IsPrefix(EntryNames(base), EntryNames(merged))
    /\ over # <<>> => IsInjective(EntryNames(merged))
    /\ ToSet(EntryNames(merged)) = ToSet(EntryNames(base \o over))
    /\ over # <<>> => \A v \in ToSet(merged) :
          Layered(v.table, EntriesNamed(base \o over, EntryName(v)), gone)

ProvidersOf(t) == ListAt(t, "providers")
ServersOf(t) == ListAt(TableAt(t, "mcp"), "servers")

\* What the entries of this name have between them.
GivenFields(items, name) == UNION {DOMAIN e : e \in ToSet(EntriesNamed(items, name))}

FileIsLayered ==
    IsLoaded =>
      LET over == IF workspace_file = Missing THEN <<>> ELSE workspace_file IN
      /\ Layered(config, <<global_file, over>>, {})
      /\ ListIsLayered(ProvidersOf(config), ProvidersOf(global_file), ProvidersOf(over), {})
      /\ ListIsLayered(ServersOf(config), ServersOf(global_file), ServersOf(over),
                       {"url"} \cup CommandFields)

\* A good global file is not refused for its mixture, but for an entry of the workspace:
\* a server that is none of its own nor fits the one it changes, or a provider the
\* global file does not have and the workspace's does not make whole.  A provider that
\* is loaded is whole by what the files say of it, also when neither says all.
FileIsReadable ==
    /\ config = Unreadable =>
          \/ global_file = Unreadable \/ workspace_file = Unreadable
          \/ ~Parses(global_file)
          \/ workspace_file # Missing /\ MergeIsRefused(global_file, workspace_file)
          \/ workspace_file # Missing
                /\ ~(extract_sections(workspace_file) /\ ui_parses(workspace_file))
          \/ \E name \in ToSet(EntryNames(ProvidersOf(workspace_file))) :
                /\ EntriesNamed(ProvidersOf(global_file), name) = <<>>
                /\ ~(ProviderFields \subseteq GivenFields(ProvidersOf(workspace_file), name))
          \/ \E v \in ToSet(ServersOf(workspace_file)) :
                /\ ~ServerParses(v.table)
                /\ \A old \in ToSet(EntriesNamed(ServersOf(global_file), EntryName(v))) :
                      DOMAIN v.table \cap CommandFields # {} /\ "command" \notin DOMAIN old
    /\ IsLoaded =>
          LET given == ProvidersOf(global_file) \o ProvidersOf(workspace_file) IN
          \A name \in ToSet(EntryNames(given)) : ProviderFields \subseteq GivenFields(given, name)

AgentIsLayered ==
    agent_config # Missing /\ Unreadable \notin ToSet(AgentLayers) =>
        \A f \in UNION {DOMAIN l : l \in ToSet(AgentLayers)} : \E n \in DOMAIN AgentLayers :
            /\ f \in DOMAIN AgentLayers[n] /\ agent_config[f] = AgentLayers[n][f]
            /\ \A m \in n + 1..Len(AgentLayers) : f \notin DOMAIN AgentLayers[m]

\* The presets of the workspace stand for those of the user; a name that two providers
\* of one file share says nothing of whose options these are.
OptionsAreLayered ==
    chosen # Missing /\ IsInjective(EntryNames(config.providers.list)) =>
      LET user   == IF "model_presets" \in Keys(workspace_file) THEN workspace_file ELSE global_file
          own(t) == EntriesNamed(ListAt(t, "providers"), chosen.provider)
          given  == <<DefaultOptions>> \o OptionsFor(chosen.model, BuiltInPresets)
                       \o OptionsFor(chosen.model, PresetsIn(user))
                       \o own(global_file) \o own(workspace_file)
      IN  \A f \in DOMAIN DefaultOptions : \E n \in DOMAIN given :
             /\ f \in DOMAIN given[n] /\ chosen.options[f] = given[n][f]
             /\ \A m \in n + 1..Len(given) : f \notin DOMAIN given[m]

\* Each value of the configuration is that of the workspace's file where it speaks of it
\* and else the global one's, the named entries keep their places and are layered one by
\* one, no server has parts of two connections and no provider lacks a field it needs, and
\* only such an entry makes a good file unreadable; and what is read of the files later, the
\* agent's configuration and the options of a request, is of the last layer that gives it
\* (merge_tables, ProviderConfig; the tests at config.rs:691-722).
ConfigurationIsLayered ==
    FileIsLayered /\ FileIsReadable /\ AgentIsLayered /\ OptionsAreLayered
=============================================================================
