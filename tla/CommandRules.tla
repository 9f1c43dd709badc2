----------------------------- MODULE CommandRules -----------------------------
(****************************************************************************)
(* Which bash commands run without a question: the rules of the config's    *)
(* layers (configure_safe_commands), the rule that fits a command and the   *)
(* walk over its arguments (unsafe_args_with_mode) of                       *)
(* src/agent/bash_executor.rs.                                              *)
(*                                                                          *)
(* A word is its text in the source, quotes and escapes included: its       *)
(* leading dashes, counted up to two, and the characters after them.  A      *)
(* rule's flags are words too.  What the code calls a relative path is a     *)
(* test of how a text begins, is_relative_path_text; it says nothing of      *)
(* where a path leads that goes up further on, is escaped or passes a link.  *)
(****************************************************************************)
EXTENDS Naturals, Sequences, FiniteSets, SequencesExt

CONSTANTS
    Words,              \* words of a command
    MaxWords,           \* bound: words of a command after its name
    Layerings           \* candidates for the layers: <<builtin, the config's ...>>

RuleWords   == [dashes : 0..3, body : Seq(STRING), expansion : BOOLEAN]
RuleFlags   == [key : (1..2) \X Seq(STRING), arg : {"none", "required", "optional"},
                path : BOOLEAN]
RuleEntries == [chain : Seq(RuleWords), flags : SUBSET RuleFlags, allow_any : BOOLEAN,
                allow_positional : BOOLEAN, positional_path_from : Nat, allow_dash : BOOLEAN]
RuleLayers  == [mode : {"append", "override"}, entries : Seq(RuleEntries)]

ASSUME RuleAssumption ==
    MaxWords \in Nat /\ Words \subseteq RuleWords /\ Layerings \subseteq Seq(RuleLayers)

VARIABLES
    layers,             \* per layer its mode and its entries; a bad file is like none
    command,            \* the words after the name, of the only command of the line
    verdict,            \* "none" until the check ends
    rule,               \* the rule that fits, once it is found
    index, positional_index, options_ended   \* the walk over the words it leaves

ruleVars == <<layers, command, verdict, rule, index, positional_index, options_ended>>

Dash     == [dashes |-> 1, body |-> <<>>, expansion |-> FALSE]
DashDash == [dashes |-> 2, body |-> <<>>, expansion |-> FALSE]
AnyWord  == [dashes |-> 3, body |-> <<>>, expansion |-> FALSE]  \* ".*" of a command chain

-----------------------------------------------------------------------------
(* Rules *)

\* An entry of a rules file.
build_safe_command_rule(entry) ==
    LET positional == entry.allow_positional \/ entry.allow_any IN
    [chain |-> entry.chain,
     mode |-> IF entry.flags = {} /\ ~positional /\ ~entry.allow_dash THEN "deny"
              ELSE IF entry.allow_any THEN "allow_any" ELSE "allow_list",
     flags |-> entry.flags, allow_positional |-> positional,
     positional_path_from |-> entry.positional_path_from, allow_dash |-> entry.allow_dash]

\* Mutant of apply_safe_command_layer: what overrides is appended.
append_layer(entries, layer) == entries \o layer.entries

apply_safe_command_layer(entries, layer) ==
    IF layer.mode = "append" THEN entries \o layer.entries ELSE layer.entries

\* Builtin, then global, workspace and agent.
configured_entries ==
    LET entries[n \in 0..Len(layers)] ==
            IF n = 0 THEN <<>> ELSE apply_safe_command_layer(entries[n - 1], layers[n])
    IN  entries[Len(layers)]

configure_safe_commands ==
    [n \in DOMAIN configured_entries |-> build_safe_command_rule(configured_entries[n])]

command_chain_token_matches(word, token) == token = AnyWord \/ word = token

match_command_chain(r) ==
    /\ Len(r.chain) <= Len(command)
    /\ \A n \in DOMAIN r.chain : command_chain_token_matches(command[n], r.chain[n])

Matching(rules) == {n \in DOMAIN rules : match_command_chain(rules[n])}

\* Mutant of find_best_rule: the first that fits.
find_first_rule(rules) ==
    rules[CHOOSE r \in Matching(rules) : \A q \in Matching(rules) : r <= q]

\* The longest chain, the first of the longest.
find_best_rule(rules) ==
    rules[CHOOSE r \in Matching(rules) : \A q \in Matching(rules) :
             \/ Len(rules[q].chain) < Len(rules[r].chain)
             \/ Len(rules[q].chain) = Len(rules[r].chain) /\ r <= q]

-----------------------------------------------------------------------------
(* One option *)

\* The text in a pair of quotes, or the text.  Words have no blanks to trim.
normalize_path_text(text) ==
    IF Len(text) >= 2 /\ text[1] \in {"\"", "'"} /\ text[Len(text)] = text[1]
    THEN SubSeq(text, 2, Len(text) - 1) ELSE text

is_relative_path_text(text) ==
    LET normalized == normalize_path_text(text) IN
    /\ normalized # <<>>
    /\ normalized[1] \notin {"/", "~", "$"}
    /\ ~IsPrefix(<<".", ".">>, normalized)

is_relative_path_value(w, text) == ~w.expansion /\ is_relative_path_text(text)

\* A text that begins with a dash passes the test.
is_relative_path_arg(w) ==
    ~w.expansion /\ (w.dashes > 0 \/ is_relative_path_text(w.body))

is_flag_like(w) == w.dashes > 0 /\ w # Dash

NoValue == <<"no value">>

PathOk(flag, ok) == flag.path => ok

\* Mutant of check_option_with_flag: the word after the option is not looked at.
check_attached_value(flag, value, w, following, mode) ==
    IF value # NoValue THEN (IF PathOk(flag, is_relative_path_value(w, value)) THEN 1 ELSE 0)
    ELSE IF following # <<>> /\ ~is_flag_like(following[1]) THEN 2 ELSE 1

\* Mutant of check_option_with_flag: the value in the option's own word is not looked at.
check_following_value(flag, value, w, following, mode) ==
    IF flag.arg = "none" THEN (IF value = NoValue \/ mode = "allow_any" THEN 1 ELSE 0)
    ELSE IF value # NoValue \/ following = <<>> THEN 1
    ELSE IF PathOk(flag, is_relative_path_arg(following[1])) THEN 2 ELSE 0

\* The number of words an option with this policy takes, 0 if it is not allowed.
check_option_with_flag(flag, value, w, following, mode) ==
    LET required == flag.arg = "required"
        taken == /\ following # <<>>
                 /\ is_flag_like(following[1]) => required /\ mode = "allow_list"
    IN
    IF flag.arg = "none"
    THEN IF \/ value = NoValue
            \/ mode = "allow_any" /\ PathOk(flag, is_relative_path_value(w, value))
         THEN 1 ELSE 0
    ELSE IF value # NoValue
    THEN IF value # <<>> /\ PathOk(flag, is_relative_path_value(w, value)) THEN 1 ELSE 0
    ELSE IF taken
    THEN IF PathOk(flag, is_relative_path_arg(following[1])) THEN 2 ELSE 0
    ELSE IF required /\ mode = "allow_list" THEN 0 ELSE 1

Flag(flags, key) == CHOOSE f \in flags : f.key = key
HasFlag(flags, key) == \E f \in flags : f.key = key

Rest(s, n) == SubSeq(s, n, Len(s))

Equals(body) == {n \in DOMAIN body : body[n] = "="}
split_name(body) ==
    IF Equals(body) = {} THEN body
    ELSE SubSeq(body, 1, (CHOOSE n \in Equals(body) : \A m \in Equals(body) : n <= m) - 1)
split_value(body) ==
    IF Equals(body) = {} THEN NoValue ELSE Rest(body, Len(split_name(body)) + 2)

check_option_with_name(w, following, flags, mode) ==
    LET key == <<w.dashes, split_name(w.body)>> IN
    IF HasFlag(flags, key)
    THEN check_option_with_flag(Flag(flags, key), split_value(w.body), w, following, mode)
    ELSE IF mode = "allow_any" THEN 1 ELSE 0

match_single_dash_long_option(w, flags) ==
    Len(split_name(w.body)) >= 2 /\ HasFlag(flags, <<1, split_name(w.body)>>)

\* The walk over the letters of -abc goes on past letter n.
PassesLetter(w, n, flags, mode) ==
    LET key == <<1, <<w.body[n]>>>>
        before_equals == n < Len(w.body) /\ w.body[n + 1] = "="
    IN  ~before_equals /\ IF HasFlag(flags, key) THEN Flag(flags, key).arg = "none"
                          ELSE mode = "allow_any"

Stops(w, flags, mode) == {n \in DOMAIN w.body : ~PassesLetter(w, n, flags, mode)}

\* The letter the walk ends at, and what follows it
StopOf(w, flags, mode) ==
    LET stops == Stops(w, flags, mode) IN
    CHOOSE m \in stops : \A o \in stops : m <= o

letter_value(w, n) ==
    LET rest == Rest(w.body, n + 1) IN
    IF rest = <<>> THEN NoValue ELSE IF rest[1] = "=" THEN Tail(rest) ELSE rest

check_short_options(w, following, flags, mode) ==
    LET n   == StopOf(w, flags, mode)
        key == <<1, <<w.body[n]>>>>
    IN  IF Stops(w, flags, mode) = {} THEN 1
        ELSE IF HasFlag(flags, key)
        THEN check_option_with_flag(Flag(flags, key), letter_value(w, n), w, following, mode)
        ELSE IF mode = "allow_any" THEN 1 ELSE 0

IsNamed(w, flags) == w.dashes = 2 \/ match_single_dash_long_option(w, flags)

check_option(w, following, flags, mode) ==
    IF IsNamed(w, flags)
    THEN check_option_with_name(w, following, flags, mode)
    ELSE check_short_options(w, following, flags, mode)

-----------------------------------------------------------------------------
(* The check of a command *)

NoRule == [chain |-> <<>>, mode |-> "none", flags |-> {}, allow_positional |-> FALSE,
           positional_path_from |-> 0, allow_dash |-> FALSE]

RuleInit ==
    /\ layers \in Layerings
    /\ command \in UNION {[1..n -> Words] : n \in 0..MaxWords}
    /\ verdict = "none" /\ rule = NoRule
    /\ index = 1 /\ positional_index = 0 /\ options_ended = FALSE

Verdict(v) == verdict' = v /\ UNCHANGED <<rule, index, positional_index, options_ended>>

\* The line is not one simple command: a line break, a syntax error, a token or a node
\* that is not allowed, several statements.
LineIsRefused == verdict = "none" /\ rule = NoRule /\ Verdict("refused")

FindRule ==
    /\ verdict = "none" /\ rule = NoRule
    /\ LET rules == configure_safe_commands IN
       IF Matching(rules) = {} THEN Verdict("refused")
       ELSE LET best == find_best_rule(rules) IN
            IF best.mode = "deny" /\ Len(command) > Len(best.chain) THEN Verdict("refused")
            ELSE /\ rule' = best /\ index' = Len(best.chain) + 1
                 /\ UNCHANGED <<verdict, positional_index, options_ended>>

Walking == verdict = "none" /\ rule # NoRule
word    == command[index]
next    == IF index < Len(command) THEN <<command[index + 1]>> ELSE <<>>
IsOption == ~options_ended /\ is_flag_like(word) /\ word # DashDash

EndOfOptions ==
    /\ Walking /\ index <= Len(command) /\ ~options_ended /\ word = DashDash
    /\ IF rule.allow_positional
       THEN options_ended' = TRUE /\ index' = index + 1
            /\ UNCHANGED <<verdict, rule, positional_index>>
       ELSE Verdict("refused")

Option ==
    /\ Walking /\ index <= Len(command) /\ IsOption
    /\ LET taken == check_option(word, next, rule.flags, rule.mode) IN
       IF taken = 0 THEN Verdict("refused")
       ELSE index' = index + taken /\ UNCHANGED <<verdict, rule, positional_index, options_ended>>

Positional ==
    /\ Walking /\ index <= Len(command) /\ ~IsOption /\ (options_ended \/ word # DashDash)
    /\ IF ~rule.allow_positional
       THEN IF word = Dash /\ rule.allow_dash
            THEN index' = index + 1 /\ UNCHANGED <<verdict, rule, positional_index, options_ended>>
            ELSE Verdict("refused")
       ELSE IF positional_index >= rule.positional_path_from /\ ~is_relative_path_arg(word)
       THEN Verdict("refused")
       ELSE /\ index' = index + 1 /\ positional_index' = positional_index + 1
            /\ UNCHANGED <<verdict, rule, options_ended>>

AllChecked == Walking /\ index > Len(command) /\ Verdict("allowed")

RuleNext ==
    /\ LineIsRefused \/ FindRule \/ EndOfOptions \/ Option \/ Positional \/ AllChecked
    /\ UNCHANGED <<layers, command>>

RuleSpec == RuleInit /\ [][RuleNext]_ruleVars

-----------------------------------------------------------------------------
(* Properties *)

\* The layers that count: the last one that overrides, and those after it.
Configured ==
    {n \in DOMAIN layers : \A m \in DOMAIN layers : m > n => layers[m].mode = "append"}

\* Entries for the command such that none names more of its words.
MostSpecific ==
    LET fits(e) == match_command_chain(e)
        entries == UNION {Range(layers[n].entries) : n \in Configured}
    IN  {e \in entries : fits(e) /\ \A o \in entries : fits(o) => Len(o.chain) <= Len(e.chain)}

ConfinesPaths(e) ==
    /\ ~e.allow_any /\ e.positional_path_from = 0
    /\ \A f \in e.flags : f.path

\* The value in the word of an option: --f=v, -f=v, -fv, or none
AttachedTo(w) ==
    IF IsNamed(w, rule.flags) THEN split_value(w.body)
    ELSE IF Stops(w, rule.flags, rule.mode) = {} THEN NoValue
    ELSE letter_value(w, StopOf(w, rule.flags, rule.mode))

\* A word with dashes need not be an option: it may come after "--", or be the
\* value of an option that has none in its own word.
MayBeNoOption(n) ==
    \/ \E m \in DOMAIN command :
          m > Len(rule.chain) /\ m < n /\ command[m] = DashDash
    \/ \E m \in DOMAIN command :
          /\ m > Len(rule.chain) /\ m = n - 1
          /\ is_flag_like(command[m]) /\ AttachedTo(command[m]) = NoValue

IsChecked(n) ==
    LET w == command[n] IN
    IF w.dashes = 0 THEN is_relative_path_arg(w)
    ELSE \/ MayBeNoOption(n)
         \/ AttachedTo(w) = NoValue
         \/ is_relative_path_value(w, AttachedTo(w))

\* A command runs without a question only if its most specific rules let it: when these
\* ask for relative paths everywhere, no word of an allowed command has slipped past the
\* test: not an argument, not the word after an option, not the value in an option's own
\* word (unsafe_args_with_mode, find_best_rule, configure_safe_commands).  It is
\* about the layers, the longest rule and the walk, which takes one word or two
\* at a time; a text the test lets pass may well lead out of the directory.
NoPathIsUnchecked ==
    verdict = "allowed" /\ (\A e \in MostSpecific : ConfinesPaths(e)) =>
       \A n \in DOMAIN command : n > Len(rule.chain) => IsChecked(n)
=============================================================================
