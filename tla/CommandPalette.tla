--------------------------- MODULE CommandPalette ---------------------------
(****************************************************************************)
(* The command palette (command_palette.rs): one list on the screen, and    *)
(* beside it what the lines of the list stand for, which is another vector  *)
(* for sessions and models. Sessions are saved by other tasks while the     *)
(* palette is open. Esc comes through the chat; C-l and C-q do not come at  *)
(* all, the chat takes them first.                                          *)
(****************************************************************************)
EXTENDS Naturals, Sequences, FiniteSets, SequencesExt, SequenceFilters

CONSTANTS
    SessionTimes,    \* created_at of sessions
    SwitchLimit,     \* SESSION_SWITCH_LIMIT
    Offers,          \* of the configuration: a sequence of providers, [name, models]
    Themes,          \* BUILTIN_THEME_NAMES
    NoChoice         \* no session, no override, no model: None

\* What the configuration names
Names == {Offers[i].name : i \in DOMAIN Offers}
         \cup UNION {ToSet(Offers[i].models) : i \in DOMAIN Offers}

ASSUME PaletteAssumption ==
    /\ SwitchLimit \in Nat \ {0} /\ IsFiniteSet(Themes)
    /\ NoChoice \notin SessionTimes /\ NoChoice \notin Names
    /\ Offers \in Seq([name : Names, models : Seq(Names)])

VARIABLES
    palette,         \* the palette, see Palettes
    on_disk,         \* the saved sessions, by updated_at, the newest first
    current,         \* created_at of the chat's session
    theme,           \* of the configuration
    override,        \* the chat's model_override,
    last_override,   \*   and the one of the runtime overrides on disk
    surprised        \* history: what was done is not what the line said

paletteVars ==
    <<palette, on_disk, current, theme, override, last_override, surprised>>

Modes == {"Main", "SwitchSession", "SwitchTheme", "SwitchModel"}

\* The commands that act at once; the others open a list.
AtOnce == {"NewSession", "Transcript", "RegenerateSummary", "Shell", "ForceQuit"}

main_commands == <<"NewSession", "Transcript", "SwitchSession", "RegenerateSummary",
                   "SwitchTheme", "SwitchModel", "Shell", "ForceQuit">>

FirstLine(lines) == IF lines = <<>> THEN 0 ELSE 1

\* Mutant of Listing: the cursor stays where it was in the list before.
ListingBelow(p, mode, lines) == [p EXCEPT !.mode = mode, !.lines = lines]

\* set_commands, when a list opens
Listing(p, mode, lines) ==
    [p EXCEPT !.mode = mode, !.lines = lines, !.at = FirstLine(lines)]

open_main(p) ==
    [Listing(p, "Main", main_commands) EXCEPT !.sessions = <<>>, !.models = <<>>]

NewPalette ==
    [mode |-> "Main", lines |-> main_commands, at |-> 1, sessions |-> <<>>, models |-> <<>>,
     session |-> NoChoice, override |-> NoChoice, last |-> NoChoice, open |-> FALSE]

PaletteInit ==
    /\ palette = NewPalette
    /\ on_disk = <<>>
    /\ current \in SessionTimes
    /\ theme \in Themes
    /\ override = NoChoice
    /\ last_override \in {NoChoice, "gone"}
    /\ surprised = FALSE

-----------------------------------------------------------------------------
(* The lists *)

FirstN(s, n) == SubSeq(s, 1, IF Len(s) < n THEN Len(s) ELSE n)

\* The newest first, without the session of the chat.
build_session_switch_entries(p) ==
    FirstN(Excluding(on_disk, {p.session}), SwitchLimit)

OpensSessions(p) ==
    LET entries == build_session_switch_entries(p)
    IN [Listing(p, "SwitchSession", IF entries = <<>> THEN <<"No sessions found">> ELSE entries)
        EXCEPT !.sessions = entries]

\* sort_by_key: the current theme first
OpensThemes(p) ==
    Listing(p, "SwitchTheme", <<theme>> \o SetToSeq(Themes \ {theme}))

\* Each model once, a provider without models by its name.
Offered ==
    Distinct(FlattenSeq([i \in DOMAIN Offers |->
        IF Offers[i].models = <<>> THEN <<Offers[i].name>> ELSE Offers[i].models]))

build_model_entries(p) ==
    LET known == {Offered[i] : i \in DOMAIN Offered}
        first == IF p.override \in known THEN <<p.override>> ELSE <<>>
        last == IF p.last # NoChoice /\ p.last \notin known THEN <<p.last>> ELSE <<>>
    IN <<NoChoice>> \o last \o first \o Excluding(Offered, {p.override})

OpensModels(p) ==
    LET entries == build_model_entries(p)
    IN [Listing(p, "SwitchModel", entries) EXCEPT !.models = entries]

-----------------------------------------------------------------------------
(* Keys *)

Selected(p) == p.lines[p.at]

PaletteOpens ==
    /\ ~palette.open
    /\ palette' = open_main([palette EXCEPT !.session = current, !.override = override,
                                            !.last = last_override, !.open = TRUE])
    /\ UNCHANGED <<on_disk, current, theme, override, last_override, surprised>>

OnlyShows(p) ==
    /\ palette' = p
    /\ UNCHANGED <<on_disk, current, theme, override, last_override, surprised>>

InMode(mode) == palette.open /\ palette.mode = mode

\* on_escape; from the main list the chat takes the focus back
PaletteEscapes ==
    \/ palette.open /\ palette.mode # "Main" /\ OnlyShows(open_main(palette))
    \/ InMode("Main") /\ OnlyShows([palette EXCEPT !.open = FALSE])

PaletteUp ==
    /\ palette.open /\ palette.at > 1
    /\ OnlyShows([palette EXCEPT !.at = @ - 1])

PaletteDown ==
    /\ palette.open /\ palette.at # 0 /\ palette.at < Len(palette.lines)
    /\ OnlyShows([palette EXCEPT !.at = @ + 1])

PaletteShortcut ==
    /\ InMode("Main")
    /\ OnlyShows(OpensSessions(palette)) \/ OnlyShows(OpensModels(palette))

\* What Enter opens.
EnterOpens ==
    /\ InMode("Main")
    /\ \/ Selected(palette) = "SwitchSession" /\ OnlyShows(OpensSessions(palette))
       \/ Selected(palette) = "SwitchTheme" /\ OnlyShows(OpensThemes(palette))
       \/ Selected(palette) = "SwitchModel" /\ OnlyShows(OpensModels(palette))

\* The chat takes the focus and handles the action; what the lists depend on follows it.
Acts(action, p) ==
    /\ palette' = [p EXCEPT !.open = FALSE]
    /\ surprised' = (surprised \/ Selected(palette) # action)

EnterActs ==
    /\ InMode("Main") /\ Selected(palette) \in AtOnce
    /\ Acts(Selected(palette), palette)
    /\ IF Selected(palette) = "NewSession"
       THEN current' \in SessionTimes \ ({current} \cup Range(on_disk))
       ELSE current' = current
    /\ UNCHANGED <<on_disk, theme, override, last_override>>

\* The restored chat takes the place of this one, with its own override and a new palette,
\* which is open when it was open as the session was saved.
EnterRestores ==
    /\ InMode("SwitchSession") /\ palette.at \in DOMAIN palette.sessions
    /\ palette' \in {NewPalette, [NewPalette EXCEPT !.open = TRUE]}
    /\ surprised' = (surprised \/ Selected(palette) # palette.sessions[palette.at])
    /\ current' = palette.sessions[palette.at]
    /\ override' \in {override, NoChoice}
    /\ UNCHANGED <<on_disk, theme, last_override>>

EnterSwitchesTheme ==
    /\ InMode("SwitchTheme") /\ Selected(palette) \in Themes
    /\ Acts(Selected(palette), open_main(palette))
    /\ theme' = Selected(palette)
    /\ UNCHANGED <<on_disk, current, override, last_override>>

\* switch_model and persist_runtime_overrides
EnterSwitchesModel ==
    /\ InMode("SwitchModel") /\ palette.at \in DOMAIN palette.models
    /\ Acts(palette.models[palette.at], open_main(palette))
    /\ override' = palette.models[palette.at] /\ last_override' = override'
    /\ UNCHANGED <<on_disk, current, theme>>

-----------------------------------------------------------------------------
(* What others do meanwhile *)

SessionIsSaved ==
    /\ on_disk' = <<current>> \o Excluding(on_disk, {current})
    /\ UNCHANGED <<palette, current, theme, override, last_override, surprised>>

PaletteNext ==
    \/ PaletteOpens \/ PaletteEscapes \/ PaletteUp \/ PaletteDown \/ PaletteShortcut
    \/ EnterOpens \/ EnterActs \/ EnterRestores \/ EnterSwitchesTheme \/ EnterSwitchesModel
    \/ SessionIsSaved

PaletteSpec == PaletteInit /\ [][PaletteNext]_paletteVars

-----------------------------------------------------------------------------
\* Enter does what the line under the cursor says, though sessions and models are looked up
\* in another vector than the one that is shown.
EnterDoesWhatTheLineSays == ~surprised

\* The cursor is on a line, whatever list was shown before: the list is indexed with it.
CursorIsOnALine == palette.at \in DOMAIN palette.lines

\* A palette the user opened never offers the session it is in, and each list offers a thing
\* once: no model twice, whichever providers share it and wherever the last one went.
OffersAreDistinct ==
    /\ \A i, j \in DOMAIN palette.lines : i # j => palette.lines[i] # palette.lines[j]
    /\ InMode("SwitchSession") /\ palette.session # NoChoice =>
          current \notin Range(palette.sessions)
    /\ InMode("SwitchModel") => NoChoice = palette.lines[1]

PaletteDoesWhatItShows ==
    /\ EnterDoesWhatTheLineSays
    /\ CursorIsOnALine
    /\ OffersAreDistinct
=============================================================================
