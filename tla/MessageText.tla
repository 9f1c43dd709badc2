----------------------------- MODULE MessageText -----------------------------
(****************************************************************************)
(* The text of one message on the screen: code_highlight.rs, which has the  *)
(* highlighted text built by a blocking task while the source still grows,  *)
(* and its owners plain.rs and thinking.rs (a streamed answer, replaced at  *)
(* its end by what an external command renders) and tool/bash.rs (a command *)
(* whose unsafe parts are marked while it waits for the user).              *)
(*                                                                          *)
(* A text is the number of chunks it has; which chunk is not told apart,    *)
(* for they are only ever appended.                                         *)
(****************************************************************************)
EXTENDS Naturals

CONSTANTS
    MaxText,            \* bound: chunks of a streamed text
    Widths              \* of the area, in columns

ASSUME TextAssumption == MaxText \in Nat /\ Widths \subseteq Nat \ {0}

VARIABLES
    owner,              \* "stream": Plain or Thinking; "command": the input of Bash
    received,           \* the text its owner has
    streaming,          \* the stream map still leads to the message
    code,               \* CodeHighlight
    external            \* rx of Plain and Thinking, and what became of it

textVars == <<owner, received, streaming, code, external>>

NoBuild == [at |-> "none", source |-> 0, overlays |-> FALSE, width |-> 0]

\* Nobody has drawn it yet: a placeholder in one style, without overlays; width 0 is no width.
try_new(source, overlays) ==
    [source |-> source, overlays |-> overlays, pending |-> NoBuild, last_width |-> 0,
     source_dirty |-> TRUE, theme_dirty |-> FALSE,
     widget |-> [source |-> source, overlays |-> FALSE, width |-> 0]]

TextInit ==
    /\ owner \in {"stream", "command"}
    /\ streaming = (owner = "stream")
    /\ received = IF streaming THEN 0 ELSE 1
    /\ code = try_new(received, ~streaming)
    /\ external = "none"

-----------------------------------------------------------------------------
(* CodeHighlight *)

spawn_build(c, width) ==
    [c EXCEPT !.pending = [at |-> "running", source |-> c.source, overlays |-> c.overlays,
                           width |-> width]]

\* A change of the source is built at once when nothing is being built, if the width is known.
Rebuilt(c) ==
    IF c.last_width # 0 /\ c.pending.at = "none" THEN spawn_build(c, c.last_width) ELSE c

append_source(c) ==
    Rebuilt([c EXCEPT !.source = @ + 1, !.widget.source = @ + 1, !.source_dirty = TRUE])

clear_overlays(c) ==
    IF c.overlays THEN Rebuilt([c EXCEPT !.overlays = FALSE, !.source_dirty = TRUE]) ELSE c

\* Mutant of Stale: whatever was built is taken.
NeverStale(c) == FALSE

\* What was built is only taken if the source is still the one it was built from.
Stale(c) == c.pending.source # c.source

\* A task that panicked never answers: its build stays pending.
poll_pending(c) ==
    LET taken == c.pending.at = "built" /\ ~Stale(c)
    IN IF c.pending.at \notin {"built", "failed"} THEN c
       ELSE [c EXCEPT !.pending = NoBuild, !.last_width = c.pending.width,
                      !.theme_dirty = FALSE, !.source_dirty = ~taken,
                      !.widget = IF taken THEN [source |-> c.pending.source,
                                                overlays |-> c.pending.overlays,
                                                width |-> c.pending.width]
                                 ELSE @]

maybe_spawn(c, width) ==
    IF /\ c.theme_dirty \/ c.source_dirty \/ c.last_width # width
       /\ c.pending.at = "none"
    THEN spawn_build([c EXCEPT !.theme_dirty = FALSE], width) ELSE c

\* build_widget on the blocking pool: it may fail, and it may panic.
BuildEnds ==
    /\ code.pending.at = "running"
    /\ \E at \in {"built", "failed", "panicked"} :
          code' = [code EXCEPT !.pending.at = at]
    /\ UNCHANGED <<owner, received, streaming, external>>

-----------------------------------------------------------------------------
(* Its owners *)

append_text ==
    /\ streaming /\ received < MaxText
    /\ received' = received + 1 /\ code' = append_source(code)
    /\ UNCHANGED <<owner, streaming, external>>

\* With an external renderer configured, a task of its own is started with the whole text.
finalize_stream ==
    /\ streaming /\ streaming' = FALSE
    /\ code' = try_new(received, FALSE)
    /\ external' \in {"none", "running"}
    /\ UNCHANGED <<owner, received>>

\* reset_stream alone, on a retry or a cancel: the message is left as it is.
StreamForgotten ==
    /\ streaming /\ streaming' = FALSE
    /\ UNCHANGED <<owner, received, code, external>>

\* The command renders the text or fails; it fails without an answer.
ExternalEnds ==
    /\ external = "running" /\ external' \in {"ready", "failed"}
    /\ UNCHANGED <<owner, received, streaming, code>>

set_requiring_confirmation(value) ==
    /\ owner = "command"
    /\ code' = IF value THEN try_new(received, TRUE) ELSE clear_overlays(code)
    /\ UNCHANGED <<owner, received, streaming, external>>

\* The widget of the external renderer takes the place of the highlighter.
Highlighting == external # "shown"

on_tick ==
    /\ external' = IF external = "ready" THEN "shown" ELSE external
    /\ code' = IF external' = "shown" THEN code ELSE poll_pending(code)
    /\ UNCHANGED <<owner, received, streaming>>

DrawText(width) ==
    /\ Highlighting /\ code' = maybe_spawn(poll_pending(code), width)
    /\ UNCHANGED <<owner, received, streaming, external>>

switch_theme ==
    /\ Highlighting /\ code' = [code EXCEPT !.theme_dirty = TRUE]
    /\ UNCHANGED <<owner, received, streaming, external>>

TextNext ==
    \/ BuildEnds \/ append_text \/ finalize_stream \/ StreamForgotten \/ ExternalEnds
    \/ \E value \in BOOLEAN : set_requiring_confirmation(value)
    \/ on_tick \/ switch_theme
    \/ \E width \in Widths : DrawText(width)

TextSpec == TextInit /\ [][TextNext]_textVars

-----------------------------------------------------------------------------
(* Properties *)

\* Whenever a build ends and whatever arrived meanwhile, the widget has the text the message
\* has, no chunk missing and none twice; and once nothing is pending or dirty it has been
\* built, for the width it was last drawn with (append_source, poll_pending, maybe_spawn).
WidgetHasTheText ==
    /\ code.source = received /\ code.widget.source = received
    /\ code.pending.at = "none" /\ ~code.source_dirty =>
          code.widget.width # 0 /\ code.widget.width = code.last_width
=============================================================================
