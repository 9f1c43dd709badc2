------------------------------ MODULE HunkEdits ------------------------------
(****************************************************************************)
(* A str_replace edit the user decides hunk by hunk: the widget             *)
(* (components/messages/tool/str_replace.rs), the chat that applies or      *)
(* rejects the hunk (components/chat.rs) and what that does to the two      *)
(* texts (src/text_edit.rs).  A hunk depends on the lines of context, which *)
(* the user changes, and the texts are compared anew after each decision.   *)
(*                                                                          *)
(* No line occurs twice, so that how two texts differ is determined: line i *)
(* of the file is i, what replaces it NewLine(i), what is inserted before   *)
(* it Ins(i).                                                               *)
(****************************************************************************)
EXTENDS SequenceFilters, SequencesExt, FiniteSetsExt

CONSTANTS
    Length,             \* of the file
    MaxRadius, DefaultRadius    \* MAX_CONTEXT_RADIUS, DEFAULT_CONTEXT_RADIUS

ASSUME HunkAssumption ==
    Length \in Nat \ {0} /\ MaxRadius \in Nat /\ DefaultRadius \in 0..MaxRadius

Lines      == 1..Length
Changes    == {"same", "replace", "delete", "insert"}
NewLine(i) == Length + i
Ins(i)     == 2 * Length + i

VARIABLES
    change,             \* per line, what the tool use does to it
    file,               \* on disk
    text, new_text,     \* of the TextEdit
    holder,             \* who has it: the widget, the task, or nobody any more
    radius, hunk_idx,   \* of the widget
    answer,             \* of the tool use
    accepted, rejected  \* history: the lines in the hunks the user decided

hunkVars == <<change, file, text, new_text, holder, radius, hunk_idx, answer, accepted, rejected>>

\* The text with some of the changes made.
With(of, lines) ==
    FlattenSeq([i \in Lines |->
        IF i \notin lines \/ of[i] = "same" THEN <<i>>
        ELSE CASE of[i] = "replace" -> <<NewLine(i)>>
               [] of[i] = "delete"  -> <<>>
               [] of[i] = "insert"  -> <<Ins(i), i>>])

\* prepare and replace: the whole file is read.
HunkInit ==
    /\ change \in [Lines -> Changes] /\ \E i \in Lines : change[i] # "same"
    /\ file = With(change, {}) /\ text = file /\ new_text = With(change, Lines)
    /\ holder = "widget" /\ radius = DefaultRadius /\ hunk_idx = 0
    /\ answer = "none" /\ accepted = {} /\ rejected = {}

-----------------------------------------------------------------------------
(* Hunks of the unified diff; external, from the crate similar *)

Common(a, b) == Excluding(a, ToSet(a) \ ToSet(b))

\* How many lines of s come before the end of its r-th common line.
UpTo(s, common, r) ==
    CASE r = 0               -> 0
      [] r > Len(common)     -> Len(s) + 1
      [] OTHER               -> CHOOSE k \in DOMAIN s : s[k] = common[r]

\* The places, after the r-th common line, where the texts differ.
Gaps(a, b) ==
    LET c == Common(a, b) IN
    {r \in 0..Len(c) : \/ UpTo(a, c, r + 1) > UpTo(a, c, r) + 1
                       \/ UpTo(b, c, r + 1) > UpTo(b, c, r) + 1}

\* Gaps with at most 2n lines between them are in one hunk.
Firsts(a, b, n) ==
    {r \in Gaps(a, b) : \A p \in Gaps(a, b) : p < r => r - p > 2 * n}

hunk_total(a, b, n) == Cardinality(Firsts(a, b, n))

\* Which lines of both texts the idx-th hunk has, with its context: after start, up to end.
Hunk(a, b, n, idx) ==
    LET c     == Common(a, b)
        first == CHOOSE r \in Firsts(a, b, n) :
                    Cardinality({p \in Firsts(a, b, n) : p < r}) = idx
        last  == Max({r \in Gaps(a, b) :
                        r >= first /\ \A p \in Firsts(a, b, n) : p > first => r < p})
        Least(x, y) == IF x < y THEN x ELSE y
        before == Least(n, first)
        after  == Least(n, Len(c) - last)
    IN [old_start |-> UpTo(a, c, first) - before, old_end |-> UpTo(a, c, last + 1) - 1 + after,
        new_start |-> UpTo(b, c, first) - before, new_end |-> UpTo(b, c, last + 1) - 1 + after]

-----------------------------------------------------------------------------
(* src/text_edit.rs *)

\* Mutant of apply_hunk: what was applied before is taken from the new text.
apply_hunks_so_far(a, b, n, idx) ==
    LET h == Hunk(a, b, n, idx) IN
    SubSeq(b, 1, h.new_end) \o SubSeq(a, h.old_end + 1, Len(a))

apply_hunk(a, b, n, idx) ==
    LET h == Hunk(a, b, n, idx) IN
    SubSeq(a, 1, h.old_start) \o SubSeq(b, h.new_start + 1, h.new_end)
       \o SubSeq(a, h.old_end + 1, Len(a))

reject_hunk(a, b, n, idx) ==
    LET h == Hunk(a, b, n, idx) IN
    SubSeq(b, 1, h.new_start) \o SubSeq(a, h.old_start + 1, h.old_end)
       \o SubSeq(b, h.new_end + 1, Len(b))

-----------------------------------------------------------------------------
(* The widget *)

Clamped(idx, a, b, n) == LET total == hunk_total(a, b, n) IN
    IF total = 0 THEN 0 ELSE IF idx >= total THEN total - 1 ELSE idx

shift_hunk ==
    /\ holder = "widget"
    /\ hunk_idx' \in {hunk_idx + 1} \cup (IF hunk_idx > 0 THEN {hunk_idx - 1} ELSE {})
    /\ hunk_idx' < hunk_total(text, new_text, radius)
    /\ UNCHANGED <<change, file, text, new_text, holder, radius, answer, accepted, rejected>>

adjust_context ==
    /\ holder = "widget"
    /\ radius' \in 0..MaxRadius /\ (radius' = radius + 1 \/ radius = radius' + 1)
    /\ hunk_idx' = Clamped(hunk_idx, text, new_text, radius')
    /\ UNCHANGED <<change, file, text, new_text, holder, answer, accepted, rejected>>

\* What the user sees when they decide: the lines of the shown hunk that differ.
LinesIn(a, b, n, idx) ==
    LET h   == Hunk(a, b, n, idx)
        old == ToSet(SubSeq(a, h.old_start + 1, h.old_end))
        new == ToSet(SubSeq(b, h.new_start + 1, h.new_end))
    IN {i \in Lines : \/ i \in old \ new
                      \/ {NewLine(i), Ins(i)} \cap (new \ old) # {}}

LinesInHunk == LinesIn(text, new_text, radius, hunk_idx)

\* The edit goes with the action: the keys are dead until it comes back.
Decides(as) ==
    /\ holder = "widget" /\ hunk_total(text, new_text, radius) > 0
    /\ holder' = as
    /\ UNCHANGED <<change, file, text, new_text, radius, hunk_idx, answer>>

KeyApply ==
    Decides("applying") /\ accepted' = accepted \cup LinesInHunk /\ UNCHANGED rejected
KeyRejectHunk ==
    Decides("rejecting") /\ rejected' = rejected \cup LinesInHunk /\ UNCHANGED accepted

\* AskEvent::TextEdit brings the edit back; the index may be beyond the last hunk now.
update_text_edit ==
    /\ holder' = "widget" /\ hunk_idx' = Clamped(hunk_idx, text', new_text', radius)
    /\ UNCHANGED answer

Ends(with) == holder' = "nobody" /\ answer' = with /\ UNCHANGED hunk_idx

-----------------------------------------------------------------------------
(* The chat *)

\* Writing the file may fail, and may leave it empty.
task_apply_text_edit ==
    /\ holder = "applying"
    /\ UNCHANGED <<change, new_text, radius, accepted, rejected>>
    /\ text' = apply_hunk(text, new_text, radius, hunk_idx)
    /\ \/ /\ file' = text'
          /\ IF text' = new_text THEN Ends("applied") ELSE update_text_edit
       \/ file' \in {file, <<>>} /\ Ends("failed")

\* The user hears whether anything of the edit was applied: it is compared with its origin.
reject_text_edit ==
    /\ holder = "rejecting"
    /\ UNCHANGED <<change, file, text, radius, accepted, rejected>>
    /\ new_text' = reject_hunk(text, new_text, radius, hunk_idx)
    /\ IF new_text' = text
       THEN Ends(IF text # With(change, {}) THEN "rejects some" ELSE "rejects all")
       ELSE update_text_edit

HunkNext ==
    \/ shift_hunk \/ adjust_context \/ KeyApply \/ KeyRejectHunk
    \/ task_apply_text_edit \/ reject_text_edit

HunkSpec == HunkInit /\ [][HunkNext]_hunkVars

-----------------------------------------------------------------------------
(* Properties *)

Wanted == {i \in Lines : change[i] # "same"}

\* However the user walked through the hunks and changed their context: the file has the
\* changes that were in a hunk when it was accepted, and no other; when the edit is over each
\* change was decided, once, and the answer to the model says which (apply_hunk, reject_hunk,
\* task_apply_text_edit, reject_text_edit).
FileIsWhatWasAccepted ==
    /\ holder \in {"widget", "rejecting"} => file = With(change, accepted)
    /\ accepted \cap rejected = {}
    /\ holder = "nobody" /\ answer # "failed" =>
          /\ file = With(change, accepted) /\ accepted \cup rejected = Wanted
          /\ answer = "rejects all" <=> accepted = {}
=============================================================================
