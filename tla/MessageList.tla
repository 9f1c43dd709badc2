----------------------------- MODULE MessageList -----------------------------
(****************************************************************************)
(* The list of messages on the screen (components/messages.rs): what the    *)
(* user scrolls and walks through while messages are added, grow, fold and  *)
(* are hidden.  When they are higher than the viewport only those in view   *)
(* are drawn, found by a binary search in the sums of their heights.        *)
(*                                                                          *)
(* A row is a pair of a message and the number of its row.  Heights are     *)
(* summed in u16 there: the bounds keep them far below.                     *)
(****************************************************************************)
EXTENDS Integers, Sequences, FiniteSetsExt, SequencesExt

CONSTANTS
    MaxMessages,        \* bound: in the list
    MaxRows,            \* bound: of one message
    Viewports           \* heights of the area

ASSUME ListAssumption ==
    MaxMessages \in Nat /\ MaxRows \in Nat \ {0} /\ Viewports \subseteq Nat \ {0}

VARIABLES
    messages,           \* [rows, thinking, collapsed]
    focus, last_focus,  \* None is 0
    last_range,         \* last_focus_range, absolute: after its first, up to its second row
    viewport, total,    \* viewport_height and total_height, as of the last draw
    offset,             \* rows below the viewport
    fresh               \* nothing changed since the last draw

listVars == <<messages, focus, last_focus, last_range, viewport, total, offset, fresh>>

ListInit ==
    /\ messages = <<>> /\ focus = 0 /\ last_focus = 0 /\ last_range = <<0, 0>>
    /\ viewport = 0 /\ total = 0 /\ offset = 0 /\ fresh = FALSE

Places    == DOMAIN messages
Hidden(i) == messages[i].thinking /\ messages[i].collapsed

\* height_compact
Height(i)   == IF Hidden(i) THEN 0 ELSE messages[i].rows

cumulative_heights ==
    LET sum[n \in 0..Len(messages)] == IF n = 0 THEN 0 ELSE sum[n - 1] + Height(n) IN sum

HeightTo(i) == cumulative_heights[i]

\* offset is counted from the bottom; the top of the viewport is at this row.
scroll_position == LET hidden == Max({total - viewport, 0}) IN hidden - Min({offset, hidden})

-----------------------------------------------------------------------------
(* What draw draws *)

\* The message whose sum is the row looked for, any of them when hidden messages share it;
\* otherwise the place before the first greater sum.  Messages are counted from 0 here.
Search(row, found, other) ==
    LET sums == [k \in 0..(Len(messages) - 1) |-> HeightTo(k)]
        hits == {k \in DOMAIN sums : sums[k] = row}
    IN IF hits # {} THEN {found + k : k \in hits}
       ELSE {other + Cardinality({k \in DOMAIN sums : sums[k] < row})}

\* Mutant of EndIndexes: one message too few.
EndIndexesExclusive(end) == {Min({k, Len(messages)}) : k \in Search(end, 0, -1)}

EndIndexes(end) == {Min({k, Len(messages)}) : k \in Search(end, 1, 0)}

find_visible_range(position) ==
    {[start |-> s, end |-> e, position |-> position - HeightTo(s)] :
        s \in {Max({k, 0}) : k \in Search(position, 0, -1)},
        e \in EndIndexes(position + viewport)}

Rows(from, to) ==
    FlattenSeq([k \in 1..(to - from) |-> [r \in 1..Height(from + k) |-> <<from + k, r>>]])

\* The messages in range are drawn elsewhere, and the rows in view are copied.
virtual_draw(range) ==
    LET drawn == Rows(range.start, range.end)
    IN SubSeq(drawn, range.position + 1, Min({range.position + viewport, Len(drawn)}))

Views ==
    IF total > viewport THEN {virtual_draw(r) : r \in find_visible_range(scroll_position)}
    ELSE {Rows(0, Len(messages))}

-----------------------------------------------------------------------------
(* Operations *)

Edited == fresh' = FALSE /\ UNCHANGED <<last_focus, last_range, viewport, total>>

scroll_to_bottom == offset' = 0

\* push, extend, or TextStreams with an index it does not know
push ==
    /\ Len(messages) < MaxMessages
    /\ \E thinking \in BOOLEAN :
          messages' = Append(messages, [rows |-> 1, thinking |-> thinking, collapsed |-> FALSE])
    /\ scroll_to_bottom /\ UNCHANGED focus /\ Edited

TextStreams ==
    /\ \E i \in Places : messages[i].rows < MaxRows
                         /\ messages' = [messages EXCEPT ![i].rows = @ + 1]
    /\ scroll_to_bottom /\ UNCHANGED focus /\ Edited

\* Output arrives, a result folds the widget: the offset stays, counted from the bottom.
on_tool_event ==
    /\ \E i \in Places, rows \in 1..MaxRows :
          ~messages[i].thinking /\ messages' = [messages EXCEPT ![i].rows = rows]
    /\ UNCHANGED <<focus, offset>> /\ Edited

collapse_thinking ==
    /\ messages' = [i \in Places |-> [messages[i] EXCEPT !.collapsed = messages[i].thinking]]
    /\ UNCHANGED <<focus, offset>> /\ Edited

\* Of the message in focus, or the nearest thinking before it, not beyond a message of the
\* user's; here all are the bot's.
toggle_thinking_for_focus ==
    LET before == {i \in 1..focus : messages[i].thinking} IN
    /\ focus \in Places /\ before # {}
    /\ messages' = [messages EXCEPT ![Max(before)].collapsed = ~@]
    /\ UNCHANGED <<focus, offset>> /\ Edited

update_focus(i) ==
    /\ focus # i /\ focus' = i /\ UNCHANGED <<messages, offset>> /\ Edited

select_prev ==
    LET shown == {i \in 1..(focus - 1) : ~Hidden(i)} IN
    focus # 0 /\ shown # {} /\ update_focus(Max(shown))

select_next ==
    LET shown == {i \in (focus + 1)..Len(messages) : ~Hidden(i)} IN
    focus # 0 /\ shown # {} /\ update_focus(Min(shown))

select_last ==
    LET shown == {i \in Places : ~Hidden(i)} IN
    shown # {} /\ update_focus(Max(shown))

\* focus(idx) of a widget that waits for the user, and blur
FocusOrBlur == \E i \in {0} \cup {k \in Places : ~messages[k].thinking} : update_focus(i)

scroll_up(n)   == offset' = Min({offset + n, Max({total - viewport, 0})})
scroll_down(n) == offset' = Max({offset - n, 0})
Scroll ==
    /\ \E n \in {1, viewport \div 2} : scroll_up(n) \/ scroll_down(n)
    /\ UNCHANGED <<messages, focus>> /\ Edited

clear ==
    /\ messages # <<>> /\ messages' = <<>> /\ focus' = 0 /\ offset' = 0
    /\ last_focus' = 0 /\ last_range' = <<0, 0>> /\ total' = 0 /\ fresh' = FALSE
    /\ UNCHANGED viewport

\* focus_range_with_heights: where the message in focus is in the whole list
focus_range == IF focus \in Places THEN <<HeightTo(focus - 1), HeightTo(focus)>> ELSE <<0, 0>>

\* The range is absolute, and taken here as if it began at the message.
ensure_focus_visible(height, area, at) ==
    LET top    == HeightTo(focus - 1)
        first  == top + Min({focus_range[1], Height(focus)})
        last   == top + Min({focus_range[2], Height(focus)})
        most   == height - area
        start  == most - at
        wanted == IF first < start THEN first
                  ELSE IF last > start + area THEN Max({last - area, 0}) ELSE start
    IN IF height <= area THEN 0
       ELSE IF at = 0 /\ focus = Len(messages) /\ last >= start + area THEN at
       ELSE most - Min({wanted, most})

\* The viewport and the heights are measured, the offset is clamped, and the focus followed if
\* it or its rows changed.
draw(area) ==
    LET height  == HeightTo(Len(messages))
        clamped == Min({offset, Max({height - area, 0})})
        moved   == focus # last_focus \/ focus_range # last_range
    IN /\ total' = height /\ viewport' = area
       /\ offset' = IF moved /\ focus # 0 THEN ensure_focus_visible(height, area, clamped)
                    ELSE clamped
       /\ last_focus' = focus /\ last_range' = focus_range
       /\ fresh' = TRUE /\ UNCHANGED <<messages, focus>>

ListNext ==
    \/ push \/ TextStreams \/ on_tool_event \/ collapse_thinking
    \/ toggle_thinking_for_focus \/ select_prev \/ select_next \/ select_last \/ FocusOrBlur
    \/ Scroll \/ clear
    \/ \E area \in Viewports : draw(area)

ListSpec == ListInit /\ [][ListNext]_listVars

-----------------------------------------------------------------------------
(* Properties *)

\* After a draw the user sees the rows the scroll position says, all of the viewport when there
\* are enough, however messages were hidden and resized since, and whichever of several equal
\* sums the binary search found (clamp_offset, find_visible_range, virtual_draw).
ViewIsTheScrolledRows ==
    fresh =>
       \A view \in Views :
          LET rows == Rows(0, Len(messages)) IN
          view = IF Len(rows) <= viewport THEN rows
                 ELSE SubSeq(rows, Len(rows) - viewport - offset + 1, Len(rows) - offset)
=============================================================================
