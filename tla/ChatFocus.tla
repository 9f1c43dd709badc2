----------------------------- MODULE ChatFocus ------------------------------
(****************************************************************************)
(* Who gets the next key: the focus of the chat, its two overlays (command  *)
(* palette and shortcut hints), the transcript view, the selected message   *)
(* and the queue of things that wait for the user (chat.rs, messages.rs).   *)
(* Tools, combos and the model move the focus at any time. The actions a    *)
(* key sends are handled before the next event (app.rs), so a key and its   *)
(* action are one step; a component's update runs before its children's,    *)
(* so the chat moves the focus while the tool still shows as waiting.       *)
(****************************************************************************)
EXTENDS Naturals, Sequences, FiniteSets, FiniteSetsExt, SequenceFilters

CONSTANTS
    NoFocus,     \* prev_focus is not set
    MaxShown     \* bound on the messages of the first session's list

Foci == {"Input", "InputBlur", "Messages", "CommandPalette", "ShortcutHints"}

ASSUME ShownAssumption == MaxShown \in Nat /\ NoFocus \notin Foci

VARIABLES
    ui,          \* the chat, see UIs
    astray       \* history: the user looked away, or what had the focus ended by itself

focusVars == <<ui, astray>>

Askers   == {"bash", "edit", "combo"}       \* messages that can wait for the user
Contents == Askers \cup {"text", "thought"}   \* a collapsed thought is hidden
Shows    == {"none", "initing", "asks", "executing", "over"}
Pending  == [kind : {"bash", "edit", "reply", "feedback"}]   \* reply: the combo's

UIs == [focus : Foci, prev_focus : Foci \cup {NoFocus}, view : {"Chat", "Transcript"},
        list : Seq(Contents), selected : Nat, shows : [Askers -> Shows],
        pending : Seq(Pending), sock : BOOLEAN, offload : BOOLEAN, ready : BOOLEAN,
        armed : BOOLEAN, left : {"no", "new", "restored"}]

FocusInit ==
    /\ ui = [focus |-> "Input", prev_focus |-> NoFocus, view |-> "Chat", list |-> <<>>,
             selected |-> 0, shows |-> [a \in Askers |-> "none"], pending |-> <<>>,
             sock |-> FALSE, offload |-> FALSE, ready |-> TRUE, armed |-> FALSE,
             left |-> "no"]
    /\ astray = FALSE

-----------------------------------------------------------------------------
(* The list and its selection *)

Located(u, content) ==
    IF \E i \in DOMAIN u.list : u.list[i] = content
    THEN Min({i \in DOMAIN u.list : u.list[i] = content}) ELSE 0

WaitingAt(u) ==
    {i \in DOMAIN u.list : u.list[i] \in Askers /\ u.shows[u.list[i]] = "asks"}

Selectable(u) == {i \in DOMAIN u.list : u.list[i] # "thought"}

\* Esc leaves the list unless the message takes it; a bash tool always does, the others
\* while they wait and, with something to unfold, at other times.
LetsLeave(u) ==
    u.selected # 0 /\ u.list[u.selected] \in Askers =>
        u.list[u.selected] # "bash" /\ u.shows[u.list[u.selected]] # "asks"

SelectedWaits(u) == u.selected \in WaitingAt(u)

\* Mutant of MovesFocus: the hints are left by an event, and still know where to go back.
MovesFocusOnly(u, f) == IF u.focus = f THEN u ELSE [u EXCEPT !.focus = f]

MovesFocus(u, f) ==
    IF u.focus = f THEN u
    ELSE [u EXCEPT !.focus = f,
                   !.prev_focus = IF u.focus = "ShortcutHints" THEN NoFocus ELSE @]

Deselected(u) == [u EXCEPT !.selected = 0]

LooksAt(u, i) == [MovesFocus(u, "Messages") EXCEPT !.selected = i]

-----------------------------------------------------------------------------
(* What waits for the user *)

WithPending(u, action) ==
    [u EXCEPT !.pending = Append(Excluding(@, {action}), action)]

WithoutPending(u, actions) == [u EXCEPT !.pending = Excluding(@, actions)]

OfCombo == {[kind |-> "reply"], [kind |-> "feedback"]}

\* The message of a pending action; a feedback needs none.
ShownFor(u, action) == Located(u, IF action.kind = "reply" THEN "combo" ELSE action.kind)

Reachable(u) ==
    {i \in DOMAIN u.pending : \/ u.pending[i].kind = "feedback"
                              \/ ShownFor(u, u.pending[i]) # 0}

\* After the selected message, or from the first one up to it.
NextWaiting(u) ==
    LET after == {i \in WaitingAt(u) : i > u.selected}
        before == {i \in WaitingAt(u) : i < u.selected}
    IN IF after # {} THEN Min(after) ELSE IF before # {} THEN Min(before) ELSE 0

focus_next_pending_user_action(u) ==
    IF Reachable(u) # {}
    THEN LET action == u.pending[Min(Reachable(u))]
         IN IF action.kind = "feedback" THEN Deselected(MovesFocus(u, "Input"))
            ELSE LooksAt(u, ShownFor(u, action))
    ELSE IF NextWaiting(u) # 0 THEN LooksAt(u, NextWaiting(u)) ELSE u

focus_next_pending_user_action_or_input(u) ==
    IF Reachable(u) = {} /\ NextWaiting(u) = 0 THEN Deselected(MovesFocus(u, "Input"))
    ELSE focus_next_pending_user_action(u)

Processes(u) == [u EXCEPT !.ready = FALSE]

BecomesReady(u) == IF u.ready THEN u ELSE [u EXCEPT !.ready = TRUE, !.armed = FALSE]

Showing(u, asker, show) == [u EXCEPT !.shows[asker] = show]

-----------------------------------------------------------------------------
(* Events: they come at any time, whatever has the focus *)

\* No session was left whose tools still work.
AllListed(u) == \A a \in Askers : u.shows[a] = "none" \/ Located(u, a) # 0

Happens(u) ==
    /\ ui' = u
    /\ astray' = IF u.focus = "Messages" /\ SelectedWaits(u) /\ AllListed(u)
                 THEN FALSE ELSE astray

\* The combo ends, waiting or not: the focus stays where it was.
ComboIsOver(u) ==
    /\ ui.shows["combo"] \in {"asks", "executing"}
    /\ ui' = Showing(u, "combo", "over")
    /\ astray' = (astray \/ ~SelectedWaits(ui'))

MessageIsPushed ==
    /\ Len(ui.list) < MaxShown /\ ui.left = "no"
    /\ \E content \in Contents :
          /\ content \in Askers => ui.shows[content] = "none"
          /\ LET pushed == [ui EXCEPT !.list = Append(@, content)]
             IN Happens(IF content = "combo" THEN Processes(Showing(pushed, content, "executing"))
                        ELSE IF content \in Askers THEN Showing(pushed, content, "initing")
                        ELSE pushed)

\* AskEvent::ToolUsePermission, and AskEvent::TextEdit that is not accepted by itself
PermissionIsAsked ==
    \E asker \in {"bash", "edit"} :
       /\ ui.shows[asker] = "initing"
       /\ LET asked == Showing(WithPending(ui, [kind |-> asker]), asker, "asks")
          IN Happens(IF Located(ui, asker) # 0 THEN LooksAt(asked, Located(ui, asker))
                     ELSE asked)

EditIsAccepted ==
    /\ ui.shows["edit"] = "initing"
    /\ Happens(Showing(ui, "edit", "executing"))

\* AnswerEvent::ToolResult; a cancelled tool is no error
ToolIsDone ==
    \E asker \in {"bash", "edit"}, is_error \in BOOLEAN :
       /\ ui.shows[asker] \in {"initing", "executing"}
       /\ LET done == Showing(WithoutPending(ui, {[kind |-> asker]}), asker, "over")
          IN Happens(Processes(
                IF ~is_error /\ Located(ui, asker) # 0 /\ ui.selected = Located(ui, asker)
                THEN focus_next_pending_user_action_or_input(done) ELSE done))

ComboIsPrompted ==
    /\ ui.shows["combo"] = "executing"
    /\ Happens(Processes(WithPending([ui EXCEPT !.sock = TRUE], [kind |-> "feedback"])))

\* ComboEvent::ReplyToolUse that needs a confirmation: one answers an interactive ask, whose
\* prompt told the session's socket.
ReplyNeedsUser ==
    /\ ui.shows["combo"] = "executing" /\ ~ui.offload /\ ui.sock
    /\ LET asked == WithPending(WithoutPending([ui EXCEPT !.offload = TRUE],
                                               {[kind |-> "feedback"]}), [kind |-> "reply"])
           seen == IF Located(ui, "combo") = 0 THEN asked
                   ELSE LooksAt(asked, Located(ui, "combo"))
       IN Happens(Processes(Showing(seen, "combo", "asks")))

\* ComboEvent::ReplyToolResult, or the ToolResult of the reply
ReplyIsDone ==
    /\ ui.offload /\ ui.shows["combo"] = "executing"
    /\ Happens(WithoutPending([ui EXCEPT !.offload = FALSE], {[kind |-> "reply"]}))

ComboIsExecuted == ComboIsOver(WithoutPending([ui EXCEPT !.sock = FALSE], OfCombo))

\* ComboEvent::Cancelled and NotFound
ComboIsCancelled ==
    ComboIsOver(BecomesReady(
        WithoutPending([ui EXCEPT !.sock = FALSE, !.offload = FALSE], OfCombo)))

TurnSettles ==
    /\ ~ui.ready
    /\ Happens(BecomesReady(ui))

ReminderExpires ==
    /\ ui.armed
    /\ Happens([ui EXCEPT !.armed = FALSE])

-----------------------------------------------------------------------------
(* Keys *)

\* The user moves the focus or the selection.
UserMoves(u) ==
    /\ ui' = u
    /\ astray' = TRUE

Typing(focus) == ui.view = "Chat" /\ ui.focus = focus

KeyBlurs     == Typing("Input") /\ UserMoves(MovesFocus(ui, "InputBlur"))
KeyEdits     == Typing("InputBlur") /\ UserMoves(MovesFocus(ui, "Input"))
KeyPalette   == Typing("InputBlur") /\ UserMoves(MovesFocus(ui, "CommandPalette"))

\* on_submit: what a combo waits for goes to its session, the rest to the model
KeySubmits ==
    /\ ui.ready
    /\ Typing("Input") \/ Typing("InputBlur")
    /\ \E fails \in BOOLEAN :
          /\ fails => [kind |-> "feedback"] \in {ui.pending[i] : i \in DOMAIN ui.pending}
          /\ ui' = IF fails \/ Len(ui.list) = MaxShown THEN ui
                   ELSE Processes([ui EXCEPT !.list =
                      IF [kind |-> "feedback"] \in {ui.pending[i] : i \in DOMAIN ui.pending}
                      THEN @ ELSE Append(@, "text")])
    /\ UNCHANGED astray

open_shortcut_hints ==
    /\ Typing("InputBlur") \/ Typing("Messages")
    /\ ui' = [MovesFocus(ui, "ShortcutHints") EXCEPT !.prev_focus = ui.focus]
    /\ UNCHANGED astray

\* Any key.
close_shortcut_hints ==
    /\ Typing("ShortcutHints")
    /\ ui' = MovesFocus(ui, IF ui.prev_focus = NoFocus THEN "InputBlur" ELSE ui.prev_focus)
    /\ UNCHANGED astray

KeyUp ==
    LET last == IF ui.focus = "InputBlur" THEN Len(ui.list) + 1 ELSE ui.selected
        above == {i \in Selectable(ui) : i < last}
    IN /\ Typing("InputBlur") \/ Typing("Messages")
       /\ above # {}
       /\ UserMoves(LooksAt(ui, Max(above)))

KeyDown ==
    LET below == {i \in Selectable(ui) : i > ui.selected}
    IN /\ Typing("Messages") /\ ui.selected # 0
       /\ UserMoves(IF below # {} THEN LooksAt(ui, Min(below))
                    ELSE MovesFocus(Deselected(ui), "InputBlur"))

KeyLeaves ==
    /\ Typing("Messages") /\ LetsLeave(ui)
    /\ UserMoves(MovesFocus(Deselected(ui), "InputBlur"))

\* Enter or A on what waits; an edit is applied, its focus stays until the result.
Accepted(u) ==
    LET asker == u.list[u.selected]
        action == [kind |-> IF asker = "combo" THEN "reply" ELSE asker]
    IN IF asker = "edit" THEN Processes(Showing(u, asker, "executing"))
       ELSE Showing(focus_next_pending_user_action_or_input(WithoutPending(
               IF asker = "combo" THEN Showing(u, asker, "executing") ELSE u, {action})),
               asker, "executing")

\* Esc on what waits. The widget of a combo has already left the waiting state, a tool's
\* leaves it after the chat has looked for the next one to wait.
Refused(u) ==
    LET asker == u.list[u.selected]
        without == WithoutPending(IF asker = "combo" THEN [Showing(u, asker, "executing")
                                                           EXCEPT !.offload = FALSE]
                                  ELSE u,
                                  {[kind |-> IF asker = "combo" THEN "reply" ELSE asker]})
        left == Deselected(MovesFocus(without, "Input"))
        back == IF asker = "combo" THEN WithPending(left, [kind |-> "feedback"]) ELSE left
    IN Showing(focus_next_pending_user_action(BecomesReady(back)), asker,
               IF asker = "combo" THEN "executing" ELSE "over")

KeyAccepts ==
    /\ Typing("Messages") /\ SelectedWaits(ui)
    /\ Happens(Accepted(ui))

KeyRefuses ==
    /\ Typing("Messages") /\ SelectedWaits(ui)
    /\ Happens(Refused(ui))

\* A hunk is refused and others are left: the edit comes again.
KeyRefusesHunk ==
    /\ Typing("Messages") /\ SelectedWaits(ui) /\ ui.list[ui.selected] = "edit"
    /\ Happens(Showing(ui, "edit", "initing"))

\* The second one within the window refuses what waits; with nothing waiting, or a command at
\* work, it cancels or quits (ChatTurn).
KeyCtrlC ==
    LET bash_runs == Located(ui, "bash") # 0 /\ ui.shows["bash"] \in {"initing", "executing"}
        waiting == IF SelectedWaits(ui) THEN ui.selected ELSE Max(WaitingAt(ui) \cup {0})
        seen == LooksAt(ui, waiting)
    IN Happens(
         IF ui.view = "Transcript" \/ bash_runs \/ waiting = 0 THEN [ui EXCEPT !.armed = ~@]
         ELSE IF ui.armed THEN Refused([seen EXCEPT !.armed = FALSE])
         ELSE [seen EXCEPT !.armed = TRUE])

-----------------------------------------------------------------------------
(* Actions of the palette: each puts the focus into InputBlur first. Bounds: one session is
   left for a new one, and no message comes once it is left. *)

PaletteCloses ==
    /\ Typing("CommandPalette")
    /\ UserMoves(MovesFocus(ui, "InputBlur"))

\* The lists are new and the focus too; what the old session still waits for is kept.
NewSession ==
    /\ Typing("CommandPalette") /\ ui.left = "no"
    /\ UserMoves([ui EXCEPT !.list = <<>>, !.selected = 0, !.focus = "Input", !.ready = TRUE,
                            !.armed = FALSE, !.left = "new"])

open_transcript ==
    /\ Typing("CommandPalette")
    /\ UserMoves([MovesFocus(ui, "InputBlur") EXCEPT !.view = "Transcript"])

\* The selected message stays selected.
close_transcript ==
    /\ ui.view = "Transcript"
    /\ UserMoves([MovesFocus(ui, "InputBlur") EXCEPT !.view = "Chat"])

\* Another chat takes the place of this one; its focus was saved, its selection was not.
SessionIsRestored ==
    /\ \E list \in {<<>>, <<"text">>}, focus \in Foci :
          UserMoves([ui EXCEPT !.list = list, !.prev_focus = NoFocus, !.view = "Chat",
                !.selected = 0, !.left = "restored",
                !.focus = IF focus = "ShortcutHints" THEN "InputBlur" ELSE focus,
                !.pending = <<>>, !.sock = FALSE, !.offload = FALSE, !.armed = FALSE,
                !.ready = TRUE])

FocusNext ==
    \/ MessageIsPushed \/ PermissionIsAsked \/ EditIsAccepted \/ ToolIsDone
    \/ ComboIsPrompted \/ ReplyNeedsUser \/ ReplyIsDone \/ ComboIsExecuted
    \/ ComboIsCancelled \/ TurnSettles \/ ReminderExpires
    \/ KeyBlurs \/ KeyEdits \/ KeyPalette \/ KeySubmits \/ KeyUp \/ KeyDown \/ KeyLeaves
    \/ KeyAccepts \/ KeyRefuses \/ KeyRefusesHunk \/ KeyCtrlC
    \/ open_shortcut_hints \/ close_shortcut_hints
    \/ PaletteCloses \/ NewSession \/ open_transcript \/ close_transcript
    \/ SessionIsRestored

FocusSpec == FocusInit /\ [][FocusNext]_focusVars

-----------------------------------------------------------------------------
\* The keys of the list have a message to go to, also when the hints are closed over it:
\* forward_key_to_selected would index the list with a selection that is gone. Only a
\* restored session may begin in the list with nothing selected.
KeysHaveAMessage ==
    /\ ui.selected <= Len(ui.list)
    /\ "Messages" \in {ui.focus, ui.prev_focus} /\ ui.left # "restored" => ui.selected # 0

\* While something waits for the user, the focus is on what waits, or on the edit the user
\* has just accepted or refused in part, or a combo's feedback came first: until the user
\* looks away or what had the focus ends by itself.
WaitingIsInSight ==
    WaitingAt(ui) # {} /\ ~astray =>
        \/ /\ "Messages" \in {ui.focus, ui.prev_focus}
           /\ SelectedWaits(ui) \/ ui.list[ui.selected] = "edit"
        \/ [kind |-> "feedback"] \in {ui.pending[i] : i \in DOMAIN ui.pending}

\* The hints know where they go back to, and nobody else does; no overlay is over the
\* transcript, whose keys never reach it.
OverlaysAreWhereTheyWere ==
    /\ (ui.focus = "ShortcutHints") = (ui.prev_focus # NoFocus)
    /\ ui.view = "Transcript" => ui.focus \notin {"CommandPalette", "ShortcutHints"}

\* A feedback in the queue is for a combo whose session was told: what the user types next
\* goes to its socket.
FeedbackHasASession ==
    [kind |-> "feedback"] \in {ui.pending[i] : i \in DOMAIN ui.pending} => ui.sock

FocusIsUsable ==
    /\ KeysHaveAMessage
    /\ OverlaysAreWhereTheyWere
    /\ FeedbackHasASession
    /\ WaitingIsInSight
=============================================================================
