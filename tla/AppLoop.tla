------------------------------- MODULE AppLoop -------------------------------
(****************************************************************************)
(* The loop of the terminal application (app.rs): one event, then all the   *)
(* actions it led to. Who changes what the chat shows signals it with an    *)
(* event (global.rs, State); the frame timer draws when something did. For  *)
(* a shell the application gives the terminal away and takes it back.       *)
(* Drawing does not fail here.                                              *)
(****************************************************************************)
EXTENDS Naturals, Sequences, SequencesExt

CONSTANTS
    Pictures,        \* what the chat can show
    Cleared,           \* a cleared terminal
    MaxEvents        \* bound on the events the timers and tasks put in the queue

ASSUME PictureAssumption == Cleared \in Pictures /\ "shell" \notin Pictures

VARIABLES
    place,           \* where run() is, see AppPlaces
    event_rx, action_rx,
    should_quit,
    dirty, force_full_refresh,
    picture,         \* what the chat would draw now
    buffer,          \* what ratatui believes to be on the screen,
    terminal,        \*   and what is there
    event_loop,      \* the task that reads the terminal
    stray            \* an aborted one that has not ended in time

appVars == <<place, event_rx, action_rx, should_quit, dirty, force_full_refresh, picture,
             buffer, terminal, event_loop, stray>>

AppPlaces == {"event", "action", "for_shell", "shell", "for_good", "over"}

\* As run() enters its loop.
AppInit ==
    /\ place = "event"
    /\ event_rx = <<"Other">> /\ action_rx = <<>>
    /\ should_quit = FALSE
    /\ dirty = TRUE /\ force_full_refresh = FALSE
    /\ picture \in Pictures /\ buffer = Cleared /\ terminal = Cleared
    /\ event_loop = "running" /\ stray = FALSE

-----------------------------------------------------------------------------
(* Who sends events: keys, the frame timer's Render, and the Other ones *)

terminalVars == <<dirty, force_full_refresh, picture, buffer, terminal>>

\* A cancelled loop may send once more: select! takes any branch that is ready.
LoopSends ==
    /\ event_loop # "gone" \/ stray
    /\ Len(event_rx) < MaxEvents
    /\ \E event \in {"Key", "Render", "Other"} : event_rx' = Append(event_rx, event)
    /\ UNCHANGED <<place, action_rx, should_quit, terminalVars, event_loop, stray>>

\* Cancelled or aborted; a running one ends when its stream of terminal events does.
LoopIsGone ==
    /\ \/ event_loop' = "gone" /\ event_loop # "gone" /\ UNCHANGED stray
       \/ stray /\ stray' = FALSE /\ UNCHANGED event_loop
    /\ UNCHANGED <<place, event_rx, action_rx, should_quit, terminalVars>>

TaskSends ==
    /\ Len(event_rx) < MaxEvents
    /\ event_rx' = Append(event_rx, "Other")
    /\ UNCHANGED <<place, action_rx, should_quit, terminalVars, event_loop, stray>>

-----------------------------------------------------------------------------
(* The components *)

\* signal_dirty; one more after one has no effect.
Signalled(events, event) ==
    IF events # <<>> /\ Last(events) = event THEN events ELSE Append(events, event)

\* Mutant of Writes: the widget is changed with write_untracked.
WritesUntracked(events) ==
    picture' \in Pictures /\ event_rx' = events

\* A component writes its State or leaves it: the guard signals as it is dropped.
Writes(events) ==
    \/ picture' \in Pictures /\ event_rx' = Signalled(events, "Dirty")
    \/ UNCHANGED picture /\ event_rx' = events

-----------------------------------------------------------------------------
(* handle_event *)

NextEvent(event) == place = "event" /\ event_rx # <<>> /\ Head(event_rx) = event

EventHandled ==
    /\ place' = "action"
    /\ UNCHANGED <<should_quit, buffer, terminal, event_loop, stray>>

\* What a key leads to, and any other event the components are told: Init, Tick, the mouse,
\* asks and answers.
ComponentEvent ==
    /\ \/ /\ NextEvent("Key")
          /\ action_rx' \in {<<>>, <<"Quit">>, <<"Shell">>, <<"Shell", "Quit">>}
       \/ /\ NextEvent("Other")
          /\ action_rx' \in {<<>>, <<"Other">>}
    /\ Writes(Tail(event_rx))
    /\ EventHandled /\ UNCHANGED <<dirty, force_full_refresh>>

KeyRefreshes ==
    /\ NextEvent("Key")
    /\ event_rx' = Signalled(Tail(event_rx), "FullRefresh")
    /\ EventHandled /\ UNCHANGED <<action_rx, dirty, force_full_refresh, picture>>

EventRender ==
    /\ NextEvent("Render")
    /\ action_rx' = IF dirty THEN <<"Render">> ELSE <<>>
    /\ event_rx' = Tail(event_rx)
    /\ EventHandled /\ UNCHANGED <<dirty, force_full_refresh, picture>>

EventDirty ==
    /\ \/ NextEvent("Dirty") /\ UNCHANGED force_full_refresh
       \/ NextEvent("FullRefresh") /\ force_full_refresh' = TRUE
    /\ dirty' = TRUE
    /\ event_rx' = Tail(event_rx)
    /\ EventHandled /\ UNCHANGED <<action_rx, picture>>

-----------------------------------------------------------------------------
(* handle_action: the whole queue, also after Quit *)

NextAction(action) ==
    /\ place = "action" /\ action_rx # <<>> /\ Head(action_rx) = action
    /\ action_rx' = Tail(action_rx)

ActionQuit ==
    /\ NextAction("Quit")
    /\ should_quit' = TRUE
    /\ UNCHANGED <<place, event_rx, terminalVars, event_loop, stray>>

ActionOther ==
    /\ NextAction("Other")
    /\ Writes(event_rx)
    /\ UNCHANGED <<place, should_quit, dirty, force_full_refresh, buffer, terminal, event_loop, stray>>

\* ratatui writes what differs from what it believes to be there.
Written(from, old, new) == IF old = new THEN from ELSE new

render ==
    LET blanked == IF force_full_refresh THEN Cleared ELSE buffer
    IN /\ NextAction("Render")
       /\ terminal' = Written(Written(terminal, buffer, blanked), blanked, picture)
       /\ buffer' = picture
       /\ dirty' = FALSE /\ force_full_refresh' = FALSE
       /\ UNCHANGED <<place, event_rx, should_quit, picture, event_loop, stray>>

\* The focus leaves the palette, then exit().
ActionShell ==
    /\ NextAction("Shell")
    /\ Writes(event_rx)
    /\ place' = "for_shell"
    /\ UNCHANGED <<should_quit, dirty, force_full_refresh, buffer, terminal, event_loop, stray>>

ActionsAreDone ==
    /\ place = "action" /\ action_rx = <<>>
    /\ place' = IF should_quit THEN "for_good" ELSE "event"
    /\ UNCHANGED <<event_rx, action_rx, should_quit, terminalVars, event_loop, stray>>

-----------------------------------------------------------------------------
(* exit, run_shell, enter *)

Stopping == place \in {"for_shell", "for_good"}

cancel ==
    /\ Stopping /\ event_loop = "running"
    /\ event_loop' = "cancelled"
    /\ UNCHANGED <<place, event_rx, action_rx, should_quit, terminalVars, stray>>

\* The loop has ended, or it was aborted and the wait is given up.
stop ==
    /\ Stopping /\ event_loop # "running"
    /\ stray' = (stray \/ event_loop # "gone")
    /\ event_loop' = "gone"
    /\ place' = IF place = "for_shell" THEN "shell" ELSE "over"
    /\ UNCHANGED <<event_rx, action_rx, should_quit, terminalVars>>

\* terminal.clear(), which also forgets the buffer
enter == buffer' = Cleared /\ terminal' = Cleared

run_shell ==
    /\ place = "shell" /\ terminal # "shell"
    /\ terminal' = "shell"
    /\ UNCHANGED <<place, event_rx, action_rx, should_quit, dirty, force_full_refresh, picture,
                   buffer, event_loop, stray>>

ShellIsLeft ==
    /\ place = "shell" /\ place' = "action"
    /\ enter
    /\ event_loop' = "running"
    /\ event_rx' = Append(event_rx, "Other")
    /\ dirty' = TRUE
    /\ UNCHANGED <<action_rx, should_quit, force_full_refresh, picture, stray>>

AppNext ==
    \/ LoopSends \/ LoopIsGone \/ TaskSends
    \/ ComponentEvent \/ KeyRefreshes \/ EventRender \/ EventDirty
    \/ ActionQuit \/ ActionOther \/ render \/ ActionShell \/ ActionsAreDone
    \/ cancel \/ stop \/ run_shell \/ ShellIsLeft

AppSpec == AppInit /\ [][AppNext]_appVars

-----------------------------------------------------------------------------
\* What the user sees is what the chat shows, or it is going to be drawn: a change is never
\* forgotten between its event, the frame timer's and the action that draws, and neither is
\* what the shell has left on the terminal.
ScreenIsCurrent ==
    place \in {"event", "action"} =>
        terminal = picture \/ dirty \/ \E i \in DOMAIN event_rx : event_rx[i] = "Dirty"

\* While another program has the terminal, and once the application has given it back, its
\* own loop is not reading it: at most one that was aborted is still about to end.
TerminalIsGivenBack == place \in {"shell", "over"} => event_loop = "gone"

ScreenIsKept == ScreenIsCurrent /\ TerminalIsGivenBack
=============================================================================
