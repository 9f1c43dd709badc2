----------------------------- MODULE SessionStore -----------------------------
(****************************************************************************)
(* Saving and restoring chat sessions: the debounced save task of           *)
(* crates/coco-tui/src/components/chat.rs (schedule_save_task,              *)
(* new_session, restore_session_by_metadata), and the two files of a        *)
(* session, written in place (session/fs.rs).                               *)
(*                                                                          *)
(* The content of a chat is its session and how often it changed.  A file   *)
(* that was opened for writing is torn until it is written.                 *)
(****************************************************************************)
EXTENDS Naturals, Sequences

CONSTANTS
    MaxSessions,        \* bound: sessions
    MaxSaves,           \* bound: save tasks
    MaxRestores         \* bound: chats restored

ASSUME StoreAssumption ==
    MaxSessions \in Nat \ {0} /\ MaxSaves \in Nat /\ MaxRestores \in Nat

Sessions == 1..MaxSessions  \* creation times: they name the files
Saves    == 1..MaxSaves     \* in the order they are scheduled

VARIABLES
    screen,             \* the chat: its session, its changes, Processing or Ready
    created,            \* sessions created so far
    scheduled,          \* save tasks so far
    pending_save,       \* the save whose token the chat holds, 0 for none
    save,               \* the tasks
    files,              \* per session
    listed,             \* sessions whose metadata is written
    load,               \* the task that reads a session to restore
    chats,              \* how often another chat was restored
    crashed,            \* the process died once
    wrote               \* saves that wrote their file, in this order (history)

storeVars == <<screen, created, scheduled, pending_save, save, files, listed, load, chats, crashed,
               wrote>>

NoFile == [is |-> "none", session |-> 0, changes |-> 0, processing |-> FALSE]
Torn   == [NoFile EXCEPT !.is = "torn"]
NoSave == [at |-> "no", content |-> NoFile, due |-> FALSE, cancelled |-> FALSE,
           chat |-> 0, late |-> {}]
NoLoad == [at |-> "no", content |-> NoFile]

Blank(s) == [session |-> s, changes |-> 0, processing |-> FALSE]

StoreInit ==
    /\ screen = Blank(1) /\ created = 1 /\ scheduled = 0 /\ pending_save = 0
    /\ save = [t \in Saves |-> NoSave]
    /\ files = [s \in Sessions |-> NoFile] /\ listed = {}
    /\ load = NoLoad /\ chats = 0 /\ crashed = FALSE /\ wrote = <<>>

-----------------------------------------------------------------------------
(* The chat *)

\* Mutant of state_to_save: Processing is kept.
state_as_it_is(c) == c.processing

\* Restored, a Processing chat would wait for a turn that does not exist.
state_to_save(c) == FALSE

\* Mutant of Cancelled: the earlier timer goes on.
SavesGoOn(tasks) == tasks
Cancelled(tasks) ==
    IF pending_save = 0 THEN tasks ELSE [tasks EXCEPT ![pending_save].cancelled = TRUE]

Snapshot(c) ==
    [is |-> "whole", session |-> c.session, changes |-> c.changes,
     processing |-> state_to_save(c)]

\* Saves whose timer has fired, or may fire in spite of its cancelled token.
Underway == {t \in Saves : save[t].due /\ save[t].at \notin {"no", "done"}}

Scheduled(c, now) ==
    [Cancelled(save) EXCEPT ![scheduled + 1] =
        [NoSave EXCEPT !.at = "snapshot", !.content = Snapshot(c), !.due = now,
                       !.chat = chats, !.late = Underway]]

schedule_save_task(c, now) ==
    /\ scheduled + 1 \in Saves
    /\ save' = Scheduled(c, now)
    /\ scheduled' = scheduled + 1 /\ pending_save' = scheduled + 1

\* A message, an answer, an edit: the chat changes and a save is scheduled.
ScheduleSave ==
    /\ \E processing \in BOOLEAN :
          screen' = [screen EXCEPT !.changes = @ + 1, !.processing = processing]
    /\ schedule_save_task(screen', FALSE)
    /\ UNCHANGED <<created, files, listed, load, chats, crashed, wrote>>

regenerate_session_summary ==
    /\ schedule_save_task(screen, TRUE)
    /\ UNCHANGED <<screen, created, files, listed, load, chats, crashed, wrote>>

\* What is saved first is cancelled with the timer, last.
new_session ==
    /\ created + 1 \in Sessions
    /\ IF screen.changes > 0
       THEN /\ scheduled + 1 \in Saves /\ scheduled' = scheduled + 1
            /\ save' = [Scheduled(screen, TRUE) EXCEPT ![scheduled + 1].cancelled = TRUE]
       ELSE save' = Cancelled(save) /\ UNCHANGED scheduled
    /\ pending_save' = 0
    /\ created' = created + 1 /\ screen' = Blank(created + 1)
    /\ UNCHANGED <<files, listed, load, chats, crashed, wrote>>

\* The palette lists what list_session finds: sessions whose metadata can be read.
RestoreSession(s) ==
    /\ s \in listed /\ load.at = "no" /\ chats < MaxRestores
    /\ load' = [at |-> "reading", content |-> [NoFile EXCEPT !.session = s]]
    /\ IF screen.changes > 0 THEN schedule_save_task(screen, TRUE)
                             ELSE UNCHANGED <<save, scheduled, pending_save>>
    /\ UNCHANGED <<screen, created, files, listed, chats, crashed, wrote>>

\* A file that cannot be read is logged.
load_session ==
    /\ load.at = "reading"
    /\ load' = IF files[load.content.session].is = "whole"
               THEN [at |-> "requested", content |-> files[load.content.session]] ELSE NoLoad
    /\ UNCHANGED <<screen, created, scheduled, pending_save, save, files, listed, chats, crashed,
                   wrote>>

\* Another chat takes the place of this one, whose token is forgotten.
Restored ==
    /\ load.at = "requested"
    /\ screen' = [session |-> load.content.session, changes |-> load.content.changes,
                  processing |-> load.content.processing]
    /\ pending_save' = 0 /\ load' = NoLoad /\ chats' = chats + 1
    /\ UNCHANGED <<created, scheduled, save, files, listed, crashed, wrote>>

\* The process dies and another is started, with a session of its own; on request it
\* restores the last.
Restarts ==
    /\ ~crashed /\ crashed' = TRUE /\ created + 1 \in Sessions
    /\ created' = created + 1 /\ screen' = Blank(created + 1)
    /\ save' = [t \in Saves |-> IF save[t].at = "no" THEN NoSave ELSE [save[t] EXCEPT !.at = "done"]]
    /\ pending_save' = 0
    /\ load' \in {NoLoad} \cup {[at |-> "reading", content |-> [NoFile EXCEPT !.session = s]] :
                                  s \in listed}
    /\ UNCHANGED <<scheduled, files, listed, chats, wrote>>

-----------------------------------------------------------------------------
(* A save task *)

chatVars2 == <<screen, created, scheduled, pending_save, load, chats, crashed>>

Goes(t, from, to) == save[t].at = from /\ save' = [save EXCEPT ![t].at = to]

\* dump_messages and create_dir_all, which may fail.
Snapshots(t) ==
    /\ \E to \in {"timer", "done"} : Goes(t, "snapshot", to)
    /\ UNCHANGED <<chatVars2, files, listed, wrote>>

\* Two seconds have passed: by then a cancelled task has been polled.
TimerIsDue(t) ==
    /\ save[t].at \in {"snapshot", "timer"} /\ ~save[t].due /\ ~save[t].cancelled
    /\ save' = [save EXCEPT ![t].due = TRUE]
    /\ UNCHANGED <<chatVars2, files, listed, wrote>>

SeesCancel(t) ==
    /\ save[t].cancelled /\ Goes(t, "timer", "done")
    /\ UNCHANGED <<chatVars2, files, listed, wrote>>

\* From here on the token is not looked at.
TimerFires(t) ==
    /\ save[t].due /\ Goes(t, "timer", "summary")
    /\ UNCHANGED <<chatVars2, files, listed, wrote>>

OwnSession(t) == save[t].content.session

\* The summary comes from a model or from the metadata.  Then tokio::fs::write empties the
\* file and writes to it; either may fail.
OpenFile(t) ==
    /\ \E to \in {"write", "done"} : Goes(t, "summary", to)
    /\ files' = IF save'[t].at = "write" THEN [files EXCEPT ![OwnSession(t)] = Torn] ELSE files
    /\ UNCHANGED <<chatVars2, listed, wrote>>

WriteFile(t) ==
    /\ Goes(t, "write", "metadata")
    /\ files' = [files EXCEPT ![OwnSession(t)] = save[t].content]
    /\ wrote' = Append(wrote, t)
    /\ UNCHANGED <<chatVars2, listed>>

WriteMetadata(t) ==
    /\ Goes(t, "metadata", "done")
    /\ listed' \in {listed, listed \cup {OwnSession(t)}}
    /\ UNCHANGED <<chatVars2, files, wrote>>

StoreNext ==
    \/ ScheduleSave \/ regenerate_session_summary \/ new_session
    \/ \E s \in Sessions : RestoreSession(s)
    \/ load_session \/ Restored \/ Restarts
    \/ \E t \in Saves :
          \/ Snapshots(t) \/ TimerIsDue(t) \/ SeesCancel(t) \/ TimerFires(t)
          \/ OpenFile(t) \/ WriteFile(t) \/ WriteMetadata(t)

StoreSpec == StoreInit /\ [][StoreNext]_storeVars

-----------------------------------------------------------------------------
(* Properties *)

\* Whatever the chat did between the snapshot and the write, the messages a file has to show are
\* of its own session, and of a chat that can go on when it is restored: Ready, not Processing
\* (schedule_save_task).  It is about what the chat shows: the agent's own history is read when
\* the task writes, later than the snapshot, and is not modelled.
FilesHoldTheirSession ==
    \A s \in Sessions : files[s].is = "whole" => files[s].session = s /\ ~files[s].processing

\* A file is not overwritten with an older snapshot of the same chat, unless the older save's
\* timer had already fired when the newer one was scheduled (schedule_save_task cancels the
\* others).  After a restore the timer of the chat it replaced belongs to nobody.
SavesStayInOrder ==
    \A i, j \in DOMAIN wrote :
       LET older == wrote[j] newer == wrote[i] IN
       /\ i < j /\ older < newer
       /\ OwnSession(older) = OwnSession(newer) /\ save[older].chat = save[newer].chat
       => older \in save[newer].late

\* Both: whose chat a file has, and that it is not an older one.
FilesAreRestorable == FilesHoldTheirSession /\ SavesStayInOrder
=============================================================================
