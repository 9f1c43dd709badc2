------------------------------ MODULE CommandRun ------------------------------
(****************************************************************************)
(* A bash command: the child process and what it left running, the task     *)
(* that reads its pipes and sends events over a bounded channel             *)
(* (ExecCommand::spawn_chunked of src/exec.rs), and the tool that collects  *)
(* them until the command ends, is cancelled or times out                   *)
(* (run_bash_chunked_raw of src/tools/bash.rs).                             *)
(*                                                                          *)
(* A line is its number in its stream, 0 is text without a newline at the   *)
(* end of a stream.                                                         *)
(****************************************************************************)
EXTENDS Naturals, Sequences

CONSTANTS
    Streams,            \* stdout and stderr
    Capacity,           \* of the channel of events
    MaxLines            \* bound: lines of a stream

ASSUME CommandAssumption == Capacity \in Nat \ {0} /\ MaxLines \in Nat

VARIABLES
    child,              \* of the bash process
    offspring,          \* a process it started lives on in its group
    written, pipe,      \* per stream: lines written so far, and what nobody read yet
    held,               \* a tail in the buffer: read by this call of read_until or before
    closed,             \* streams whose end was read
    lines,              \* lines read and not yet flushed
    batched,            \* flush on ticks, not for every line
    task, event,        \* the reader, and the event it is sending
    channel,
    killing,            \* the oneshot of ProcessKiller
    token,              \* the cancel token
    tool, output        \* run_bash_chunked_raw and the lines it collected

commandVars == <<child, offspring, written, pipe, held, closed, lines, batched, task, event,
                 channel, killing, token, tool, output>>

processVars == <<child, offspring, written>>
readerVars  == <<held, closed, lines, task, event, killing>>
toolVars    == <<tool, output>>

NoEvent == <<>>
NoNewline == 0
Exited  == <<"exited">>

CommandInit ==
    /\ child = "running" /\ offspring \in BOOLEAN /\ batched \in BOOLEAN
    /\ written = [s \in Streams |-> 0] /\ pipe = [s \in Streams |-> <<>>]
    /\ held = [s \in Streams |-> "no"] /\ closed = {}
    /\ lines = [s \in Streams |-> <<>>]
    /\ task = "select" /\ event = NoEvent /\ channel = <<>> /\ killing = "no"
    /\ token = FALSE
    /\ tool = "reading" /\ output = [s \in Streams |-> <<>>]

-----------------------------------------------------------------------------
(* The process *)

\* What it left running writes to other files.
ChildWrites(s) ==
    /\ child = "running" /\ written[s] < MaxLines
    /\ written' = [written EXCEPT ![s] = @ + 1]
    /\ pipe' = [pipe EXCEPT ![s] = Append(@, written[s] + 1)]
    /\ UNCHANGED <<child, offspring, channel, token, batched, readerVars, toolVars>>

\* It may end with a line that is not terminated.
ChildExits ==
    /\ child = "running"
    /\ \E tails \in SUBSET Streams :
          pipe' = [s \in Streams |-> IF s \in tails THEN Append(pipe[s], NoNewline) ELSE pipe[s]]
    /\ child' = "exited"
    /\ UNCHANGED <<offspring, written, channel, token, batched, readerVars, toolVars>>

\* Text that may become a line: what read_until takes and keeps in the buffer.
ChildPrompts(s) ==
    /\ child = "running" /\ written[s] < MaxLines /\ held[s] = "no" /\ pipe[s] = <<>>
    /\ task = "select" /\ s \notin closed
    /\ held' = [held EXCEPT ![s] = "call"]
    /\ UNCHANGED <<child, offspring, written, pipe, closed, lines, batched, task, event,
                   channel, killing, token, toolVars>>

\* Mutant of kill_process_group: the bash process alone.
kill_child == child' = (IF child = "running" THEN "killed" ELSE child) /\ UNCHANGED offspring

kill_process_group ==
    child' = (IF child = "running" THEN "killed" ELSE child) /\ offspring' = FALSE

-----------------------------------------------------------------------------
(* The reader *)

\* Another branch of the select! won: the other calls of read_until start anew.
ReadsStopped(except) ==
    [s \in Streams |-> IF s = except THEN "no"
                       ELSE IF held[s] = "call" THEN "before" ELSE held[s]]

flush(s, text) == task' = "sending" /\ event' = <<s, text>>

SeesKill ==
    /\ task = "select" /\ killing = "sent" /\ killing' = "seen"
    /\ kill_process_group
    /\ held' = ReadsStopped("kill")
    /\ UNCHANGED <<written, pipe, closed, lines, batched, task, event, channel, token, toolVars>>

Deliver(s, l) ==
    /\ held' = ReadsStopped(s)
    /\ IF batched
       THEN lines' = [lines EXCEPT ![s] = Append(@, l)] /\ UNCHANGED <<task, event>>
       ELSE flush(s, <<l>>) /\ UNCHANGED lines
    /\ UNCHANGED <<processVars, closed, batched, channel, killing, token, toolVars>>

ReadLine(s) ==
    /\ task = "select" /\ s \notin closed
    /\ pipe[s] # <<>> /\ Head(pipe[s]) # NoNewline
    /\ pipe' = [pipe EXCEPT ![s] = Tail(@)]
    /\ Deliver(s, Head(pipe[s]))

AtEnd(s) == child # "running" /\ pipe[s] \in {<<>>, <<NoNewline>>}

\* The stream ends in the call that read the text before: that text is a line.
ReadLastLine(s) ==
    /\ task = "select" /\ s \notin closed /\ AtEnd(s)
    /\ pipe[s] # <<>> \/ held[s] = "call"
    /\ pipe' = [pipe EXCEPT ![s] = <<>>]
    /\ Deliver(s, NoNewline)

\* It ends in a later call: the text that is left in the buffer is not delivered.
ReadEnd(s) ==
    /\ task = "select" /\ s \notin closed /\ AtEnd(s)
    /\ pipe[s] = <<>> /\ held[s] # "call"
    /\ closed' = closed \cup {s} /\ held' = ReadsStopped(s)
    /\ UNCHANGED <<processVars, pipe, lines, batched, task, event, channel, killing, token,
                   toolVars>>

Unflushed == {s \in Streams : lines[s] # <<>>}

\* The ticks, and once more when both streams have ended.
Flush ==
    /\ task = "select" /\ batched
    /\ \E s \in Unflushed : flush(s, lines[s]) /\ lines' = [lines EXCEPT ![s] = <<>>]
    /\ held' = ReadsStopped("tick")
    /\ UNCHANGED <<processVars, pipe, closed, batched, channel, killing, token, toolVars>>

\* Nothing else is looked at while the event waits for room.
Send ==
    /\ task = "sending" /\ Len(channel) < Capacity
    /\ channel' = Append(channel, event)
    /\ task' = (IF event = Exited THEN "done" ELSE "select") /\ event' = NoEvent
    /\ UNCHANGED <<processVars, pipe, held, closed, lines, batched, killing, token, toolVars>>

\* Mutant of BothStreamsEnded: one is enough.
OneStreamEnded   == closed # {}
BothStreamsEnded == closed = Streams

child_wait ==
    /\ task = "select" /\ BothStreamsEnded /\ Unflushed = {} /\ child # "running"
    /\ task' = "sending" /\ event' = Exited
    /\ UNCHANGED <<processVars, pipe, held, closed, lines, batched, channel, killing, token,
                   toolVars>>

-----------------------------------------------------------------------------
(* The tool *)

UserStopsCommand ==
    /\ ~token /\ token' = TRUE
    /\ UNCHANGED <<processVars, pipe, readerVars, batched, channel, toolVars>>

TakeEvent ==
    /\ tool = "reading" /\ channel # <<>>
    /\ channel' = Tail(channel)
    /\ IF Head(channel) = Exited
       THEN tool' = "ended" /\ UNCHANGED output
       ELSE /\ output' = [output EXCEPT ![Head(channel)[1]] = @ \o Head(channel)[2]]
            /\ UNCHANGED tool
    /\ UNCHANGED <<processVars, pipe, readerVars, batched, token>>

\* The events are not read any more, but the channel stays open until the task ends.
ToolSeesCancel ==
    /\ tool = "reading" /\ token
    /\ tool' = "cancelled" /\ killing' = (IF killing = "no" THEN "sent" ELSE killing)
    /\ UNCHANGED <<processVars, pipe, held, closed, lines, batched, task, event, channel, token,
                   output>>

\* The task is dropped with the child, which kills the child alone; it may still have
\* seen the kill.
TimesOut ==
    /\ tool = "reading"
    /\ tool' = "timed_out"
    /\ kill_child \/ kill_process_group
    /\ task' = "aborted"
    /\ UNCHANGED <<written, pipe, held, closed, lines, batched, event, channel, killing, token,
                   output>>

proc_wait ==
    /\ tool = "cancelled" /\ task = "done" /\ tool' = "cancelled, ended"
    /\ UNCHANGED <<processVars, pipe, readerVars, batched, channel, token, output>>

CommandNext ==
    \/ \E s \in Streams : ChildWrites(s) \/ ChildPrompts(s) \/ ReadLine(s)
                          \/ ReadLastLine(s) \/ ReadEnd(s)
    \/ ChildExits \/ SeesKill \/ Flush \/ Send \/ child_wait
    \/ UserStopsCommand \/ TakeEvent \/ ToolSeesCancel \/ TimesOut \/ proc_wait

CommandSpec == CommandInit /\ [][CommandNext]_commandVars

-----------------------------------------------------------------------------
(* Properties *)

FirstLines(n) == [i \in 1..n |-> i]
IsLines(s, n) == output[s] \in {FirstLines(n), Append(FirstLines(n), NoNewline)}

\* The output of a command that ended is all it wrote, in its order and once, but for
\* text without a newline, which there may be once and at the end; of a command that was
\* cancelled or timed out it is a beginning of it (spawn_chunked, run_bash_chunked_raw).
OutputIsWhatWasWritten ==
    \A s \in Streams :
       /\ \E n \in 0..written[s] : IsLines(s, n)
       /\ tool = "ended" => IsLines(s, written[s])

\* When a cancelled command has ended, nothing of its process group is left running,
\* unless it had ended by itself (ProcessKiller::kill, kill_process_group).
CancelledGroupIsGone ==
    tool = "cancelled, ended" => child # "running" /\ (killing = "seen" => ~offspring)

\* Both: what a command is said to have written, and what is left of it when it is said to
\* have ended.
CommandIsOver == OutputIsWhatWasWritten /\ CancelledGroupIsGone
=============================================================================
