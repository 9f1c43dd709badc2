------------------------- MODULE ComboSession_proofs -------------------------
(****************************************************************************)
(* Theorems about ComboSession, for every set of coco clients, every        *)
(* capacity of the event channel and both values of each switch.            *)
(****************************************************************************)
EXTENDS ComboSession, TLAPS

-----------------------------------------------------------------------------
(* Queues *)

\* Emit keeps the event channel well typed and within its capacity.
LEMMA EmitType ==
    ASSUME EventTypeOK, NEW type, NEW from,
           [type |-> type, from |-> from] \in Events,
           Emit(type, from)
    PROVE  EventTypeOK'
BY EventCapAssumption DEF EventTypeOK, Emit

\* Taking the first event keeps the channel well typed; the event is an Event.
LEMMA TakesType ==
    ASSUME EventTypeOK, NEW types, Takes(types)
    PROVE  EventTypeOK' /\ Head(events) \in Events
BY EventCapAssumption DEF EventTypeOK, Takes

\* A connection task that reads a message leaves well typed queues.
LEMMA ReadsType ==
    ASSUME ClientTypeOK, NEW c \in Clients, NEW m, Reads(c, m)
    PROVE  inbox' \in [Clients -> Seq(Messages)]
<1>1. inbox[c] \in Seq(Messages)
  BY DEF ClientTypeOK
<1>2. Tail(inbox[c]) \in Seq(Messages)
  BY <1>1 DEF Reads
<1> QED
  BY <1>2 DEF ClientTypeOK, Reads

-----------------------------------------------------------------------------
(* Type correctness *)

LEMMA InitType == Init => TypeOK
<1> SUFFICES ASSUME Init PROVE TypeOK
  OBVIOUS
<1>1. ClientTypeOK /\ EventTypeOK
  BY EventCapAssumption DEF Init, SessionInit, ClientTypeOK, EventTypeOK
<1>2. ConnTypeOK /\ StateTypeOK /\ SlotTypeOK /\ TaskTypeOK
  BY DEF Init, SessionInit, ConnTypeOK, StateTypeOK, SlotTypeOK, TaskTypeOK
<1>3. ExecTypeOK
  BY DEF Init, ExecTypeOK, ExitCodes
<1>4. ReplyTypeOK /\ HistoryTypeOK /\ FlagTypeOK
  BY DEF Init, ReplyTypeOK, HistoryTypeOK, FlagTypeOK
<1> QED
  BY <1>1, <1>2, <1>3, <1>4 DEF TypeOK, SessionTypeOK

\* The coco processes.
LEMMA ClientStepType ==
    ASSUME SessionTypeOK, NEW c \in Clients,
           \/ Connect(c) \/ ClientReceives(c) \/ ListenerTakesAllow(c)
           \/ ReceiveFails(c) \/ RecordSendsChunk(c) \/ RecordFinishes(c)
    PROVE  SessionTypeOK'
<1> USE DEF SessionTypeOK, ClientTypeOK, ConnTypeOK, StateTypeOK, SlotTypeOK,
            TaskTypeOK, EventTypeOK, slotVars, stateVars, connVars, taskVars
<1>1. CASE Connect(c)
  <2>1. FirstMessage(c) \in Messages
    BY KindAssumption DEF FirstMessage, Messages, Kinds, Asks, Tells
  <2>2. <<FirstMessage(c)>> \in Seq(Messages)
    BY <2>1
  <2>3. inbox' \in [Clients -> Seq(Messages)]
    BY <1>1, <2>2, ZenonT(30) DEF Connect
  <2>4. client' \in [Clients -> Over \cup {"idle", "waiting", "command",
                                          "chunked"}]
    BY <1>1, ZenonT(30) DEF Connect, AfterSend, Over
  <2>5. conn' \in [Clients -> ClientEvents \cup {"none", "backlog", "read",
                                "response", "responder", "closed"}]
    BY <1>1 DEF Connect, Goto
  <2> QED
    BY <1>1, <2>3, <2>4, <2>5 DEF Connect
<1>2. CASE ClientReceives(c)
  BY <1>2 DEF ClientReceives, Outcome, Over
<1>3. CASE ListenerTakesAllow(c)
  BY <1>3 DEF ListenerTakesAllow
<1>4. CASE ReceiveFails(c)
  BY <1>4 DEF ReceiveFails, Over
<1>5. ASSUME NEW m \in Messages, NEW next \in Over \cup {"chunked"},
             RecordWrites(c, m, next)
      PROVE  SessionTypeOK'
  <2>1. Append(inbox[c], m) \in Seq(Messages)
    OBVIOUS
  <2>2. inbox' \in [Clients -> Seq(Messages)]
    BY <1>5, <2>1 DEF RecordWrites
  <2> QED
    BY <1>5, <2>2 DEF RecordWrites, Over
<1>6. CASE RecordSendsChunk(c) \/ RecordFinishes(c)
  BY <1>5, <1>6 DEF RecordSendsChunk, RecordFinishes, Messages, Over
<1> QED
  BY <1>1, <1>2, <1>3, <1>4, <1>5, <1>6

\* The connection tasks.
LEMMA HandleType ==
    ASSUME SessionTypeOK, NEW c \in Clients, Handle(c)
    PROVE  SessionTypeOK'
<1> USE DEF SessionTypeOK, ConnTypeOK, StateTypeOK, SlotTypeOK, TaskTypeOK,
            slotVars, stateVars, connVars, taskVars, clientVars, Goto, Fail
<1>1. CASE HandleMetadata(c)
  <2>1. inbox' \in [Clients -> Seq(Messages)]
    BY <1>1, ReadsType DEF HandleMetadata
  <2> QED
    BY <1>1, <2>1, ZenonT(30) DEF HandleMetadata, SendOrFail, BestEffort, Responses,
                      ClientTypeOK, EventTypeOK
<1>2. CASE HandleRecordStart(c)
  <2>1. inbox' \in [Clients -> Seq(Messages)]
    BY <1>2, ReadsType DEF HandleRecordStart
  <2>2. response' \in [Clients -> Responses \cup {None}]
    BY <1>2 DEF HandleRecordStart, BestEffort, Responses, ClientTypeOK
  <2>3. event_index' \in Nat /\ tool_use_id' \in [Clients -> Nat \cup {None}]
    BY <1>2 DEF HandleRecordStart, next_event_index
  <2>4. conn' \in [Clients -> ClientEvents \cup {"none", "backlog", "read",
                                "response", "responder", "closed"}]
        /\ error_tx' \in BOOLEAN
    BY <1>2 DEF HandleRecordStart, ClientEvents, RecordEvents
  <2> QED
    BY <1>2, <2>1, <2>2, <2>3, <2>4 DEF HandleRecordStart, ClientTypeOK,
                                        EventTypeOK
<1>3. CASE HandleRecordChunk(c) \/ HandleRecordEnd(c)
  <2>1. inbox' \in [Clients -> Seq(Messages)]
    BY <1>3, ReadsType DEF HandleRecordChunk, HandleRecordEnd, HandleRecordData
  <2> QED
    BY <1>3, <2>1, ZenonT(60) DEF HandleRecordChunk, HandleRecordEnd, HandleRecordData,
                      ClientTypeOK, EventTypeOK, ClientEvents, RecordEvents
<1>4. CASE SendEvent(c)
  <2>1. [type |-> conn[c], from |-> c] \in Events
    BY <1>4 DEF SendEvent, Events, ClientEvents, RecordEvents
  <2>2. EventTypeOK'
    BY <1>4, <2>1, EmitType DEF SendEvent
  <2> QED
    BY <1>4, <2>2 DEF SendEvent, ClientTypeOK
<1>5. CASE HandleTell(c)
  <2>1. inbox' \in [Clients -> Seq(Messages)]
    BY <1>5, ReadsType DEF HandleTell
  <2> QED
    BY <1>5, <2>1, ZenonT(30) DEF HandleTell, ClientTypeOK, EventTypeOK, ClientEvents
<1>6. CASE HandleAsk(c)
  <2>1. inbox' \in [Clients -> Seq(Messages)]
    BY <1>6, ReadsType DEF HandleAsk
  <2> QED
    BY <1>6, <2>1 DEF HandleAsk, ClientTypeOK, EventTypeOK, ClientEvents
<1>7. CASE SendAsk(c)
  <2>1. [type |-> "PromptRequest", from |-> c] \in Events
    BY DEF Events, ClientEvents
  <2>2. EventTypeOK'
    BY <1>7, <2>1, EmitType DEF SendAsk
  <2> QED
    BY <1>7, <2>2 DEF SendAsk, next_event_index, ClientTypeOK
<1>8. CASE AskResolved(c)
  BY <1>8 DEF AskResolved, clear_pending_reply, SendOrFail, BestEffort,
              Responses, ClientTypeOK, EventTypeOK
<1>9. CASE HandleReplyRejected(c)
  <2>1. inbox' \in [Clients -> Seq(Messages)]
    BY <1>9, ReadsType DEF HandleReplyRejected
  <2> QED
    BY <1>9, <2>1 DEF HandleReplyRejected, BestEffort, Responses, ClientTypeOK,
                      EventTypeOK
<1>10. CASE HandleReply(c)
  <2>1. inbox' \in [Clients -> Seq(Messages)]
    BY <1>10, ReadsType DEF HandleReply
  <2> QED
    BY <1>10, <2>1, ZenonT(30) DEF HandleReply, ClientTypeOK, EventTypeOK
<1>11. CASE TakeResponder(c)
  BY <1>11, ZenonT(30) DEF TakeResponder, Resolved, SendOrFail, BestEffort, Responses,
               Values, ClientTypeOK, EventTypeOK
<1>12. CASE ConnEnds(c)
  BY <1>12, ZenonT(60) DEF ConnEnds, ClientTypeOK, EventTypeOK
<1> QED
  BY <1>1, <1>2, <1>3, <1>4, <1>5, <1>6, <1>7, <1>8, <1>9, <1>10, <1>11, <1>12
     DEF Handle

\* The server task.
LEMMA ServerStepType ==
    ASSUME SessionTypeOK, ServerTask \/ \E c \in Clients : Accept(c)
    PROVE  SessionTypeOK'
<1> USE DEF SessionTypeOK, ClientTypeOK, ConnTypeOK, StateTypeOK, SlotTypeOK,
            TaskTypeOK, EventTypeOK, slotVars, stateVars, connVars, taskVars,
            clientVars
<1>1. CASE ServerShutdown \/ ServerFatal
  BY <1>1 DEF ServerShutdown, ServerFatal, StopAccepting
<1>2. CASE ServerFinish \/ ServerAborted
  BY <1>2 DEF ServerFinish, ServerAborted, DropListener
<1>3. ASSUME NEW c \in Clients, Accept(c)
      PROVE  SessionTypeOK'
  BY <1>3 DEF Accept, Goto
<1> QED
  BY <1>1, <1>2, <1>3 DEF ServerTask

\* What an action leaves alone keeps its type.
LEMMA KeepsSession ==
    /\ SlotTypeOK /\ UNCHANGED slotVars => SlotTypeOK'
    /\ StateTypeOK /\ UNCHANGED stateVars => StateTypeOK'
    /\ ConnTypeOK /\ UNCHANGED connVars => ConnTypeOK'
    /\ TaskTypeOK /\ UNCHANGED taskVars => TaskTypeOK'
    /\ ClientTypeOK /\ UNCHANGED clientVars => ClientTypeOK'
    /\ EventTypeOK /\ UNCHANGED events => EventTypeOK'
    /\ SessionTypeOK /\ UNCHANGED sessionVars => SessionTypeOK'
<1>1. /\ SlotTypeOK /\ UNCHANGED slotVars => SlotTypeOK'
      /\ StateTypeOK /\ UNCHANGED stateVars => StateTypeOK'
      /\ ConnTypeOK /\ UNCHANGED connVars => ConnTypeOK'
  BY DEF SlotTypeOK, StateTypeOK, ConnTypeOK, slotVars, stateVars, connVars
<1>2. /\ TaskTypeOK /\ UNCHANGED taskVars => TaskTypeOK'
      /\ ClientTypeOK /\ UNCHANGED clientVars => ClientTypeOK'
      /\ EventTypeOK /\ UNCHANGED events => EventTypeOK'
  BY DEF TaskTypeOK, ClientTypeOK, EventTypeOK, taskVars, clientVars
<1> QED
  BY <1>1, <1>2 DEF SessionTypeOK, sessionVars

LEMMA KeepsRun ==
    /\ ExecTypeOK /\ UNCHANGED execVars => ExecTypeOK'
    /\ ReplyTypeOK /\ UNCHANGED <<runner, replyVars>> => ReplyTypeOK'
    /\ HistoryTypeOK /\ UNCHANGED historyVars => HistoryTypeOK'
    /\ FlagTypeOK /\ UNCHANGED flagVars => FlagTypeOK'
<1>1. /\ ExecTypeOK /\ UNCHANGED execVars => ExecTypeOK'
      /\ ReplyTypeOK /\ UNCHANGED <<runner, replyVars>> => ReplyTypeOK'
  BY DEF ExecTypeOK, ReplyTypeOK, execVars, spawnVars, replyVars
<1>2. /\ HistoryTypeOK /\ UNCHANGED historyVars => HistoryTypeOK'
      /\ FlagTypeOK /\ UNCHANGED flagVars => FlagTypeOK'
  BY DEF HistoryTypeOK, FlagTypeOK, historyVars, flagVars
<1> QED
  BY <1>1, <1>2

\* A coco process is started.
LEMMA LaunchType ==
    ASSUME TypeOK, NEW c \in Clients,
           \/ ScriptLaunch(c) \/ UiReply(c) \/ UiFeedback(c)
           \/ OffloadRunsReply(c)
    PROVE  TypeOK'
<1> USE DEF TypeOK
<1>1. CASE ScriptLaunch(c) \/ UiReply(c) \/ UiFeedback(c)
  <2>1. SessionTypeOK'
    BY <1>1, ClientStepType DEF ScriptLaunch, UiReply, UiFeedback
  <2> QED
    BY <1>1, <2>1, KeepsRun DEF ScriptLaunch, UiReply, UiFeedback, runVars
<1>2. CASE OffloadRunsReply(c)
  <2>1. SessionTypeOK'
    BY <1>2, ClientStepType DEF OffloadRunsReply
  <2>2. ReplyTypeOK'
    BY <1>2 DEF OffloadRunsReply, ReplyTypeOK
  <2> QED
    BY <1>2, <2>1, <2>2, KeepsRun DEF OffloadRunsReply
<1> QED
  BY <1>1, <1>2

\* The script, the processes that are killed, and the user.
LEMMA RunStepType ==
    ASSUME TypeOK,
           \/ ScriptExit \/ PipesClose \/ KillLands \/ OffloadReplyKilled
           \/ UserCancel
    PROVE  TypeOK'
<1> USE DEF TypeOK
<1>1. CASE ScriptExit
  <2>1. ExecTypeOK'
    BY <1>1 DEF ScriptExit, ExecTypeOK, spawnVars
  <2> QED
    BY <1>1, <2>1, KeepsSession, KeepsRun DEF ScriptExit, runVars
<1>2. CASE KillLands
  <2>1. ClientTypeOK'
    BY <1>2 DEF KillLands, SessionTypeOK, ClientTypeOK, Over
  <2>2. ExecTypeOK'
    BY <1>2 DEF KillLands, ExecTypeOK, GroupMembers, ScriptClients
  <2> QED
    BY <1>2, <2>1, <2>2, KeepsSession, KeepsRun
    DEF KillLands, runVars, SessionTypeOK
<1>3. CASE OffloadReplyKilled
  <2>1. ClientTypeOK'
    BY <1>3 DEF OffloadReplyKilled, SessionTypeOK, ClientTypeOK, Over
  <2> QED
    BY <1>3, <2>1, KeepsSession, KeepsRun
    DEF OffloadReplyKilled, runVars, SessionTypeOK
<1>4. CASE UserCancel
  <2>1. FlagTypeOK'
    BY <1>4 DEF UserCancel, FlagTypeOK
  <2> QED
    BY <1>4, <2>1, KeepsSession, KeepsRun DEF UserCancel
<1>5. CASE PipesClose
  <2>1. ExecTypeOK'
    BY <1>5 DEF PipesClose, ExecTypeOK
  <2> QED
    BY <1>5, <2>1, KeepsSession, KeepsRun DEF PipesClose, runVars
<1> QED
  BY <1>1, <1>2, <1>3, <1>4, <1>5

\* The starter.
LEMMA ExecType ==
    ASSUME TypeOK, ExecOutput \/ ExecStep
    PROVE  TypeOK'
<1> USE DEF TypeOK, Starter
<1>1. CASE ExecOutput \/ ExecSpawnFails \/ ExecSeesCancel \/ ExecSeesExit
           \/ ExecServerDone
  <2>1. ExecTypeOK'
    BY <1>1 DEF ExecOutput, ExecSpawnFails, ExecSeesCancel, ExecSeesExit,
                ExecServerDone, ExecTypeOK, spawnVars
  <2>2. UNCHANGED sessionVars /\ UNCHANGED runVars
    BY <1>1 DEF ExecOutput, ExecSpawnFails, ExecSeesCancel, ExecSeesExit,
                ExecServerDone
  <2> QED
    BY <2>1, <2>2, KeepsSession, KeepsRun DEF runVars
<1>2. ASSUME NEW type \in StarterEvents, Emit(type, None)
      PROVE  EventTypeOK'
  BY <1>2, EmitType DEF Events, SessionTypeOK
<1>3. CASE ExecSpawn \/ ExecSendOutput
  <2>1. EventTypeOK'
    BY <1>2, <1>3 DEF ExecSpawn, ExecSendOutput, StarterEvents
  <2>2. ExecTypeOK'
    BY <1>3 DEF ExecSpawn, ExecSendOutput, ExecTypeOK, spawnVars
  <2>3. /\ UNCHANGED clientVars /\ UNCHANGED slotVars /\ UNCHANGED stateVars
        /\ UNCHANGED connVars /\ UNCHANGED taskVars /\ UNCHANGED runVars
    BY <1>3 DEF ExecSpawn, ExecSendOutput
  <2> QED
    BY <2>1, <2>2, <2>3, KeepsSession, KeepsRun DEF SessionTypeOK, runVars
<1>4. CASE ExecSendCancelled \/ ExecSendFinished \/ ExecSendFailed
  <2>1. EventTypeOK'
    BY <1>2, <1>4 DEF ExecSendCancelled, ExecSendFinished, ExecSendFailed,
                      StarterEvents
  <2>2. ExecTypeOK'
    BY <1>4 DEF ExecSendCancelled, ExecSendFinished, ExecSendFailed, ExecTypeOK,
                spawnVars
  <2>3. TaskTypeOK'
    BY <1>4 DEF ExecSendCancelled, ExecSendFinished, ExecSendFailed, Signal,
                TaskTypeOK, SessionTypeOK
  <2>4. /\ UNCHANGED clientVars /\ UNCHANGED slotVars /\ UNCHANGED stateVars
        /\ UNCHANGED connVars /\ UNCHANGED runVars
    BY <1>4 DEF ExecSendCancelled, ExecSendFinished, ExecSendFailed
  <2> QED
    BY <2>1, <2>2, <2>3, <2>4, KeepsSession, KeepsRun DEF SessionTypeOK, runVars
<1> QED
  BY <1>1, <1>3, <1>4 DEF ExecStep

\* The runner.
LEMMA RunnerType ==
    ASSUME TypeOK, RunnerStep
    PROVE  TypeOK'
<1> USE DEF TypeOK
<1>1. ASSUME NEW types, Takes(types)
      PROVE  /\ EventTypeOK'
             /\ Head(events) \in Events
             /\ Head(events).type \in types
  BY <1>1, TakesType DEF Takes, SessionTypeOK
<1>2. ASSUME NEW types, Takes(types),
             UNCHANGED <<clientVars, slotVars, stateVars, connVars, taskVars,
                         execVars>>
      PROVE  SessionTypeOK' /\ ExecTypeOK'
  BY <1>1, <1>2, KeepsSession, KeepsRun DEF SessionTypeOK
<1>3. CASE RunnerSeesCancel
  <2>1. FlagTypeOK'
    BY <1>3 DEF RunnerSeesCancel, FlagTypeOK
  <2> QED
    BY <1>3, <2>1, KeepsSession, KeepsRun DEF RunnerSeesCancel
<1>4. CASE RunnerEnds
  <2>1. FlagTypeOK'
    BY <1>4 DEF RunnerEnds, RunOutcome, FlagTypeOK
  <2>2. ReplyTypeOK'
    BY <1>4 DEF RunnerEnds, ReplyTypeOK, replyVars
  <2> QED
    BY <1>4, <2>1, <2>2, KeepsSession, KeepsRun DEF RunnerEnds
<1>5. CASE RunnerRecord
  <2>1. Head(events) \in Events /\ Head(events).type \in RecordEvents
    BY <1>1, <1>5 DEF RunnerRecord, RecordEvents
  <2>2. Head(events).from \in Clients
    BY <2>1 DEF Events, RecordEvents, StarterEvents
  <2>3. EventId \in Nat \cup {None}
    BY <2>2 DEF EventId, SessionTypeOK, ConnTypeOK
  <2>4. HistoryTypeOK'
    BY <1>5, <2>3 DEF RunnerRecord, HistoryTypeOK
  <2> QED
    BY <1>2, <1>5, <2>4, KeepsRun DEF RunnerRecord
<1>6. CASE RunnerOutput
  BY <1>2, <1>6, KeepsRun DEF RunnerOutput, runVars
<1>7. CASE RunnerStarterEnds
  <2>1. FlagTypeOK' /\ ReplyTypeOK'
    BY <1>7 DEF RunnerStarterEnds, FlagTypeOK, ReplyTypeOK
  <2> QED
    BY <1>2, <1>7, <2>1, KeepsRun DEF RunnerStarterEnds
<1>8. CASE RunnerTell
  <2>1. Head(events) \in Events /\ Head(events).type \in {"Prompt"}
    BY <1>1, <1>8 DEF RunnerTell
  <2>2. Head(events).from \in Clients
    BY <2>1 DEF Events, StarterEvents
  <2>3. ReplyTypeOK' /\ HistoryTypeOK'
    BY <1>8, <2>2 DEF RunnerTell, Enter, Mode, ReplyTypeOK, HistoryTypeOK
  <2> QED
    BY <1>2, <1>8, <2>3, KeepsRun DEF RunnerTell
<1>9. CASE RunnerAsk
  <2>1. Head(events) \in Events /\ Head(events).type \in {"PromptRequest"}
    BY <1>1, <1>9 DEF RunnerAsk
  <2>2. Head(events).from \in Clients
    BY <2>1 DEF Events, StarterEvents
  <2>3. ReplyTypeOK'
    BY <1>9, <2>2 DEF RunnerAsk, Enter, Mode, ReplyTypeOK
  <2> QED
    BY <1>2, <1>9, <2>3, KeepsRun DEF RunnerAsk
<1>10. ASSUME NEW v \in {"model", "error"}, Respond(v)
       PROVE  /\ answer' \in [Clients -> Values \cup {None}]
              /\ runner' = "poll" /\ handling' = None
  BY <1>10 DEF Respond, Resolved, Values, SessionTypeOK, SlotTypeOK
<1>11. ASSUME ReplyUnchanged, ReplyTypeOK',
              client' \in [Clients -> Over \cup {"idle", "waiting", "command",
                                                "chunked"}],
              answer' \in [Clients -> Values \cup {None}]
       PROVE  TypeOK'
  <2>1. SlotTypeOK' /\ ClientTypeOK'
    BY <1>11 DEF ReplyUnchanged, SlotTypeOK, ClientTypeOK, SessionTypeOK
  <2> QED
    BY <1>11, <2>1, KeepsSession, KeepsRun DEF ReplyUnchanged, SessionTypeOK
<1>12. CASE RunnerRefuses \/ DirectReply \/ InteractiveFails \/ OffloadFails
  <2>1. \E v \in {"model", "error"} : Respond(v)
    BY <1>12 DEF RunnerRefuses, DirectReply, InteractiveFails, OffloadFails
  <2>2. ReplyTypeOK'
    BY <1>10, <1>12, <2>1 DEF RunnerRefuses, DirectReply, InteractiveFails,
                              OffloadFails, ReplyTypeOK
  <2>3. ReplyUnchanged /\ UNCHANGED client
    BY <1>12 DEF RunnerRefuses, DirectReply, InteractiveFails, OffloadFails
  <2> QED
    BY <1>10, <1>11, <2>1, <2>2, <2>3 DEF SessionTypeOK, ClientTypeOK
<1>13. CASE OffloadReplyReturns \/ InteractivePauses
  <2>1. /\ answer' \in [Clients -> Values \cup {None}]
        /\ runner' = "poll" /\ handling' = None
    BY <1>10, <1>13 DEF OffloadReplyReturns, InteractivePauses, SessionTypeOK,
                        SlotTypeOK
  <2>2. ReplyTypeOK'
    BY <1>13, <2>1 DEF OffloadReplyReturns, InteractivePauses, ReplyTypeOK
  <2>3. ReplyUnchanged
    BY <1>13 DEF OffloadReplyReturns, InteractivePauses
  <2>4. client' \in [Clients -> Over \cup {"idle", "waiting", "command",
                                          "chunked"}]
    BY <1>13 DEF OffloadReplyReturns, InteractivePauses, SessionTypeOK,
                 ClientTypeOK, Over
  <2> QED
    BY <1>11, <2>1, <2>2, <2>3, <2>4
<1> QED
  BY <1>3, <1>4, <1>5, <1>6, <1>7, <1>8, <1>9, <1>12, <1>13 DEF RunnerStep

\* Every variable keeps its type, and the event channel never holds more than
\* its capacity, whatever the processes and tasks do.
THEOREM TypeCorrect == Spec => []TypeOK
<1>1. Init => TypeOK
  BY InitType
<1>2. TypeOK /\ [Next]_vars => TypeOK'
  <2> SUFFICES ASSUME TypeOK, [Next]_vars PROVE TypeOK'
    OBVIOUS
  <2>1. CASE SessionStep /\ UNCHANGED <<execVars, runVars>>
    <3>1. SessionTypeOK'
      BY <2>1, ClientStepType, HandleType, ServerStepType
      DEF SessionStep, TypeOK
    <3> QED
      BY <2>1, <3>1, KeepsRun DEF TypeOK, runVars
  <2>2. ASSUME NEW c \in Clients,
               ScriptLaunch(c) \/ UiReply(c) \/ UiFeedback(c)
               \/ OffloadRunsReply(c)
        PROVE  TypeOK'
    BY <2>2, LaunchType
  <2>3. CASE \/ ScriptExit \/ PipesClose \/ KillLands \/ OffloadReplyKilled
           \/ UserCancel
    BY <2>3, RunStepType
  <2>4. CASE ExecOutput \/ ExecStep
    BY <2>4, ExecType
  <2>5. CASE RunnerStep
    BY <2>5, RunnerType
  <2>6. CASE UNCHANGED vars
    BY <2>6, KeepsSession, KeepsRun DEF vars, TypeOK, runVars
  <2> QED
    BY <2>1, <2>2, <2>3, <2>4, <2>5, <2>6 DEF Next, Terminated
<1> QED
  BY <1>1, <1>2, PTL DEF Spec

-----------------------------------------------------------------------------
(* The reply slot: SlotInv is inductive, and under it every step is a step of *)
(* ReplySlot or leaves the slot alone.                                        *)

SlotStep == [Slot!Next]_(Slot!slot)

LEMMA InitSlot == Init => SlotInv /\ Slot!Init
BY NoneAssumption
DEF Init, SessionInit, SlotInv, SlotMatchesTask, Asking, AsksOnce, NotAskedYet,
    RunnerIsBehind, RefersTo, Queued, Values, Slot!Init

\* What is left to show of a step that leaves the slot alone.
LEMMA SlotKept ==
    ASSUME SlotInv, UNCHANGED slotVars,
           \A c \in Clients : /\ Asking(c)' <=> Asking(c)
                              /\ NotAskedYet(c)' => NotAskedYet(c)
                              /\ RefersTo(c)' => RefersTo(c)
                              /\ client'[c] = "idle" => conn'[c] = "none"
                              /\ \A i \in 2..Len(inbox'[c]) :
                                    inbox'[c][i] # "prompt",
           runner' \notin {"poll", "done"} => handling' \in Clients
    PROVE  SlotInv' /\ SlotStep
<1>1. SlotMatchesTask'
  BY DEF SlotInv, SlotMatchesTask, slotVars
<1>2. AsksOnce'
  BY DEF SlotInv, AsksOnce, slotVars
<1>3. RunnerIsBehind'
  BY DEF SlotInv, RunnerIsBehind, slotVars
<1> QED
  BY <1>1, <1>2, <1>3 DEF SlotInv, SlotStep, Slot!slot, slotVars

\* Reading a message leaves no prompt behind it, and none for later.
LEMMA ReadsPrompt ==
    ASSUME ClientTypeOK, AsksOnce, NEW c \in Clients, NEW m, Reads(c, m),
           UNCHANGED client
    PROVE  /\ ~NotAskedYet(c)'
           /\ \A d \in Clients :
                 /\ NotAskedYet(d)' => NotAskedYet(d)
                 /\ client'[d] = "idle" => d # c
                 /\ \A i \in 2..Len(inbox'[d]) : inbox'[d][i] # "prompt"
<1>1. inbox[c] \in Seq(Messages) /\ inbox[c] # <<>>
  BY DEF ClientTypeOK, Reads
<1>2. /\ inbox'[c] = Tail(inbox[c])
      /\ \A d \in Clients \ {c} : inbox'[d] = inbox[d]
  BY DEF ClientTypeOK, Reads
<1>3. /\ Len(inbox'[c]) = Len(inbox[c]) - 1
      /\ \A i \in 1..Len(inbox'[c]) : inbox'[c][i] = inbox[c][i + 1]
  BY <1>1, <1>2
<1>4. \A i \in 1..Len(inbox'[c]) : inbox'[c][i] # "prompt"
  BY <1>1, <1>3 DEF AsksOnce
<1>5. inbox'[c] # <<>> => Head(inbox'[c]) # "prompt"
  BY <1>1, <1>2, <1>4
<1>6. client[c] # "idle"
  BY DEF AsksOnce, Reads
<1>7. ~NotAskedYet(c)'
  BY <1>5, <1>6 DEF NotAskedYet
<1>8. ASSUME NEW d \in Clients, NEW i \in 2..Len(inbox'[d])
      PROVE  inbox'[d][i] # "prompt"
  <2>1. CASE d = c
    BY <1>1, <1>3, <1>4, <2>1
  <2>2. CASE d # c
    BY <1>2, <2>2 DEF AsksOnce
  <2> QED
    BY <2>1, <2>2
<1> QED
  BY <1>2, <1>6, <1>7, <1>8 DEF NotAskedYet

\* A step of the session that leaves the slot and the events alone.
LEMMA SessionKeepsSlot ==
    ASSUME SlotInv, UNCHANGED slotVars, UNCHANGED events,
           UNCHANGED <<runner, handling, pending_interactive>>,
           \A c \in Clients : /\ Asking(c)' <=> Asking(c)
                              /\ NotAskedYet(c)' => NotAskedYet(c)
                              /\ client'[c] = "idle" => conn'[c] = "none"
                              /\ \A i \in 2..Len(inbox'[c]) :
                                    inbox'[c][i] # "prompt"
    PROVE  SlotInv' /\ SlotStep
<1>1. \A c \in Clients : RefersTo(c)' => RefersTo(c)
  BY DEF RefersTo, Queued
<1>2. runner' \notin {"poll", "done"} => handling' \in Clients
  BY DEF SlotInv, RunnerIsBehind
<1> QED
  BY <1>1, <1>2, SlotKept

\* The coco processes.
LEMMA ClientStepSlot ==
    ASSUME TypeOK, SlotInv, NEW c \in Clients,
           UNCHANGED <<handling, pending_interactive, runner>>,
           \/ Connect(c) \/ ClientReceives(c) \/ ListenerTakesAllow(c)
           \/ ReceiveFails(c) \/ RecordSendsChunk(c) \/ RecordFinishes(c)
    PROVE  SlotInv' /\ SlotStep
<1> USE DEF TypeOK, SessionTypeOK, ClientTypeOK, ConnTypeOK, SlotInv
<1>1. CASE Connect(c)
  <2>1. \A d \in Clients : Asking(d)' <=> Asking(d)
    BY <1>1 DEF Connect, Goto, Asking, connVars, AsksOnce
  <2>2. \A d \in Clients : NotAskedYet(d)' => NotAskedYet(d)
    BY <1>1 DEF Connect, NotAskedYet
  <2>3. \A d \in Clients : client'[d] = "idle" => conn'[d] = "none"
    BY <1>1 DEF Connect, Goto, AfterSend, AsksOnce
  <2>4. ASSUME NEW d \in Clients, NEW i \in 2..Len(inbox'[d])
        PROVE  inbox'[d][i] # "prompt"
    <3>1. CASE inbox'[d] = inbox[d]
      BY <3>1 DEF AsksOnce
    <3>2. CASE inbox'[d] = <<FirstMessage(c)>>
      BY <3>2
    <3> QED
      BY <1>1, <3>1, <3>2 DEF Connect
  <2> QED
    BY <1>1, <2>1, <2>2, <2>3, <2>4, SessionKeepsSlot DEF Connect
<1>2. CASE ClientReceives(c) \/ ListenerTakesAllow(c) \/ ReceiveFails(c)
  <2>1. \A d \in Clients : client'[d] = "idle" => client[d] = "idle"
    BY <1>2 DEF ClientReceives, ListenerTakesAllow, ReceiveFails, Outcome
  <2>2. UNCHANGED <<inbox, conn, slotVars, events>>
    BY <1>2 DEF ClientReceives, ListenerTakesAllow, ReceiveFails, connVars
  <2> QED
    BY <2>1, <2>2, SessionKeepsSlot DEF NotAskedYet, Asking, AsksOnce
<1>3. ASSUME NEW m \in Messages \ {"prompt"},
             NEW next \in Over \cup {"chunked"},
             client[c] \in {"command", "chunked"}, RecordWrites(c, m, next)
      PROVE  SlotInv' /\ SlotStep
  <2>1. UNCHANGED <<conn, slotVars, events>>
    BY <1>3 DEF RecordWrites, connVars
  <2>2. \A d \in Clients : client'[d] = "idle" => client[d] = "idle"
    BY <1>3 DEF RecordWrites, Over
  <2>3. inbox[c] \in Seq(Messages)
    OBVIOUS
  <2>4. inbox'[c] \in {inbox[c], Append(inbox[c], m)}
    BY <1>3 DEF RecordWrites
  <2>5. \A d \in Clients \ {c} : inbox'[d] = inbox[d]
    BY <1>3 DEF RecordWrites
  <2>6. NotAskedYet(c)' => NotAskedYet(c)
    <3>1. CASE inbox'[c] = inbox[c]
      BY <2>2, <3>1 DEF NotAskedYet
    <3>2. CASE inbox'[c] = Append(inbox[c], m) /\ inbox[c] # <<>>
      <4>1. Head(inbox'[c]) = Head(inbox[c])
        BY <2>3, <3>2
      <4> QED
        BY <2>2, <3>2, <4>1 DEF NotAskedYet
    <3>3. CASE inbox'[c] = Append(inbox[c], m) /\ inbox[c] = <<>>
      <4>1. Head(inbox'[c]) = m
        BY <3>3
      <4> QED
        BY <1>3, <2>2, <4>1 DEF NotAskedYet
    <3> QED
      BY <2>4, <3>1, <3>2, <3>3
  <2>7. ASSUME NEW i \in 2..Len(inbox'[c])
        PROVE  inbox'[c][i] # "prompt"
    <3>1. CASE inbox'[c] = inbox[c]
      BY <3>1 DEF AsksOnce
    <3>2. CASE inbox'[c] = Append(inbox[c], m)
      <4>1. \/ i \in 2..Len(inbox[c]) /\ inbox'[c][i] = inbox[c][i]
            \/ inbox'[c][i] = m
        BY <2>3, <3>2
      <4> QED
        BY <1>3, <4>1 DEF AsksOnce
    <3> QED
      BY <2>4, <3>1, <3>2
  <2>8. ASSUME NEW d \in Clients \ {c}
        PROVE  /\ NotAskedYet(d)' => NotAskedYet(d)
               /\ \A i \in 2..Len(inbox'[d]) : inbox'[d][i] # "prompt"
    BY <2>2, <2>5 DEF NotAskedYet, AsksOnce
  <2>9. \A d \in Clients : /\ NotAskedYet(d)' => NotAskedYet(d)
                           /\ client'[d] = "idle" => conn'[d] = "none"
                           /\ \A i \in 2..Len(inbox'[d]) :
                                 inbox'[d][i] # "prompt"
    BY <2>1, <2>2, <2>6, <2>7, <2>8 DEF AsksOnce
  <2> QED
    BY <2>1, <2>9, SessionKeepsSlot DEF Asking
<1>4. CASE RecordSendsChunk(c) \/ RecordFinishes(c)
  BY <1>3, <1>4 DEF RecordSendsChunk, RecordFinishes, Messages, Over
<1> QED
  BY <1>1, <1>2, <1>4

\* A connection task that only reads, writes to its client or moves on.
LEMMA ConnKeepsSlot ==
    ASSUME TypeOK, SlotInv, NEW c \in Clients, ~Asking(c),
           UNCHANGED <<slotVars, events, client>>,
           UNCHANGED <<runner, handling, pending_interactive>>,
           UNCHANGED inbox \/ \E m \in Messages : Reads(c, m),
           conn[c] # "none",
           \E pc : /\ pc \notin {"none", "PromptRequest", "response"}
                   /\ Goto(c, pc)
    PROVE  SlotInv' /\ SlotStep
<1> USE DEF TypeOK, SessionTypeOK, ClientTypeOK, ConnTypeOK, SlotInv
<1>1. \A d \in Clients : /\ Asking(d)' <=> Asking(d)
                         /\ client'[d] = "idle" => conn'[d] = "none"
  BY DEF Asking, AsksOnce, Goto
<1>2. \A d \in Clients : /\ NotAskedYet(d)' => NotAskedYet(d)
                         /\ \A i \in 2..Len(inbox'[d]) : inbox'[d][i] # "prompt"
  <2>1. CASE UNCHANGED inbox
    BY <2>1 DEF NotAskedYet, AsksOnce
  <2>2. CASE \E m \in Messages : Reads(c, m)
    BY <2>2, ReadsPrompt
  <2> QED
    BY <2>1, <2>2
<1> QED
  BY <1>1, <1>2, SessionKeepsSlot

\* An ask that is accepted begins; its prompt is the first it sends.
LEMMA HandleAskSlot ==
    ASSUME TypeOK, SlotInv, NEW c \in Clients, HandleAsk(c),
           UNCHANGED <<runner, handling, pending_interactive>>
    PROVE  SlotInv' /\ SlotStep
<1> USE DEF TypeOK, SessionTypeOK, ClientTypeOK, ConnTypeOK, SlotTypeOK, SlotInv
<1>1. /\ conn[c] = "read" /\ ~Asking(c) /\ NotAskedYet(c)
      /\ Reads(c, "prompt") /\ UNCHANGED <<client, events>>
  BY DEF HandleAsk, Reads, Asking, NotAskedYet
<1>2. CASE ~AskAllowed
  <2>1. Goto(c, "closed") /\ UNCHANGED slotVars
    BY <1>2 DEF HandleAsk, Fail, slotVars
  <2> QED
    BY <1>1, <2>1, ConnKeepsSlot DEF Messages
<1>3. CASE AskAllowed
  <2>1. /\ pending_reply_schemas = None
        /\ pending_reply_schemas' = c /\ pending_reply_responder' = c
        /\ Goto(c, "PromptRequest") /\ UNCHANGED answer
    BY <1>3 DEF HandleAsk, AskAllowed
  <2>2. c # None
    BY NoneAssumption DEF Values
  <2>3. \A d \in Clients : ~Asking(d) /\ d # None
    BY <2>1, NoneAssumption DEF SlotMatchesTask, Values
  <2>4. SlotMatchesTask'
    BY <2>1, <2>2, <2>3 DEF SlotMatchesTask, Asking, Goto
  <2>5. \A d \in Clients : RefersTo(d)' => answer[d] # None
    BY <1>1, <2>1, <2>3 DEF RefersTo, Queued, RunnerIsBehind
  <2>6. RunnerIsBehind'
    BY <2>1, <2>5 DEF RunnerIsBehind
  <2>7. /\ ~NotAskedYet(c)'
        /\ \A d \in Clients :
              /\ NotAskedYet(d)' => NotAskedYet(d)
              /\ client'[d] = "idle" => d # c
              /\ \A i \in 2..Len(inbox'[d]) : inbox'[d][i] # "prompt"
    BY <1>1, ReadsPrompt
  <2>8. AsksOnce'
    BY <1>1, <2>1, <2>7 DEF AsksOnce, Asking, Goto
  <2>9. Slot!Begin(c)
    BY <1>1, <2>1 DEF Slot!Begin, AsksOnce
  <2> QED
    BY <2>4, <2>6, <2>8, <2>9 DEF SlotStep, Slot!Next
<1> QED
  BY <1>2, <1>3

\* Its event is queued while it holds the slot.
LEMMA SendAskSlot ==
    ASSUME TypeOK, SlotInv, NEW c \in Clients, SendAsk(c),
           UNCHANGED <<runner, handling, pending_interactive>>
    PROVE  SlotInv' /\ SlotStep
<1> USE DEF TypeOK, SessionTypeOK, ConnTypeOK, EventTypeOK, SlotInv
<1>1. /\ Asking(c) /\ conn[c] # "none" /\ pending_reply_schemas = c
      /\ UNCHANGED <<client, inbox, slotVars>> /\ Goto(c, "response")
  BY DEF SendAsk, Asking, SlotMatchesTask, clientVars
<1>2. \A d \in Clients : /\ Asking(d)' <=> Asking(d)
                         /\ client'[d] = "idle" => conn'[d] = "none"
  BY <1>1 DEF Asking, Goto, AsksOnce
<1>3. events' = Append(events, [type |-> "PromptRequest", from |-> c])
  BY DEF SendAsk, Emit
<1>4. ASSUME NEW d \in Clients \ {c}, Queued(d)' PROVE Queued(d)
  <2>1. PICK i \in DOMAIN events' :
               events'[i] = [type |-> "PromptRequest", from |-> d]
    BY <1>4 DEF Queued
  <2>2. i \in DOMAIN events /\ events'[i] = events[i]
    BY <1>3, <2>1
  <2> QED
    BY <2>1, <2>2 DEF Queued
<1>5. \A d \in Clients : RefersTo(d)' => RefersTo(d) \/ d = c
  BY <1>4 DEF RefersTo
<1>6. SlotMatchesTask' /\ AsksOnce'
  BY <1>1, <1>2 DEF SlotMatchesTask, AsksOnce, NotAskedYet, slotVars
<1>7. RunnerIsBehind'
  BY <1>1, <1>5 DEF RunnerIsBehind, slotVars
<1> QED
  BY <1>1, <1>6, <1>7 DEF SlotStep, Slot!slot, slotVars

\* The ask takes its answer and releases the slot.
LEMMA AskResolvedSlot ==
    ASSUME TypeOK, SlotInv, NEW c \in Clients, AskResolved(c),
           UNCHANGED <<runner, handling, pending_interactive>>
    PROVE  SlotInv' /\ SlotStep
<1> USE DEF TypeOK, SessionTypeOK, ConnTypeOK, SlotInv
<1>1. /\ Asking(c) /\ conn[c] # "none" /\ pending_reply_schemas = c
      /\ answer[c] # None /\ UNCHANGED <<client, inbox, answer, events>>
      /\ pending_reply_schemas' = None /\ pending_reply_responder' = None
  BY DEF AskResolved, Asking, SlotMatchesTask, ResponseReady,
         clear_pending_reply
<1>2. Goto(c, "read") \/ Goto(c, "closed")
  BY DEF AskResolved, SendOrFail, Fail
<1>3. \A d \in Clients : d # None
  BY NoneAssumption DEF Values
<1>4. SlotMatchesTask'
  BY <1>1, <1>2, <1>3 DEF SlotMatchesTask, Asking, Goto
<1>5. AsksOnce'
  BY <1>1, <1>2 DEF AsksOnce, NotAskedYet, Asking, Goto
<1>6. \A d \in Clients : RefersTo(d)' => answer[d] # None
  BY <1>1 DEF RunnerIsBehind, RefersTo, Queued
<1>7. RunnerIsBehind'
  BY <1>1, <1>6 DEF RunnerIsBehind
<1>8. Slot!Release(c)
  BY <1>1 DEF Slot!Release
<1> QED
  BY <1>4, <1>5, <1>7, <1>8 DEF SlotStep, Slot!Next

\* A checked reply answers the ask whose responder it finds, if it is the first.
LEMMA TakeResponderSlot ==
    ASSUME TypeOK, SlotInv, NEW c \in Clients, TakeResponder(c),
           UNCHANGED <<runner, handling, pending_interactive>>
    PROVE  SlotInv' /\ SlotStep
<1> USE DEF TypeOK, SessionTypeOK, ConnTypeOK, SlotTypeOK, SlotInv
<1> DEFINE a == pending_reply_responder
<1>1. /\ ~Asking(c) /\ conn[c] # "none"
      /\ UNCHANGED <<client, inbox, events, pending_reply_schemas>>
      /\ pending_reply_responder' = None
  BY DEF TakeResponder, Asking, clientVars
<1>2. Goto(c, "read") \/ Goto(c, "closed")
  BY DEF TakeResponder, SendOrFail, Fail
<1>3. \A d \in Clients : d # None
  BY NoneAssumption DEF Values
<1>4. \A d \in Clients : /\ Asking(d)' <=> Asking(d)
                         /\ client'[d] = "idle" => conn'[d] = "none"
  BY <1>1, <1>2 DEF Asking, Goto, AsksOnce
<1>5. \A d \in Clients : answer[d] # None => answer'[d] # None
  BY DEF TakeResponder, Resolved
<1>6. RunnerIsBehind'
  BY <1>1, <1>5 DEF RunnerIsBehind, RefersTo, Queued
<1>7. a # None => a = pending_reply_schemas /\ a \in Clients /\ Asking(a)
  BY DEF SlotMatchesTask
<1>8. AsksOnce'
  <2>1. \A d \in Clients : NotAskedYet(d) => answer'[d] = answer[d]
    BY <1>7 DEF TakeResponder, Resolved, AsksOnce
  <2> QED
    BY <1>1, <1>4, <2>1 DEF AsksOnce, NotAskedYet
<1>9. pending_reply_schemas # None => answer'[pending_reply_schemas] # None
  BY <1>3, <1>5, <1>7 DEF TakeResponder, Resolved, SlotMatchesTask
<1>10. SlotMatchesTask'
  BY <1>1, <1>4, <1>9 DEF SlotMatchesTask
<1>11. SlotStep
  <2>1. CASE UNCHANGED answer
    BY <1>1, <2>1 DEF SlotStep, Slot!slot
  <2>2. CASE a # None /\ answer[a] = None /\ answer' = [answer EXCEPT ![a] = c]
    <3>1. Slot!Resolve(a, c)
      BY <1>1, <1>7, <2>2 DEF Slot!Resolve
    <3> QED
      BY <1>7, <2>2, <3>1 DEF SlotStep, Slot!Next, Values
  <2> QED
    BY <2>1, <2>2 DEF TakeResponder, Resolved
<1> QED
  BY <1>6, <1>8, <1>10, <1>11

\* The connection tasks.
LEMMA HandleSlot ==
    ASSUME TypeOK, SlotInv, NEW c \in Clients, Handle(c),
           UNCHANGED <<runner, handling, pending_interactive>>
    PROVE  SlotInv' /\ SlotStep
<1>1. CASE \/ HandleMetadata(c) \/ HandleRecordStart(c) \/ HandleTell(c)
           \/ HandleReply(c) \/ HandleRecordChunk(c) \/ HandleRecordEnd(c)
           \/ ConnEnds(c)
  <2>1. /\ conn[c] = "read" /\ ~Asking(c)
        /\ UNCHANGED <<slotVars, events, client>>
    BY <1>1 DEF HandleMetadata, HandleRecordStart, HandleTell, HandleReply,
                HandleRecordChunk, HandleRecordEnd, HandleRecordData, ConnEnds,
                Reads, Asking, clientVars
  <2>2. UNCHANGED inbox \/ \E m \in Messages : Reads(c, m)
    BY <1>1 DEF HandleMetadata, HandleRecordStart, HandleTell, HandleReply,
                HandleRecordChunk, HandleRecordEnd, HandleRecordData, ConnEnds,
                clientVars, Messages
  <2>3. \E pc : pc \notin {"none", "PromptRequest", "response"} /\ Goto(c, pc)
    BY <1>1 DEF HandleMetadata, HandleRecordStart, HandleTell, HandleReply,
                HandleRecordChunk, HandleRecordEnd, HandleRecordData, ConnEnds,
                SendOrFail, Fail
  <2> QED
    BY <2>1, <2>2, <2>3, ConnKeepsSlot
<1>2. CASE HandleReplyRejected(c)
  <2>1. /\ UNCHANGED <<slotVars, events, client, conn>> /\ Reads(c, "reply")
        /\ conn[c] # "none"
    BY <1>2 DEF HandleReplyRejected, connVars, Reads
  <2>2. \A d \in Clients : /\ NotAskedYet(d)' => NotAskedYet(d)
                           /\ client'[d] = "idle" => conn'[d] = "none"
                           /\ \A i \in 2..Len(inbox'[d]) :
                                 inbox'[d][i] # "prompt"
    BY <2>1, ReadsPrompt DEF TypeOK, SessionTypeOK, SlotInv, AsksOnce
  <2> QED
    BY <2>1, <2>2, SessionKeepsSlot DEF Asking
<1>3. CASE SendEvent(c)
  <2>1. /\ UNCHANGED <<slotVars, client, inbox>> /\ Goto(c, "read")
        /\ ~Asking(c) /\ conn[c] # "none" /\ conn[c] # "PromptRequest"
        /\ Emit(conn[c], c)
    BY <1>3 DEF SendEvent, Asking, clientVars
  <2>2. \A d \in Clients : /\ Asking(d)' <=> Asking(d)
                           /\ NotAskedYet(d)' => NotAskedYet(d)
                           /\ client'[d] = "idle" => conn'[d] = "none"
                           /\ \A i \in 2..Len(inbox'[d]) :
                                 inbox'[d][i] # "prompt"
    BY <2>1 DEF Asking, NotAskedYet, AsksOnce, Goto, SlotInv, TypeOK,
                SessionTypeOK, ConnTypeOK
  <2>3. \A d \in Clients : Queued(d)' => Queued(d)
    BY <2>1 DEF Queued, Emit, TypeOK, SessionTypeOK, EventTypeOK
  <2> QED
    BY <2>1, <2>2, <2>3, SlotKept DEF RefersTo, SlotInv, RunnerIsBehind
<1> QED
  BY <1>1, <1>2, <1>3, HandleAskSlot, SendAskSlot, AskResolvedSlot,
     TakeResponderSlot DEF Handle

\* The server task touches connections that have not asked.
LEMMA ServerStepSlot ==
    ASSUME TypeOK, SlotInv, ServerTask \/ \E c \in Clients : Accept(c),
           UNCHANGED <<runner, handling, pending_interactive>>
    PROVE  SlotInv' /\ SlotStep
<1> USE DEF TypeOK, SessionTypeOK, ConnTypeOK, SlotInv
<1>1. UNCHANGED <<client, inbox, slotVars, events>>
  BY DEF ServerTask, ServerShutdown, ServerFatal, StopAccepting, ServerFinish,
         ServerAborted, DropListener, Accept, clientVars
<1>2. \A d \in Clients : \/ conn'[d] = conn[d]
                         \/ /\ conn[d] = "backlog"
                            /\ conn'[d] \in {"read", "closed"}
  BY DEF ServerTask, ServerShutdown, ServerFatal, StopAccepting, ServerFinish,
         ServerAborted, DropListener, Accept, Goto, connVars
<1>3. \A d \in Clients : /\ Asking(d)' <=> Asking(d)
                         /\ client'[d] = "idle" => conn'[d] = "none"
  BY <1>1, <1>2 DEF Asking, AsksOnce
<1> QED
  BY <1>1, <1>3, SessionKeepsSlot DEF NotAskedYet, AsksOnce

\* A coco process is started by the script, the user or the runner.
LEMMA LaunchSlot ==
    ASSUME TypeOK, SlotInv, NEW c \in Clients,
           \/ ScriptLaunch(c) \/ UiReply(c) \/ UiFeedback(c)
           \/ OffloadRunsReply(c)
    PROVE  SlotInv' /\ SlotStep
<1>1. CASE ScriptLaunch(c) \/ UiReply(c) \/ UiFeedback(c)
  <2>1. Connect(c) /\ UNCHANGED <<runner, handling, pending_interactive>>
    BY <1>1 DEF ScriptLaunch, UiReply, UiFeedback, runVars, replyVars
  <2> QED
    BY <2>1, ClientStepSlot
<1>2. CASE OffloadRunsReply(c)
  \* As ClientStepSlot, but for the place of the runner, which is not idle
  \* before the step nor after it.
  <2> USE DEF TypeOK, SessionTypeOK, ClientTypeOK, ConnTypeOK, SlotInv
  <2>1. /\ Connect(c) /\ UNCHANGED <<handling, pending_interactive>>
        /\ runner = "offload" /\ runner' = "offloadReply"
        /\ UNCHANGED <<slotVars, events>>
    BY <1>2 DEF OffloadRunsReply, Connect
  <2>2. \A d \in Clients : /\ Asking(d)' <=> Asking(d)
                           /\ NotAskedYet(d)' => NotAskedYet(d)
                           /\ client'[d] = "idle" => conn'[d] = "none"
    BY <2>1 DEF Connect, Goto, AfterSend, Asking, NotAskedYet, AsksOnce
  <2>3. ASSUME NEW d \in Clients, NEW i \in 2..Len(inbox'[d])
        PROVE  inbox'[d][i] # "prompt"
    <3>1. CASE inbox'[d] = inbox[d]
      BY <3>1 DEF AsksOnce
    <3>2. CASE inbox'[d] = <<FirstMessage(c)>>
      BY <3>2
    <3> QED
      BY <2>1, <3>1, <3>2 DEF Connect
  <2>4. \A d \in Clients : RefersTo(d)' => RefersTo(d)
    BY <2>1 DEF RefersTo, Queued
  <2> QED
    BY <2>1, <2>2, <2>3, <2>4, SlotKept DEF RunnerIsBehind
<1> QED
  BY <1>1, <1>2

\* The script, the processes that are killed, and the user.
LEMMA RunStepSlot ==
    ASSUME TypeOK, SlotInv,
           \/ ScriptExit \/ PipesClose \/ KillLands \/ OffloadReplyKilled
           \/ UserCancel
    PROVE  SlotInv' /\ SlotStep
<1>1. /\ UNCHANGED <<inbox, slotVars, conn, events>>
      /\ UNCHANGED <<runner, handling, pending_interactive>>
  BY DEF ScriptExit, PipesClose, KillLands, OffloadReplyKilled, UserCancel,
         sessionVars,
         clientVars, connVars, runVars, replyVars
<1>2. \A d \in Clients : client'[d] = "idle" => client[d] = "idle"
  BY DEF ScriptExit, PipesClose, KillLands, OffloadReplyKilled, UserCancel,
         sessionVars,
         clientVars, TypeOK, SessionTypeOK, ClientTypeOK
<1> QED
  BY <1>1, <1>2, SessionKeepsSlot DEF SlotInv, AsksOnce, NotAskedYet, Asking

\* The starter; none of the events it sends is an ask.
LEMMA ExecSlot ==
    ASSUME TypeOK, SlotInv, ExecOutput \/ ExecStep
    PROVE  SlotInv' /\ SlotStep
<1>1. /\ UNCHANGED <<client, inbox, slotVars, conn>>
      /\ UNCHANGED <<runner, handling, pending_interactive>>
  BY DEF ExecOutput, ExecStep, ExecSpawn, ExecSpawnFails, ExecSeesCancel,
         ExecSendOutput, ExecSeesExit, ExecSendCancelled, ExecSendFinished,
         ExecServerDone, ExecSendFailed, sessionVars, clientVars, connVars,
         runVars, replyVars
<1>2. \/ UNCHANGED events
      \/ \E type \in StarterEvents : Emit(type, None)
  BY DEF ExecOutput, ExecStep, ExecSpawn, ExecSpawnFails, ExecSeesCancel,
         ExecSendOutput, ExecSeesExit, ExecSendCancelled, ExecSendFinished,
         ExecServerDone, ExecSendFailed, sessionVars, StarterEvents
<1>3. ASSUME NEW d \in Clients, Queued(d)' PROVE Queued(d)
  <2>1. CASE UNCHANGED events
    BY <1>3, <2>1 DEF Queued
  <2>2. ASSUME NEW type \in StarterEvents, Emit(type, None)
        PROVE  Queued(d)
    <3>1. PICK i \in DOMAIN events' :
                 events'[i] = [type |-> "PromptRequest", from |-> d]
      BY <1>3 DEF Queued
    <3>2. type # "PromptRequest"
      BY DEF StarterEvents
    <3>3. events'[i] # [type |-> type, from |-> None]
      BY <3>1, <3>2
    <3>4. i \in DOMAIN events /\ events'[i] = events[i]
      BY <2>2, <3>1, <3>3 DEF Emit, TypeOK, SessionTypeOK, EventTypeOK
    <3> QED
      BY <3>1, <3>4 DEF Queued
  <2> QED
    BY <1>2, <2>1, <2>2
<1> QED
  BY <1>1, <1>3, SlotKept DEF SlotInv, AsksOnce, NotAskedYet, Asking, RefersTo,
                              RunnerIsBehind

\* An ask behind a later event is also behind the first one.
LEMMA TakesQueued ==
    ASSUME TypeOK, NEW types, Takes(types), NEW d \in Clients, Queued(d)'
    PROVE  Queued(d)
<1>1. PICK i \in DOMAIN events' :
             events'[i] = [type |-> "PromptRequest", from |-> d]
  BY DEF Queued
<1>2. i + 1 \in DOMAIN events /\ events'[i] = events[i + 1]
  BY <1>1 DEF Takes, TypeOK, SessionTypeOK, EventTypeOK
<1> QED
  BY <1>1, <1>2 DEF Queued

\* The event loop.
LEMMA EventLoopSlot ==
    ASSUME TypeOK, SlotInv,
           \/ RunnerSeesCancel \/ RunnerRecord \/ RunnerOutput \/ RunnerTell
           \/ RunnerAsk \/ RunnerStarterEnds \/ RunnerEnds
    PROVE  SlotInv' /\ SlotStep
<1>1. UNCHANGED <<client, inbox, slotVars, conn>>
  BY DEF RunnerSeesCancel, RunnerRecord, RunnerOutput, RunnerTell, RunnerAsk,
         RunnerStarterEnds, RunnerEnds, sessionVars, clientVars, connVars
<1>2. ASSUME \A d \in Clients : RefersTo(d)' => RefersTo(d),
             runner' \notin {"poll", "done"} => handling' \in Clients
      PROVE  SlotInv' /\ SlotStep
  BY <1>1, <1>2, SlotKept DEF SlotInv, AsksOnce, NotAskedYet, Asking
<1>3. CASE RunnerSeesCancel \/ RunnerEnds
  <2>1. /\ UNCHANGED <<events, handling, pending_interactive>>
        /\ runner' \in {runner, "done"}
    BY <1>3 DEF RunnerSeesCancel, RunnerEnds, sessionVars, replyVars
  <2> QED
    BY <1>2, <2>1 DEF RefersTo, Queued, SlotInv, RunnerIsBehind
<1>4. CASE RunnerRecord \/ RunnerOutput \/ RunnerStarterEnds
  <2>1. \A d \in Clients : Queued(d)' => Queued(d)
    BY <1>4, TakesQueued DEF RunnerRecord, RunnerOutput, RunnerStarterEnds
  <2>2. /\ UNCHANGED <<runner, handling>>
        /\ pending_interactive' \in {pending_interactive, None}
    BY <1>4 DEF RunnerRecord, RunnerOutput, RunnerStarterEnds, runVars,
                replyVars
  <2>3. \A d \in Clients : d # None
    BY NoneAssumption DEF Values
  <2> QED
    BY <1>2, <2>1, <2>2, <2>3 DEF RefersTo, SlotInv, RunnerIsBehind
<1>5. CASE RunnerTell
  <2>1. \A d \in Clients : Queued(d)' => Queued(d)
    BY <1>5, TakesQueued DEF RunnerTell
  <2>2. /\ UNCHANGED pending_interactive
        /\ \/ UNCHANGED <<runner, handling>>
           \/ handling' = pending_interactive /\ handling' \in Clients
    BY <1>5 DEF RunnerTell, Enter, TypeOK, ReplyTypeOK
  <2> QED
    BY <1>2, <2>1, <2>2 DEF RefersTo, SlotInv, RunnerIsBehind
<1>6. CASE RunnerAsk
  <2> DEFINE c == Head(events).from
  <2>1. /\ Takes({"PromptRequest"}) /\ Head(events) \in Events
        /\ Head(events).type = "PromptRequest"
    BY <1>6, TakesType DEF RunnerAsk, Takes, TypeOK, SessionTypeOK
  <2>2. c \in Clients /\ Head(events) = [type |-> "PromptRequest", from |-> c]
    BY <2>1 DEF Events, StarterEvents
  <2>3. Queued(c)
    <3>1. 1 \in DOMAIN events /\ events[1] = Head(events)
      BY <2>1 DEF Takes, TypeOK, SessionTypeOK, EventTypeOK
    <3> QED
      BY <2>2, <3>1 DEF Queued
  <2>4. \A d \in Clients : Queued(d)' => Queued(d)
    BY <2>1, TakesQueued
  <2>5. handling' = c /\ pending_interactive' \in {c, None}
    BY <1>6 DEF RunnerAsk, Enter
  <2>6. \A d \in Clients : d # None
    BY NoneAssumption DEF Values
  <2> QED
    BY <1>2, <2>2, <2>3, <2>4, <2>5, <2>6 DEF RefersTo
<1> QED
  BY <1>3, <1>4, <1>5, <1>6

\* The runner answers the ask it works on, if nobody did before.
LEMMA RespondSlot ==
    ASSUME TypeOK, SlotInv, NEW v \in {"model", "error"},
           handling \in Clients, Respond(v), ReplyUnchanged,
           \A c \in Clients : client'[c] = "idle" => client[c] = "idle",
           pending_interactive' \in {pending_interactive, None}
    PROVE  SlotInv' /\ SlotStep
<1> USE DEF TypeOK, SessionTypeOK, SlotTypeOK, SlotInv
<1> DEFINE a == handling
<1>1. UNCHANGED <<inbox, conn, events, pending_reply_schemas,
                  pending_reply_responder>>
  BY DEF ReplyUnchanged, connVars
<1>2. /\ answer' = IF answer[a] = None
                   THEN [answer EXCEPT ![a] = v] ELSE answer
      /\ handling' = None /\ runner' = "poll"
  BY DEF Respond, Resolved
<1>3. v # None /\ \A d \in Clients : d # None
  BY NoneAssumption DEF Values
<1>4. \A d \in Clients : answer[d] # None => answer'[d] # None
  BY <1>2, <1>3
<1>5. answer[a] = None => pending_reply_schemas = a /\ Asking(a)
  BY DEF RunnerIsBehind, RefersTo, SlotMatchesTask
<1>6. SlotMatchesTask'
  BY <1>1, <1>3, <1>4 DEF SlotMatchesTask, Asking
<1>7. AsksOnce'
  <2>1. \A d \in Clients : NotAskedYet(d) => answer'[d] = answer[d]
    BY <1>2, <1>5 DEF AsksOnce
  <2> QED
    BY <1>1, <2>1 DEF AsksOnce, NotAskedYet, Asking
<1>8. RunnerIsBehind'
  BY <1>1, <1>2, <1>3, <1>4 DEF RunnerIsBehind, RefersTo, Queued
<1>9. SlotStep
  <2>1. CASE answer[a] # None
    BY <1>1, <1>2, <2>1 DEF SlotStep, Slot!slot
  <2>2. CASE answer[a] = None
    <3>1. Slot!Resolve(a, v)
      BY <1>1, <1>2, <1>5, <2>2 DEF Slot!Resolve
    <3> QED
      BY <3>1 DEF SlotStep, Slot!Next, Values
  <2> QED
    BY <2>1, <2>2
<1> QED
  BY <1>6, <1>7, <1>8, <1>9

\* The ways the runner handles an ask.
LEMMA AnswerSlot ==
    ASSUME TypeOK, SlotInv,
           \/ RunnerRefuses \/ DirectReply \/ InteractivePauses
           \/ InteractiveFails \/ OffloadFails \/ OffloadReplyReturns
    PROVE  SlotInv' /\ SlotStep
<1>1. /\ runner \notin {"poll", "done"} /\ ReplyUnchanged
      /\ pending_interactive' \in {pending_interactive, None}
      /\ \A c \in Clients : client'[c] = "idle" => client[c] = "idle"
  BY DEF RunnerRefuses, DirectReply, InteractivePauses, InteractiveFails,
         OffloadFails, OffloadReplyReturns, TypeOK, SessionTypeOK, ClientTypeOK
<1>2. handling \in Clients
  BY <1>1 DEF SlotInv, RunnerIsBehind
<1>3. CASE \E v \in {"model", "error"} : Respond(v)
  BY <1>1, <1>2, <1>3, RespondSlot
<1>4. CASE runner' = "poll" /\ handling' = None /\ UNCHANGED answer
  <2>1. UNCHANGED <<inbox, slotVars, conn, events>>
    BY <1>1, <1>4 DEF ReplyUnchanged, slotVars, connVars
  <2>2. \A d \in Clients : RefersTo(d)' => RefersTo(d)
    BY <1>1, <1>4, <2>1, NoneAssumption DEF RefersTo, Queued, Values
  <2> QED
    BY <1>1, <1>4, <2>1, <2>2, SlotKept
    DEF SlotInv, AsksOnce, NotAskedYet, Asking
<1> QED
  BY <1>3, <1>4
  DEF RunnerRefuses, DirectReply, InteractivePauses, InteractiveFails,
      OffloadFails, OffloadReplyReturns

\* Every step keeps SlotInv, and is a step of the slot or leaves it alone.
LEMMA NextSlot ==
    ASSUME TypeOK, SlotInv, [Next]_vars
    PROVE  SlotInv' /\ SlotStep
<1>1. CASE SessionStep /\ UNCHANGED <<execVars, runVars>>
  <2>1. UNCHANGED <<runner, handling, pending_interactive>>
    BY <1>1 DEF runVars, replyVars
  <2> QED
    BY <1>1, <2>1, ClientStepSlot, HandleSlot, ServerStepSlot DEF SessionStep
<1>2. ASSUME NEW c \in Clients,
             \/ ScriptLaunch(c) \/ UiReply(c) \/ UiFeedback(c)
             \/ OffloadRunsReply(c)
      PROVE  SlotInv' /\ SlotStep
  BY <1>2, LaunchSlot
<1>3. CASE \/ ScriptExit \/ PipesClose \/ KillLands \/ OffloadReplyKilled
           \/ UserCancel
  BY <1>3, RunStepSlot
<1>4. CASE ExecOutput \/ ExecStep
  BY <1>4, ExecSlot
<1>5. CASE RunnerStep
  BY <1>5, EventLoopSlot, AnswerSlot DEF RunnerStep
<1>6. CASE UNCHANGED vars
  <2>1. /\ UNCHANGED <<client, inbox, slotVars, conn, events>>
        /\ UNCHANGED <<runner, handling, pending_interactive>>
    BY <1>6 DEF vars, sessionVars, clientVars, connVars, runVars, replyVars
  <2> QED
    BY <2>1, SessionKeepsSlot DEF SlotInv, AsksOnce, NotAskedYet, Asking
<1> QED
  BY <1>1, <1>2, <1>3, <1>4, <1>5, <1>6 DEF Next, Terminated

\* The state the connection tasks share agrees with the tasks: one open ask at
\* a time, whose responder is taken only once it is answered, however many
\* processes the script runs in parallel (starter.rs:874-930, 941-985).
THEOREM SlotInvariant == Spec => []SlotInv
<1>1. Init => SlotInv
  BY InitSlot
<1>2. TypeOK /\ SlotInv /\ [Next]_vars => SlotInv'
  BY NextSlot
<1> QED
  BY <1>1, <1>2, TypeCorrect, PTL DEF Spec

\* A combo run implements the reply slot: an ask is answered at most once, only
\* while it holds the slot, and the first answer stays, whoever gives it and
\* however the run ends.
THEOREM SlotRefinement == Spec => SlotSpec
<1>1. Init => Slot!Init
  BY InitSlot
<1>2. TypeOK /\ SlotInv /\ [Next]_vars => [Slot!Next]_(Slot!slot)
  BY NextSlot DEF SlotStep
<1> QED
  BY <1>1, <1>2, TypeCorrect, SlotInvariant, PTL DEF Spec, SlotSpec, Slot!Spec
=============================================================================
