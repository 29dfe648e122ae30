---------------------------- MODULE AgentProofs ----------------------------
(***************************************************************************)
(* Proofs about the runtime thread, alone and composed with its two kinds  *)
(* of client.                                                              *)
(*                                                                         *)
(* RuntimeManager, the thread and the calls of its handle: for any number  *)
(* of callers, sessions and modules, any compatibility relation and any    *)
(* channel capacity.                                                       *)
(*                                                                         *)
(* RemoteDebug, the DAP proxy: for any number of API tasks and debug       *)
(* connections.                                                            *)
(*                                                                         *)
(* ProgramApi, the program endpoints: some results hold for any number of  *)
(* deployers.  The others suppose a single one (OneClerk): start and       *)
(* update use the store and the runtime in separate steps, so that what    *)
(* they report is only right when nobody else deploys in between.          *)
(***************************************************************************)
EXTENDS RemoteDebug, ProgramApi, FiniteSetTheorems, TLAPS

-----------------------------------------------------------------------------
(*                           The runtime thread                            *)

\* A command taken from the queue is a command.
LEMMA CommandShape ==
  ASSUME NEW cmd \in Commands
  PROVE  /\ cmd.by \in Callers
         /\ cmd.op \in ModuleOps => cmd.arg \in Modules /\ cmd.meta \in Modules
         /\ cmd.op = "DebugAttach" => cmd.arg \in Sessions
  BY DEF Commands, ModuleOps, PlainOps, ForceOps

\* The progress values of a call are distinct and typed.
LEMMA CallShape ==
  /\ Free \in Calls
  /\ [at |-> "wait"] \in Calls
  /\ \A r \in Results : Done(r) \in Calls
  /\ \A cmd \in Commands : [at |-> "send", cmd |-> cmd] \in Calls
  /\ \A k \in Calls : k.at = "send" => k.cmd \in Commands
  BY DEF Calls, Free, Done, Results

LEMMA TypeInit == Init => TypeOK
<1> SUFFICES ASSUME Init PROVE TypeOK
  OBVIOUS
<1>1. queue \in Seq(Commands) /\ Len(queue) <= QueueCap
  BY RuntimeAssumption DEF Init, RuntimeAssumption
<1>2. dbgq \in [Sessions -> Seq(DebugOps)]
  BY DEF Init
<1>3. call \in [Callers -> Calls]
  BY CallShape DEF Init
<1>4. frames \in BOOLEAN
  BY Zenon DEF Init
<1>5. QED
  BY <1>1, <1>2, <1>3, <1>4 DEF Init, TypeOK, Statuses, PCs, Modes, Events

\* Taking the head of the queue yields a command and leaves a legal queue.
LEMMA TakeType ==
  ASSUME TypeOK, queue # <<>>
  PROVE  /\ Head(queue) \in Commands
         /\ Tail(queue) \in Seq(Commands) /\ Len(Tail(queue)) <= QueueCap
  BY RuntimeAssumption DEF TypeOK, RuntimeAssumption

\* Replies keep calls well-typed.
LEMMA ReplyType ==
  ASSUME TypeOK, NEW cmd \in Commands, NEW r \in Results, Reply(cmd, r)
  PROVE  call' \in [Callers -> Calls]
  BY CommandShape, CallShape DEF Reply, TypeOK

\* Closing channels keeps the session state well-typed.
LEMMA CloseType ==
  ASSUME TypeOK, NEW S, CloseChannels(S)
  PROVE  /\ dbgq' \in [Sessions -> Seq(DebugOps)]
         /\ dbg' \in [Sessions -> {"unused", "pending", "open", "closed"}]
  BY DEF CloseChannels, TypeOK

-----------------------------------------------------------------------------
(* Type correctness *)

\* The thread's death keeps every type.
LEMMA DieType ==
  ASSUME TypeOK, Die
  PROVE  /\ pc' \in PCs
         /\ queue' \in Seq(Commands) /\ Len(queue') <= QueueCap
         /\ dbgq' \in [Sessions -> Seq(DebugOps)]
         /\ dbg' \in [Sessions -> {"unused", "pending", "open", "closed"}]
         /\ call' \in [Callers -> Calls]
  BY CloseType, CallShape, RuntimeAssumption DEF Die, TypeOK, PCs, Results, RuntimeAssumption

\* Reading a session's channel keeps it well-typed.
LEMMA DebugReadType ==
  ASSUME TypeOK, DebugReady, DebugRead
  PROVE  /\ session \in Sessions
         /\ DebugHead \in DebugOps
         /\ dbgq' \in [Sessions -> Seq(DebugOps)]
         /\ dbg' \in [Sessions -> {"unused", "pending", "open", "closed"}]
  BY DEF DebugReady, DebugRead, DebugHead, TypeOK

LEMMA TypeNext == TypeOK /\ [Next]_vars => TypeOK'
<1> SUFFICES ASSUME TypeOK, [Next]_vars PROVE TypeOK'
  OBVIOUS
<1> USE DEF sharedVars, threadVars, channelVars, Statuses, PCs, Modes, Events, Results
<1>1. CASE IdleCommand
  BY <1>1, TakeType, ReplyType, CloseType DEF IdleCommand, Take, TypeOK
<1>2. CASE IdleShutdown
  BY <1>2, DieType DEF IdleShutdown, TypeOK
<1>3. CASE IdleStart
  BY <1>3, TakeType, CommandShape DEF IdleStart, Take, ModuleOps, TypeOK
<1>4. CASE BuildEngine
  BY <1>4 DEF BuildEngine, TypeOK
<1>5. CASE CycleOk
  <2>1. frames' \in BOOLEAN
    BY <1>5, Zenon DEF CycleOk
  <2>2. QED
    BY <1>5, <2>1 DEF CycleOk, TypeOK
<1>6. CASE CycleHalt
  <2>1. frames' \in BOOLEAN
    BY <1>6, Zenon DEF CycleHalt, CleanDebugState
  <2>2. QED
    BY <1>6, <2>1 DEF CycleHalt, CleanDebugState, TypeOK
<1>7. CASE CycleError
  BY <1>7 DEF CycleError, TypeOK
<1>8. CASE PollEmpty
  BY <1>8 DEF PollEmpty, TypeOK
<1>9. CASE TakeStop
  BY <1>9, TakeType DEF TakeStop, Take, TypeOK
<1>10. CASE PollAttach
  BY <1>10, TakeType, CommandShape, CloseType DEF PollAttach, Take, TypeOK
<1>11. CASE PollOnlineChange
  <2>1. Head(queue) \in Commands /\ Head(queue).op = "OnlineChange"
    BY <1>11, TakeType DEF PollOnlineChange, Take
  <2>2. Head(queue).arg \in Modules /\ Head(queue).meta \in Modules
    BY <2>1, CommandShape DEF ModuleOps
  <2>3. call' \in [Callers -> Calls]
    BY <1>11, <2>1, ReplyType DEF PollOnlineChange
  <2>4. queue' \in Seq(Commands) /\ Len(queue') <= QueueCap
    BY <1>11, TakeType DEF PollOnlineChange, Take
  <2>5. /\ catalog' \in Modules \cup {None}
        /\ program' \in Modules \cup {None}
        /\ emod' \in Modules \cup {None}
    BY <1>11, <2>2 DEF PollOnlineChange, Publish, TypeOK
  <2>6. frames' \in BOOLEAN
    BY <1>11, Zenon DEF PollOnlineChange, TypeOK
  <2>7. QED
    BY <1>11, <2>3, <2>4, <2>5, <2>6 DEF PollOnlineChange, TypeOK
<1>12. CASE PollOther
  BY <1>12, TakeType, ReplyType DEF PollOther, Take, TypeOK
<1>13. CASE DrainDone
  BY <1>13 DEF DrainDone, TypeOK
<1>14. CASE DrainCommand
  BY <1>14, DebugReadType DEF DrainCommand, SetBreakpoints, TypeOK
<1>15. CASE DrainDisconnect
  BY <1>15, CloseType DEF DrainDisconnect, EndSession, CleanDebugState, TypeOK
<1>16. CASE EnterPause
  BY <1>16 DEF EnterPause, TypeOK
<1>17. CASE PausedPollEmpty
  BY <1>17 DEF PausedPollEmpty, TypeOK
<1>18. CASE PausedCommand
  BY <1>18, TakeType, ReplyType DEF PausedCommand, Take, TypeOK
<1>19. CASE PausedAttach
  BY <1>19, TakeType, CommandShape, CloseType DEF PausedAttach, Take, ReenterLoop, TypeOK
<1>20. CASE PausedResume
  BY <1>20, DebugReadType DEF PausedResume, ReenterLoop, TypeOK
<1>21. CASE PausedServe
  BY <1>21, DebugReadType DEF PausedServe, SetBreakpoints, TypeOK
<1>22. CASE PausedDetach
  BY <1>22, CloseType DEF PausedDetach, EndSession, CleanDebugState, TypeOK
<1>23. CASE Finish
  BY <1>23, CloseType, DieType DEF Finish, CleanDebugState, TypeOK
<1>24. ASSUME NEW cmd \in Requests, Invoke(cmd) PROVE TypeOK'
  BY <1>24, CommandShape, CallShape DEF Invoke, MarkSession, Requests, TypeOK
<1>25. ASSUME NEW c \in Callers, Send(c) PROVE TypeOK'
  BY <1>25, CommandShape, CallShape, RuntimeAssumption
  DEF Send, HasRoom, MarkSession, TypeOK, RuntimeAssumption
<1>26. ASSUME NEW c \in Callers, SendFails(c) PROVE TypeOK'
  BY <1>26, CommandShape, CallShape DEF SendFails, MarkSession, TypeOK
<1>27. ASSUME NEW c \in Callers, Return(c) PROVE TypeOK'
  BY <1>27, CallShape DEF Return, TypeOK
<1>28. ASSUME NEW s \in Sessions, NEW op \in DebugOps, DebugSend(s, op) PROVE TypeOK'
  BY <1>28 DEF DebugSend, TypeOK
<1>29. ASSUME NEW s \in Sessions, DebugDrop(s) PROVE TypeOK'
  BY <1>29 DEF DebugDrop, TypeOK
<1>30. CASE UNCHANGED vars
  BY <1>30 DEF vars, TypeOK
<1>31. QED
  BY <1>1, <1>2, <1>3, <1>4, <1>5, <1>6, <1>7, <1>8, <1>9, <1>10, <1>11, <1>12,
     <1>13, <1>14, <1>15, <1>16, <1>17, <1>18, <1>19, <1>20, <1>21, <1>22, <1>23,
     <1>24, <1>25, <1>26, <1>27, <1>28, <1>29, <1>30
  DEF Next, RuntimeThread, Clients

(* Every reachable state of the runtime is well-typed: the status, the     *)
(* thread position, both channels and every caller's progress stay in the  *)
(* ranges runtime_manager.rs declares, and the command channel never       *)
(* exceeds its capacity.                                                   *)
THEOREM TypeCorrect == Spec => []TypeOK
<1>1. Init => TypeOK
  BY TypeInit
<1>2. TypeOK /\ [Next]_vars => TypeOK'
  BY TypeNext
<1>3. QED
  BY <1>1, <1>2, PTL DEF Spec

-----------------------------------------------------------------------------
(* Safety.  None of the state properties is inductive: PausedIsHeld speaks  *)
(* only of the published status, which the thread writes some steps after   *)
(* the VM halts and rewrites some steps after it resumes.  ControlInv ties  *)
(* the status, the call stack, the step mode and the session to the         *)
(* position of the thread, which is what each handler relies on.            *)

ControlInv ==
  /\ PositionInv
  /\ PublishInv
  /\ NoOrphanDebugState

LEMMA ControlInit == Init => ControlInv
  BY DEF Init, ControlInv, PositionInv, PublishInv, NoOrphanDebugState

LEMMA ControlNext == TypeOK /\ ControlInv /\ [Next]_vars => ControlInv'
<1> SUFFICES ASSUME TypeOK, ControlInv, [Next]_vars PROVE ControlInv'
  OBVIOUS
<1> USE DEF sharedVars, threadVars, channelVars, ControlInv, PositionInv, PublishInv,
            NoOrphanDebugState
<1>1. CASE IdleCommand
  BY <1>1 DEF IdleCommand
<1>2. CASE IdleShutdown
  BY <1>2 DEF IdleShutdown, Die
<1>3. CASE IdleStart
  BY <1>3, TakeType, CommandShape, RuntimeAssumption DEF IdleStart, Take, ModuleOps, RuntimeAssumption
<1>4. CASE BuildEngine
  BY <1>4 DEF BuildEngine
<1>5. CASE CycleOk
  BY <1>5 DEF CycleOk
<1>6. CASE CycleHalt
  BY <1>6 DEF CycleHalt, CleanDebugState
<1>7. CASE CycleError
  BY <1>7 DEF CycleError
<1>8. CASE PollEmpty
  BY <1>8 DEF PollEmpty
<1>9. CASE TakeStop
  BY <1>9 DEF TakeStop
<1>10. CASE PollAttach
  BY <1>10, TakeType, CommandShape, RuntimeAssumption DEF PollAttach, Take, RuntimeAssumption
<1>11. CASE PollOnlineChange
  BY <1>11, TakeType, CommandShape, RuntimeAssumption DEF PollOnlineChange, Take, Publish, ModuleOps, RuntimeAssumption
<1>12. CASE PollOther
  BY <1>12 DEF PollOther
<1>13. CASE DrainDone
  BY <1>13 DEF DrainDone
<1>14. CASE DrainCommand
  BY <1>14 DEF DrainCommand, DebugReady, SetBreakpoints
<1>15. CASE DrainDisconnect
  BY <1>15 DEF DrainDisconnect, EndSession, CleanDebugState
<1>16. CASE EnterPause
  BY <1>16 DEF EnterPause
<1>17. CASE PausedPollEmpty
  BY <1>17 DEF PausedPollEmpty
<1>18. CASE PausedCommand
  BY <1>18 DEF PausedCommand
<1>19. CASE PausedAttach
  BY <1>19, TakeType, CommandShape, RuntimeAssumption DEF PausedAttach, Take, ReenterLoop, RuntimeAssumption
<1>20. CASE PausedResume
  BY <1>20 DEF PausedResume, ReenterLoop
<1>21. CASE PausedServe
  BY <1>21 DEF PausedServe, SetBreakpoints
<1>22. CASE PausedDetach
  BY <1>22 DEF PausedDetach, EndSession, CleanDebugState
<1>23. CASE Finish
  BY <1>23 DEF Finish, Die, CleanDebugState
<1>24. CASE Clients
  <2>1. UNCHANGED <<sharedVars, threadVars, told>>
    BY <1>24 DEF Clients, Invoke, Send, SendFails, Return, DebugSend, DebugDrop
  <2>2. QED
    BY <2>1
<1>25. CASE UNCHANGED vars
  BY <1>25 DEF vars
<1>26. QED
  BY <1>1, <1>2, <1>3, <1>4, <1>5, <1>6, <1>7, <1>8, <1>9, <1>10, <1>11, <1>12,
     <1>13, <1>14, <1>15, <1>16, <1>17, <1>18, <1>19, <1>20, <1>21, <1>22, <1>23,
     <1>24, <1>25
  DEF Next, RuntimeThread

LEMMA ControlCorrect == Spec => [](TypeOK /\ ControlInv)
<1>1. Init => TypeOK /\ ControlInv
  BY TypeInit, ControlInit
<1>2. (TypeOK /\ ControlInv) /\ [Next]_vars => (TypeOK /\ ControlInv)'
  BY TypeNext, ControlNext
<1>3. QED
  BY <1>1, <1>2, PTL DEF Spec

(* A runtime that reports DebugPaused holds its VM inside a cycle, and the *)
(* attached debugger was told so (run_cycle_loop, handle_debug_commands).  *)
THEOREM PausedIsHeldHolds == Spec => []PausedIsHeld
<1>1. TypeOK /\ ControlInv => PausedIsHeld
  BY DEF ControlInv, PositionInv, PausedIsHeld, TypeOK, PCs
<1>2. QED
  BY <1>1, ControlCorrect, PTL

(* No breakpoint or pause request outlives its debug session.              *)
THEOREM NoOrphanDebugStateHolds == Spec => []NoOrphanDebugState
<1>1. ControlInv => NoOrphanDebugState
  BY DEF ControlInv
<1>2. QED
  BY <1>1, ControlCorrect, PTL

\* Only PollOnlineChange replaces the module of a live engine.
LEMMA SwapStep ==
  ASSUME TypeOK, ControlInv, Next, emod # None, emod' # None, emod' # emod
  PROVE  ~frames /\ status = "Running"
<1>1. pc = "poll"
  BY DEF Next, RuntimeThread, Clients, sharedVars, threadVars, channelVars,
     IdleCommand, IdleShutdown, IdleStart, BuildEngine, CycleOk, CycleHalt, CycleError,
     PollEmpty, TakeStop, PollAttach, PollOnlineChange, PollOther, DrainDone,
     DrainCommand, DrainDisconnect, EnterPause, PausedPollEmpty, PausedCommand,
     PausedAttach, PausedResume, PausedServe, PausedDetach, Finish,
     Invoke, Send, SendFails, Return, DebugSend, DebugDrop, ControlInv, PositionInv
<1>2. QED
  BY <1>1 DEF ControlInv, PositionInv

(* The module of a live engine is replaced only between cycles, with an    *)
(* empty call stack and outside a debug pause.                             *)
THEOREM SwapBetweenCyclesHolds == Spec => SwapBetweenCycles
<1>1. (TypeOK /\ ControlInv) /\ [Next]_vars
        => [emod # None /\ emod' # None /\ emod' # emod => ~frames /\ status = "Running"]_vars
  BY SwapStep
<1>2. QED
  BY <1>1, ControlCorrect, PTL DEF Spec, SwapBetweenCycles

-----------------------------------------------------------------------------
(* The reported program.  start and online_change pass a module together   *)
(* with its own metadata, and the pair travels through the caller's        *)
(* suspended send and the channel before the thread applies it.            *)

MetaInv ==
  /\ \A i \in DOMAIN queue : queue[i] \in Requests
  /\ \A c \in Callers : call[c].at = "send" => call[c].cmd \in Requests
  /\ emod # None => program = emod

LEMMA MetaNext == TypeOK /\ ControlInv /\ MetaInv /\ [Next]_vars => MetaInv'
<1> SUFFICES ASSUME TypeOK, ControlInv, MetaInv, [Next]_vars PROVE MetaInv'
  OBVIOUS
<1> USE DEF sharedVars, threadVars, channelVars
<1> DEFINE Pending == \A c \in Callers : call[c].at = "send" => call[c].cmd \in Requests
           Queued == \A i \in DOMAIN queue : queue[i] \in Requests
           Reported == emod # None => program = emod
<1>1. ASSUME queue # <<>> PROVE Head(queue) \in Requests
  BY <1>1 DEF MetaInv, TypeOK
<1>2. ASSUME queue # <<>>, queue' = Tail(queue) PROVE Queued'
  BY <1>2 DEF MetaInv, TypeOK
<1>3. ASSUME NEW cmd \in Commands, NEW r \in Results, Reply(cmd, r)
      PROVE  Pending'
  BY <1>3, CommandShape DEF Reply, Done, MetaInv, TypeOK
<1>4. ASSUME Die PROVE Queued' /\ Pending'
  BY <1>4 DEF Die, Done, MetaInv, TypeOK
<1>5. Reported'
  <2>1. CASE IdleStart
    BY <2>1, <1>1 DEF IdleStart, Take, Requests, ModuleOps
  <2>2. CASE PollOnlineChange
    BY <2>2, <1>1 DEF PollOnlineChange, Take, Publish, Requests, ModuleOps, MetaInv
  <2>3. CASE Finish
    BY <2>3 DEF Finish
  <2>4. CASE UNCHANGED <<program, emod>>
    BY <2>4 DEF MetaInv
  <2>5. QED
    BY <2>1, <2>2, <2>3, <2>4 DEF Next, vars, RuntimeThread, Clients,
       IdleCommand, IdleShutdown, BuildEngine, CycleOk, CycleHalt, CycleError,
       PollEmpty, TakeStop, PollAttach, PollOther, DrainDone,
       DrainCommand, DrainDisconnect, EnterPause, PausedPollEmpty, PausedCommand,
       PausedAttach, PausedResume, PausedServe, PausedDetach,
       Invoke, Send, SendFails, Return, DebugSend, DebugDrop
<1>6. Queued'
  <2>1. ASSUME NEW c \in Callers, Send(c) PROVE Queued'
    BY <2>1, CallShape DEF Send, MetaInv, TypeOK
  <2>2. CASE UNCHANGED queue
    BY <2>2 DEF MetaInv
  <2>3. CASE Take
    BY <2>3, <1>2 DEF Take
  <2>4. QED
    BY <2>1, <2>2, <2>3, <1>4 DEF Next, vars, RuntimeThread, Clients,
       IdleCommand, IdleShutdown, IdleStart, BuildEngine, CycleOk, CycleHalt, CycleError,
       PollEmpty, TakeStop, PollAttach, PollOnlineChange, PollOther, DrainDone,
       DrainCommand, DrainDisconnect, EnterPause, PausedPollEmpty, PausedCommand,
       PausedAttach, PausedResume, PausedServe, PausedDetach, Finish,
       Invoke, SendFails, Return, DebugSend, DebugDrop
<1>7. Pending'
  <2>1. ASSUME NEW cmd \in Requests, Invoke(cmd) PROVE Pending'
    BY <2>1 DEF Invoke, MetaInv, TypeOK
  <2>2. ASSUME NEW c \in Callers, Send(c) \/ SendFails(c) \/ Return(c) PROVE Pending'
    BY <2>2 DEF Send, SendFails, Return, Free, MetaInv, TypeOK
  <2>3. CASE UNCHANGED call
    BY <2>3 DEF MetaInv
  <2>4. CASE IdleCommand \/ PollOnlineChange \/ PollOther \/ PausedCommand
    <3>1. Head(queue) \in Commands
      BY <2>4, TakeType DEF IdleCommand, PollOnlineChange, PollOther, PausedCommand, Take
    <3>2. QED
      BY <2>4, <3>1, <1>3 DEF IdleCommand, PollOnlineChange, PollOther, PausedCommand, Results
  <2>5. QED
    BY <2>1, <2>2, <2>3, <2>4, <1>4 DEF Next, vars, RuntimeThread, Clients,
       IdleShutdown, IdleStart, BuildEngine, CycleOk, CycleHalt, CycleError,
       PollEmpty, TakeStop, PollAttach, DrainDone,
       DrainCommand, DrainDisconnect, EnterPause, PausedPollEmpty,
       PausedAttach, PausedResume, PausedServe, PausedDetach, Finish,
       DebugSend, DebugDrop
<1>8. QED
  BY <1>5, <1>6, <1>7 DEF MetaInv

\* The combined invariant, once and for all.
LEMMA InvariantCorrect == Spec => [](TypeOK /\ ControlInv /\ MetaInv)
<1>1. Init => MetaInv
  BY DEF Init, MetaInv, Free
<1>2. QED
  BY <1>1, ControlCorrect, MetaNext, PTL DEF Spec

(* While the runtime reports that it runs or is paused, the engine, the    *)
(* published variable catalog and the reported program are one and the     *)
(* same module, whatever was started, changed or refused before.           *)
THEOREM PublishedMatchesEngineHolds == Spec => []PublishedMatchesEngine
<1>1. TypeOK /\ ControlInv /\ MetaInv => PublishedMatchesEngine
  BY DEF MetaInv, ControlInv, PositionInv, PublishInv, PublishedMatchesEngine, TypeOK, PCs
<1>2. QED
  BY <1>1, InvariantCorrect, PTL

-----------------------------------------------------------------------------
(* Refinement *)

\* Each step of the agent is a life-cycle step or invisible to the client.
LEMMA LifecycleStep ==
  ASSUME TypeOK, ControlInv, MetaInv, [Next]_vars
  PROVE  [Lifecycle!Next]_(Lifecycle!view)
<1> USE DEF sharedVars, threadVars, channelVars
<1>1. CASE IdleStart
  <2>1. Head(queue) \in Commands /\ Head(queue).op = "Start"
    BY <1>1, TakeType DEF IdleStart, Take
  <2>2. Head(queue).meta \in Modules
    BY <2>1, CommandShape DEF ModuleOps
  <2>3. Lifecycle!Begin(Head(queue).meta)
    BY <1>1 DEF IdleStart, Lifecycle!Begin, ControlInv, PositionInv
  <2>4. QED
    BY <2>2, <2>3 DEF Lifecycle!Next
<1>2. CASE BuildEngine
  <2>1. Lifecycle!Up
    BY <1>2 DEF BuildEngine, Lifecycle!Up, ControlInv, PositionInv, MetaInv
  <2>2. QED
    BY <2>1 DEF Lifecycle!Next
<1>3. CASE PollOnlineChange
  <2>1. Head(queue) \in Requests /\ Head(queue) \in Commands /\ Head(queue).op = "OnlineChange"
    BY <1>3, TakeType DEF PollOnlineChange, Take, MetaInv, TypeOK
  <2>2. Head(queue).arg \in Modules /\ Head(queue).meta = Head(queue).arg
    BY <2>1, CommandShape DEF ModuleOps, Requests
  <2>3. CASE <<emod, Head(queue).arg>> \in Compatible
    <3>1. Lifecycle!Change(Head(queue).arg)
      BY <1>3, <2>2, <2>3 DEF PollOnlineChange, Publish, Lifecycle!Change, ControlInv, PositionInv
    <3>2. QED
      BY <2>2, <3>1 DEF Lifecycle!Next
  <2>4. CASE <<emod, Head(queue).arg>> \notin Compatible
    BY <1>3, <2>4 DEF PollOnlineChange, Lifecycle!view
  <2>5. QED
    BY <2>3, <2>4
<1>4. CASE EnterPause
  <2>1. Lifecycle!Pause
    BY <1>4 DEF EnterPause, Lifecycle!Pause, ControlInv, PositionInv
  <2>2. QED
    BY <2>1 DEF Lifecycle!Next
<1>5. CASE PausedAttach \/ PausedResume \/ PausedDetach
  <2>1. Lifecycle!Resume
    BY <1>5 DEF PausedAttach, PausedResume, PausedDetach, ReenterLoop, Lifecycle!Resume,
       ControlInv, PositionInv
  <2>2. QED
    BY <2>1 DEF Lifecycle!Next
<1>6. CASE Finish
  <2>1. Lifecycle!End(IF outcome = "error" THEN "Error" ELSE "Idle")
    BY <1>6 DEF Finish, Lifecycle!End, ControlInv, PositionInv
  <2>2. QED
    BY <2>1 DEF Lifecycle!Next
<1>7. CASE UNCHANGED sharedVars
  BY <1>7 DEF Lifecycle!view
<1>8. QED
  BY <1>1, <1>2, <1>3, <1>4, <1>5, <1>6, <1>7 DEF Next, vars, RuntimeThread, Clients,
     IdleCommand, IdleShutdown, CycleOk, CycleHalt, CycleError,
     PollEmpty, TakeStop, PollAttach, PollOther, DrainDone,
     DrainCommand, DrainDisconnect, PausedPollEmpty, PausedCommand, PausedServe,
     Invoke, Send, SendFails, Return, DebugSend, DebugDrop, Lifecycle!view

(* The agent implements the life cycle it shows its clients: the shared    *)
(* status, program and catalog only ever move along RuntimeLifecycle.      *)
THEOREM ImplementsLifecycle == Spec => Lifecycle!Safety
<1>1. Init => Lifecycle!Init
  BY DEF Init, Lifecycle!Init
<1>2. TypeOK /\ ControlInv /\ MetaInv /\ [Next]_vars => [Lifecycle!Next]_(Lifecycle!view)
  BY LifecycleStep
<1>3. QED
  BY <1>1, <1>2, InvariantCorrect, PTL DEF Spec, Lifecycle!Safety

-----------------------------------------------------------------------------
(*                             The DAP proxy                               *)

-----------------------------------------------------------------------------
(* What the proxy can do to the runtime.  Every step of the composed       *)
(* system is a step of the runtime manager, leaves it alone, or is the     *)
(* hang-up of a client: Disconnect is sent and the channel ends dropped.   *)

HangUp(s) ==
  /\ dbgq' = [dbgq EXCEPT ![s] = Append(@, "Disconnect")]
  /\ dbg' = [dbg EXCEPT ![s] = "closed"]
  /\ UNCHANGED <<sharedVars, queue, threadVars, told, call>>

LEMMA RemoteStep ==
  [RemoteNext]_remoteVars => [Next]_vars \/ \E s \in Sessions : HangUp(s)
<1> SUFFICES ASSUME [RemoteNext]_remoteVars
             PROVE  [Next]_vars \/ \E s \in Sessions : HangUp(s)
  OBVIOUS
<1>1. CASE RuntimeThread
  BY <1>1 DEF Next
<1>2. ASSUME NEW c \in Callers, Send(c) \/ SendFails(c) \/ Return(c)
      PROVE  Next
  BY <1>2 DEF Next, Clients
<1>3. ASSUME NEW cmd \in Requests, Invoke(cmd) PROVE Next
  BY <1>3 DEF Next, Clients
<1>4. ASSUME NEW s \in Sessions, Attach(s) PROVE [Next]_vars
  <2>1. CASE Admitted("DebugAttach")
    <3> DEFINE cmd == [op |-> "DebugAttach", arg |-> s, meta |-> None, by |-> s]
    <3>1. cmd \in Requests
      BY RemoteDebugAssumption DEF RemoteDebugAssumption, Requests, Commands, ModuleOps
    <3>2. Invoke(cmd)
      BY <1>4, <2>1 DEF Attach
    <3>3. QED
      BY <3>1, <3>2, <1>3
  <2>2. CASE ~Admitted("DebugAttach")
    BY <1>4, <2>2 DEF Attach
  <2>3. QED
    BY <2>1, <2>2
<1>5. ASSUME NEW s \in Sessions, NEW op \in DebugOps, Relay(s, op) PROVE Next
  BY <1>5 DEF Relay, Next, Clients
<1>6. ASSUME NEW s \in Sessions, Leave(s) PROVE [Next]_vars \/ HangUp(s)
  BY <1>6 DEF Leave, HangUp
<1>7. ASSUME NEW s \in Sessions,
             Accept(s) \/ Route(s) \/ CloneStream(s) \/ OfflineEnds(s) \/ Unlock(s)
      PROVE  UNCHANGED vars
  BY <1>7 DEF Accept, Route, CloneStream, OfflineEnds, Unlock
<1>8. ASSUME NEW s \in Sessions, CloneFails(s) PROVE Next
  BY <1>8 DEF CloneFails, Next, Clients
<1>9. CASE UNCHANGED remoteVars
  BY <1>9 DEF remoteVars
<1>10. QED
  BY <1>1, <1>2, <1>3, <1>4, <1>5, <1>6, <1>7, <1>8, <1>9 DEF RemoteNext, Proxy

-----------------------------------------------------------------------------
(* The invariants of the runtime thread survive the composition.           *)

RuntimeInv == TypeOK /\ ControlInv /\ MetaInv

LEMMA RuntimeInvInit == Init => RuntimeInv
<1>1. Init => MetaInv
  BY DEF Init, MetaInv, Free
<1>2. QED
  BY <1>1, TypeInit, ControlInit DEF RuntimeInv

\* A hang-up touches nothing but the session's two channels.
LEMMA HangUpKeeps ==
  ASSUME RuntimeInv, NEW s \in Sessions, HangUp(s)
  PROVE  RuntimeInv'
<1> USE DEF HangUp, sharedVars, threadVars
<1>1. TypeOK'
  <2>1. dbgq' \in [Sessions -> Seq(DebugOps)]
    BY DEF RuntimeInv, TypeOK, DebugOps
  <2>2. dbg' \in [Sessions -> {"unused", "pending", "open", "closed"}]
    BY DEF RuntimeInv, TypeOK
  <2>3. QED
    BY <2>1, <2>2 DEF RuntimeInv, TypeOK
<1>2. ControlInv'
  BY DEF RuntimeInv, ControlInv, PositionInv, PublishInv, NoOrphanDebugState
<1>3. MetaInv'
  BY DEF RuntimeInv, MetaInv
<1>4. QED
  BY <1>1, <1>2, <1>3 DEF RuntimeInv

LEMMA RuntimeInvNext == RuntimeInv /\ [RemoteNext]_remoteVars => RuntimeInv'
<1>1. RuntimeInv /\ [Next]_vars => RuntimeInv'
  BY TypeNext, ControlNext, MetaNext DEF RuntimeInv
<1>2. QED
  BY <1>1, RemoteStep, HangUpKeeps

LEMMA RuntimeInvHolds == RemoteSpec => []RuntimeInv
<1>1. RemoteInit => RuntimeInv
  BY RuntimeInvInit DEF RemoteInit
<1>2. QED
  BY <1>1, RuntimeInvNext, PTL DEF RemoteSpec

(* Whatever debug clients connect, are refused, attach late or hang up,    *)
(* the agent keeps what the runtime thread alone guarantees: a pause it    *)
(* reports is held by a session that was told, no breakpoint or pause      *)
(* request outlives its session, and the published program is the one the  *)
(* engine executes (dap_proxy.rs together with runtime_manager.rs).        *)
THEOREM RemoteKeepsRuntime ==
  RemoteSpec => [](PausedIsHeld /\ NoOrphanDebugState /\ PublishedMatchesEngine)
<1>1. RuntimeInv => PausedIsHeld
  BY DEF RuntimeInv, ControlInv, PositionInv, PausedIsHeld, TypeOK, PCs
<1>2. RuntimeInv => NoOrphanDebugState
  BY DEF RuntimeInv, ControlInv
<1>3. RuntimeInv => PublishedMatchesEngine
  BY DEF RuntimeInv, MetaInv, ControlInv, PositionInv, PublishInv, PublishedMatchesEngine,
     TypeOK, PCs
<1>4. QED
  BY <1>1, <1>2, <1>3, RuntimeInvHolds, PTL

-----------------------------------------------------------------------------
(* The single-session flag.  Cardinality is awkward to carry through a     *)
(* step; the inductive form says that any two holders are the same.        *)

Holds(s) == conn[s] \notin {"none", "closed"}

FlagInv ==
  /\ active \in BOOLEAN
  /\ conn \in [Sessions -> {"none", "accepted", "attaching", "cloning",
                            "serving", "offline", "left", "lost", "closed"}]
  /\ \A s, t \in Sessions : Holds(s) /\ Holds(t) => s = t
  /\ active <=> \E s \in Sessions : Holds(s)

LEMMA FlagInit == RemoteInit => FlagInv
<1> SUFFICES ASSUME RemoteInit PROVE FlagInv
  OBVIOUS
<1>1. active \in BOOLEAN /\ ~active
  BY Zenon DEF RemoteInit
<1>2. QED
  BY <1>1 DEF RemoteInit, FlagInv, Holds

LEMMA FlagNext == FlagInv /\ [RemoteNext]_remoteVars => FlagInv'
<1> SUFFICES ASSUME FlagInv, [RemoteNext]_remoteVars PROVE FlagInv'
  OBVIOUS
<1> USE DEF FlagInv, Holds
<1>1. CASE UNCHANGED proxyVars
  BY <1>1 DEF proxyVars
<1>2. ASSUME NEW s \in Sessions, Accept(s) PROVE FlagInv'
  <2>1. active' \in BOOLEAN /\ active'
    BY <1>2, Zenon DEF Accept
  <2>2. CASE active
    BY <1>2, <2>1, <2>2 DEF Accept
  <2>3. CASE ~active
    BY <1>2, <2>1, <2>3 DEF Accept
  <2>4. QED
    BY <2>2, <2>3
<1>3. ASSUME NEW s \in Sessions,
             \/ Route(s) \/ Attach(s) \/ CloneStream(s) \/ CloneFails(s)
             \/ Leave(s) \/ OfflineEnds(s)
      PROVE  FlagInv'
  <2>1. PICK k \in {"attaching", "cloning", "serving", "offline", "left", "lost"} :
          /\ conn' = [conn EXCEPT ![s] = k]
          /\ conn[s] \notin {"none", "closed"}
          /\ UNCHANGED active
    BY <1>3 DEF Route, Attach, CloneStream, CloneFails, Leave, OfflineEnds
  <2>2. QED
    BY <2>1
<1>4. ASSUME NEW s \in Sessions, Unlock(s) PROVE FlagInv'
  <2>1. active' \in BOOLEAN /\ ~active'
    BY <1>4, Zenon DEF Unlock
  <2>2. QED
    BY <1>4, <2>1 DEF Unlock
<1>5. QED
  BY <1>1, <1>2, <1>3, <1>4 DEF RemoteNext, Proxy, Relay, remoteVars, proxyVars

\* A set any two elements of which are equal has at most one element.
LEMMA AtMostOne ==
  ASSUME NEW S, \A x, y \in S : x = y
  PROVE  Cardinality(S) <= 1
<1>1. CASE S = {}
  BY <1>1, FS_EmptySet
<1>2. ASSUME NEW x \in S PROVE Cardinality(S) <= 1
  <2>1. S = {x}
    BY <1>2
  <2>2. QED
    BY <2>1, FS_Singleton
<1>3. QED
  BY <1>1, <1>2

(* At most one debug connection holds the agent, however many arrive at    *)
(* once, are refused or close late, and the flag is free exactly when no   *)
(* connection holds it (run_dap_proxy_with_listener's swap and store).     *)
THEOREM OneDebuggerHolds == RemoteSpec => []OneDebugger
<1>1. RuntimeInv /\ FlagInv => OneDebugger
  <2> SUFFICES ASSUME RuntimeInv, FlagInv PROVE OneDebugger
    OBVIOUS
  <2> DEFINE holders == {s \in Sessions : conn[s] \notin {"none", "closed"}}
  <2>1. RemoteTypeOK
    BY DEF RuntimeInv, FlagInv, RemoteTypeOK
  <2>2. \A x, y \in holders : x = y
    BY DEF FlagInv, Holds
  <2>3. Cardinality(holders) <= 1
    BY <2>2, AtMostOne
  <2>4. active <=> holders # {}
    BY DEF FlagInv, Holds
  <2>5. QED
    BY <2>1, <2>3, <2>4 DEF OneDebugger
<1>2. QED
  BY <1>1, RuntimeInvHolds, FlagInit, FlagNext, PTL DEF RemoteSpec

-----------------------------------------------------------------------------
(* Who serves an open channel.  A session's channel is open from the send  *)
(* of its attach command; until the thread closes it, that command is      *)
(* still queued or the session is the thread's.                            *)

Queued(s) == \E i \in DOMAIN queue : queue[i].op = "DebugAttach" /\ queue[i].arg = s

OpenInv == \A s \in Sessions : dbg[s] = "open" => session = s \/ Queued(s)

\* What is left in the queue is what was behind the command taken.
LEMMA QueuedAfterTake ==
  ASSUME TypeOK, Take, NEW s \in Sessions, Queued(s)
  PROVE  Queued(s)' \/ (Head(queue).op = "DebugAttach" /\ Head(queue).arg = s)
<1>1. PICK i \in DOMAIN queue : queue[i].op = "DebugAttach" /\ queue[i].arg = s
  BY DEF Queued
<1>2. queue \in Seq(Commands) /\ queue # <<>> /\ queue' = Tail(queue)
  BY DEF TypeOK, Take
<1>3. CASE i = 1
  BY <1>1, <1>2, <1>3
<1>4. CASE i # 1
  <2>1. i - 1 \in DOMAIN queue' /\ queue'[i - 1] = queue[i]
    BY <1>2, <1>4
  <2>2. QED
    BY <1>1, <2>1 DEF Queued
<1>5. QED
  BY <1>3, <1>4

LEMMA OpenNext == TypeOK /\ OpenInv /\ [Next]_vars => OpenInv'
<1> SUFFICES ASSUME TypeOK, OpenInv, [Next]_vars PROVE OpenInv'
  OBVIOUS
<1> SUFFICES ASSUME NEW s \in Sessions, dbg'[s] = "open"
             PROVE  session' = s \/ Queued(s)'
  BY DEF OpenInv
<1> USE DEF sharedVars, threadVars, channelVars
<1>1. ASSUME Take, Head(queue).op # "DebugAttach", UNCHANGED <<dbg, session>>
      PROVE  session' = s \/ Queued(s)'
  BY <1>1, QueuedAfterTake DEF OpenInv
<1>2. ASSUME UNCHANGED <<queue, dbg, session>>
      PROVE  session' = s \/ Queued(s)'
  BY <1>2 DEF OpenInv, Queued
<1>3. ASSUME NEW S, CloseChannels(S) PROVE s \notin S /\ dbg[s] = "open"
  BY <1>3 DEF CloseChannels, TypeOK
<1>4. CASE IdleCommand
  <2>1. Take /\ UNCHANGED session
    BY <1>4 DEF IdleCommand
  <2>2. dbg[s] = "open" /\ ~(Head(queue).op = "DebugAttach" /\ Head(queue).arg = s)
    BY <1>4, <1>3 DEF IdleCommand
  <2>3. QED
    BY <2>1, <2>2, QueuedAfterTake DEF OpenInv
<1>5. CASE Die
  BY <1>5, <1>3 DEF Die
<1>6. CASE PollAttach \/ PausedAttach
  <2>1. /\ Take
        /\ Head(queue).op = "DebugAttach"
        /\ session' = Head(queue).arg
        /\ CloseChannels({session} \cap Sessions)
    BY <1>6 DEF PollAttach, PausedAttach
  <2>2. dbg[s] = "open" /\ session # s
    BY <2>1, <1>3
  <2>3. QED
    BY <2>1, <2>2, QueuedAfterTake DEF OpenInv
<1>7. CASE CloseChannels({session} \cap Sessions) /\ UNCHANGED queue
  <2>1. dbg[s] = "open" /\ session # s
    BY <1>7, <1>3
  <2>2. QED
    BY <1>7, <2>1 DEF OpenInv, Queued
<1>8. ASSUME NEW c \in Callers, Send(c) PROVE session' = s \/ Queued(s)'
  <2> DEFINE cmd == call[c].cmd
  <2>1. /\ queue \in Seq(Commands) /\ cmd \in Commands
        /\ queue' = Append(queue, cmd)
        /\ UNCHANGED session
    BY <1>8, CallShape DEF Send, TypeOK
  <2>2. CASE cmd.op = "DebugAttach" /\ cmd.arg = s
    <3>1. Len(queue) + 1 \in DOMAIN queue' /\ queue'[Len(queue) + 1] = cmd
      BY <2>1
    <3>2. QED
      BY <2>2, <3>1 DEF Queued
  <2>3. CASE ~(cmd.op = "DebugAttach" /\ cmd.arg = s)
    <3>1. dbg[s] = "open"
      BY <1>8, <2>3, CommandShape, <2>1 DEF Send, MarkSession, TypeOK
    <3>2. CASE session = s
      BY <3>2, <2>1
    <3>3. CASE Queued(s)
      <4>1. PICK i \in DOMAIN queue : queue[i].op = "DebugAttach" /\ queue[i].arg = s
        BY <3>3 DEF Queued
      <4>2. i \in DOMAIN queue' /\ queue'[i] = queue[i]
        BY <2>1
      <4>3. QED
        BY <4>1, <4>2 DEF Queued
    <3>4. QED
      BY <3>1, <3>2, <3>3 DEF OpenInv
  <2>4. QED
    BY <2>2, <2>3
<1>9. ASSUME NEW cmd \in Requests, Invoke(cmd) PROVE session' = s \/ Queued(s)'
  <2>1. cmd \in Commands
    BY DEF Requests
  <2>2. dbg[s] = "open" /\ UNCHANGED <<queue, session>>
    BY <1>9, <2>1, CommandShape DEF Invoke, MarkSession, TypeOK
  <2>3. QED
    BY <2>2 DEF OpenInv, Queued
<1>10. ASSUME NEW c \in Callers, SendFails(c) PROVE session' = s \/ Queued(s)'
  <2>1. call[c].cmd \in Commands
    BY <1>10, CallShape DEF SendFails, TypeOK
  <2>2. dbg[s] = "open" /\ UNCHANGED <<queue, session>>
    BY <1>10, <2>1, CommandShape DEF SendFails, MarkSession, TypeOK
  <2>3. QED
    BY <2>2 DEF OpenInv, Queued
<1>11. ASSUME NEW t \in Sessions, DebugDrop(t) PROVE session' = s \/ Queued(s)'
  <2>1. dbg[s] = "open" /\ UNCHANGED <<queue, session>>
    BY <1>11 DEF DebugDrop, TypeOK
  <2>2. QED
    BY <2>1 DEF OpenInv, Queued
<1>12. CASE RuntimeThread
  <2>1. CASE IdleStart \/ TakeStop \/ PollOnlineChange \/ PollOther \/ PausedCommand
    <3>1. Take /\ Head(queue).op # "DebugAttach" /\ UNCHANGED <<dbg, session>>
      BY <2>1 DEF IdleStart, TakeStop, PollOnlineChange, PollOther, PausedCommand, ForceOps
    <3>2. QED
      BY <3>1, <1>1
  <2>2. CASE BuildEngine \/ CycleOk \/ CycleHalt \/ CycleError \/ PollEmpty \/ DrainDone
             \/ DrainCommand \/ EnterPause \/ PausedPollEmpty \/ PausedResume \/ PausedServe
    <3>1. UNCHANGED <<queue, dbg, session>>
      BY <2>2 DEF BuildEngine, CycleOk, CycleHalt, CycleError, PollEmpty, DrainDone,
         DrainCommand, EnterPause, PausedPollEmpty, PausedResume, PausedServe, DebugRead
    <3>2. QED
      BY <3>1, <1>2
  <2>3. CASE DrainDisconnect \/ PausedDetach \/ IdleShutdown \/ Finish
    <3>1. Die \/ (CloseChannels({session} \cap Sessions) /\ UNCHANGED queue)
      BY <2>3 DEF DrainDisconnect, PausedDetach, EndSession, IdleShutdown, Finish
    <3>2. QED
      BY <3>1, <1>5, <1>7
  <2>4. QED
    BY <1>12, <2>1, <2>2, <2>3, <1>4, <1>6 DEF RuntimeThread
<1>13. CASE UNCHANGED vars
  BY <1>13, <1>2 DEF vars
<1>14. ASSUME NEW c \in Callers, Return(c) PROVE session' = s \/ Queued(s)'
  BY <1>14, <1>2 DEF Return
<1>15. ASSUME NEW t \in Sessions, NEW op \in DebugOps, DebugSend(t, op)
       PROVE  session' = s \/ Queued(s)'
  BY <1>15, <1>2 DEF DebugSend
<1>16. QED
  BY <1>8, <1>9, <1>10, <1>11, <1>12, <1>13, <1>14, <1>15 DEF Next, Clients

(* A debugger whose attach command was read is served by the runtime       *)
(* thread until the thread closes its channel: neither a Disconnect left   *)
(* by the connection before it nor a command queued in between can take    *)
(* the session away unnoticed (run_cycle_loop, DebugAttach).               *)
THEOREM ClientIsServedHolds == RemoteSpec => []ClientIsServed
<1>1. RemoteInit => OpenInv
  BY DEF RemoteInit, Init, OpenInv
<1>2. RuntimeInv /\ OpenInv /\ [RemoteNext]_remoteVars => OpenInv'
  <2> SUFFICES ASSUME RuntimeInv, OpenInv, [RemoteNext]_remoteVars PROVE OpenInv'
    OBVIOUS
  <2>1. ASSUME NEW s \in Sessions, HangUp(s) PROVE OpenInv'
    BY <2>1 DEF HangUp, OpenInv, Queued, RuntimeInv, TypeOK, threadVars
  <2>2. QED
    BY <2>1, RemoteStep, OpenNext DEF RuntimeInv
<1>3. OpenInv => ClientIsServed
  BY DEF OpenInv, Queued, ClientIsServed
<1>4. QED
  BY <1>1, <1>2, <1>3, RuntimeInvHolds, PTL DEF RemoteSpec

-----------------------------------------------------------------------------
(*                         The program endpoints                           *)

-----------------------------------------------------------------------------
(* Tasks and the store *)

Operations == {"none", "start", "restart", "remove", "update"}
Steps == {"idle", "load", "meta", "stopping", "removing", "swap", "reply", "fallback"}
Tasks == [op : Operations, at : Steps, mod : Modules \cup {None}]

ApiType ==
  /\ store \in Modules \cup {None}
  /\ task \in [Clerks -> Tasks]
  /\ \A c \in Clerks : task[c].at \in {"meta", "swap", "reply"} => task[c].mod \in Modules

\* One task moves, the others stay.
TaskTo(c, op, at, mod) ==
  /\ task' \in [Clerks -> Tasks]
  /\ task'[c].op = op /\ task'[c].at = at /\ task'[c].mod = mod
  /\ \A d \in Clerks : d # c => task'[d] = task[d]

LEMMA BeginMoves ==
  ASSUME ApiType, NEW c \in Clerks, NEW op \in Operations, NEW at \in Steps,
         NEW mod \in Modules \cup {None}, Begin(c, op, at, mod)
  PROVE  TaskTo(c, op, at, mod)
<1>1. Task(op, at, mod) \in Tasks
  BY DEF Task, Tasks
<1>2. task' = [task EXCEPT ![c] = Task(op, at, mod)] /\ task \in [Clerks -> Tasks]
  BY DEF Begin, ApiType
<1>3. QED
  BY <1>1, <1>2 DEF TaskTo, Task

LEMMA EndMoves ==
  ASSUME ApiType, NEW c \in Clerks, End(c)
  PROVE  TaskTo(c, "none", "idle", None)
  BY BeginMoves DEF End, Operations, Steps

LEMMA GoMoves ==
  ASSUME ApiType, NEW c \in Clerks, NEW at \in Steps, Go(c, at)
  PROVE  TaskTo(c, task[c].op, at, task[c].mod)
<1>1. task \in [Clerks -> Tasks] /\ task[c] \in Tasks
  BY DEF ApiType
<1>2. [task[c] EXCEPT !.at = at] \in Tasks
      /\ [task[c] EXCEPT !.at = at].op = task[c].op
      /\ [task[c] EXCEPT !.at = at].at = at
      /\ [task[c] EXCEPT !.at = at].mod = task[c].mod
  BY <1>1 DEF Tasks
<1>3. task' = [task EXCEPT ![c] = [task[c] EXCEPT !.at = at]]
  BY DEF Go
<1>4. QED
  BY <1>1, <1>2, <1>3 DEF TaskTo

LEMMA KeepMoves ==
  ASSUME ApiType, NEW c \in Clerks, NEW at \in Steps, NEW mod \in Modules, Keep(c, at, mod)
  PROVE  TaskTo(c, task[c].op, at, mod)
<1>1. task \in [Clerks -> Tasks] /\ task[c] \in Tasks
  BY DEF ApiType
<1> DEFINE t == [task[c] EXCEPT !.at = at, !.mod = mod]
<1>2. t \in Tasks /\ t.op = task[c].op /\ t.at = at /\ t.mod = mod
  BY <1>1 DEF Tasks
<1>3. task' = [task EXCEPT ![c] = t]
  BY DEF Keep
<1>4. QED
  BY <1>1, <1>2, <1>3 DEF TaskTo

(* What a request does in one step: to its task, the store and the runtime.*)
StartCmd(c, m, meta) == [op |-> "Start", arg |-> m, meta |-> meta, by |-> c]
ChangeCmd(c, m, meta) == [op |-> "OnlineChange", arg |-> m, meta |-> meta, by |-> c]

ClerkMove(c) ==
  \* Upload
  \/ At(c, "idle") /\ store' \in Modules /\ UNCHANGED <<vars, task>>
  \* a request begins, or ends without a call
  \/ /\ At(c, "idle") /\ UNCHANGED <<vars, store>>
     /\ \E op \in Operations \ {"update"}, at \in {"load", "removing"} : TaskTo(c, op, at, None)
  \/ At(c, "load") /\ store \in Modules /\ TaskTo(c, task[c].op, "meta", store) /\ UNCHANGED <<vars, store>>
  \/ ~At(c, "reply") /\ call[c] = Free /\ TaskTo(c, "none", "idle", None) /\ UNCHANGED vars
       /\ store' \in {store, None} /\ (store' # store => At(c, "removing"))
  \* start
  \/ /\ At(c, "meta") /\ store \in Modules /\ Invoke(StartCmd(c, task[c].mod, store))
     /\ TaskTo(c, "none", "idle", None) /\ UNCHANGED store
  \* stop, alone or for a restart, a removal or an update
  \/ /\ At(c, "idle") /\ Invoke(Plain("Stop", c)) /\ UNCHANGED store
     /\ \E op \in Operations \ {"update"}, at \in {"idle", "stopping"} : TaskTo(c, op, at, None)
  \/ /\ At(c, "fallback") /\ TaskTo(c, task[c].op, "stopping", task[c].mod) /\ UNCHANGED store
     /\ Invoke(Plain("Stop", c)) \/ UNCHANGED vars
  \/ /\ At(c, "stopping") /\ UNCHANGED <<vars, store>>
     /\ \E at \in {"idle", "load", "removing"} :
          TaskTo(c, task[c].op, at, task[c].mod) /\ (at = "idle" => task[c].op = "update")
  \* update
  \/ \E m \in Modules : At(c, "idle") /\ store' = m /\ TaskTo(c, "update", "swap", m) /\ UNCHANGED vars
  \/ \E m \in Modules : At(c, "idle") /\ store' = m /\ TaskTo(c, "none", "idle", None) /\ UNCHANGED vars
  \/ /\ At(c, "swap") /\ store \in Modules /\ Invoke(ChangeCmd(c, store, task[c].mod))
     /\ TaskTo(c, task[c].op, "reply", task[c].mod) /\ UNCHANGED store
  \/ /\ task[c].at = "reply" /\ Return(c) /\ UNCHANGED store
     /\ IF call[c].result = "incompatible" THEN TaskTo(c, task[c].op, "fallback", task[c].mod)
        ELSE TaskTo(c, "none", "idle", None)

LEMMA ClerkMoves ==
  ASSUME ApiType, NEW c \in Clerks, Request(c) \/ Serve(c)
  PROVE  ClerkMove(c)
<1> USE DEF ClerkMove, Operations, Steps
<1>0. store \in Modules \cup {None}
  BY DEF ApiType
<1>1. CASE Start(c)
  <2>1. TaskTo(c, "start", "load", None)
    BY <1>1, BeginMoves DEF Start
  <2>2. QED
    BY <1>1, <2>1 DEF Start
<1>2. CASE Stop(c)
  <2>1. TaskTo(c, "none", "idle", None)
    BY <1>2, EndMoves DEF Stop
  <2>2. QED
    BY <1>2, <2>1 DEF Stop
<1>3. ASSUME NEW op \in {"restart", "remove"}, NEW next \in {"load", "removing"}, StopIfRunning(c, op, next)
      PROVE  ClerkMove(c)
  <2>1. CASE status = "Running"
    <3>1. TaskTo(c, op, "stopping", None)
      BY <1>3, <2>1, BeginMoves DEF StopIfRunning
    <3>2. QED
      BY <1>3, <2>1, <3>1 DEF StopIfRunning
  <2>2. CASE status # "Running"
    <3>1. TaskTo(c, op, next, None)
      BY <1>3, <2>2, BeginMoves DEF StopIfRunning
    <3>2. QED
      BY <1>3, <2>2, <3>1 DEF StopIfRunning
  <2>3. QED
    BY <2>1, <2>2
<1>4. CASE Restart(c) \/ Remove(c)
  BY <1>3, <1>4 DEF Restart, Remove
<1>5. ASSUME NEW m \in Modules, Upload(c, m) PROVE ClerkMove(c)
  BY <1>5 DEF Upload
<1>6. ASSUME NEW m \in Modules, Update(c, m) PROVE ClerkMove(c)
  <2>1. CASE status \in {"Running", "DebugPaused"}
    <3>1. TaskTo(c, "update", "swap", m)
      BY <1>6, <2>1, BeginMoves DEF Update
    <3>2. QED
      BY <1>6, <2>1, <3>1 DEF Update
  <2>2. CASE status \notin {"Running", "DebugPaused"}
    <3>1. TaskTo(c, "none", "idle", None)
      BY <1>6, <2>2, EndMoves DEF Update
    <3>2. QED
      BY <1>6, <2>2, <3>1 DEF Update
  <2>3. QED
    BY <2>1, <2>2
<1>7. CASE Load(c)
  <2>1. CASE store = None
    <3>1. TaskTo(c, "none", "idle", None)
      BY <1>7, <2>1, EndMoves DEF Load
    <3>2. QED
      BY <1>7, <3>1 DEF Load, At
  <2>2. CASE store # None
    <3>1. TaskTo(c, task[c].op, "meta", store) /\ store \in Modules
      BY <1>0, <1>7, <2>2, KeepMoves DEF Load
    <3>2. QED
      BY <1>7, <3>1 DEF Load
  <2>3. QED
    BY <2>1, <2>2
<1>8. CASE StartCall(c)
  <2>1. TaskTo(c, "none", "idle", None)
    BY <1>8, EndMoves DEF StartCall
  <2>2. CASE store # None /\ Admitted("Start")
    BY <1>0, <1>8, <2>1, <2>2 DEF StartCall, StartCmd
  <2>3. CASE ~(store # None /\ Admitted("Start"))
    BY <1>8, <2>1, <2>3 DEF StartCall, At
  <2>4. QED
    BY <2>2, <2>3
<1>9. CASE StopSeen(c)
  <2>1. AfterStop(c) \in {"load", "removing"}
    BY DEF AfterStop
  <2>2. TaskTo(c, task[c].op, AfterStop(c), task[c].mod)
    BY <1>9, <2>1, GoMoves DEF StopSeen
  <2>3. QED
    BY <1>9, <2>1, <2>2 DEF StopSeen
<1>10. CASE StopTimeout(c)
  <2> DEFINE at == IF task[c].op = "update" THEN "idle" ELSE AfterStop(c)
  <2>1. at \in {"idle", "load", "removing"} /\ (at = "idle" => task[c].op = "update")
    BY DEF AfterStop
  <2>2. Go(c, at) /\ At(c, "stopping") /\ UNCHANGED <<vars, store>>
    BY <1>10 DEF StopTimeout
  <2> HIDE DEF at
  <2>3. TaskTo(c, task[c].op, at, task[c].mod)
    BY <2>1, <2>2, GoMoves
  <2>4. QED
    BY <2>1, <2>2, <2>3
<1>11. CASE RemoveCurrent(c)
  <2>1. TaskTo(c, "none", "idle", None)
    BY <1>11, EndMoves DEF RemoveCurrent
  <2>2. QED
    BY <1>11, <2>1 DEF RemoveCurrent, At
<1>12. CASE UpdateSwap(c)
  <2>1. CASE store # None /\ Admitted("OnlineChange")
    <3>1. TaskTo(c, task[c].op, "reply", task[c].mod)
      BY <1>12, <2>1, GoMoves DEF UpdateSwap
    <3>2. QED
      BY <1>0, <1>12, <2>1, <3>1 DEF UpdateSwap, ChangeCmd
  <2>2. CASE ~(store # None /\ Admitted("OnlineChange"))
    <3>1. TaskTo(c, "none", "idle", None)
      BY <1>12, <2>2, EndMoves DEF UpdateSwap
    <3>2. QED
      BY <1>12, <2>2, <3>1 DEF UpdateSwap, At
  <2>3. QED
    BY <2>1, <2>2
<1>13. CASE UpdateReply(c)
  <2>1. CASE call[c].result = "incompatible"
    <3>1. TaskTo(c, task[c].op, "fallback", task[c].mod)
      BY <1>13, <2>1, GoMoves DEF UpdateReply
    <3>2. QED
      BY <1>13, <2>1, <3>1 DEF UpdateReply
  <2>2. CASE call[c].result # "incompatible"
    <3>1. TaskTo(c, "none", "idle", None)
      BY <1>13, <2>2, EndMoves DEF UpdateReply
    <3>2. QED
      BY <1>13, <2>2, <3>1 DEF UpdateReply
  <2>3. QED
    BY <2>1, <2>2
<1>14. CASE UpdateStop(c)
  <2>1. TaskTo(c, task[c].op, "stopping", task[c].mod)
    BY <1>14, GoMoves DEF UpdateStop
  <2>2. QED
    BY <1>14, <2>1 DEF UpdateStop
<1>15. QED
  BY <1>1, <1>2, <1>4, <1>5, <1>6, <1>7, <1>8, <1>9, <1>10, <1>11, <1>12, <1>13, <1>14 DEF Request, Serve

LEMMA ApiTypeInit == ProgramInit => ApiType
<1> SUFFICES ASSUME ProgramInit PROVE ApiType
  OBVIOUS
<1>1. Task("none", "idle", None) \in Tasks /\ Task("none", "idle", None).at = "idle"
  BY DEF Task, Tasks, Operations, Steps
<1>2. QED
  BY <1>1 DEF ProgramInit, ApiType

LEMMA ApiTypeMove ==
  ASSUME ApiType, NEW c \in Clerks, ClerkMove(c)
  PROVE  ApiType'
<1> USE DEF ApiType, TaskTo
<1>1. task[c] \in Tasks
  OBVIOUS
<1>2. store' \in Modules \cup {None}
  BY DEF ClerkMove
<1>3. task' \in [Clerks -> Tasks]
  BY DEF ClerkMove
<1>4. \A d \in Clerks : d # c => task'[d] = task[d]
  BY DEF ClerkMove
<1>5. task'[c].at \in {"meta", "swap", "reply"} => task'[c].mod \in Modules
  BY <1>1 DEF ClerkMove, At
<1>6. QED
  BY <1>2, <1>3, <1>4, <1>5

\* A step is one of a deployer's request, or the runtime's or a debugger's.
LEMMA ProgramStep ==
  ASSUME ApiType, [ProgramNext]_programVars
  PROVE  (\E c \in Clerks : ClerkMove(c)) \/ ([Next]_vars /\ UNCHANGED apiVars)
<1>1. CASE \E c \in Clerks : Request(c) \/ Serve(c)
  BY <1>1, ClerkMoves
<1>2. CASE RuntimeThread /\ UNCHANGED apiVars
  BY <1>2 DEF Next
<1>3. ASSUME NEW c \in Callers, Deliver(c), UNCHANGED apiVars
      PROVE  Next /\ UNCHANGED apiVars
  BY <1>3 DEF Next, Clients, Deliver
<1>4. ASSUME NEW s \in Sessions, DebugClient(s), UNCHANGED apiVars
      PROVE  Next /\ UNCHANGED apiVars
  <2> DEFINE cmd == [op |-> "DebugAttach", arg |-> s, meta |-> None, by |-> s]
  <2>1. cmd \in Requests
    BY ProgramApiAssumption DEF ProgramApiAssumption, Requests, Commands, ModuleOps
  <2>2. QED
    BY <1>4, <2>1 DEF DebugClient, Next, Clients
<1>5. CASE UNCHANGED programVars
  BY <1>5 DEF programVars
<1>6. QED
  BY <1>1, <1>2, <1>3, <1>4, <1>5 DEF ProgramNext

LEMMA ApiTypeNext == ApiType /\ [ProgramNext]_programVars => ApiType'
<1> SUFFICES ASSUME ApiType, [ProgramNext]_programVars PROVE ApiType'
  OBVIOUS
<1>1. CASE UNCHANGED apiVars
  BY <1>1 DEF apiVars, ApiType
<1>2. QED
  BY <1>1, ProgramStep, ApiTypeMove

-----------------------------------------------------------------------------
(* Any number of deployers.  A request calls the runtime with the module   *)
(* it loaded and the metadata it read later; the two may be of different   *)
(* programs, so the metadata reported is the only thing that can go wrong. *)

LEMMA ClerkCommands ==
  ASSUME NEW c \in Clerks
  PROVE  /\ Plain("Stop", c) \in Requests
         /\ \A m, n \in Modules : StartCmd(c, m, n) \in Commands /\ ChangeCmd(c, m, n) \in Commands
  BY DEF Plain, StartCmd, ChangeCmd, Requests, Commands, ModuleOps, PlainOps, Clerks

\* A deployer's step on the runtime: a call, or the return of one.
LEMMA ClerkRuntime ==
  ASSUME ApiType, NEW c \in Clerks, ClerkMove(c)
  PROVE  UNCHANGED vars \/ Return(c) \/ \E cmd \in Commands : Invoke(cmd)
<1>1. At(c, "meta") \/ At(c, "swap") => task[c].mod \in Modules
  BY DEF ApiType, At
<1>2. Plain("Stop", c) \in Commands
  BY ClerkCommands DEF Requests
<1>3. QED
  BY <1>1, <1>2, ClerkCommands DEF ClerkMove

LEMMA InvokeKeeps ==
  ASSUME TypeOK, ControlInv, NEW cmd \in Commands, Invoke(cmd)
  PROVE  TypeOK' /\ ControlInv'
<1> USE DEF sharedVars, threadVars
<1>1. TypeOK'
  BY CommandShape, CallShape DEF Invoke, MarkSession, TypeOK
<1>2. ControlInv'
  BY DEF Invoke, ControlInv, PositionInv, PublishInv, NoOrphanDebugState
<1>3. QED
  BY <1>1, <1>2

LEMMA DeployedStep ==
  ASSUME ApiType, [ProgramNext]_programVars
  PROVE  [Next]_vars \/ \E cmd \in Commands : Invoke(cmd)
<1>1. ASSUME NEW c \in Clerks, Return(c) PROVE Next
  BY <1>1 DEF Next, Clients, Clerks
<1>2. QED
  BY <1>1, ProgramStep, ClerkRuntime

DeployedInv == ApiType /\ TypeOK /\ ControlInv

LEMMA DeployedInvHolds == ProgramSpec => []DeployedInv
<1>1. ProgramInit => DeployedInv
  BY ApiTypeInit, TypeInit, ControlInit DEF ProgramInit, DeployedInv
<1>2. DeployedInv /\ [ProgramNext]_programVars => DeployedInv'
  BY ApiTypeNext, DeployedStep, InvokeKeeps, TypeNext, ControlNext DEF DeployedInv
<1>3. QED
  BY <1>1, <1>2, PTL DEF ProgramSpec

(* Whatever any number of clients upload, start, stop, update or remove at *)
(* the same time: a pause that is reported is held by a debugger that was  *)
(* told, no debug state outlives its session, and the published variables  *)
(* are those of the engine (api/program.rs over runtime_manager.rs).       *)
THEOREM DeployersKeepRuntime ==
  ProgramSpec => [](/\ PausedIsHeld
                    /\ NoOrphanDebugState
                    /\ status \in {"Running", "DebugPaused"} => catalog = emod)
<1>1. DeployedInv => PausedIsHeld
  BY DEF DeployedInv, ControlInv, PositionInv, PausedIsHeld, TypeOK, PCs
<1>2. DeployedInv => NoOrphanDebugState
  BY DEF DeployedInv, ControlInv
<1>3. DeployedInv => (status \in {"Running", "DebugPaused"} => catalog = emod)
  BY DEF DeployedInv, ControlInv, PositionInv, PublishInv, TypeOK, PCs
<1>4. QED
  BY <1>1, <1>2, <1>3, DeployedInvHolds, PTL

(* However many updates race, the module of a live engine is replaced only *)
(* between cycles and never under a debugger.                              *)
THEOREM DeployersSwapBetweenCycles == ProgramSpec => SwapBetweenCycles
<1>1. DeployedInv /\ [ProgramNext]_programVars
        => [emod # None /\ emod' # None /\ emod' # emod => ~frames /\ status = "Running"]_vars
  <2> SUFFICES ASSUME DeployedInv, [ProgramNext]_programVars,
                      emod # None, emod' # None, emod' # emod
               PROVE  ~frames /\ status = "Running"
    OBVIOUS
  <2>1. Next
    BY DeployedStep DEF DeployedInv, Invoke, threadVars, vars
  <2>2. QED
    BY <2>1, SwapStep DEF DeployedInv
<1>2. QED
  BY <1>1, DeployedInvHolds, PTL DEF ProgramSpec, SwapBetweenCycles

-----------------------------------------------------------------------------
(* One deployer.  Between loading the module and reading the metadata the  *)
(* store is its own, so both are of one program, and every call it makes   *)
(* is one RuntimeManager allows.                                           *)

FreshInv == \A c \in Clerks : task[c].at \in {"meta", "swap"} => task[c].mod = store

LEMMA FreshNext ==
  ASSUME OneClerk, ApiType, FreshInv, [ProgramNext]_programVars
  PROVE  FreshInv'
<1>1. CASE UNCHANGED apiVars
  BY <1>1 DEF apiVars, FreshInv
<1>2. ASSUME NEW c \in Clerks, ClerkMove(c) PROVE FreshInv'
  <2>1. \A d \in Clerks : d = c
    BY DEF OneClerk
  <2>2. task'[c].at \in {"meta", "swap"} => task'[c].mod = store'
    BY <1>2 DEF ClerkMove, TaskTo, FreshInv, At
  <2>3. QED
    BY <2>1, <2>2 DEF FreshInv
<1>3. QED
  BY <1>1, <1>2, ProgramStep

LEMMA DeployerStep ==
  ASSUME ApiType, FreshInv, [ProgramNext]_programVars
  PROVE  [Next]_vars
<1>1. ASSUME NEW c \in Clerks, ClerkMove(c) PROVE [Next]_vars
  <2>1. At(c, "meta") \/ At(c, "swap") => task[c].mod = store
    BY DEF FreshInv, At
  <2>2. ASSUME NEW m \in Modules PROVE StartCmd(c, m, m) \in Requests /\ ChangeCmd(c, m, m) \in Requests
    BY ClerkCommands DEF Requests, StartCmd, ChangeCmd
  <2>3. UNCHANGED vars \/ Return(c) \/ \E cmd \in Requests : Invoke(cmd)
    BY <1>1, <2>1, <2>2, ClerkCommands DEF ClerkMove
  <2>4. QED
    BY <2>3 DEF Next, Clients, Clerks
<1>2. QED
  BY <1>1, ProgramStep

(* The endpoints use the runtime as RuntimeManager supposes of its callers:*)
(* with one deployer every behaviour of the composed system is one of the  *)
(* runtime manager, start and online change always pass a module with its  *)
(* own metadata, although they load the two in separate steps.             *)
THEOREM DeployerRefinesRuntime == ASSUME OneClerk PROVE ProgramSpec => Spec
<1>1. ProgramInit => Init /\ ApiType /\ FreshInv
  <2>1. Task("none", "idle", None).at = "idle"
    BY DEF Task
  <2>2. QED
    BY <2>1, ApiTypeInit DEF ProgramInit, FreshInv
<1>2. (ApiType /\ FreshInv) /\ [ProgramNext]_programVars => (ApiType /\ FreshInv)'
  BY ApiTypeNext, FreshNext
<1>3. (ApiType /\ FreshInv) /\ [ProgramNext]_programVars => [Next]_vars
  BY DeployerStep
<1>4. QED
  BY <1>1, <1>2, <1>3, PTL DEF ProgramSpec, Spec

(* With one deployer the reported program, the published variables and the *)
(* engine agree through uploads, starts, updates, fallbacks and removals.  *)
THEOREM DeployerPublishesEngine == ASSUME OneClerk PROVE ProgramSpec => []PublishedMatchesEngine
  BY DeployerRefinesRuntime, PublishedMatchesEngineHolds, PTL

(* Seen by its clients the agent with its endpoints follows the life cycle.*)
THEOREM DeployerFollowsLifecycle == ASSUME OneClerk PROVE ProgramSpec => Lifecycle!Safety
  BY DeployerRefinesRuntime, ImplementsLifecycle, PTL

-----------------------------------------------------------------------------
(* An update stops the engine only when it must.  Between the refusal of   *)
(* the online change and the Stop of the fallback the engine runs on and   *)
(* takes other commands; the argument is that none of them can start or    *)
(* change a module: the only client that sends those waits for the reply.  *)

NoModuleOps == \A j \in DOMAIN queue : queue[j].op \notin ModuleOps
FellBack(c) == task[c].op = "update" /\ task[c].at \in {"fallback", "stopping", "idle"}
Replied(c) == task[c].at = "reply" /\ call[c].at = "done"
Differs(c) == emod = None \/ <<emod, task[c].mod>> \notin Compatible

\* a call that waits for room in the channel
PendingInv ==
  \A d \in Callers : call[d].at = "send" =>
    /\ call[d].cmd.by = d
    /\ call[d].cmd.op \notin ForceOps
    /\ call[d].cmd.op = "Start" => d \in Clerks /\ task[d].op = "none" /\ task[d].at = "idle"
    /\ call[d].cmd.op = "OnlineChange" =>
         d \in Clerks /\ task[d].at = "reply" /\ call[d].cmd.arg = task[d].mod

\* a command in the channel: nothing follows an online change that could
\* start or change a module before its reply
QueuedInv ==
  \A j \in DOMAIN queue :
    /\ queue[j].op \notin ForceOps
    /\ queue[j].op = "OnlineChange" =>
         /\ queue[j].by \in Clerks
         /\ call[queue[j].by].at = "wait" /\ task[queue[j].by].at = "reply"
         /\ queue[j].arg = task[queue[j].by].mod
         /\ \A k \in DOMAIN queue : k > j => queue[k].op \notin ModuleOps

WaitingInv == \A d \in Callers : call[d].at \in {"wait", "done"} => d \in Clerks /\ task[d].at = "reply"

SettledInv == \A c \in Clerks : Replied(c) \/ FellBack(c) => NoModuleOps

RefusedInv ==
  \A c \in Clerks : (Replied(c) /\ call[c].result = "incompatible") \/ FellBack(c) => Differs(c)

ChangeInv == PendingInv /\ QueuedInv /\ WaitingInv /\ SettledInv /\ RefusedInv

LEMMA ChangeInit == ProgramInit => ChangeInv
<1> SUFFICES ASSUME ProgramInit PROVE ChangeInv
  OBVIOUS
<1>1. Task("none", "idle", None).op = "none" /\ Task("none", "idle", None).at = "idle"
  BY DEF Task
<1>2. Free.at = "free"
  BY DEF Free
<1>3. queue = <<>> /\ (\A d \in Callers : call[d].at = "free")
      /\ (\A c \in Clerks : task[c].op = "none" /\ task[c].at = "idle")
  BY <1>1, <1>2 DEF ProgramInit, Init
<1>4. QED
  BY <1>3 DEF ChangeInv, PendingInv, QueuedInv, WaitingInv, SettledInv, RefusedInv, Replied,
     FellBack, NoModuleOps

-----------------------------------------------------------------------------
(* What the runtime thread, the channel and the debuggers do to the queue, *)
(* the calls and the module of the engine.                                 *)

\* the thread takes the first command, whose reply goes to its caller
Taken ==
  /\ queue # <<>> /\ queue' = Tail(queue)
  /\ \/ Head(queue).op # "OnlineChange" /\ UNCHANGED <<call, emod>>
     \/ Head(queue).op = "Start" /\ UNCHANGED call
     \/ /\ Head(queue).op = "OnlineChange"
        /\ \E r \in Results :
             /\ call' = [call EXCEPT ![Head(queue).by] = Done(r)]
             /\ r = "incompatible" => UNCHANGED emod /\ <<emod, Head(queue).arg>> \notin Compatible

\* the thread is gone: what was queued is dropped
Dropped ==
  /\ queue' = <<>>
  /\ call' = [c \in Callers |-> IF call[c].at = "wait" THEN Done("dropped") ELSE call[c]]
  /\ emod' \in {emod, None}

Quiet == UNCHANGED <<queue, call>> /\ emod' \in {emod, None}

AttachCmd(s) == [op |-> "DebugAttach", arg |-> s, meta |-> None, by |-> s]

\* a debugger asks to attach
Attaching(s) ==
  /\ call[s] = Free
  /\ call' = [call EXCEPT ![s] = [at |-> "send", cmd |-> AttachCmd(s)]]
  /\ UNCHANGED <<queue, emod>>

LEMMA ReplyTaken ==
  ASSUME TypeOK, QueuedInv, queue # <<>>, queue' = Tail(queue), UNCHANGED emod,
         NEW r \in Results, r # "incompatible", Reply(Head(queue), r)
  PROVE  Taken
<1>1. Head(queue) = queue[1] /\ 1 \in DOMAIN queue
  BY DEF TypeOK
<1>2. Head(queue).op \notin ForceOps
  BY <1>1 DEF QueuedInv
<1>3. CASE Head(queue).op = "OnlineChange"
  BY <1>3 DEF Reply, Replying, Taken
<1>4. CASE Head(queue).op # "OnlineChange"
  BY <1>2, <1>4 DEF Reply, Replying, ForceOps, Taken
<1>5. QED
  BY <1>3, <1>4

LEMMA ThreadMoves ==
  ASSUME TypeOK, QueuedInv, RuntimeThread
  PROVE  Taken \/ Dropped \/ Quiet
<1> USE DEF threadVars, sharedVars, channelVars
<1>1. CASE IdleCommand \/ PollOther
  BY <1>1, ReplyTaken DEF IdleCommand, PollOther, Take, Results
<1>2. CASE PausedCommand
  <2> DEFINE r == IF Head(queue).op = "OnlineChange" THEN "err" ELSE "ok"
  <2>1. r \in Results /\ r # "incompatible"
    BY DEF Results
  <2>2. Reply(Head(queue), r) /\ queue # <<>> /\ queue' = Tail(queue) /\ UNCHANGED emod
    BY <1>2 DEF PausedCommand, Take
  <2> HIDE DEF r
  <2>3. QED
    BY <2>1, <2>2, ReplyTaken
<1>3. CASE PollOnlineChange
  <2>1. queue # <<>> /\ queue' = Tail(queue) /\ Head(queue).op = "OnlineChange"
    BY <1>3 DEF PollOnlineChange, Take
  <2>2. CASE <<emod, Head(queue).arg>> \in Compatible
    <3>1. Reply(Head(queue), "ok")
      BY <1>3, <2>2 DEF PollOnlineChange
    <3>2. QED
      BY <2>1, <3>1 DEF Reply, Replying, Results, Taken
  <2>3. CASE <<emod, Head(queue).arg>> \notin Compatible
    <3>1. Reply(Head(queue), "incompatible") /\ UNCHANGED emod
      BY <1>3, <2>3 DEF PollOnlineChange
    <3>2. QED
      BY <2>1, <2>3, <3>1 DEF Reply, Replying, Results, Taken
  <2>4. QED
    BY <2>2, <2>3
<1>4. CASE TakeStop \/ PollAttach \/ PausedAttach
  BY <1>4 DEF TakeStop, PollAttach, PausedAttach, Take, Taken
<1>5. CASE IdleStart
  BY <1>5 DEF IdleStart, Take, Taken
<1>6. CASE IdleShutdown
  BY <1>6 DEF IdleShutdown, Die, Dropped
<1>7. CASE Finish
  BY <1>7 DEF Finish, Die, Dropped, Quiet
<1>8. CASE \/ BuildEngine \/ CycleOk \/ CycleHalt \/ CycleError \/ PollEmpty \/ DrainDone
           \/ DrainCommand \/ DrainDisconnect \/ EnterPause \/ PausedPollEmpty
           \/ PausedResume \/ PausedServe \/ PausedDetach
  <2>1. UNCHANGED <<queue, call, emod>>
    BY <1>8 DEF BuildEngine, CycleOk, CycleHalt, CycleError, PollEmpty, DrainDone,
       DrainCommand, DrainDisconnect, EnterPause, PausedPollEmpty,
       PausedResume, PausedServe, PausedDetach
  <2>2. QED
    BY <2>1 DEF Quiet
<1>9. QED
  BY <1>1, <1>2, <1>3, <1>4, <1>5, <1>6, <1>7, <1>8 DEF RuntimeThread

LEMMA OtherMoves ==
  ASSUME TypeOK, ApiType, QueuedInv, [ProgramNext]_programVars
  PROVE  \/ \E c \in Clerks : ClerkMove(c)
         \/ /\ UNCHANGED task
            /\ \/ Taken \/ Dropped \/ Quiet
               \/ \E d \in Callers : Send(d)
               \/ \E s \in Sessions : Attaching(s)
<1>1. CASE \E c \in Clerks : Request(c) \/ Serve(c)
  BY <1>1, ClerkMoves
<1>2. CASE RuntimeThread /\ UNCHANGED apiVars
  BY <1>2, ThreadMoves DEF apiVars
<1>3. ASSUME NEW c \in Callers, Deliver(c), UNCHANGED apiVars PROVE UNCHANGED task /\ Send(c)
  BY <1>3 DEF Deliver, apiVars
<1>4. ASSUME NEW s \in Sessions, DebugClient(s), UNCHANGED apiVars
      PROVE  UNCHANGED task /\ (Attaching(s) \/ Quiet)
  <2>1. CASE Invoke(AttachCmd(s))
    BY <1>4, <2>1 DEF Invoke, AttachCmd, Attaching, apiVars, threadVars
  <2>2. CASE DebugDrop(s) \/ \E op \in DebugOps : DebugSend(s, op)
    BY <1>4, <2>2 DEF DebugDrop, DebugSend, Quiet, apiVars, threadVars
  <2>3. QED
    BY <1>4, <2>1, <2>2 DEF DebugClient, AttachCmd
<1>5. CASE UNCHANGED programVars
  BY <1>5 DEF programVars, apiVars, vars, threadVars, Quiet
<1>6. QED
  BY <1>1, <1>2, <1>3, <1>4, <1>5 DEF ProgramNext

-----------------------------------------------------------------------------
(* ChangeInv is inductive: one lemma per kind of step.                     *)

LEMMA TailAt ==
  ASSUME NEW q \in Seq(Commands), q # <<>>
  PROVE  /\ Head(q) = q[1] /\ 1 \in DOMAIN q
         /\ \A j \in DOMAIN Tail(q) : j \in Nat /\ j >= 1 /\ j + 1 \in DOMAIN q /\ Tail(q)[j] = q[j + 1]
  OBVIOUS

LEMMA AppendAt ==
  ASSUME NEW q \in Seq(Commands), NEW x \in Commands
  PROVE  /\ \A j \in DOMAIN Append(q, x) :
              \/ j \in DOMAIN q /\ Append(q, x)[j] = q[j]
              \/ j = Len(q) + 1 /\ Append(q, x)[j] = x
         /\ \A j \in DOMAIN q : j \in Nat /\ j < Len(q) + 1
  OBVIOUS

LEMMA ChangeQuiet ==
  ASSUME ChangeInv, Quiet, UNCHANGED task
  PROVE  ChangeInv'
  BY DEF ChangeInv, PendingInv, QueuedInv, WaitingInv, SettledInv, RefusedInv, Replied,
     FellBack, NoModuleOps, Differs, Quiet

LEMMA ChangeDropped ==
  ASSUME TypeOK, ChangeInv, Dropped, UNCHANGED task
  PROVE  ChangeInv'
<1>1. queue' = <<>> /\ emod' \in {emod, None}
  BY DEF Dropped
<1>2. Done("dropped").at = "done" /\ Done("dropped").result = "dropped"
  BY DEF Done
<1>3. \A d \in Callers : call'[d] = call[d] \/ (call[d].at = "wait" /\ call'[d] = Done("dropped"))
  BY DEF Dropped
<1>4. PendingInv'
  BY <1>2, <1>3 DEF ChangeInv, PendingInv
<1>5. QueuedInv' /\ NoModuleOps'
  BY <1>1 DEF QueuedInv, NoModuleOps
<1>6. WaitingInv'
  BY <1>2, <1>3 DEF ChangeInv, WaitingInv
<1>7. SettledInv'
  BY <1>5 DEF SettledInv
<1>8. RefusedInv'
  BY <1>1, <1>2, <1>3 DEF ChangeInv, RefusedInv, Replied, FellBack, Differs, Clerks
<1>9. QED
  BY <1>4, <1>5, <1>6, <1>7, <1>8 DEF ChangeInv

LEMMA ChangeAttaching ==
  ASSUME TypeOK, ChangeInv, NEW s \in Sessions, Attaching(s), UNCHANGED task
  PROVE  ChangeInv'
<1>1. s \in Callers /\ s \notin Clerks
  BY ProgramApiAssumption DEF ProgramApiAssumption, Clerks
<1> DEFINE k == [at |-> "send", cmd |-> AttachCmd(s)]
<1>2. k.at = "send" /\ k.cmd.by = s /\ k.cmd.op = "DebugAttach"
  BY DEF AttachCmd
<1>3. call'[s] = k /\ (\A d \in Callers : d # s => call'[d] = call[d]) /\ UNCHANGED <<queue, emod>>
  BY <1>1 DEF Attaching, TypeOK
<1>4. call[s].at = "free"
  BY DEF Attaching, Free
<1> HIDE DEF k
<1>5. PendingInv'
  BY <1>2, <1>3 DEF ChangeInv, PendingInv, ForceOps
<1>6. QueuedInv'
  BY <1>1, <1>3, <1>4 DEF ChangeInv, QueuedInv, Clerks
<1>7. WaitingInv'
  BY <1>2, <1>3 DEF ChangeInv, WaitingInv
<1>8. SettledInv' /\ RefusedInv'
  BY <1>1, <1>3 DEF ChangeInv, SettledInv, RefusedInv, Replied, FellBack, Differs, NoModuleOps, Clerks
<1>9. QED
  BY <1>5, <1>6, <1>7, <1>8 DEF ChangeInv

LEMMA ChangeTaken ==
  ASSUME OneClerk, TypeOK, ChangeInv, Taken, UNCHANGED task
  PROVE  ChangeInv'
<1> DEFINE h == Head(queue)
<1>1. /\ queue \in Seq(Commands) /\ queue # <<>> /\ queue' = Tail(queue)
      /\ h = queue[1] /\ 1 \in DOMAIN queue
      /\ \A j \in DOMAIN queue' : j \in Nat /\ j >= 1 /\ j + 1 \in DOMAIN queue /\ queue'[j] = queue[j + 1]
  BY TailAt DEF Taken, TypeOK
<1> HIDE DEF h
<1>2. NoModuleOps => NoModuleOps'
  BY <1>1 DEF NoModuleOps
<1>3. ASSUME UNCHANGED call PROVE QueuedInv'
  BY <1>1, <1>3 DEF ChangeInv, QueuedInv
<1>4. CASE h.op # "OnlineChange" /\ UNCHANGED <<call, emod>>
  <2>1. QueuedInv'
    BY <1>3, <1>4
  <2>2. QED
    BY <1>2, <1>4, <2>1 DEF ChangeInv, PendingInv, WaitingInv, SettledInv, RefusedInv,
       Replied, FellBack, Differs
<1>5. CASE h.op = "Start" /\ UNCHANGED call
  <2>1. QueuedInv'
    BY <1>3, <1>5
  <2>2. ~NoModuleOps
    BY <1>1, <1>5 DEF NoModuleOps, ModuleOps
  <2>3. \A c \in Clerks : ~Replied(c) /\ ~FellBack(c)
    BY <2>2 DEF ChangeInv, SettledInv
  <2>4. \A c \in Clerks : ~Replied(c)' /\ ~FellBack(c)'
    BY <1>5, <2>3 DEF Replied, FellBack
  <2>5. PendingInv' /\ WaitingInv'
    BY <1>5 DEF ChangeInv, PendingInv, WaitingInv
  <2>6. QED
    BY <2>1, <2>4, <2>5 DEF ChangeInv, SettledInv, RefusedInv
<1>6. ASSUME h.op = "OnlineChange", NEW r \in Results, call' = [call EXCEPT ![h.by] = Done(r)],
             r = "incompatible" => UNCHANGED emod /\ <<emod, h.arg>> \notin Compatible
      PROVE  ChangeInv'
  <2>1. h.by \in Clerks /\ call[h.by].at = "wait" /\ task[h.by].at = "reply" /\ h.arg = task[h.by].mod
    BY <1>1, <1>6 DEF ChangeInv, QueuedInv
  <2>2. \A k \in DOMAIN queue : k > 1 => queue[k].op \notin ModuleOps
    BY <1>1, <1>6 DEF ChangeInv, QueuedInv
  <2>3. NoModuleOps'
    BY <1>1, <2>2 DEF NoModuleOps
  <2>4. Done(r).at = "done" /\ Done(r).result = r
    BY DEF Done
  <2>5. h.by \in Callers /\ \A c \in Clerks : c = h.by
    BY <2>1 DEF Clerks, OneClerk
  <2>6. call'[h.by] = Done(r) /\ \A d \in Callers : d # h.by => call'[d] = call[d]
    BY <1>6, <2>5 DEF TypeOK
  <2>7. PendingInv'
    BY <2>4, <2>6 DEF ChangeInv, PendingInv
  <2>8. QueuedInv'
    <3>1. \A j \in DOMAIN queue' : queue'[j].op \notin ForceOps
      BY <1>1 DEF ChangeInv, QueuedInv
    <3>2. QED
      BY <2>3, <3>1 DEF QueuedInv, NoModuleOps, ModuleOps
  <2>9. WaitingInv'
    BY <2>1, <2>6 DEF ChangeInv, WaitingInv
  <2>10. SettledInv'
    BY <2>3 DEF SettledInv
  <2>11. RefusedInv'
    BY <1>6, <2>1, <2>4, <2>5, <2>6 DEF RefusedInv, Replied, FellBack, Differs
  <2>12. QED
    BY <2>7, <2>8, <2>9, <2>10, <2>11 DEF ChangeInv
<1>7. QED
  BY <1>4, <1>5, <1>6 DEF Taken, h

LEMMA ChangeSend ==
  ASSUME OneClerk, TypeOK, ChangeInv, NEW d \in Callers, Send(d), UNCHANGED task
  PROVE  ChangeInv'
<1> DEFINE x == call[d].cmd
<1>1. call[d].at = "send" /\ x \in Commands /\ queue \in Seq(Commands)
      /\ queue' = Append(queue, x) /\ UNCHANGED emod
  BY CallShape DEF Send, TypeOK, threadVars
<1>2. /\ \A e \in Callers : e # d => call'[e] = call[e]
      /\ call'[d] = IF x.op \in Replying THEN [at |-> "wait"] ELSE Free
  BY DEF Send, TypeOK
<1>3. /\ x.by = d /\ x.op \notin ForceOps
      /\ x.op = "Start" => d \in Clerks /\ task[d].op = "none" /\ task[d].at = "idle"
      /\ x.op = "OnlineChange" => d \in Clerks /\ task[d].at = "reply" /\ x.arg = task[d].mod
  BY <1>1 DEF ChangeInv, PendingInv
<1> HIDE DEF x
<1>4. call'[d].at = (IF x.op = "OnlineChange" THEN "wait" ELSE "free")
  BY <1>2, <1>3 DEF Replying, ForceOps, Free
<1>5. /\ \A j \in DOMAIN queue' : \/ j \in DOMAIN queue /\ queue'[j] = queue[j]
                                  \/ j = Len(queue) + 1 /\ queue'[j] = x
      /\ \A j \in DOMAIN queue : j \in Nat /\ j < Len(queue) + 1
      /\ Len(queue) \in Nat
  BY <1>1, AppendAt
<1>6. PendingInv'
  BY <1>2, <1>4 DEF ChangeInv, PendingInv
<1>7. WaitingInv'
  BY <1>2, <1>3, <1>4 DEF ChangeInv, WaitingInv
<1>8. ASSUME x.op \in ModuleOps, NEW c \in Clerks
      PROVE  c = d /\ ~Replied(c) /\ ~FellBack(c)
  <2>1. d \in Clerks
    BY <1>3, <1>8 DEF ModuleOps
  <2>2. c = d
    BY <2>1 DEF OneClerk
  <2>3. QED
    BY <1>1, <1>3, <1>8, <2>2 DEF ModuleOps, Replied, FellBack
<1>9. ASSUME NEW j \in DOMAIN queue, queue[j].op = "OnlineChange"
      PROVE  queue[j].by # d /\ x.op \notin ModuleOps
  <2>1. queue[j].by \in Clerks /\ call[queue[j].by].at = "wait"
    BY <1>9 DEF ChangeInv, QueuedInv
  <2>2. queue[j].by # d
    BY <1>1, <2>1
  <2>3. QED
    BY <1>8, <2>1, <2>2
<1>10. QueuedInv'
  <2> SUFFICES ASSUME NEW j \in DOMAIN queue'
               PROVE  QueuedInv!(j)'
    BY DEF QueuedInv
  <2>1. CASE j \in DOMAIN queue /\ queue'[j] = queue[j]
    <3>1. CASE queue[j].op = "OnlineChange"
      <4>1. /\ queue[j].by \in Clerks
            /\ call[queue[j].by].at = "wait" /\ task[queue[j].by].at = "reply"
            /\ queue[j].arg = task[queue[j].by].mod
            /\ \A k \in DOMAIN queue : k > j => queue[k].op \notin ModuleOps
        BY <2>1, <3>1 DEF ChangeInv, QueuedInv
      <4>2. call'[queue[j].by].at = "wait"
        BY <1>2, <1>9, <2>1, <3>1, <4>1 DEF Clerks
      <4>3. \A k \in DOMAIN queue' : k > j => queue'[k].op \notin ModuleOps
        BY <1>5, <1>9, <2>1, <3>1, <4>1
      <4>4. QED
        BY <2>1, <3>1, <4>1, <4>2, <4>3 DEF ForceOps
    <3>2. CASE queue[j].op # "OnlineChange"
      BY <2>1, <3>2 DEF ChangeInv, QueuedInv
    <3>3. QED
      BY <3>1, <3>2
  <2>2. CASE j = Len(queue) + 1 /\ queue'[j] = x
    <3>1. \A k \in DOMAIN queue' : ~(k > j)
      BY <1>5, <2>2
    <3>2. QED
      BY <1>3, <1>4, <2>2, <3>1
  <2>3. QED
    BY <1>5, <2>1, <2>2
<1>11. ASSUME NEW c \in Clerks PROVE (Replied(c)' => Replied(c)) /\ (FellBack(c)' <=> FellBack(c))
  BY <1>2, <1>4 DEF Replied, FellBack, Clerks
<1>12. SettledInv'
  <2> SUFFICES ASSUME NEW c \in Clerks, Replied(c)' \/ FellBack(c)' PROVE NoModuleOps'
    BY DEF SettledInv
  <2>1. NoModuleOps /\ x.op \notin ModuleOps
    BY <1>8, <1>11 DEF ChangeInv, SettledInv
  <2>2. QED
    BY <1>5, <2>1 DEF NoModuleOps
<1>13. RefusedInv'
  <2> SUFFICES ASSUME NEW c \in Clerks,
                      (Replied(c)' /\ call'[c].result = "incompatible") \/ FellBack(c)'
               PROVE  Differs(c)'
    BY DEF RefusedInv
  <2>1. Replied(c)' => call'[c] = call[c]
    BY <1>2, <1>4 DEF Replied, Clerks
  <2>2. Differs(c)
    BY <1>11, <2>1 DEF ChangeInv, RefusedInv
  <2>3. QED
    BY <1>1, <2>2 DEF Differs
<1>14. QED
  BY <1>6, <1>7, <1>10, <1>12, <1>13 DEF ChangeInv

\* The deployer's own step.  It has no call under way, or takes its reply:
\* no online change of its own, hence none at all, is in the channel.
LEMMA ChangeClerk ==
  ASSUME OneClerk, TypeOK, ApiType, FreshInv, ChangeInv, NEW c \in Clerks, ClerkMove(c)
  PROVE  ChangeInv'
<1>1. c \in Callers /\ (\A d \in Clerks : d = c) /\ Free.at = "free"
  BY DEF OneClerk, Clerks, Free
<1>2. UNCHANGED <<queue, emod>>
  BY DEF ClerkMove, Invoke, Return, vars, threadVars
<1>3. call[c].at \in {"free", "done"}
  BY <1>1 DEF ClerkMove, At, Return
<1>4. \A j \in DOMAIN queue : queue[j].op # "OnlineChange"
  BY <1>1, <1>3 DEF ChangeInv, QueuedInv
<1>5. QueuedInv'
  BY <1>2, <1>4 DEF ChangeInv, QueuedInv
<1>6. \A d \in Callers : d # c => call'[d] = call[d]
  <2>1. ASSUME NEW k, call' = [call EXCEPT ![c] = k] PROVE \A d \in Callers : d # c => call'[d] = call[d]
    BY <2>1 DEF TypeOK
  <2>2. ASSUME NEW cmd, cmd.by = c, Invoke(cmd) PROVE \A d \in Callers : d # c => call'[d] = call[d]
    BY <2>1, <2>2 DEF Invoke
  <2>3. ASSUME Return(c) PROVE \A d \in Callers : d # c => call'[d] = call[d]
    BY <2>1, <2>3 DEF Return
  <2>4. Plain("Stop", c).by = c /\ \A m, n \in Modules \cup {None} : StartCmd(c, m, n).by = c /\ ChangeCmd(c, m, n).by = c
    BY DEF Plain, StartCmd, ChangeCmd
  <2>5. task[c].mod \in Modules \cup {None}
    BY DEF ApiType, Tasks
  <2>6. UNCHANGED call => \A d \in Callers : d # c => call'[d] = call[d]
    OBVIOUS
  <2>7. UNCHANGED vars => UNCHANGED call
    BY DEF vars
  <2>8. QED
    BY <2>2, <2>3, <2>4, <2>5, <2>6, <2>7 DEF ClerkMove
\* its call afterwards
<1> DEFINE Sent(cmd) == call'[c] = [at |-> "send", cmd |-> cmd]
<1>7. ASSUME NEW cmd, cmd.by = c, Invoke(cmd) PROVE Sent(cmd)
  BY <1>1, <1>7 DEF Invoke, TypeOK
<1>8. \/ Sent(Plain("Stop", c))
      \/ \E m, n \in Modules : Sent(StartCmd(c, m, n)) /\ task'[c].op = "none" /\ task'[c].at = "idle"
      \/ \E m, n \in Modules : Sent(ChangeCmd(c, m, n)) /\ task'[c].at = "reply" /\ m = task'[c].mod
      \/ call'[c] = Free
  <2>1. Plain("Stop", c).by = c /\ \A m, n \in Modules : StartCmd(c, m, n).by = c /\ ChangeCmd(c, m, n).by = c
    BY DEF Plain, StartCmd, ChangeCmd
  <2>2. At(c, "meta") \/ At(c, "swap") => task[c].mod \in Modules /\ task[c].mod = store
    BY DEF ApiType, FreshInv, At
  <2>3. ASSUME At(c, "meta"), store \in Modules, Invoke(StartCmd(c, task[c].mod, store)),
               TaskTo(c, "none", "idle", None)
        PROVE  \E m, n \in Modules : Sent(StartCmd(c, m, n)) /\ task'[c].op = "none" /\ task'[c].at = "idle"
    BY <1>7, <2>1, <2>2, <2>3 DEF TaskTo
  <2>4. ASSUME At(c, "swap"), store \in Modules, Invoke(ChangeCmd(c, store, task[c].mod)),
               TaskTo(c, task[c].op, "reply", task[c].mod)
        PROVE  \E m, n \in Modules : Sent(ChangeCmd(c, m, n)) /\ task'[c].at = "reply" /\ m = task'[c].mod
    BY <1>7, <2>1, <2>2, <2>4 DEF TaskTo
  <2>5. Invoke(Plain("Stop", c)) => Sent(Plain("Stop", c))
    BY <1>7, <2>1
  <2>6. Return(c) => call'[c] = Free
    BY <1>1 DEF Return, TypeOK
  <2>7. call[c] = Free /\ UNCHANGED vars => call'[c] = Free
    BY DEF vars
  <2> HIDE DEF Sent
  <2>8. QED
    BY <2>3, <2>4, <2>5, <2>6, <2>7 DEF ClerkMove, At
<1>9. /\ call'[c].at \in {"free", "send"}
      /\ call'[c].at = "send" =>
           /\ call'[c].cmd.by = c
           /\ call'[c].cmd.op \notin ForceOps
           /\ call'[c].cmd.op = "Start" => task'[c].op = "none" /\ task'[c].at = "idle"
           /\ call'[c].cmd.op = "OnlineChange" =>
                task'[c].at = "reply" /\ call'[c].cmd.arg = task'[c].mod
  <2>1. /\ Plain("Stop", c).by = c /\ Plain("Stop", c).op = "Stop"
        /\ \A m, n \in Modules : /\ StartCmd(c, m, n).by = c /\ StartCmd(c, m, n).op = "Start"
                                 /\ ChangeCmd(c, m, n).by = c /\ ChangeCmd(c, m, n).op = "OnlineChange"
                                 /\ ChangeCmd(c, m, n).arg = m
    BY DEF Plain, StartCmd, ChangeCmd
  <2>2. ASSUME NEW cmd, Sent(cmd) PROVE call'[c].at = "send" /\ call'[c].cmd = cmd
    BY <2>2
  <2> HIDE DEF Sent
  <2>3. CASE Sent(Plain("Stop", c))
    BY <2>1, <2>2, <2>3 DEF ForceOps
  <2>4. ASSUME NEW m \in Modules, NEW n \in Modules, Sent(StartCmd(c, m, n)),
               task'[c].op = "none" /\ task'[c].at = "idle"
        PROVE  <1>9!:
    BY <2>1, <2>2, <2>4 DEF ForceOps
  <2>5. ASSUME NEW m \in Modules, NEW n \in Modules, Sent(ChangeCmd(c, m, n)),
               task'[c].at = "reply" /\ m = task'[c].mod
        PROVE  <1>9!:
    BY <2>1, <2>2, <2>5 DEF ForceOps
  <2>6. CASE call'[c] = Free
    BY <1>1, <2>6
  <2>7. QED
    BY <1>8, <2>3, <2>4, <2>5, <2>6
<1> HIDE DEF Sent
<1>10. PendingInv'
  BY <1>1, <1>6, <1>9 DEF ChangeInv, PendingInv
<1>11. WaitingInv'
  BY <1>1, <1>6, <1>9 DEF ChangeInv, WaitingInv
<1>12. ~Replied(c)'
  BY <1>9 DEF Replied
<1>13. FellBack(c)' => /\ FellBack(c) \/ (Replied(c) /\ call[c].result = "incompatible")
                       /\ task'[c].mod = task[c].mod
  BY DEF ClerkMove, TaskTo, At, Return, FellBack, Replied, Operations
<1>14. SettledInv'
  BY <1>1, <1>2, <1>12, <1>13 DEF ChangeInv, SettledInv, NoModuleOps
<1>15. RefusedInv'
  BY <1>1, <1>2, <1>12, <1>13 DEF ChangeInv, RefusedInv, Differs
<1>16. QED
  BY <1>5, <1>10, <1>11, <1>14, <1>15 DEF ChangeInv

LEMMA ChangeNext ==
  ASSUME OneClerk, TypeOK, ApiType, FreshInv, ChangeInv, [ProgramNext]_programVars
  PROVE  ChangeInv'
<1>1. QueuedInv
  BY DEF ChangeInv
<1>2. QED
  BY <1>1, OtherMoves, ChangeQuiet, ChangeDropped, ChangeAttaching, ChangeTaken, ChangeSend, ChangeClerk

(* An update of one deployer ends a run only when the running program could*)
(* not be changed online to the new one, whatever the runtime, its debugger*)
(* and the client's earlier commands did between the refused change and    *)
(* the Stop (program_update, restart_runtime).                             *)
THEOREM StopsOnlyIncompatibleHolds == ASSUME OneClerk PROVE ProgramSpec => StopsOnlyIncompatible
<1> DEFINE Inv == DeployedInv /\ FreshInv /\ ChangeInv
<1>1. ProgramInit => FreshInv /\ ChangeInv
  <2>1. Task("none", "idle", None).at = "idle"
    BY DEF Task
  <2>2. QED
    BY <2>1, ChangeInit DEF ProgramInit, FreshInv
<1>2. DeployedInv /\ (FreshInv /\ ChangeInv) /\ [ProgramNext]_programVars => (FreshInv /\ ChangeInv)'
  BY FreshNext, ChangeNext DEF DeployedInv
<1>3. Inv => (\A c \in Clerks : UpdateStopTaken(c) => <<emod, task[c].mod>> \notin Compatible)
  <2> SUFFICES ASSUME Inv, NEW c \in Clerks, UpdateStopTaken(c)
               PROVE  <<emod, task[c].mod>> \notin Compatible
    OBVIOUS
  <2>1. emod # None
    BY DEF UpdateStopTaken, TakeStop, DeployedInv, ControlInv, PositionInv
  <2>2. FellBack(c)
    BY DEF UpdateStopTaken, FellBack
  <2>3. QED
    BY <2>1, <2>2 DEF ChangeInv, RefusedInv, Differs
<1>4. QED
  BY <1>1, <1>2, <1>3, DeployedInvHolds, PTL DEF ProgramSpec, StopsOnlyIncompatible

=============================================================================
