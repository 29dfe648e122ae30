--------------------------- MODULE RuntimeManager ---------------------------
(***************************************************************************)
(* The PLC runtime of the target agent                                     *)
(* (crates/st-target-agent/src/runtime_manager.rs): API tasks send         *)
(* commands over a bounded channel to one OS thread that owns the engine,  *)
(* runs scan cycles, and serves at most one debug session whose commands   *)
(* arrive on a second channel.                                             *)
(*                                                                         *)
(* The program, its variables and its call stack are abstracted to what    *)
(* the thread's control depends on: which module the engine executes,      *)
(* whether frames are left on the call stack, the VM's step mode, and for  *)
(* which session breakpoints are set.                                      *)
(***************************************************************************)
EXTENDS Naturals, Sequences, FiniteSets

CONSTANTS Callers,     \* API tasks (HTTP handlers, OPC UA writes, ctrl-c)
          Sessions,    \* debug sessions that may ever be attached
          Modules,     \* compiled programs
          Compatible,  \* pairs <<old, new>> that analyze_change accepts
          None,        \* absence of a module or a session
          QueueCap,    \* capacity of the command channel (16 in the code)
          DebugCap     \* bound on unread debug commands of a session

ASSUME RuntimeAssumption ==
  /\ None \notin Sessions \cup Modules
  /\ Compatible \subseteq Modules \X Modules
  /\ QueueCap \in Nat \ {0}
  /\ DebugCap \in Nat \ {0}

VARIABLES
  status,    \* RuntimeState.status, shared under a RwLock
  program,   \* RuntimeState.program: metadata of the program reported
  catalog,   \* module whose variable_catalog is published, or None
  snapshot,  \* module whose all_variables are published, or None
  queue,     \* the cmd_tx/cmd_rx channel
  pc,        \* where the runtime thread is
  outcome,   \* result run_cycle_loop returned, while pc = "exit"
  emod,      \* module the engine executes, or None when there is no engine
  frames,    \* TRUE iff the VM's call stack is not empty
  mode,      \* DebugState.step_mode
  bps,       \* session whose breakpoints are set in the VM, or None
  session,   \* debug_session of run_cycle_loop, or None
  dbgq,      \* unread DebugCommands of each session
  dbg,       \* each session's client end: "unused", "pending", "open", "closed"
  told,      \* last of Stopped, Resumed sent to the attached session
  call       \* progress of each API task's current call

threadVars == <<pc, outcome, emod, frames, mode, bps, session>>
sharedVars == <<status, program, catalog, snapshot>>
channelVars == <<dbgq, dbg>>
vars == <<sharedVars, queue, threadVars, channelVars, told, call>>

-----------------------------------------------------------------------------
(* Types *)

Statuses == {"Idle", "Starting", "Running", "DebugPaused", "Error"}
PCs == {"idle", "starting", "cycle", "poll", "drain",
        "halted", "dbgpoll", "dbgwait", "exit", "dead"}
Modes == {"Continue", "Step", "Paused"}
Events == {"nothing", "stopped", "resumed"}
DebugOps == {"Continue", "Step", "Query", "SetBreakpoints",
             "ClearBreakpoints", "Pause", "Disconnect"}

\* RuntimeCommand; arg is the module or the session it is about.  What a
\* force does to the VM is the subject of module ScanEngine.
ModuleOps == {"Start", "OnlineChange"}
ForceOps  == {"ForceVariable", "UnforceVariable"}
PlainOps  == {"Stop", "Shutdown", "ResetStats"} \cup ForceOps
Commands ==
       [op : ModuleOps, arg : Modules, meta : Modules, by : Callers]
  \cup [op : {"DebugAttach"}, arg : Sessions, meta : {None}, by : Callers]
  \cup [op : PlainOps, arg : {None}, meta : {None}, by : Callers]

\* commands that carry a oneshot reply channel
Replying == {"OnlineChange", "ForceVariable", "UnforceVariable"}

\* "incompatible" is the refusal the callers tell apart (HTTP 409)
Results == {"ok", "err", "incompatible", "dropped"}
Free == [at |-> "free"]
Done(result) == [at |-> "done", result |-> result]
Calls == {Free} \cup [at : {"send"}, cmd : Commands] \cup [at : {"wait"}]
  \cup {Done(r) : r \in Results}

TypeOK ==
  /\ status \in Statuses
  /\ program \in Modules \cup {None}
  /\ catalog \in Modules \cup {None}
  /\ snapshot \in Modules \cup {None}
  /\ queue \in Seq(Commands) /\ Len(queue) <= QueueCap
  /\ pc \in PCs
  /\ outcome \in {"none", "commanded", "shutdown", "error"}
  /\ emod \in Modules \cup {None}
  /\ frames \in BOOLEAN
  /\ mode \in Modes
  /\ bps \in Sessions \cup {None}
  /\ session \in Sessions \cup {None}
  /\ dbgq \in [Sessions -> Seq(DebugOps)]
  /\ dbg \in [Sessions -> {"unused", "pending", "open", "closed"}]
  /\ told \in Events
  /\ call \in [Callers -> Calls]

Init ==
  /\ status = "Idle" /\ program = None /\ catalog = None /\ snapshot = None
  /\ queue = <<>>
  /\ pc = "idle" /\ outcome = "none"
  /\ emod = None /\ frames = FALSE /\ mode = "Continue" /\ bps = None
  /\ session = None
  /\ dbgq = [s \in Sessions |-> <<>>]
  /\ dbg = [s \in Sessions |-> "unused"]
  /\ told = "nothing"
  /\ call = [c \in Callers |-> Free]

-----------------------------------------------------------------------------
(* API tasks: RuntimeManager's async methods.  A method reads the shared   *)
(* status once, and later, when the channel has room, sends its command.   *)

\* the early return of start, stop, online_change and debug_attach
Admitted(op) ==
  CASE op = "Start" -> status \notin {"Running", "Starting"}
    [] op \in {"Stop", "OnlineChange", "DebugAttach"}
         -> status \in {"Running", "DebugPaused"}
    [] OTHER -> TRUE

\* debug_attach creates the session's two channels before it sends
MarkSession(cmd, state) ==
  dbg' = IF cmd.op = "DebugAttach" THEN [dbg EXCEPT ![cmd.arg] = state] ELSE dbg

\* a method is called and passes its status check; a refused call returns
\* an error at once and changes nothing
Invoke(cmd) ==
  /\ call[cmd.by] = Free
  /\ Admitted(cmd.op)
  /\ cmd.op = "DebugAttach" => dbg[cmd.arg] = "unused"
  /\ call' = [call EXCEPT ![cmd.by] = [at |-> "send", cmd |-> cmd]]
  /\ MarkSession(cmd, "pending")
  /\ UNCHANGED <<sharedVars, queue, threadVars, dbgq, told>>

\* the bounded channel: send().await suspends the caller while it is full
HasRoom == Len(queue) < QueueCap

\* cmd_tx.send(..).await succeeds; debug_attach hands out the channel ends
Send(c) ==
  /\ call[c].at = "send"
  /\ pc # "dead"
  /\ HasRoom
  /\ LET cmd == call[c].cmd IN
     /\ queue' = Append(queue, cmd)
     /\ call' = [call EXCEPT ![c] = IF cmd.op \in Replying THEN [at |-> "wait"] ELSE Free]
     /\ MarkSession(cmd, "open")
  /\ UNCHANGED <<sharedVars, threadVars, dbgq, told>>

\* cmd_tx.send fails: the thread has dropped the receiver
SendFails(c) ==
  /\ call[c].at = "send"
  /\ pc = "dead"
  /\ call' = [call EXCEPT ![c] = Free]
  /\ MarkSession(call[c].cmd, "closed")
  /\ UNCHANGED <<sharedVars, queue, threadVars, dbgq, told>>

\* the caller takes the result of a replying call
Return(c) ==
  /\ call[c].at = "done"
  /\ call' = [call EXCEPT ![c] = Free]
  /\ UNCHANGED <<sharedVars, queue, threadVars, channelVars, told>>

(* The debug client (dap_attach_handler) at the other end of a session.    *)

DebugSend(s, op) ==
  /\ dbg[s] = "open"
  /\ Len(dbgq[s]) < DebugCap
  /\ dbgq' = [dbgq EXCEPT ![s] = Append(@, op)]
  /\ UNCHANGED <<sharedVars, queue, threadVars, dbg, told, call>>

DebugDrop(s) ==
  /\ dbg[s] = "open"
  /\ dbg' = [dbg EXCEPT ![s] = "closed"]
  /\ UNCHANGED <<sharedVars, queue, threadVars, dbgq, told, call>>

-----------------------------------------------------------------------------
(* The runtime thread *)

Take == queue # <<>> /\ queue' = Tail(queue)

Reply(cmd, result) ==
  call' = IF cmd.op \in Replying THEN [call EXCEPT ![cmd.by] = Done(result)] ELSE call

\* the thread drops its ends of the channels of the sessions in S: unread
\* commands are lost and the client finds the channels closed
CloseChannels(S) ==
  /\ dbgq' = [s \in Sessions |-> IF s \in S THEN <<>> ELSE dbgq[s]]
  /\ dbg' = [s \in Sessions |-> IF s \in S THEN "closed" ELSE dbg[s]]

\* mutant of CleanDebugState: breakpoints survive the session
CleanDebugStateKeepsBreakpoints ==
  /\ mode' = "Continue"
  /\ frames' = FALSE
  /\ UNCHANGED bps

\* clear_breakpoints, resume(Continue), clear_call_stack
CleanDebugState ==
  /\ bps' = None
  /\ mode' = "Continue"
  /\ frames' = FALSE

\* runtime_thread: a command other than Start or Shutdown while idle
IdleCommand ==
  /\ pc = "idle"
  /\ Take
  /\ Head(queue).op \notin {"Start", "Shutdown"}
  /\ Reply(Head(queue), "err")
  /\ CloseChannels({s \in Sessions : Head(queue).op = "DebugAttach" /\ Head(queue).arg = s})
  /\ UNCHANGED <<sharedVars, threadVars, told>>

\* the thread leaves its loop: the receiver and every queued command are
\* dropped, and with them the reply channels the callers wait on
Die ==
  /\ pc' = "dead"
  /\ queue' = <<>>
  /\ CloseChannels({s \in Sessions : dbg[s] = "open"})
  /\ call' = [c \in Callers |-> IF call[c].at = "wait" THEN Done("dropped") ELSE call[c]]

IdleShutdown ==
  /\ pc = "idle"
  /\ queue # <<>>
  /\ Head(queue).op = "Shutdown"
  /\ Die
  /\ UNCHANGED <<sharedVars, outcome, emod, frames, mode, bps, session, told>>

IdleStart ==
  /\ pc = "idle"
  /\ Take
  /\ Head(queue).op = "Start"
  /\ status' = "Starting"
  /\ program' = Head(queue).meta
  /\ emod' = Head(queue).arg
  /\ pc' = "starting"
  /\ UNCHANGED <<catalog, snapshot, outcome, frames, mode, bps, session,
                 channelVars, told, call>>

\* Engine::new_with_native_fbs; a failing __global_init leaves its frame
\* on the stack (its result is discarded)
BuildEngine ==
  /\ pc = "starting"
  /\ frames' \in BOOLEAN
  /\ catalog' = emod
  /\ status' = "Running"
  /\ pc' = "cycle"
  /\ UNCHANGED <<program, snapshot, queue, outcome, emod, mode, bps, session,
                 channelVars, told, call>>

\* run_one_cycle returns Ok: stats and variable snapshot are published
CycleOk ==
  /\ pc = "cycle"
  /\ mode # "Paused"
  /\ frames' = FALSE
  /\ snapshot' = emod
  /\ pc' = "poll"
  /\ UNCHANGED <<status, program, catalog, queue, outcome, emod, mode, bps,
                 session, channelVars, told, call>>

\* run_one_cycle returns Err(Halt): a breakpoint, a step or a pause request
CycleHalt ==
  /\ pc = "cycle"
  /\ mode # "Continue" \/ bps # None
  /\ IF session = None
     THEN /\ CleanDebugState
          /\ pc' = "poll"
          /\ UNCHANGED told
     ELSE /\ frames' = TRUE
          /\ mode' = "Paused"
          /\ told' = "stopped"
          /\ pc' = "halted"
          /\ UNCHANGED bps
  /\ UNCHANGED <<sharedVars, queue, outcome, emod, session, channelVars, call>>

\* run_one_cycle returns any other error
CycleError ==
  /\ pc = "cycle"
  /\ mode # "Paused"
  /\ outcome' = "error"
  /\ pc' = "exit"
  /\ UNCHANGED <<sharedVars, queue, emod, frames, mode, bps, session,
                 channelVars, told, call>>

PollEmpty ==
  /\ pc = "poll"
  /\ queue = <<>>
  /\ pc' = "drain"
  /\ UNCHANGED <<sharedVars, queue, outcome, emod, frames, mode, bps, session,
                 channelVars, told, call>>

\* Stop and Shutdown, between cycles or while paused
TakeStop ==
  /\ pc \in {"poll", "dbgpoll"}
  /\ Take
  /\ Head(queue).op \in {"Stop", "Shutdown"}
  /\ outcome' = IF Head(queue).op = "Stop" THEN "commanded" ELSE "shutdown"
  /\ pc' = "exit"
  /\ UNCHANGED <<sharedVars, emod, frames, mode, bps, session, channelVars, told, call>>

\* mutant of PollAttach: a new session is ignored while there is one
PollAttachOnlyFirst ==
  /\ pc = "poll"
  /\ Take
  /\ Head(queue).op = "DebugAttach"
  /\ IF session = None THEN session' = Head(queue).arg ELSE UNCHANGED session
  /\ pc' = "drain"
  /\ UNCHANGED <<sharedVars, outcome, emod, frames, mode, bps, channelVars, told, call>>

\* a new session replaces the current one; breakpoints are left as they are
PollAttach ==
  /\ pc = "poll"
  /\ Take
  /\ Head(queue).op = "DebugAttach"
  /\ session' = Head(queue).arg
  /\ told' = "nothing"
  /\ CloseChannels({session} \cap Sessions)
  /\ pc' = "drain"
  /\ UNCHANGED <<sharedVars, outcome, emod, frames, mode, bps, call>>

\* mutant of Publish: the catalog of the old module stays published
PublishMetadataOnly(cmd) ==
  /\ program' = cmd.meta
  /\ UNCHANGED catalog

\* the catalog and the metadata of the new module are published
Publish(cmd) ==
  /\ catalog' = cmd.arg
  /\ program' = cmd.meta

\* engine.online_change_module, then the refreshed catalog and metadata
PollOnlineChange ==
  /\ pc = "poll"
  /\ Take
  /\ Head(queue).op = "OnlineChange"
  /\ LET cmd == Head(queue) IN
     IF <<emod, cmd.arg>> \in Compatible
     THEN /\ emod' = cmd.arg
          /\ frames' = FALSE
          /\ Publish(cmd)
          /\ Reply(cmd, "ok")
     ELSE /\ Reply(cmd, "incompatible")
          /\ UNCHANGED <<emod, frames, catalog, program>>
  /\ pc' = "drain"
  /\ UNCHANGED <<status, snapshot, outcome, mode, bps, session, channelVars, told>>

\* Start is ignored, ResetStats only resets statistics
PollOther ==
  /\ pc = "poll"
  /\ Take
  /\ Head(queue).op \in {"Start", "ResetStats"} \cup ForceOps
  /\ Reply(Head(queue), "ok")
  /\ pc' = "drain"
  /\ UNCHANGED <<sharedVars, outcome, emod, frames, mode, bps, session, channelVars, told>>

\* nothing (more) to read on the session's channel: next cycle
DrainDone ==
  /\ pc = "drain"
  /\ session # None => dbgq[session] = <<>>
  /\ pc' = "cycle"
  /\ UNCHANGED <<sharedVars, queue, outcome, emod, frames, mode, bps, session,
                 channelVars, told, call>>

DebugReady ==
  /\ session # None
  /\ dbgq[session] # <<>>

DebugRead ==
  /\ dbgq' = [dbgq EXCEPT ![session] = Tail(@)]
  /\ UNCHANGED dbg

DebugHead == Head(dbgq[session])

\* clear_breakpoints, then the lines that verify (possibly none) are set
SetBreakpoints == bps' \in {None, session}

\* one command of the session's channel between cycles
DrainCommand ==
  /\ pc = "drain"
  /\ DebugReady
  /\ DebugHead # "Disconnect"
  /\ DebugRead
  /\ mode' = IF DebugHead = "Pause" THEN "Paused" ELSE mode
  /\ IF DebugHead = "SetBreakpoints" THEN SetBreakpoints ELSE UNCHANGED bps
  /\ UNCHANGED <<sharedVars, queue, pc, outcome, emod, frames, session, told, call>>

\* the session ends, here and in DebugAction::Detach
EndSession ==
  /\ session' = None
  /\ told' = "nothing"
  /\ CloseChannels({session} \cap Sessions)
  /\ CleanDebugState
  /\ pc' = "cycle"

DrainDisconnect ==
  /\ pc = "drain"
  /\ DebugReady
  /\ DebugHead = "Disconnect"
  /\ EndSession
  /\ UNCHANGED <<sharedVars, queue, outcome, emod, call>>

-----------------------------------------------------------------------------
(* handle_debug_commands: the VM is halted and a session is attached *)

EnterPause ==
  /\ pc = "halted"
  /\ status' = "DebugPaused"
  /\ pc' = "dbgpoll"
  /\ UNCHANGED <<program, catalog, snapshot, queue, outcome, emod, frames, mode, bps,
                 session, channelVars, told, call>>

\* one look at the runtime channel before blocking on the session's channel
PausedPollEmpty ==
  /\ pc = "dbgpoll"
  /\ queue = <<>>
  /\ pc' = "dbgwait"
  /\ UNCHANGED <<sharedVars, queue, outcome, emod, frames, mode, bps, session,
                 channelVars, told, call>>

PausedCommand ==
  /\ pc = "dbgpoll"
  /\ Take
  /\ Head(queue).op \in {"Start", "ResetStats", "OnlineChange"} \cup ForceOps
  /\ Reply(Head(queue), IF Head(queue).op = "OnlineChange" THEN "err" ELSE "ok")
  /\ pc' = "dbgwait"
  /\ UNCHANGED <<sharedVars, outcome, emod, frames, mode, bps, session, channelVars, told>>

\* mutant of ReenterLoop: the swapped session is served in place
ReenterInPlace ==
  /\ pc' = "dbgwait"
  /\ UNCHANGED status

\* mutant of ReenterLoop: the resumed engine polls commands before it cycles
ReenterAtPoll ==
  /\ status' = "Running"
  /\ pc' = "poll"

\* DebugAction::Resume: back to the top of the cycle loop ("continue")
ReenterLoop ==
  /\ status' = "Running"
  /\ pc' = "cycle"

\* a second debugger attaches while paused: the old one is told, and the
\* loop is re-entered through Resume, which halts again at once
PausedAttach ==
  /\ pc = "dbgpoll"
  /\ Take
  /\ Head(queue).op = "DebugAttach"
  /\ session' = Head(queue).arg
  /\ told' = "nothing"
  /\ CloseChannels({session} \cap Sessions)
  /\ ReenterLoop
  /\ UNCHANGED <<program, catalog, snapshot, outcome, emod, frames, mode, bps, call>>

\* Continue and the step commands leave the pause; Resumed is sent only
\* for Continue
PausedResume ==
  /\ pc = "dbgwait"
  /\ DebugReady
  /\ DebugHead \in {"Continue", "Step"}
  /\ DebugRead
  /\ mode' = DebugHead
  /\ told' = IF DebugHead = "Continue" THEN "resumed" ELSE told
  /\ ReenterLoop
  /\ UNCHANGED <<program, catalog, snapshot, queue, outcome, emod, frames, bps,
                 session, call>>

\* inspection, breakpoint updates and a redundant Pause keep the pause
PausedServe ==
  /\ pc = "dbgwait"
  /\ DebugReady
  /\ DebugHead \in {"Query", "SetBreakpoints", "ClearBreakpoints", "Pause"}
  /\ DebugRead
  /\ CASE DebugHead = "SetBreakpoints"   -> SetBreakpoints
       [] DebugHead = "ClearBreakpoints" -> bps' = None
       [] OTHER -> UNCHANGED bps
  /\ pc' = "dbgpoll"
  /\ UNCHANGED <<sharedVars, queue, outcome, emod, frames, mode, session,
                 told, call>>

\* mutant of WaitEnds: the wait for the debugger has no timeout
WaitEndsWithoutTimeout ==
  IF DebugReady THEN DebugHead = "Disconnect" ELSE dbg[session] = "closed"

\* the wait ends without a command to serve: Disconnect, or nothing to read
\* because the client is gone or 30 minutes passed in silence
WaitEnds == DebugReady => DebugHead = "Disconnect"

\* DebugAction::Detach
PausedDetach ==
  /\ pc = "dbgwait"
  /\ WaitEnds
  /\ EndSession
  /\ status' = "Running"
  /\ UNCHANGED <<program, catalog, snapshot, queue, outcome, emod, call>>

\* run_cycle_loop has returned: retain is saved, the engine and the session
\* are dropped, and the shared state is rewritten
Finish ==
  /\ pc = "exit"
  /\ catalog' = None
  /\ snapshot' = None
  /\ status' = IF outcome = "error" THEN "Error" ELSE "Idle"
  /\ IF outcome = "shutdown"
     THEN Die
     ELSE /\ pc' = "idle"
          /\ CloseChannels({session} \cap Sessions)
          /\ UNCHANGED <<queue, call>>
  /\ outcome' = "none"
  /\ emod' = None
  /\ session' = None
  /\ told' = "nothing"
  /\ CleanDebugState
  /\ UNCHANGED program

RuntimeThread ==
  \/ IdleCommand \/ IdleShutdown \/ IdleStart \/ BuildEngine
  \/ CycleOk \/ CycleHalt \/ CycleError
  \/ PollEmpty \/ TakeStop \/ PollAttach \/ PollOnlineChange \/ PollOther
  \/ DrainDone \/ DrainCommand \/ DrainDisconnect
  \/ EnterPause \/ PausedPollEmpty \/ PausedCommand \/ PausedAttach
  \/ PausedResume \/ PausedServe \/ PausedDetach
  \/ Finish

\* callers pass the metadata of the module they start; ProgramApi refines this
Requests ==
  {cmd \in Commands : cmd.op \in ModuleOps => cmd.meta = cmd.arg}

Clients ==
  \/ \E cmd \in Requests : Invoke(cmd)
  \/ \E c \in Callers : Send(c) \/ SendFails(c) \/ Return(c)
  \/ \E s \in Sessions, op \in DebugOps : DebugSend(s, op)
  \/ \E s \in Sessions : DebugDrop(s)

Next == RuntimeThread \/ Clients

Spec == Init /\ [][Next]_vars

\* The operating system schedules the runtime thread, and its waits end by
\* themselves (a scan cycle has an instruction limit, the debug wait a
\* timeout).  The drain loop ends when it finds the session's channel empty:
\* strong fairness says that a network client does not refill it for ever
\* between two try_recv of a loop that does nothing else.
FairSpec == Spec /\ WF_vars(RuntimeThread) /\ SF_vars(DrainDone)

-----------------------------------------------------------------------------
(* Properties *)

Engine == pc \in {"cycle", "poll", "drain", "halted", "dbgpoll", "dbgwait", "exit"}

(* What every position of the thread guarantees about the VM, the session  *)
(* and the published status; the inductive core of the properties below.   *)
(* A handler between cycles (poll, drain) always finds an empty stack, one *)
(* that serves a paused VM finds it halted with a session that was told.   *)
PositionInv ==
  /\ pc \in {"idle", "dead"} => status \in {"Idle", "Error"}
  /\ pc = "starting" => status = "Starting"
  /\ pc \in {"cycle", "poll", "drain", "halted"} => status = "Running"
  /\ pc \in {"dbgpoll", "dbgwait"} => status = "DebugPaused"
  /\ pc \in {"poll", "drain"} => ~frames
  /\ pc \in {"halted", "dbgpoll", "dbgwait"} \/ status = "DebugPaused" =>
       frames /\ mode = "Paused" /\ session # None /\ told = "stopped"
  /\ pc \in {"idle", "dead"} <=> emod = None
  /\ pc \in {"idle", "starting", "dead"} => session = None
  /\ pc = "exit" => status \in {"Running", "DebugPaused"}
  /\ pc = "exit" /\ outcome = "error" => status = "Running"

(* The shared state shows the engine's variables only while there is one.  *)
PublishInv ==
  IF pc \in {"idle", "starting", "dead"}
  THEN catalog = None /\ snapshot = None
  ELSE catalog = emod

(* The published status never lies about a paused engine: when it says     *)
(* DebugPaused the VM really is stopped inside a cycle in Paused mode (or  *)
(* the loop is on its way out), and a session is attached whose client was *)
(* told "stopped" last, so somebody is in a position to resume it.         *)
(* run_cycle_loop, Halt branch; handle_debug_commands, session swap.       *)
PausedIsHeld ==
  status = "DebugPaused" =>
    /\ frames
    /\ mode = "Paused"
    /\ session # None
    /\ told = "stopped"

(* Without a debug session the engine can only run freely: every path on   *)
(* which a session ends (Disconnect between cycles or while paused, client *)
(* gone, 30-minute timeout, end of the run) removes its breakpoints and    *)
(* pending pause, so no orphaned debug state can halt a production engine. *)
NoOrphanDebugState ==
  session = None => bps = None /\ mode = "Continue"

(* The module executed by the engine, the published variable catalog and   *)
(* the reported program agree whenever the runtime reports that it runs,   *)
(* across starts, online changes, refused changes and restarts.            *)
PublishedMatchesEngine ==
  status \in {"Running", "DebugPaused"} => catalog = emod /\ program = emod

(* An online change replaces the module of a live engine only between two  *)
(* cycles: no frame of the old module is on the call stack                 *)
(* (Engine::online_change_module, "Call between scan cycles, not during    *)
(* execution") and no debugger is looking at the halted program.           *)
SwapBetweenCycles ==
  [][emod # None /\ emod' # None /\ emod' # emod
       => ~frames /\ status = "Running"]_vars

(* Every API call that waits for a reply is answered, in whatever state    *)
(* the runtime is or comes to: running, paused, stopped, failed or shut    *)
(* down with the request still queued.                                     *)
EveryCallAnswered ==
  \A c \in Callers : call[c].at = "wait" ~> call[c].at = "done"

(* A debugger that falls silent for good cannot hold the engine: the       *)
(* 30-minute receive timeout ("Prevents a forgotten debugger from halting  *)
(* a production system indefinitely").                                     *)
ForgottenDebuggerReleases ==
  <>[](\A s \in Sessions : dbgq[s] = <<>>) => []<>(status # "DebugPaused")

(* A Stop that was queued ends the run it was meant for, even when the     *)
(* engine is paused in the debugger ("Works from both Running and          *)
(* DebugPaused states").                                                   *)
StopEndsRun ==
  (Engine /\ \E i \in DOMAIN queue : queue[i].op = "Stop") ~> ~Engine

Lifecycle == INSTANCE RuntimeLifecycle
  WITH phase <- status, prog <- program, visible <- catalog

(* Seen through the shared RuntimeState the agent follows the life cycle   *)
(* of RuntimeLifecycle, although status, program and catalog are written   *)
(* by different handlers, and a program that is Starting comes up.         *)
FollowsLifecycle == Lifecycle!Spec

=============================================================================
