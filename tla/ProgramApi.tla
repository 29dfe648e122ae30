----------------------------- MODULE ProgramApi -----------------------------
(***************************************************************************)
(* The program endpoints of the agent's HTTP API                           *)
(* (crates/st-target-agent/src/api/program.rs) on top of RuntimeManager:   *)
(* each request is a task that locks the program store, reads the status   *)
(* and calls the runtime manager in separate steps, between which other    *)
(* requests, the runtime thread and a debugger run.                        *)
(*                                                                         *)
(* A bundle is identified with the module compiled into it; multipart      *)
(* decoding, invalid bundles, cycle_time and device profiles are left out. *)
(* Debug clients are callers of their own (one per session).               *)
(***************************************************************************)
EXTENDS RuntimeManager

ASSUME ProgramApiAssumption == Sessions \subseteq Callers

VARIABLES store,  \* module of the deployed program, or None
          task    \* each API client's request: its steps so far, and what it keeps

apiVars == <<store, task>>
programVars == <<vars, apiVars>>

Clerks == Callers \ Sessions

\* a single deployer: requests may still overlap with its own earlier commands,
\* the runtime thread and the debuggers
OneClerk == \A c, d \in Clerks : c = d

\* op: the request, at: its next step
Task(op, at, mod) == [op |-> op, at |-> at, mod |-> mod]

ProgramInit ==
  /\ Init
  /\ store = None
  /\ task = [c \in Clerks |-> Task("none", "idle", None)]

-----------------------------------------------------------------------------

At(c, step) == task[c].at = step /\ call[c] = Free
Go(c, step) == task' = [task EXCEPT ![c].at = step]
Keep(c, step, mod) == task' = [task EXCEPT ![c].at = step, ![c].mod = mod]
Begin(c, op, step, mod) == task' = [task EXCEPT ![c] = Task(op, step, mod)]
End(c) == Begin(c, "none", "idle", None)

Plain(op, c) == [op |-> op, arg |-> None, meta |-> None, by |-> c]

Upload(c, m) ==
  /\ At(c, "idle")
  /\ store' = m
  /\ UNCHANGED <<vars, task>>

Start(c) ==
  /\ At(c, "idle")
  /\ Begin(c, "start", "load", None)
  /\ UNCHANGED <<vars, store>>

\* start: load_module under one lock ...
Load(c) ==
  /\ At(c, "load")
  /\ IF store = None THEN End(c) ELSE Keep(c, "meta", store)
  /\ UNCHANGED <<vars, store>>

\* mutant of StartCall: the metadata last reported is sent again
StartCallOldMeta(c) ==
  /\ At(c, "meta")
  /\ Admitted("Start") /\ store # None
  /\ Invoke([op |-> "Start", arg |-> task[c].mod, by |-> c,
             meta |-> IF program = None THEN store ELSE program])
  /\ End(c)
  /\ UNCHANGED store

\* ... then current_program under another, and RuntimeManager::start
StartCall(c) ==
  /\ At(c, "meta")
  /\ IF store # None /\ Admitted("Start")
     THEN Invoke([op |-> "Start", arg |-> task[c].mod, meta |-> store, by |-> c])
     ELSE UNCHANGED vars
  /\ End(c)
  /\ UNCHANGED store

Stop(c) ==
  /\ At(c, "idle")
  /\ Admitted("Stop")
  /\ Invoke(Plain("Stop", c))
  /\ End(c)
  /\ UNCHANGED store

\* restart and remove stop the runtime only if its status is Running
StopIfRunning(c, op, next) ==
  /\ At(c, "idle")
  /\ IF status = "Running"
     THEN Invoke(Plain("Stop", c)) /\ Begin(c, op, "stopping", None)
     ELSE UNCHANGED vars /\ Begin(c, op, next, None)
  /\ UNCHANGED store

Restart(c) == StopIfRunning(c, "restart", "load")
Remove(c) == StopIfRunning(c, "remove", "removing")

AfterStop(c) == IF task[c].op = "remove" THEN "removing" ELSE "load"

\* one of the 20 ms polls sees the status Idle
StopSeen(c) ==
  /\ At(c, "stopping")
  /\ status = "Idle"
  /\ Go(c, AfterStop(c))
  /\ UNCHANGED <<vars, store>>

\* the last poll has not seen it: only restart_runtime gives up (the task
\* remembers that it did), the others go on as if the runtime had stopped
StopTimeout(c) ==
  /\ At(c, "stopping")
  /\ status # "Idle"
  /\ Go(c, IF task[c].op = "update" THEN "idle" ELSE AfterStop(c))
  /\ UNCHANGED <<vars, store>>

RemoveCurrent(c) ==
  /\ At(c, "removing")
  /\ store' = None
  /\ End(c)
  /\ UNCHANGED vars

\* update: status, then store_bundle; what follows depends on that status
Update(c, m) ==
  /\ At(c, "idle")
  /\ store' = m
  /\ IF status \in {"Running", "DebugPaused"} THEN Begin(c, "update", "swap", m) ELSE End(c)
  /\ UNCHANGED vars

\* load_module reads the store again, the metadata is that of this request
UpdateSwap(c) ==
  /\ At(c, "swap")
  /\ IF store # None /\ Admitted("OnlineChange")
     THEN /\ Invoke([op |-> "OnlineChange", arg |-> store, meta |-> task[c].mod, by |-> c])
          /\ Go(c, "reply")
     ELSE UNCHANGED vars /\ End(c)
  /\ UNCHANGED store

\* mutant of UpdateReply: every refusal falls back to a restart
UpdateReplyAlwaysRestarts(c) ==
  /\ task[c].at = "reply"
  /\ Return(c)
  /\ IF call[c].result = "ok" THEN End(c) ELSE Go(c, "fallback")
  /\ UNCHANGED store

\* only an incompatible layout falls back to a restart
UpdateReply(c) ==
  /\ task[c].at = "reply"
  /\ Return(c)
  /\ IF call[c].result = "incompatible" THEN Go(c, "fallback") ELSE End(c)
  /\ UNCHANGED store

\* restart_runtime: stop, tolerating a runtime that is already stopped
UpdateStop(c) ==
  /\ At(c, "fallback")
  /\ IF Admitted("Stop") THEN Invoke(Plain("Stop", c)) ELSE UNCHANGED vars
  /\ Go(c, "stopping")
  /\ UNCHANGED store

Serve(c) ==
  \/ Load(c) \/ StartCall(c) \/ StopSeen(c) \/ StopTimeout(c) \/ RemoveCurrent(c)
  \/ UpdateSwap(c) \/ UpdateReply(c) \/ UpdateStop(c)

Request(c) ==
  \/ Start(c) \/ Stop(c) \/ Restart(c) \/ Remove(c)
  \/ \E m \in Modules : Upload(c, m) \/ Update(c, m)

DebugClient(s) ==
  \/ Invoke([op |-> "DebugAttach", arg |-> s, meta |-> None, by |-> s])
  \/ \E op \in DebugOps : DebugSend(s, op)
  \/ DebugDrop(s)

Deliver(c) == Send(c)

ProgramNext ==
  \/ \E c \in Clerks : Request(c) \/ Serve(c)
  \/ RuntimeThread /\ UNCHANGED apiVars
  \/ \E c \in Callers : Deliver(c) /\ UNCHANGED apiVars
  \/ \E s \in Sessions : DebugClient(s) /\ UNCHANGED apiVars

ProgramSpec == ProgramInit /\ [][ProgramNext]_programVars

\* tokio runs every task, the runtime thread is scheduled as in FairSpec, and
\* a task suspended on the full channel gets its slot
ProgramFairSpec ==
  /\ ProgramSpec
  /\ WF_programVars(RuntimeThread /\ UNCHANGED apiVars)
  /\ SF_programVars(DrainDone /\ UNCHANGED apiVars)
  /\ \A c \in Clerks : WF_programVars(Serve(c))
  /\ \A c \in Callers : SF_programVars(Deliver(c) /\ UNCHANGED apiVars)

-----------------------------------------------------------------------------
(* Properties *)

(* Every request ends, whatever the runtime does meanwhile: a stop that is *)
(* not noticed, an engine paused in the debugger, an online change that is *)
(* refused or answered only when the pause ends.                           *)
RequestsEnd == \A c \in Clerks : task[c].at # "idle" ~> task[c].at = "idle"

\* the Stop of an update ends a run: the update waits for it or has given
\* up.  Whatever the client sent before it was taken with the change's reply.
UpdateStopTaken(c) ==
  /\ TakeStop
  /\ Head(queue) = Plain("Stop", c)
  /\ task[c].op = "update" /\ task[c].at \in {"stopping", "idle"}

(* A production engine is not stopped without need: when an update ends a  *)
(* run, the running program could not have been changed online to the new  *)
(* one.  A change that was refused for another reason (an engine paused in *)
(* the debugger, a run that was just over) must not fall back to a stop.   *)
StopsOnlyIncompatible ==
  [][\A c \in Clerks :
       UpdateStopTaken(c) => <<emod, task[c].mod>> \notin Compatible]_programVars

=============================================================================
