-------------------------- MODULE RuntimeLifecycle --------------------------
(***************************************************************************)
(* What the target agent promises a client of its status API               *)
(* (RuntimeState as served by GET /status and /variables/catalog): a life  *)
(* cycle of the reported status, with the reported program and the         *)
(* published variables changing only at its well-defined points.  Threads, *)
(* channels, cycles and debug sessions are invisible at this level.        *)
(***************************************************************************)
CONSTANTS Modules, None

VARIABLES phase,    \* RuntimeState.status
          prog,     \* RuntimeState.program
          visible   \* module whose variable catalog is published, or None

view == <<phase, prog, visible>>

Init == phase = "Idle" /\ prog = None /\ visible = None

Begin(m) ==
  /\ phase \in {"Idle", "Error"}
  /\ phase' = "Starting" /\ prog' = m
  /\ UNCHANGED visible

Up ==
  /\ phase = "Starting"
  /\ phase' = "Running" /\ visible' = prog
  /\ UNCHANGED prog

\* an online change: program and variables change together
Change(m) ==
  /\ phase = "Running"
  /\ prog' = m /\ visible' = m
  /\ UNCHANGED phase

Pause ==
  /\ phase = "Running" /\ phase' = "DebugPaused"
  /\ UNCHANGED <<prog, visible>>

Resume ==
  /\ phase = "DebugPaused" /\ phase' = "Running"
  /\ UNCHANGED <<prog, visible>>

\* a stop (also out of a pause), a shutdown or a program error; an engine
\* paused in the debugger cannot fail
End(next) ==
  /\ phase \in {"Running", "DebugPaused"}
  /\ next = "Error" => phase = "Running"
  /\ phase' = next /\ visible' = None
  /\ UNCHANGED prog

Next ==
  \/ \E m \in Modules : Begin(m) \/ Change(m)
  \/ Up \/ Pause \/ Resume
  \/ \E next \in {"Idle", "Error"} : End(next)

Safety == Init /\ [][Next]_view

\* a program that was accepted comes up
Spec == Safety /\ WF_view(Up)

=============================================================================
