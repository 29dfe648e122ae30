----------------------------- MODULE DapAttach -----------------------------
(***************************************************************************)
(* One remote debug session                                                *)
(* (crates/st-target-agent/src/dap_attach_handler.rs): a TCP reader thread *)
(* and an engine event thread feed one input channel; the handler's main   *)
(* loop answers DAP requests, and for inspection requests blocks in        *)
(* wait_for_engine_response on that same channel.                          *)
(*                                                                         *)
(* The engine's end of the session is what run_cycle_loop and              *)
(* handle_debug_commands of runtime_manager.rs do with it (RuntimeManager  *)
(* models the rest of that thread).  Requests that only produce text are   *)
(* "plain"; stackTrace, variables and evaluate are "query"; next, stepIn   *)
(* and stepOut are "step".  The BreakpointsSet notice, which the handler   *)
(* only logs, is left out.                                                 *)
(***************************************************************************)
EXTENDS Naturals, Sequences

CONSTANT MaxRequests    \* bound on the requests the client sends

ASSUME DapAssumption == MaxRequests \in Nat

VARIABLES
  client,    \* "up", or "dropped" once the TCP connection is gone
  sent,      \* number of requests the client has sent
  open,      \* number of requests the client has no response to
  input,     \* the unified input channel of the main loop
  cmdq,      \* DebugCommands on their way to the engine
  evq,       \* DebugResponses on their way to the event thread
  watching,  \* the event thread is still running
  handler,   \* main loop: "recv", "wait" (for a query), "ended"
  isPaused,  \* is_paused
  asked,     \* number of the last query sent to the engine
  answer,    \* number of the query whose result was last returned
  late,      \* TRUE once a wait has timed out after 2 seconds
  attached,  \* the engine holds this session
  halted,    \* the engine is in handle_debug_commands
  mode,      \* DebugState.step_mode
  bps        \* TRUE iff a breakpoint is set

clientVars == <<client, sent>>
handlerVars == <<handler, isPaused, asked, answer, late>>
engineVars == <<attached, halted, mode, bps>>
vars == <<clientVars, open, input, cmdq, evq, watching, handlerVars, engineVars>>

\* messages; a query and its answer carry the number of the query
Msg(op, q) == [op |-> op, query |-> q]
Requests == {"continue", "step", "pause", "setBreakpoints", "query", "plain", "disconnect"}
Events   == {"Stopped", "Resumed", "Detached", "Answer"}
Closings == {"DapDisconnected", "EngineDisconnected"}
DebugCommands == {"Continue", "Step", "Pause", "SetBreakpoints", "Query", "Disconnect"}
Numbers == 0..MaxRequests

TypeOK ==
  /\ client \in {"up", "dropped"}
  /\ sent \in Numbers /\ open \in Numbers
  /\ input \in Seq([op : Requests \cup Events \cup Closings, query : Numbers])
  /\ cmdq \in Seq([op : DebugCommands, query : Numbers])
  /\ evq \in Seq([op : Events, query : Numbers])
  /\ watching \in BOOLEAN
  /\ handler \in {"recv", "wait", "ended"}
  /\ isPaused \in BOOLEAN /\ late \in BOOLEAN
  /\ asked \in Numbers /\ answer \in Numbers
  /\ attached \in BOOLEAN /\ halted \in BOOLEAN
  /\ mode \in {"Continue", "Step", "Paused"}
  /\ bps \in BOOLEAN

Init ==
  /\ client = "up" /\ sent = 0 /\ open = 0
  /\ input = <<>> /\ cmdq = <<>> /\ evq = <<>> /\ watching = TRUE
  /\ handler = "recv" /\ isPaused = FALSE /\ asked = 0 /\ answer = 0 /\ late = FALSE
  /\ attached = TRUE /\ halted = FALSE /\ mode = "Continue" /\ bps = FALSE

-----------------------------------------------------------------------------
(* The client and the two threads that feed the input channel *)

\* a request arrives and the reader thread forwards it
ClientRequest(op) ==
  /\ client = "up"
  /\ sent < MaxRequests
  /\ sent' = sent + 1
  /\ open' = open + 1
  /\ input' = Append(input, Msg(op, 0))
  /\ UNCHANGED <<client, cmdq, evq, watching, handlerVars, engineVars>>

\* end of file or a read error on the TCP stream
ClientDrop ==
  /\ client = "up"
  /\ client' = "dropped"
  /\ input' = Append(input, Msg("DapDisconnected", 0))
  /\ UNCHANGED <<sent, open, cmdq, evq, watching, handlerVars, engineVars>>

ForwardEvent ==
  /\ watching
  /\ evq # <<>>
  /\ input' = Append(input, Head(evq))
  /\ evq' = Tail(evq)
  /\ UNCHANGED <<clientVars, open, cmdq, watching, handlerVars, engineVars>>

\* the event thread finds its channel closed, reports it and ends
EventThreadEnds ==
  /\ watching
  /\ evq = <<>> /\ ~attached
  /\ watching' = FALSE
  /\ input' = Append(input, Msg("EngineDisconnected", 0))
  /\ UNCHANGED <<clientVars, open, cmdq, evq, handlerVars, engineVars>>

-----------------------------------------------------------------------------
(* The main loop *)

Take(ops) ==
  /\ input # <<>>
  /\ Head(input).op \in ops
  /\ input' = Tail(input)

\* cmd_tx.send: fails, and changes nothing, once the engine dropped its end
SendTo(cmds) == cmdq' = IF attached THEN cmdq \o cmds ELSE cmdq

Respond == open' = open - 1

\* mutant of End: the handler returns without its final Disconnect
EndWithoutDisconnect(cmds) ==
  /\ handler' = "ended"
  /\ SendTo(cmds)

\* "Ensure clean detach": a Disconnect is sent on every way out
End(cmds) ==
  /\ handler' = "ended"
  /\ SendTo(cmds \o <<Msg("Disconnect", 0)>>)

\* mutant of HandleGo: is_paused is left to the Resumed event
HandleGoKeepsPaused ==
  /\ handler = "recv"
  /\ Take({"continue", "step"})
  /\ IF isPaused
     THEN SendTo(<<Msg(IF Head(input).op = "step" THEN "Step" ELSE "Continue", 0)>>)
     ELSE UNCHANGED cmdq
  /\ Respond
  /\ UNCHANGED <<clientVars, evq, watching, handlerVars, engineVars>>

\* continue, next, stepIn and stepOut reach the engine only while is_paused
HandleGo ==
  /\ handler = "recv"
  /\ Take({"continue", "step"})
  /\ IF isPaused
     THEN SendTo(<<Msg(IF Head(input).op = "step" THEN "Step" ELSE "Continue", 0)>>)
     ELSE UNCHANGED cmdq
  /\ isPaused' = FALSE
  /\ Respond
  /\ UNCHANGED <<clientVars, evq, watching, handler, asked, answer, late, engineVars>>

HandleForward ==
  /\ handler = "recv"
  /\ Take({"pause", "setBreakpoints", "plain"})
  /\ CASE Head(input).op = "pause" -> SendTo(<<Msg("Pause", 0)>>)
       [] Head(input).op = "setBreakpoints" -> SendTo(<<Msg("SetBreakpoints", 0)>>)
       [] OTHER -> UNCHANGED cmdq
  /\ Respond
  /\ UNCHANGED <<clientVars, evq, watching, handlerVars, engineVars>>

\* a query is answered at once with nothing unless is_paused
HandleQuery ==
  /\ handler = "recv"
  /\ Take({"query"})
  /\ IF isPaused
     THEN /\ asked' = asked + 1
          /\ SendTo(<<Msg("Query", asked + 1)>>)
          /\ handler' = "wait"
          /\ UNCHANGED open
     ELSE /\ Respond
          /\ UNCHANGED <<asked, cmdq, handler>>
  /\ UNCHANGED <<clientVars, evq, watching, isPaused, answer, late, engineVars>>

HandleDisconnect ==
  /\ handler = "recv"
  /\ Take({"disconnect"})
  /\ Respond
  /\ End(<<Msg("Disconnect", 0)>>)
  /\ UNCHANGED <<clientVars, evq, watching, isPaused, asked, answer, late, engineVars>>

\* a closing notice, or an empty channel that both threads have left
HandleClosing ==
  /\ handler = "recv"
  /\ \/ Take(Closings)
     \/ input = <<>> /\ client = "dropped" /\ ~watching /\ UNCHANGED input
  /\ End(<<>>)
  /\ UNCHANGED <<clientVars, open, evq, watching, isPaused, asked, answer, late, engineVars>>

\* handle_engine_event
EngineEvent(op) ==
  isPaused' = CASE op = "Stopped" -> TRUE
                [] op \in {"Resumed", "Detached"} -> FALSE
                [] OTHER -> isPaused

HandleEvent ==
  /\ handler = "recv"
  /\ Take(Events)
  /\ EngineEvent(Head(input).op)
  /\ UNCHANGED <<clientVars, open, cmdq, evq, watching, handler, asked, answer, late, engineVars>>

-----------------------------------------------------------------------------
(* wait_for_engine_response *)

\* the first response of the right kind is taken for the answer
WaitAnswer ==
  /\ handler = "wait"
  /\ Take({"Answer"})
  /\ answer' = Head(input).query
  /\ handler' = "recv"
  /\ Respond
  /\ UNCHANGED <<clientVars, cmdq, evq, watching, isPaused, asked, late, engineVars>>

WaitEvent ==
  /\ handler = "wait"
  /\ Take(Events \ {"Answer"})
  /\ EngineEvent(Head(input).op)
  /\ UNCHANGED <<clientVars, open, cmdq, evq, watching, handler, asked, answer, late, engineVars>>

\* mutant of WaitRequest: a new request makes the wait give up
WaitRequestGivesUp ==
  /\ handler = "wait"
  /\ Take(Requests)
  /\ handler' = "recv"
  /\ Respond
  /\ UNCHANGED <<clientVars, cmdq, evq, watching, isPaused, asked, answer, late, engineVars>>

\* a request read while waiting is consumed and never looked at again
WaitRequest ==
  /\ handler = "wait"
  /\ Take(Requests)
  /\ UNCHANGED <<clientVars, open, cmdq, evq, watching, handlerVars, engineVars>>

\* the closing notice is consumed; the main loop goes on with recv
WaitClosing ==
  /\ handler = "wait"
  /\ Take(Closings)
  /\ handler' = "recv"
  /\ Respond
  /\ UNCHANGED <<clientVars, cmdq, evq, watching, isPaused, asked, answer, late, engineVars>>

WaitTimeout ==
  /\ handler = "wait"
  /\ handler' = "recv"
  /\ late' = TRUE
  /\ Respond
  /\ UNCHANGED <<clientVars, input, cmdq, evq, watching, isPaused, asked, answer, engineVars>>

-----------------------------------------------------------------------------
(* The engine's end of the session *)

Ready(ops) ==
  /\ attached
  /\ cmdq # <<>>
  /\ Head(cmdq).op \in ops

Read(ops) == Ready(ops) /\ cmdq' = Tail(cmdq)

SetBreakpoints ==
  IF Head(cmdq).op = "SetBreakpoints" THEN bps' \in BOOLEAN ELSE UNCHANGED bps

\* run_cycle_loop between cycles; commands valid only when paused are ignored
DrainCommand ==
  /\ ~halted
  /\ Read(DebugCommands \ {"Disconnect"})
  /\ SetBreakpoints
  /\ mode' = IF Head(cmdq).op = "Pause" THEN "Paused" ELSE mode
  /\ UNCHANGED <<clientVars, open, input, evq, watching, handlerVars, attached, halted>>

\* the session and its channel ends are dropped, the VM runs freely
DropSession ==
  /\ attached' = FALSE /\ cmdq' = <<>>
  /\ halted' = FALSE /\ mode' = "Continue" /\ bps' = FALSE

DrainDisconnect ==
  /\ ~halted
  /\ Ready({"Disconnect"})
  /\ evq' = Append(evq, Msg("Detached", 0))
  /\ DropSession
  /\ UNCHANGED <<clientVars, open, input, watching, handlerVars>>

\* a cycle halts at a breakpoint, after a step or at a pause request
EngineHalts ==
  /\ attached /\ ~halted
  /\ mode # "Continue" \/ bps
  /\ halted' = TRUE
  /\ mode' = "Paused"
  /\ evq' = Append(evq, Msg("Stopped", 0))
  /\ UNCHANGED <<clientVars, open, input, cmdq, watching, handlerVars, attached, bps>>

PausedResume ==
  /\ halted
  /\ Read({"Continue", "Step"})
  /\ mode' = Head(cmdq).op
  /\ halted' = FALSE
  /\ evq' = IF Head(cmdq).op = "Continue" THEN Append(evq, Msg("Resumed", 0)) ELSE evq
  /\ UNCHANGED <<clientVars, open, input, watching, handlerVars, attached, bps>>

PausedServe ==
  /\ halted
  /\ Read({"Query", "SetBreakpoints", "Pause"})
  /\ SetBreakpoints
  /\ evq' = IF Head(cmdq).op = "Query"
            THEN Append(evq, Msg("Answer", Head(cmdq).query)) ELSE evq
  /\ UNCHANGED <<clientVars, open, input, watching, handlerVars, attached, halted, mode>>

\* Disconnect, or nothing to read for 30 minutes; no Detached is sent here
PausedDetach ==
  /\ halted
  /\ Ready({"Disconnect"}) \/ cmdq = <<>>
  /\ DropSession
  /\ UNCHANGED <<clientVars, open, input, evq, watching, handlerVars>>

\* another session attaches while this one is paused, and takes its place
PausedSwap ==
  /\ attached /\ halted
  /\ evq' = Append(evq, Msg("Detached", 0))
  /\ DropSession
  /\ UNCHANGED <<clientVars, open, input, watching, handlerVars>>

\* the run ends (Stop, Shutdown, runtime error), or another session attaches
\* between cycles: the session is dropped
EngineStops ==
  /\ attached
  /\ DropSession
  /\ UNCHANGED <<clientVars, open, input, evq, watching, handlerVars>>

Handler ==
  \/ HandleGo \/ HandleForward \/ HandleQuery \/ HandleDisconnect
  \/ HandleClosing \/ HandleEvent
  \/ WaitAnswer \/ WaitEvent \/ WaitRequest \/ WaitClosing \/ WaitTimeout

\* what the engine's thread does by itself, whoever starts or stops the run
Engine ==
  DrainCommand \/ DrainDisconnect \/ PausedResume \/ PausedServe \/ PausedDetach

Next ==
  \/ \E op \in Requests : ClientRequest(op)
  \/ ClientDrop
  \/ ForwardEvent \/ EventThreadEnds
  \/ Handler
  \/ Engine \/ EngineHalts \/ EngineStops \/ PausedSwap

Spec == Init /\ [][Next]_vars

\* every thread is scheduled; the engine's pause is bounded by its timeout
FairSpec ==
  Spec /\ WF_vars(ForwardEvent) /\ WF_vars(EventThreadEnds)
       /\ WF_vars(Handler) /\ WF_vars(Engine)

-----------------------------------------------------------------------------
(* Properties *)

Quiet == input = <<>> /\ evq = <<>> /\ cmdq = <<>> /\ handler = "recv"

(* The handler's idea of the engine is right: whenever no message is on    *)
(* its way, is_paused tells whether the engine the session is attached to  *)
(* is halted.  It decides which requests reach the engine at all (continue *)
(* and the steps are dropped otherwise), so a lasting disagreement would   *)
(* leave an engine that the user can no longer resume.                     *)
InSync ==
  /\ TypeOK
  /\ Quiet /\ attached => isPaused = halted

(* As long as no wait for the engine has timed out, an inspection request  *)
(* is answered with the engine's response to that very request and never   *)
(* with an older one still in the channel (wait_for_engine_response takes  *)
(* the first response of the right kind).                                  *)
FreshAnswers == [][~late /\ answer' # answer => answer' = asked]_vars

(* A lost TCP connection ends the session for good: the handler ends (and  *)
(* with it the single-session lock is released) and the engine is free.    *)
DropReleases == client = "dropped" ~> [](handler = "ended" /\ ~attached)

(* "TCP-disconnect mid-session must release the engine": an engine halted  *)
(* by a session whose client is gone always has its release under way (a   *)
(* message in some channel), and does not sit out the 30-minute timeout.   *)
NoOrphanedPause == ~(client = "dropped" /\ halted /\ Quiet)

=============================================================================
