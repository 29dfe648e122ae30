---------------------------- MODULE RemoteDebug ----------------------------
(***************************************************************************)
(* The runtime thread (RuntimeManager) composed with the DAP proxy         *)
(* (crates/st-target-agent/src/dap_proxy.rs): every debug client is a TCP  *)
(* connection that must win the single-session flag before its handler     *)
(* attaches, and gives it back after the handler has returned.  The        *)
(* handlers are callers of the runtime manager like the API tasks.         *)
(***************************************************************************)
EXTENDS RuntimeManager

CONSTANT ApiOps    \* the commands API tasks send in this instance

Api == Callers \ Sessions

ASSUME RemoteDebugAssumption == Sessions \subseteq Callers

VARIABLES
  active,  \* active_debug_session
  conn     \* each connection: "none", "accepted", "attaching", "cloning"
           \* (its attach call is under way), "serving", "offline" (a
           \* subprocess serves it), "left", "lost", "closed"

proxyVars == <<active, conn>>
remoteVars == <<vars, proxyVars>>

RemoteTypeOK ==
  /\ TypeOK
  /\ active \in BOOLEAN
  /\ conn \in [Sessions -> {"none", "accepted", "attaching", "cloning",
                            "serving", "offline", "left", "lost", "closed"}]

RemoteInit ==
  /\ Init
  /\ active = FALSE
  /\ conn = [s \in Sessions |-> "none"]

-----------------------------------------------------------------------------
(* run_dap_proxy_with_listener *)

\* active_debug_session.swap(true): a connection that finds it set is dropped
Accept(s) ==
  /\ conn[s] = "none"
  /\ active' = TRUE
  /\ conn' = [conn EXCEPT ![s] = IF active THEN "closed" ELSE "accepted"]
  /\ UNCHANGED vars

\* routed by the engine's status: attach to the engine, or spawn a debugger
Route(s) ==
  /\ conn[s] = "accepted"
  /\ conn' = [conn EXCEPT ![s] =
       IF status \in {"Running", "DebugPaused"} THEN "attaching" ELSE "offline"]
  /\ UNCHANGED <<vars, active>>

\* handle_dap_attach calls debug_attach, which checks the status again
Attach(s) ==
  /\ conn[s] = "attaching"
  /\ IF Admitted("DebugAttach")
     THEN /\ Invoke([op |-> "DebugAttach", arg |-> s, meta |-> None, by |-> s])
          /\ conn' = [conn EXCEPT ![s] = "cloning"]
     ELSE /\ conn' = [conn EXCEPT ![s] = "left"]
          /\ UNCHANGED vars
  /\ UNCHANGED active

\* debug_attach has returned and the stream is cloned for the reader
\* thread.  A call that failed found its channel closed: it is served the
\* way a closed session is, by leaving.
CloneStream(s) ==
  /\ conn[s] = "cloning"
  /\ dbg[s] # "pending"
  /\ conn' = [conn EXCEPT ![s] = "serving"]
  /\ UNCHANGED <<vars, active>>

\* stream.try_clone fails: the handler returns and drops its channel ends,
\* and no Disconnect is sent
CloneFails(s) ==
  /\ conn[s] = "cloning"
  /\ DebugDrop(s)
  /\ conn' = [conn EXCEPT ![s] = "lost"]
  /\ UNCHANGED active

Relay(s, op) ==
  /\ conn[s] = "serving"
  /\ DebugSend(s, op)
  /\ UNCHANGED proxyVars

\* mutant of Leave: the handler just drops its channel ends
LeaveWithoutDisconnect(s) ==
  /\ conn[s] = "serving"
  /\ dbg[s] \in {"open", "closed"}
  /\ dbg' = [dbg EXCEPT ![s] = "closed"]
  /\ conn' = [conn EXCEPT ![s] = "left"]
  /\ UNCHANGED <<sharedVars, queue, threadVars, dbgq, told, call, active>>

\* the handler ends: its client left (Disconnect is sent, then the channel
\* ends are dropped), or the engine closed the session
Leave(s) ==
  /\ conn[s] = "serving"
  /\ \/ /\ dbg[s] = "open"
        /\ dbgq' = [dbgq EXCEPT ![s] = Append(@, "Disconnect")]
        /\ dbg' = [dbg EXCEPT ![s] = "closed"]
        /\ UNCHANGED <<sharedVars, queue, threadVars, told, call>>
     \/ /\ dbg[s] = "closed"
        /\ UNCHANGED vars
  /\ conn' = [conn EXCEPT ![s] = "left"]
  /\ UNCHANGED active

OfflineEnds(s) ==
  /\ conn[s] = "offline"
  /\ conn' = [conn EXCEPT ![s] = "left"]
  /\ UNCHANGED <<vars, active>>

\* mutant of Unlock: the flag is never given back
UnlockForgotten(s) ==
  /\ conn[s] \in {"left", "lost"}
  /\ conn' = [conn EXCEPT ![s] = "closed"]
  /\ UNCHANGED <<vars, active>>

\* active_debug_session.store(false), after the handler has returned
Unlock(s) ==
  /\ conn[s] \in {"left", "lost"}
  /\ active' = FALSE
  /\ conn' = [conn EXCEPT ![s] = "closed"]
  /\ UNCHANGED vars

Proxy(s) ==
  \/ Accept(s) \/ Route(s) \/ Attach(s) \/ CloneStream(s) \/ CloneFails(s)
  \/ Leave(s) \/ OfflineEnds(s) \/ Unlock(s)
  \/ \E op \in DebugOps : Relay(s, op)

RemoteNext ==
  \/ RuntimeThread /\ UNCHANGED proxyVars
  \/ \E c \in Callers : (Send(c) \/ SendFails(c) \/ Return(c)) /\ UNCHANGED proxyVars
  \/ \E cmd \in Requests :
       cmd.by \in Api /\ cmd.op \in ApiOps /\ Invoke(cmd) /\ UNCHANGED proxyVars
  \/ \E s \in Sessions : Proxy(s)

RemoteSpec == RemoteInit /\ [][RemoteNext]_remoteVars

\* the runtime thread is scheduled as in FairSpec
RemoteFairSpec ==
  /\ RemoteSpec
  /\ WF_remoteVars(RuntimeThread /\ UNCHANGED proxyVars)
  /\ SF_remoteVars(DrainDone /\ UNCHANGED proxyVars)

-----------------------------------------------------------------------------
(* Properties *)

(* The single-session flag excludes: whatever the order of accepts, status *)
(* checks, late attach commands and disconnects, at most one connection    *)
(* holds it, and it is free again as soon as that connection is closed.    *)
OneDebugger ==
  LET holders == {s \in Sessions : conn[s] \notin {"none", "closed"}} IN
  /\ RemoteTypeOK
  /\ Cardinality(holders) <= 1
  /\ active <=> holders # {}

(* A connected debugger is served: once its attach command has been read   *)
(* and until the engine closes its channel, the runtime thread's session   *)
(* is this one; a Disconnect its predecessor left behind cannot end it.    *)
ClientIsServed ==
  \A s \in Sessions :
    /\ conn[s] \in {"cloning", "serving"} /\ dbg[s] = "open"
    /\ \A i \in DOMAIN queue : queue[i].arg # s
    => session = s

(* A debugger whose handler ran to its end is let go: the runtime thread   *)
(* comes to serve no session or another one, for good, whether it was      *)
(* running, paused, or about to read the attach command when the client    *)
(* left.  A handler that returned because it could not clone its stream    *)
(* has sent no Disconnect, and the session it leaves behind stays attached *)
(* to a running machine for as long as the run lasts and nobody else       *)
(* attaches (no clause says that it goes); what is true of it is that it   *)
(* does not hold a machine that pauses.                                    *)
LeavingFrees ==
  \A s \in Sessions :
    /\ conn[s] = "left" ~> [](session # s)
    /\ dbg[s] = "closed" /\ session = s /\ status = "DebugPaused" ~> session # s

=============================================================================
