----------------------------- MODULE Monitoring -----------------------------
(* The runtime's shared state and the tasks that watch it: one push task and *)
(* one request loop for each WebSocket client, the HTTP variables API, and   *)
(* the synchronisation task of the OPC UA server.                            *)
(*                                                                           *)
(* The runtime thread copies the variables into the shared state after every *)
(* cycle and wakes the push tasks through a broadcast channel of bounded     *)
(* length.  Watchers read the shared state under its lock, at moments of     *)
(* their own.  They change the machine only through the command queue, from  *)
(* which the thread takes one command between two cycles.                    *)
(*                                                                           *)
(* A catalog and a set of values are functions of the machine they were made *)
(* from: the shared state and a message keep that machine, and MonitorViews  *)
(* says what a client reads.  Requests that only read (getCatalog,           *)
(* getCycleInfo, read) and those that are refused are no steps; statistics   *)
(* are left out.  The debugger is a thread that may halt and resume cycles.  *)
EXTENDS MonitorViews, TLC

CONSTANTS
    Clients,    \* WebSocket connections
    Decl,       \* Decl[p]: the declarations of program p
    Settings,   \* what to consider together, as records: progs, the programs that are
                \* started and changed to; calls, do they call their block instances
                \* and store to their STRUCTs and arrays;
                \* debug, may a debugger halt cycles; opcua, is the OPC UA server
                \* enabled; watch, names that clients subscribe to; forces, <<name,
                \* text>> that are forced; writes, <<name, variant>> that OPC UA
                \* clients write
    Capacity,   \* length of the cycle broadcast
    MaxCmds,    \* bound on commands in the queue
    MaxTasks    \* bound on writes not yet sent to the runtime

\* A program declares a name once, and the blocks it is made of.
Declared(p) ==
    /\ \A s, t \in ToSet(p.pous[1].slots) : s.n = t.n => s = t
    /\ IsFiniteSet(DOMAIN p.types)
    /\ \A s \in ToSet(p.pous[1].slots) \union UNION {ToSet(p.types[of]) : of \in DOMAIN p.types} :
          s.ty = "FB" => s.of \in DOMAIN p.types
ASSUME DeclAssumption ==
    \A d \in Settings : \A p \in d.progs : p \in DOMAIN Decl /\ p # "none" /\ Declared(Decl[p])
\* A client writes values of the types there are, within their ranges.
IsVariant(v) ==
    /\ v = Variant(v.type, v.form, v.n) /\ v.n \in Int
    /\ \/ v.type = "Boolean" /\ v.form \in {"TRUE", "FALSE"} /\ v.n = 0
       \/ v.type = "String"
       \/ v.type \in {"Float", "Double"} /\ v.form = "number"
       \/ v.type = "Int64" /\ v.form = "number" /\ InLong(v.n)
       \/ IsSigned(v.type) /\ v.form = "number" /\ v.n \in -Half(v.type)..(Half(v.type) - 1)
       \/ IsUnsigned(v.type) /\ v.form = "number" /\ v.n \in 0..(2 * Half(v.type) - 1)
ASSUME WritesAssumption == \A d \in Settings : \A w \in d.writes : IsVariant(w[2])

VARIABLES
    set,    \* the setting of this behaviour
    rt,     \* shared RuntimeState: [status, catalog, seen]
    eng,    \* the engine's machine: [prog, ran, forced]
    pc,     \* where the runtime thread is
    cmds,   \* its command queue
    ws,     \* ws[c]: a connection and its push task
    opc     \* the OPC UA server

vars == <<set, rt, eng, pc, cmds, ws, opc>>

None == "none"
NoMachine == [prog |-> None, ran |-> FALSE, forced |-> <<>>]
NoVariant == Variant(None, None, 0)
Catalogs == [p \in DOMAIN Decl |-> MonitorableCatalog(Decl[p])]
Catalog(p) == IF p = None THEN <<>> ELSE Catalogs[p]
AllVariables(machine) ==
    IF machine.prog = None THEN {} ELSE MonitorableVariables(machine, Decl[machine.prog])

Closed == [up |-> FALSE, subs |-> {}, back |-> 0, push |-> "ended", hot |-> FALSE,
           busy |-> FALSE, lagged |-> FALSE, msg |-> [seen |-> NoMachine, subs |-> {}]]

Init ==
    /\ set \in Settings
    /\ rt = [status |-> "Idle", catalog |-> None, seen |-> NoMachine]
    /\ eng = NoMachine
    /\ pc = "idle"
    /\ cmds = <<>>
    /\ ws = [c \in Clients |-> Closed]
    /\ opc = [pc |-> IF set.opcua THEN "build" ELSE "off", prev |-> None, tracked |-> {}, nodes |-> <<>>, status |-> "Idle",
              tasks |-> {}, raced |-> FALSE]

\* --- The runtime thread -------------------------------------------------------

\* Started over the API or at boot.
Start(p) ==
    /\ pc = "idle" /\ cmds = <<>>
    /\ rt' = [rt EXCEPT !.status = "Starting"]
    /\ eng' = [NoMachine EXCEPT !.prog = p]
    /\ pc' = "starting"
    /\ UNCHANGED <<set, cmds, ws, opc>>

EngineReady ==
    /\ pc = "starting"
    /\ rt' = [rt EXCEPT !.catalog = eng.prog, !.status = "Running"]
    /\ pc' = "cycle"
    /\ UNCHANGED <<set, eng, cmds, ws, opc>>

RunCycle ==
    /\ pc = "cycle"
    /\ eng' = [eng EXCEPT !.ran = set.calls]
    /\ rt' = [rt EXCEPT !.seen = eng']
    /\ pc' = "notify"
    /\ UNCHANGED <<set, cmds, ws, opc>>

CycleFails ==
    /\ pc = "cycle"
    /\ pc' = "failed"
    /\ UNCHANGED <<set, rt, eng, cmds, ws, opc>>

CycleHalts ==
    /\ pc = "cycle" /\ set.debug
    /\ pc' = "paused"
    /\ rt' = [rt EXCEPT !.status = "DebugPaused"]
    /\ UNCHANGED <<set, eng, cmds, ws, opc>>

Resume ==
    /\ pc = "paused"
    /\ pc' = "cycle"
    /\ rt' = [rt EXCEPT !.status = "Running"]
    /\ UNCHANGED <<set, eng, cmds, ws, opc>>

\* A receiver that is Capacity behind loses its oldest notification.
Notify ==
    /\ pc = "notify"
    /\ ws' = [c \in Clients |->
                IF ws[c].push = "ended" THEN ws[c]
                ELSE [ws[c] EXCEPT !.back = IF @ > Capacity THEN @ ELSE @ + 1]]
    /\ pc' = "poll"
    /\ UNCHANGED <<set, rt, eng, cmds, opc>>

Answered(by) == IF by \in Clients THEN [ws EXCEPT ![by].busy = FALSE] ELSE ws

\* Whatever the name, the value is entered among the forced ones; the width of
\* the variable is applied where it is stored.
HandleForce(cmd) ==
    [eng EXCEPT !.forced =
        [n \in DOMAIN @ \union {cmd.name} |->
           IF n = cmd.name THEN [value |-> ParseValueString(cmd.text), from |-> cmd.from] ELSE @[n]]]

\* What a command taken by the running thread does.
Apply(cmd, paused) ==
    CASE cmd.op = "force" -> HandleForce(cmd)
      [] cmd.op = "unforce" -> [eng EXCEPT !.forced = Restrict(@, DOMAIN @ \ {cmd.name})]
      [] cmd.op = "change" /\ ~ paused -> [eng EXCEPT !.prog = cmd.prog]
      [] OTHER -> eng

Poll ==
    /\ pc \in {"poll", "paused"} /\ cmds # <<>>
    /\ LET cmd == Head(cmds)
           paused == pc = "paused"
       IN /\ eng' = Apply(cmd, paused)
          /\ rt' = [rt EXCEPT !.catalog = IF cmd.op = "change" /\ ~ paused THEN cmd.prog ELSE @]
          /\ ws' = Answered(cmd.by)
          /\ pc' = CASE cmd.op = "stop" -> "stopped"
                     [] paused -> "paused"
                     [] OTHER -> "cycle"
    /\ cmds' = Tail(cmds)
    /\ UNCHANGED <<set, opc>>

PollEmpty ==
    /\ pc = "poll" /\ cmds = <<>>
    /\ pc' = "cycle"
    /\ UNCHANGED <<set, rt, eng, cmds, ws, opc>>

Exit ==
    /\ pc \in {"stopped", "failed"}
    /\ rt' = [status |-> IF pc = "failed" THEN "Error" ELSE "Idle",
              catalog |-> None, seen |-> NoMachine]
    /\ eng' = NoMachine
    /\ pc' = "idle"
    /\ UNCHANGED <<set, cmds, ws, opc>>

\* Without a program a command is answered with an error or ignored.
IdleCommand ==
    /\ pc = "idle" /\ cmds # <<>>
    /\ ws' = Answered(Head(cmds).by)
    /\ cmds' = Tail(cmds)
    /\ UNCHANGED <<set, rt, eng, pc, opc>>

Runtime == EngineReady \/ RunCycle \/ Notify \/ Poll \/ PollEmpty \/ Exit \/ IdleCommand

Command(op, by) == [op |-> op, by |-> by, prog |-> None, name |-> <<>>,
                    text |-> Text(None, 0), from |-> NoVariant]
ForceVariable(name, text, from, by) ==
    [Command("force", by) EXCEPT !.name = name, !.text = text, !.from = from]
UnforceVariable(name, by) == [Command("unforce", by) EXCEPT !.name = name]

Send(cmd) == Len(cmds) < MaxCmds /\ cmds' = Append(cmds, cmd)

\* Stop and online change come from the program API.
SendStop ==
    /\ rt.status = "Running"
    /\ Send(Command("stop", None))
    /\ UNCHANGED <<set, rt, eng, pc, ws, opc>>

SendChange(p) ==
    /\ rt.status = "Running" /\ rt.catalog # p
    /\ Send([Command("change", None) EXCEPT !.prog = p])
    /\ UNCHANGED <<set, rt, eng, pc, ws, opc>>

\* --- A WebSocket client ---------------------------------------------------------

Connect(c) ==
    /\ ~ ws[c].up /\ set.watch # {}
    /\ ws' = [ws EXCEPT ![c] = [Closed EXCEPT !.up = TRUE, !.push = "wait"]]
    /\ UNCHANGED <<set, rt, eng, pc, cmds, opc>>

\* The request loop ends and aborts the push task.
Disconnect(c) ==
    /\ ws[c].up /\ ~ ws[c].busy
    /\ ws' = [ws EXCEPT ![c] = Closed]
    /\ UNCHANGED <<set, rt, eng, pc, cmds, opc>>

Subscribe(c, name) ==
    /\ ws[c].up /\ ~ ws[c].busy
    /\ ws' = [ws EXCEPT ![c].subs = @ \union {name}]
    /\ UNCHANGED <<set, rt, eng, pc, cmds, opc>>

Unsubscribe(c, name) ==
    /\ ws[c].up /\ ~ ws[c].busy /\ name \in ws[c].subs
    /\ ws' = [ws EXCEPT ![c].subs = @ \ {name}]
    /\ UNCHANGED <<set, rt, eng, pc, cmds, opc>>

\* The loop reads no further request until the runtime has answered.
WsForce(c, name, text) ==
    /\ ws[c].up /\ ~ ws[c].busy
    /\ rt.status \in {"Running", "DebugPaused"}
    /\ Send(ForceVariable(name, text, NoVariant, c))
    /\ ws' = [ws EXCEPT ![c].busy = TRUE]
    /\ UNCHANGED <<set, rt, eng, pc, opc>>

WsUnforce(c, name) ==
    /\ ws[c].up /\ ~ ws[c].busy
    /\ Send(UnforceVariable(name, c))
    /\ ws' = [ws EXCEPT ![c].busy = TRUE]
    /\ UNCHANGED <<set, rt, eng, pc, opc>>

WsResetStats(c) ==
    /\ ws[c].up /\ ~ ws[c].busy
    /\ Send(Command("reset", None))
    /\ UNCHANGED <<set, rt, eng, pc, ws, opc>>

\* The HTTP handlers ask for a running program before they send.
HttpForce(name, text) ==
    /\ rt.status \in {"Running", "DebugPaused"}
    /\ Send(ForceVariable(name, text, NoVariant, None))
    /\ UNCHANGED <<set, rt, eng, pc, ws, opc>>

HttpUnforce(name) ==
    /\ rt.status \in {"Running", "DebugPaused"}
    /\ Send(UnforceVariable(name, None))
    /\ UNCHANGED <<set, rt, eng, pc, ws, opc>>

\* --- The push task ----------------------------------------------------------------

\* A notification wakes the task unless it pushed within the last 50 ms.
PushReceive(c) ==
    /\ ws[c].push = "wait" /\ ws[c].back \in 1..Capacity
    /\ ws' = [ws EXCEPT ![c].back = @ - 1, ![c].push = IF ws[c].hot THEN "wait" ELSE "build"]
    /\ UNCHANGED <<set, rt, eng, pc, cmds, opc>>

\* Any error of the receiver ends the task, that it fell behind as well.
PushLagged(c) ==
    /\ ws[c].push = "wait" /\ ws[c].back > Capacity
    /\ ws' = [ws EXCEPT ![c].back = 0, ![c].push = "ended", ![c].lagged = TRUE]
    /\ UNCHANGED <<set, rt, eng, pc, cmds, opc>>

\* mutant of PushSkip: a wake-up without subscriptions ends the task
PushSkipEnds(c) ==
    /\ ws[c].push = "build" /\ ws[c].subs = {}
    /\ ws' = [ws EXCEPT ![c].push = "ended"]
    /\ UNCHANGED <<set, rt, eng, pc, cmds, opc>>
PushSkip(c) ==
    /\ ws[c].push = "build" /\ ws[c].subs = {}
    /\ ws' = [ws EXCEPT ![c].push = "wait"]
    /\ UNCHANGED <<set, rt, eng, pc, cmds, opc>>

PushBuild(c) ==
    /\ ws[c].push = "build" /\ ws[c].subs # {}
    /\ ws' = [ws EXCEPT ![c].push = "send", ![c].msg = [seen |-> rt.seen, subs |-> ws[c].subs]]
    /\ UNCHANGED <<set, rt, eng, pc, cmds, opc>>

PushSend(c) ==
    /\ ws[c].push = "send"
    /\ ws' = [ws EXCEPT ![c].push = "wait", ![c].hot = TRUE, ![c].msg = Closed.msg]
    /\ UNCHANGED <<set, rt, eng, pc, cmds, opc>>

PushStep(c) == PushReceive(c) \/ PushLagged(c) \/ PushSkip(c) \/ PushBuild(c) \/ PushSend(c)

ThrottleEnds(c) ==
    /\ ws[c].hot
    /\ ws' = [ws EXCEPT ![c].hot = FALSE]
    /\ UNCHANGED <<set, rt, eng, pc, cmds, opc>>

\* --- The OPC UA server ---------------------------------------------------------------

\* A node: its type, its value, and (for the properties) the client's write
\* that the value goes back to, the program that shows it and its type there.
FreshNodes(catalog) ==
    LET types == BuildNodes(catalog)
    IN [id \in DOMAIN types |->
          [ty |-> types[id], val |-> DefaultValueForType(types[id]),
           from |-> NoVariant, of |-> None, as |-> None]]

OpcBuild ==
    /\ opc.pc = "build"
    /\ opc' = [opc EXCEPT !.pc = "start", !.nodes = FreshNodes(Catalog(rt.catalog)), !.prev = rt.catalog]
    /\ UNCHANGED <<set, rt, eng, pc, cmds, ws>>

\* The task reads the catalog again and takes it for the one the nodes were
\* built from.
SyncStart ==
    /\ opc.pc = "start"
    /\ opc' = [opc EXCEPT !.pc = "catalog", !.prev = rt.catalog,
                          !.tracked = TrackedIds(Catalog(rt.catalog)),
                          !.raced = opc.prev # rt.catalog]
    /\ UNCHANGED <<set, rt, eng, pc, cmds, ws>>

\* mutant of CatalogChanged: only the number of entries is compared
CatalogGrown(prev, current) == Len(prev) # Len(current)
CatalogChanged(prev, current) ==
    \/ Len(prev) # Len(current)
    \/ \E i \in DOMAIN prev : prev[i].name # current[i].name \/ prev[i].ty # current[i].ty

\* Nodes that were not tracked stay, and keep new ones from being inserted.
RebuildAddressSpace(catalog) ==
    LET kept == DOMAIN opc.nodes \ opc.tracked
        fresh == FreshNodes(catalog)
    IN [id \in kept \union DOMAIN fresh |-> IF id \in kept THEN opc.nodes[id] ELSE fresh[id]]

SyncCatalog ==
    /\ opc.pc = "catalog"
    /\ LET catalog == Catalog(rt.catalog)
       IN opc' = IF CatalogChanged(Catalog(opc.prev), catalog)
                 THEN [opc EXCEPT !.pc = "values", !.nodes = RebuildAddressSpace(catalog),
                                  !.status = "Idle", !.tracked = TrackedIds(catalog), !.prev = rt.catalog]
                 ELSE [opc EXCEPT !.pc = "values"]
    /\ UNCHANGED <<set, rt, eng, pc, cmds, ws>>

\* A variable without a node of its own is skipped.
UpdateNodeValues(nodes, machine) ==
    LET values == AllVariables(machine)
        mine(id) == {v \in values : v.name = id}
    IN [id \in DOMAIN nodes |->
          IF mine(id) = {} \/ nodes[id].ty = "folder" THEN nodes[id]
          ELSE LET v == CHOOSE v \in mine(id) : TRUE
               IN [nodes[id] EXCEPT !.val = ParseValueToVariant(v.value, v.ty),
                                    !.from = IF v.forced THEN machine.forced[id].from ELSE NoVariant,
                                    !.of = machine.prog, !.as = v.ty]]

SyncValues ==
    /\ opc.pc = "values"
    /\ opc' = [opc EXCEPT !.pc = "status", !.nodes = UpdateNodeValues(opc.nodes, rt.seen)]
    /\ UNCHANGED <<set, rt, eng, pc, cmds, ws>>

SyncStatus ==
    /\ opc.pc = "status"
    /\ opc' = [opc EXCEPT !.pc = "catalog", !.status = rt.status]
    /\ UNCHANGED <<set, rt, eng, pc, cmds, ws>>

Sync == OpcBuild \/ SyncStart \/ SyncCatalog \/ SyncValues \/ SyncStatus

\* The client is told Good at once; a task forces the variable later.
OpcWrite(id, variant) ==
    /\ opc.pc \notin {"off", "build"}
    /\ id \in DOMAIN opc.nodes /\ opc.nodes[id].ty # "folder"
    /\ variant.type = IecTypeToOpcuaDataType(opc.nodes[id].ty)
    /\ Cardinality(opc.tasks) < MaxTasks
    /\ opc' = [opc EXCEPT !.tasks = @ \union {ForceVariable(id, VariantToValueString(variant), variant, None)}]
    /\ UNCHANGED <<set, rt, eng, pc, cmds, ws>>

\* Tasks run in any order.
OpcTask ==
    \E t \in opc.tasks :
        /\ Send(t)
        /\ opc' = [opc EXCEPT !.tasks = @ \ {t}]
        /\ UNCHANGED <<set, rt, eng, pc, ws>>

Next ==
    \/ \E p \in set.progs : Start(p) \/ SendChange(p)
    \/ SendStop \/ CycleFails \/ CycleHalts \/ Resume \/ Runtime
    \/ \E f \in set.forces : HttpForce(f[1], f[2]) \/ HttpUnforce(f[1])
    \/ \E c \in Clients :
         \/ Connect(c) \/ Disconnect(c) \/ WsResetStats(c)
         \/ \E n \in set.watch : Subscribe(c, n) \/ Unsubscribe(c, n)
         \/ \E f \in set.forces : WsForce(c, f[1], f[2]) \/ WsUnforce(c, f[1])
         \/ PushStep(c) \/ ThrottleEnds(c)
    \/ Sync \/ OpcTask
    \/ \E w \in set.writes : OpcWrite(w[1], w[2])

Spec == Init /\ [][Next]_vars

\* The thread never stops by itself; tasks that can run are run.  The steps of
\* Sync are those that change opc.pc.
Fairness ==
    /\ WF_vars(Runtime)
    /\ \A c \in Clients : WF_vars(PushStep(c)) /\ WF_vars(ThrottleEnds(c))
    /\ ([](opc.pc = "off") \/ []<><<opc'.pc # opc.pc>>_vars)
FairSpec == Spec /\ Fairness

\* --- Properties -------------------------------------------------------------------------

(* The writes that do not come back: an unsigned value beyond the signed     *)
(* range, a real with more than six decimals, a string that reads as a       *)
(* boolean, a real or, be it for its length, no 64-bit integer, or as an     *)
(* integer with a sign or zeros in front, a string for what is no STRING, a  *)
(* variable that force_variable does not find, a field of a block that is    *)
(* never called or of a STRUCT that is never stored to, and a field whose    *)
(* byte offset is beyond the values of its block.                            *)
InInstance(p, id) ==
    Len(id) = 3 /\ \E s \in ToSet(p.pous[1].slots) : s.ty \in {"FB", "STRUCT"} /\ id[2] = Field(s.n)
OutOfReach(p, id) ==
    /\ Len(id) = 3
    /\ \E s \in ToSet(p.pous[1].slots) :
         /\ s.ty = "FB" /\ id[2] = Field(s.n)
         /\ \E j \in DOMAIN p.types[s.of] :
              id[3] = Field(p.types[s.of][j].n) /\ ~ WithinState(p, s.of, j, 0)
Lossy(p, id, v, ty) ==
    \/ v.type \in LongUnsigned /\ v.n > LongMax
    \/ v.type \in {"Float", "Double"} /\ v.n % 2 # 0
    \/ v.type = "String" /\ v.form \in {"true", "short", "fixed", "digits"}
    \/ v.type = "String" /\ v.form = "int" /\ ~ InLong(v.n)
    \/ v.type = "String" /\ ty # "STRING"
    \/ ~ Forceable(p, id)
    \/ InInstance(p, id) /\ ~ set.calls
    \/ OutOfReach(p, id)

(* An OPC UA write is turned into a text, parsed without its type, forced by *)
(* a task, copied after a cycle, formatted, and parsed again for the node;   *)
(* what the node then shows as forced is the value that was written, but for *)
(* the writes listed in Lossy, unless the program that is shown by then      *)
(* declares the variable with another type.                                  *)
WritesReadBack ==
    \A id \in DOMAIN opc.nodes :
        LET node == opc.nodes[id]
        IN node.from # NoVariant =>
             \/ node.val = node.from
             \/ node.from.type # IecTypeToOpcuaDataType(node.as)
             \/ Lossy(Decl[node.of], id, node.from, node.as)

\* The types of the nodes that each program ought to have.
Layouts == [p \in DOMAIN Decl \union {None} |-> BuildNodes(Catalog(p))]

(* Once the program stays, the nodes are those of its catalog and the status *)
(* node shows its status, unless the program changed between the building of *)
(* the first nodes and the start of the task that follows the catalog.       *)
NodesMatch ==
    /\ opc.status = rt.status
    /\ [id \in DOMAIN opc.nodes |-> opc.nodes[id].ty] = Layouts[rt.catalog]
NodesFollowProgram ==
    <>[][UNCHANGED <<rt.catalog, rt.status>>]_vars => <>[](opc.pc = "off" \/ opc.raced \/ NodesMatch)

(* A client with subscriptions receives updates for as long as the program   *)
(* runs, whether it subscribed before or after the start, and whatever it    *)
(* did before; only a push task that fell behind the broadcast is excepted.  *)
UpdatesKeepComing ==
    \A c \in Clients :
        \/ []<>(ws[c].subs = {} \/ ws[c].lagged)
        \/ []<>(rt.status # "Running")
        \/ []<><<PushSend(c)>>_vars
=============================================================================
