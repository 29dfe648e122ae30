---------------------------- MODULE LocalDebug ----------------------------
(***************************************************************************)
(* The local debug adapter (st-dap/src/server.rs) on top of the debug      *)
(* state of the machine (st-engine/src/debug.rs).  A reader thread puts    *)
(* the client's requests into a channel; the main thread takes them one at *)
(* a time, and a resume request makes it execute scan cycles itself,       *)
(* looking into the channel only between two cycles and while it sleeps.   *)
(*                                                                         *)
(* The machine is reduced to what a debugger sees of it: a stack of frames *)
(* over functions whose instructions carry a source offset (0 for none).   *)
(* Conditional jumps go either way.  Offsets are those of the concatenated *)
(* text of the library and the project's files.                            *)
(*                                                                         *)
(* The client sends a resume request only when it was told that the        *)
(* program is stopped, and Pause only while it believes that it runs.  The *)
(* channel is read nowhere but in the phases recv, poll and sleep, so what *)
(* arrives in between is let in there.                                     *)
(***************************************************************************)
EXTENDS Naturals, Sequences, FiniteSets

CONSTANTS
    Functions,        \* [kind, file, fbs, code]: fbs maps instance slots to functions
    Files,            \* line lengths of each project file, in load order
    StdlibLength,     \* length of the library text before them
    EntryPoint,       \* the function entryPoint names
    BreakLines,       \* sets of lines the client may set breakpoints on
    MaxRequests,      \* bound: requests of a session
    MaxPerCycle,      \* bound: requests a queue holds
    SafetyCycleCap,   \* SAFETY_CYCLE_CAP
    MaxInstructions   \* VmConfig::max_instructions

ASSUME LocalDebugAssumption ==
    /\ StdlibLength \in Nat \ {0} /\ SafetyCycleCap \in Nat \ {0} /\ MaxInstructions \in Nat \ {0}
    /\ EntryPoint \in 1..Len(Functions) /\ Functions[EntryPoint].kind = "program"

\* What the compiler emits: calls and instances of functions that exist, jumps within
\* a function, and a return at its end.
ASSUME FunctionsAssumption ==
    /\ Len(Functions) \in Nat
    /\ \A f \in 1..Len(Functions) :
         /\ Len(Functions[f].code) \in Nat \ {0}
         /\ \A i \in 1..Len(Functions[f].fbs) : Functions[f].fbs[i] \in 1..Len(Functions)
         /\ \A pc \in 1..Len(Functions[f].code) :
              LET ins == Functions[f].code[pc]
              IN  /\ ins.src \in Nat
                  /\ ins.op # "ret" => pc < Len(Functions[f].code)
                  /\ ins.op = "jump" => ins.to \in 1..Len(Functions[f].code)
                  /\ ins.op = "call" => ins.to \in 1..Len(Functions)
                  /\ ins.op = "callfb" => ins.slot \in 1..Len(Functions[f].fbs)

VARIABLES
    phase,     \* where the main thread is
    chan,      \* the request channel
    sent,      \* requests sent so far
    client,    \* what the client was told: init, stopped, running, failed, terminated
    stack,     \* call_stack: frames [f, pc, slot], the top one last
    count,     \* instruction_count
    inst,      \* fb_instances: which function's state each key holds
    dbg,       \* DebugState
    bps,       \* source_breakpoints
    pend,      \* pending_breakpoints, per file
    run,       \* locals of resume_execution: mode, cycles, pause, gone
    deferred,  \* deferred_requests
    refs,      \* next_var_ref, scope_refs, fb_var_refs
    seen       \* history: the resume request, the breakpoint hit last, statements passed over

vars == <<phase, chan, sent, client, stack, count, inst, dbg, bps, pend, run, deferred, refs, seen>>
machine == <<stack, count, inst>>

Resumes == {"Continue", "StepOver", "StepIn", "StepOut"}
NoRun == [mode |-> "none", cycles |-> 0, pause |-> FALSE, gone |-> FALSE]
NotSeen == [mode |-> "none", depth |-> 0, src |-> 0, here |-> FALSE, passed |-> {}, hit |-> 0]
NoSlot == 0

\* A map with the entries of new inserted.
Insert(map, new) ==
    [k \in DOMAIN map \cup DOMAIN new |-> IF k \in DOMAIN new THEN new[k] ELSE map[k]]

-----------------------------------------------------------------------------
(* Source positions *)

\* Sum of the first n elements of a sequence of numbers.
Sum(s, n) == LET f[i \in 0..n] == IF i = 0 THEN 0 ELSE f[i - 1] + s[i] IN f[n]

Length(file) == Sum(Files[file], Len(Files[file]))

\* file_virtual_offsets: the files follow the library text in load order.
VirtualOffset(file) == StdlibLength + Sum([i \in 1..Len(Files) |-> Length(i)], file - 1)

\* The offsets of a line in the concatenated text.
LineRange(file, line) ==
    LET start == VirtualOffset(file) + Sum(Files[file], line - 1)
    IN  start..(start + Files[file][line] - 1)

\* What the parser does with the text: an instruction's offset, where it has one, lies
\* in the file that declares its function.
ASSUME PositionsAssumption ==
    /\ Len(Files) \in Nat
    /\ \A file \in 1..Len(Files) :
         Len(Files[file]) \in Nat /\ \A l \in 1..Len(Files[file]) : Files[file][l] \in Nat
    /\ \A f \in 1..Len(Functions) : \A pc \in 1..Len(Functions[f].code) :
         LET src == Functions[f].code[pc].src
             start == VirtualOffset(Functions[f].file)
         IN  /\ Functions[f].file \in 1..Len(Files)
             /\ src > 0 => src \in start..(start + Length(Functions[f].file) - 1)

Before(i, j) == i[1] < j[1] \/ (i[1] = j[1] /\ i[2] < j[2])

\* set_line_breakpoints: of the functions of the file, the first instruction whose
\* offset lies in the line; a line past the end or without code has none.
LineBreakpoint(file, line) ==
    LET in == {i \in UNION {{f} \X (1..Len(Functions[f].code)) : f \in 1..Len(Functions)} :
                 /\ Functions[i[1]].file = file
                 /\ line \in 1..Len(Files[file])
                 /\ Functions[i[1]].code[i[2]].src > 0
                 /\ Functions[i[1]].code[i[2]].src \in LineRange(file, line)}
    IN  IF in = {} THEN {}
        ELSE LET i == CHOOSE i \in in : \A j \in in : i = j \/ Before(i, j)
             IN  {Functions[i[1]].code[i[2]].src}

Breakpoints(p) == UNION {UNION {LineBreakpoint(f, l) : l \in p[f]} : f \in 1..Len(Files)}

\* handle_stack_trace: a frame's line from its offset, local to its function's file.
FrameLine(frame) ==
    LET file == Functions[frame.f].file
        src == Functions[frame.f].code[frame.pc].src
        local == IF src < VirtualOffset(file) THEN 0 ELSE src - VirtualOffset(file)
        after == {l \in 1..Len(Files[file]) : Sum(Files[file], l - 1) <= local}
    IN  <<file, CHOOSE l \in after : \A k \in after : k <= l>>

-----------------------------------------------------------------------------
(* The debug state *)

NewDebugState == [mode |-> "Continue", depth |-> 0, src |-> 0, last |-> 0, reason |-> "none"]

\* resume keeps step_start_source_offset, resume_with_source sets it.
Resume(d, mode, depth) == [d EXCEPT !.mode = mode, !.depth = depth, !.reason = "none"]
ResumeWithSource(d, mode, depth, src) == [Resume(d, mode, depth) EXCEPT !.src = src]
Pause(d) == [d EXCEPT !.mode = "Paused", !.reason = "PauseRequest"]
MarkPaused(d, reason) == [d EXCEPT !.mode = "Paused", !.reason = reason]

\* mutant of Moved: the breakpoint that was hit last stays suppressed
MovedKeepsLast(d, src) == d

\* should_pause: a different statement ends the suppression of the last breakpoint.
Moved(d, src) == IF src > 0 /\ src # d.last THEN [d EXCEPT !.last = 0] ELSE d

CheckBreakpoint(d, src) == IF src > 0 /\ src \in bps /\ src # d.last THEN "Breakpoint" ELSE "none"

\* mutant of ShouldPause: stepping over stops at any depth but the callers'
ShouldPauseDeeper(d, src, depth) ==
    LET new == src > 0 /\ src # d.src
    IN  CASE d.mode = "Paused" -> "PauseRequest"
          [] d.mode = "StepIn" -> IF new THEN "Step" ELSE "none"
          [] d.mode = "StepOver" -> IF depth > d.depth /\ new THEN "Step" ELSE CheckBreakpoint(d, src)
          [] d.mode = "StepOut" -> IF depth < d.depth THEN "Step" ELSE CheckBreakpoint(d, src)
          [] d.mode = "Continue" -> CheckBreakpoint(d, src)

ShouldPause(d, src, depth) ==
    LET new == src > 0 /\ src # d.src
    IN  CASE d.mode = "Paused" -> "PauseRequest"
          [] d.mode = "StepIn" -> IF new THEN "Step" ELSE "none"
          [] d.mode = "StepOver" -> IF depth <= d.depth /\ new THEN "Step" ELSE CheckBreakpoint(d, src)
          [] d.mode = "StepOut" -> IF depth < d.depth THEN "Step" ELSE CheckBreakpoint(d, src)
          [] d.mode = "Continue" -> CheckBreakpoint(d, src)

-----------------------------------------------------------------------------
(* The machine, one instruction at a time *)

Depth == Len(stack)
Top == stack[Depth]
Ins == Functions[Top.f].code[Top.pc]
Executing == phase \in {"entry", "run"} /\ stack # <<>>
Frame(f, slot) == [f |-> f, pc |-> 1, slot |-> slot]
Goto(pc) == [stack EXCEPT ![Depth].pc = pc]
CallerIdentity == <<Top.slot, Top.f>>

Program == CHOOSE f \in 1..Len(Functions) :
    /\ Functions[f].kind = "program"
    /\ \A g \in 1..(f - 1) : Functions[g].kind # "program"

\* current_frame offset, 0 when no frame is left.
SourceOffset == IF stack = <<>> THEN 0 ELSE Ins.src

\* handle_launch runs to the first statement and reports the stop in any case.
\* In resume_execution a halt ends the run with a Stopped event.
Halt ==
    LET d == Moved(dbg, Ins.src)
        reason == ShouldPause(d, Ins.src, Depth)
    IN  /\ Executing
        /\ reason # "none"
        /\ dbg' = [MarkPaused(d, reason) EXCEPT !.last = IF reason = "Breakpoint" THEN Ins.src ELSE @]
        /\ phase' = IF phase = "entry" THEN "recv" ELSE "drain"
        /\ client' = "stopped"
        /\ seen' = [seen EXCEPT !.hit = IF reason = "Breakpoint" THEN Ins.src ELSE @]
        /\ UNCHANGED <<chan, sent, machine, bps, pend, run, deferred, refs>>

\* The first instruction of a statement: the compiler gives its offset to that one and
\* to the store at its end.
Begins == Ins.src > 0 /\ \A pc \in 1..(Top.pc - 1) : Functions[Top.f].code[pc].src # Ins.src

\* Whether a step is to stop at a statement begun here; a step from between two cycles
\* is one of the program.
StepConcerns ==
    \/ seen.mode = "StepIn"
    \/ seen.mode = "StepOver" /\ (Depth <= seen.depth \/ Depth = 1)
    \/ seen.mode = "StepOut" /\ Depth < seen.depth

\* The instruction about to be executed, noted for the properties: here, execution goes
\* on with the instruction it was stopped at; passed, the statements begun without a
\* stop that the step is about; hit, the last breakpoint stop, until another statement
\* is executed.
Note ==
    [seen EXCEPT !.here = FALSE,
                 !.passed = IF Begins /\ StepConcerns /\ ~seen.here THEN @ \cup {Ins.src} ELSE @,
                 !.hit = IF Ins.src > 0 /\ Ins.src # @ THEN 0 ELSE @]

Execute ==
    /\ Executing
    /\ ShouldPause(Moved(dbg, Ins.src), Ins.src, Depth) = "none"
    /\ count < MaxInstructions
    /\ count' = count + 1
    /\ dbg' = Moved(dbg, Ins.src)
    /\ seen' = Note
    /\ \/ Ins.op = "op" /\ stack' = Goto(Top.pc + 1) /\ inst' = inst
       \/ Ins.op = "jump" /\ inst' = inst /\ \E pc \in {Top.pc + 1, Ins.to} : stack' = Goto(pc)
       \/ Ins.op = "call" /\ inst' = inst
          /\ stack' = Append(Goto(Top.pc + 1), Frame(Ins.to, NoSlot))
       \/ Ins.op = "callfb"
          /\ inst' = Insert(inst, [k \in {<<CallerIdentity, Ins.slot>>} |-> Functions[Top.f].fbs[Ins.slot]])
          /\ stack' = Append(Goto(Top.pc + 1), Frame(Functions[Top.f].fbs[Ins.slot], Ins.slot))
       \/ Ins.op = "ret" /\ stack' = SubSeq(stack, 1, Depth - 1) /\ inst' = inst
    /\ UNCHANGED <<phase, chan, sent, client, bps, pend, run, deferred, refs>>

\* The instruction limit ends the run with Terminated; the frames stay.  Before the
\* first statement there are only the initial values, far fewer than the limit.
ExecutionLimit ==
    /\ Executing /\ phase = "run"
    /\ ShouldPause(Moved(dbg, Ins.src), Ins.src, Depth) = "none"
    /\ count >= MaxInstructions
    /\ dbg' = Moved(dbg, Ins.src)
    /\ stack' = Goto(Top.pc + 1)
    /\ phase' = "drain"
    /\ client' = "terminated"
    /\ UNCHANGED <<chan, sent, count, inst, bps, pend, run, deferred, refs, seen>>

-----------------------------------------------------------------------------
(* Requests *)

NoBreakpoints == [f \in 1..Len(Files) |-> {}]

Init ==
    /\ phase = "recv" /\ chan = <<>> /\ sent = 0 /\ client = "init"
    /\ stack = <<>> /\ count = 0 /\ inst = <<>>
    /\ dbg = NewDebugState /\ bps = {} /\ pend = NoBreakpoints
    /\ run = NoRun /\ deferred = <<>>
    /\ refs = [next |-> 1000, globals |-> {}, fbs |-> <<>>] /\ seen = NotSeen

\* One request per kind may wait; nothing follows a Disconnect.
Waiting == {chan[i].c : i \in 1..Len(chan)} \cup {deferred[i].c : i \in 1..Len(deferred)}

Requests ==
    [c : {"Launch", "Pause", "Disconnect", "Scopes"} \cup Resumes]
      \cup [c : {"SetBreakpoints"}, file : 1..Len(Files), lines : BreakLines]
      \cup [c : {"Variables", "Evaluate"}, ref : {1000, 1001, 1002, 1003}]

Allowed(q) ==
    CASE q.c = "Launch" -> client = "init"
      [] q.c \in Resumes -> client = "stopped" /\ Waiting \cap Resumes = {}
      [] q.c = "Pause" -> client = "running"
      [] q.c \in {"Scopes", "Variables"} -> client = "stopped"
      [] q.c \in {"SetBreakpoints", "Evaluate"} -> client \in {"stopped", "running"}
      [] q.c = "Disconnect" -> client # "init"

Send(q) ==
    /\ phase \in {"recv", "poll", "sleep"}
    /\ sent < MaxRequests /\ Len(chan) < MaxPerCycle
    /\ q.c \notin Waiting /\ "Disconnect" \notin Waiting
    /\ Allowed(q)
    /\ chan' = Append(chan, q)
    /\ sent' = sent + 1
    /\ UNCHANGED <<phase, client, machine, dbg, bps, pend, run, deferred, refs, seen>>

\* handle_launch: the project may fail to load, parse or compile, or have no program.
LaunchFails ==
    /\ client' = "failed" /\ phase' = "recv"
    /\ UNCHANGED <<machine, dbg, bps, pend, refs, seen, run>>

HandleLaunch ==
    /\ stack' = <<Frame(EntryPoint, NoSlot)>> /\ count' = 0 /\ inst' = <<>>
    /\ dbg' = Resume(NewDebugState, "StepIn", 0) /\ bps' = {}
    /\ phase' = "entry"
    /\ UNCHANGED <<client, pend, refs, seen, run>>

\* handle_set_breakpoints: one file's lines are replaced, then all files are set again.
HandleSetBreakpoints(q) ==
    LET p == [pend EXCEPT ![q.file] = q.lines] IN pend' = p /\ bps' = Breakpoints(p)

\* References to the instances of a frame or of an instance, from id on: the caller
\* identity and slot they are stored under and the function whose fields are shown.
FbRefs(caller, f, id) ==
    LET fbs == Functions[f].fbs
    IN  [i \in id..(id + Len(fbs) - 1) |-> [caller |-> caller, slot |-> i - id + 1, f |-> fbs[i - id + 1]]]

AddRefs(r) == [refs EXCEPT !.next = @ + Cardinality(DOMAIN r), !.fbs = Insert(@, r)]

HandleScopes ==
    refs' = [refs EXCEPT !.next = @ + 2, !.globals = @ \cup {refs.next + 1}]

\* mutant of NestedCaller: a nested instance is looked up under its parent's caller
NestedCallerOfParent(r) == r.caller

NestedCaller(r) == <<r.slot, r.f>>

\* handle_variables: an instance's fields, the globals, or by default the locals.
HandleVariables(ref) ==
    refs' = CASE ref \in DOMAIN refs.fbs ->
                   AddRefs(FbRefs(NestedCaller(refs.fbs[ref]), refs.fbs[ref].f, refs.next))
              [] ref \notin DOMAIN refs.fbs /\ ref \notin refs.globals /\ stack # <<>> ->
                   AddRefs(FbRefs(CallerIdentity, Top.f, refs.next))
              [] OTHER -> refs

\* handle_evaluate on the name of an instance local of the top frame.
HandleEvaluate ==
    refs' = IF stack # <<>> /\ Functions[Top.f].fbs # <<>>
            THEN [refs EXCEPT !.next = @ + 1,
                    !.fbs = Insert(@, [i \in {refs.next} |->
                              [caller |-> CallerIdentity, slot |-> 1, f |-> Functions[Top.f].fbs[1]]])]
            ELSE refs

\* handle_request for everything but Launch and the resume requests.
HandleRequest(q) ==
    CASE q.c = "SetBreakpoints" -> HandleSetBreakpoints(q) /\ UNCHANGED <<dbg, refs>>
      [] q.c = "Pause" -> dbg' = Pause(dbg) /\ UNCHANGED <<bps, pend, refs>>
      [] q.c = "Scopes" -> HandleScopes /\ UNCHANGED <<dbg, bps, pend>>
      [] q.c = "Variables" -> HandleVariables(q.ref) /\ UNCHANGED <<dbg, bps, pend>>
      [] q.c = "Evaluate" -> HandleEvaluate /\ UNCHANGED <<dbg, bps, pend>>
      [] OTHER -> UNCHANGED <<dbg, bps, pend, refs>>

\* The main loop takes a request that does not run the program.
Receive ==
    /\ phase = "recv" /\ chan # <<>>
    /\ chan' = Tail(chan)
    /\ \/ Head(chan).c = "Launch" /\ (LaunchFails \/ HandleLaunch)
       \/ /\ Head(chan).c \notin Resumes \cup {"Launch"}
          /\ HandleRequest(Head(chan))
          /\ phase' = IF Head(chan).c = "Disconnect" THEN "exited" ELSE "recv"
          /\ UNCHANGED <<machine, client, seen, run>>
    /\ UNCHANGED <<sent, deferred>>

\* A resume request: the response goes out first, then resume_execution starts; the
\* references handed out at the last stop are dropped.
ReceiveResume ==
    /\ phase = "recv" /\ chan # <<>> /\ Head(chan).c \in Resumes
    /\ chan' = Tail(chan)
    /\ client' = "running"
    /\ phase' = "start"
    /\ refs' = [refs EXCEPT !.globals = {}, !.fbs = <<>>]
    /\ dbg' = ResumeWithSource(dbg, Head(chan).c, Depth, SourceOffset)
    /\ run' = [NoRun EXCEPT !.mode = Head(chan).c]
    /\ seen' = [mode |-> Head(chan).c, depth |-> Depth, src |-> SourceOffset,
                here |-> stack # <<>>, passed |-> {}, hit |-> seen.hit]
    /\ UNCHANGED <<sent, machine, bps, pend, deferred>>

-----------------------------------------------------------------------------
(* resume_execution *)

\* mutant of FreshCycle: a pause that came between two cycles is forgotten
FreshCycleClearsPause ==
    /\ dbg' = ResumeWithSource(dbg, run.mode, 0, 0)
    /\ stack' = <<Frame(Program, NoSlot)>> /\ count' = 0

FreshCycle ==
    /\ dbg' = IF dbg.mode = "Paused" THEN dbg ELSE ResumeWithSource(dbg, run.mode, 0, 0)
    /\ stack' = <<Frame(Program, NoSlot)>> /\ count' = 0

\* step_one_dap_iteration: goes on with the cycle in flight or starts a fresh one.
StepIteration ==
    /\ phase = "start"
    /\ phase' = "run"
    /\ IF stack # <<>> THEN UNCHANGED <<dbg, stack, count>> ELSE FreshCycle
    /\ UNCHANGED <<chan, sent, client, inst, bps, pend, run, deferred, refs, seen>>

\* A completed cycle: a step wraps around into the next cycle, Continue looks into
\* the channel.  At launch a program without statements runs to its end.
CycleCompleted ==
    /\ phase \in {"entry", "run"} /\ stack = <<>>
    /\ IF phase = "entry"
       THEN phase' = "recv" /\ client' = "stopped" /\ run' = run
       ELSE /\ client' = client
            /\ phase' = IF run.mode = "Continue" THEN "poll" ELSE "start"
            /\ run' = [run EXCEPT !.cycles = IF @ < SafetyCycleCap THEN @ + 1 ELSE @,
                                  !.mode = IF @ = "Continue" THEN @ ELSE "StepIn"]
    /\ UNCHANGED <<chan, sent, machine, dbg, bps, pend, deferred, refs, seen>>

\* process_inflight_requests: breakpoints and evaluations are done at once, the
\* others wait for the end of the run; Pause is applied and kept as well.
InflightRequest ==
    /\ phase \in {"poll", "sleep"} /\ chan # <<>>
    /\ chan' = Tail(chan)
    /\ LET q == Head(chan)
       IN  /\ IF q.c \in {"Pause", "SetBreakpoints", "Evaluate"}
              THEN HandleRequest(q) ELSE UNCHANGED <<dbg, bps, pend, refs>>
           /\ deferred' = IF q.c \in {"SetBreakpoints", "Evaluate"} THEN deferred ELSE Append(deferred, q)
           /\ run' = [run EXCEPT !.pause = @ \/ q.c = "Pause", !.gone = @ \/ q.c = "Disconnect"]
    /\ UNCHANGED <<phase, sent, client, machine, seen>>

\* Between two cycles: a pause ends the run with Stopped, a Disconnect without; the
\* sleep is left out when the cycle took the whole period.
PollDone ==
    /\ phase = "poll" /\ chan = <<>>
    /\ run' = [run EXCEPT !.pause = FALSE, !.gone = FALSE]
    /\ CASE run.pause -> phase' = "drain" /\ client' = "stopped"
         [] ~run.pause /\ run.gone -> phase' = "drain" /\ client' = client
         [] OTHER -> phase' \in {"sleep", "capped"} /\ client' = client
    /\ UNCHANGED <<chan, sent, machine, dbg, bps, pend, deferred, refs, seen>>

\* interruptible_sleep: a Pause or a Disconnect ends the sleep and the loop goes on.
SleepDone ==
    /\ phase = "sleep" /\ chan = <<>>
    /\ phase' = IF run.pause \/ run.gone THEN "start" ELSE "capped"
    /\ run' = [run EXCEPT !.pause = FALSE, !.gone = FALSE]
    /\ UNCHANGED <<chan, sent, client, machine, dbg, bps, pend, deferred, refs, seen>>

CycleCap ==
    /\ phase = "capped"
    /\ IF run.cycles >= SafetyCycleCap
       THEN phase' = "drain" /\ client' = "terminated"
       ELSE phase' = "start" /\ client' = client
    /\ UNCHANGED <<chan, sent, machine, dbg, bps, pend, run, deferred, refs, seen>>

\* mutant of HandleDeferred: a Disconnect put aside is answered and nothing else
HandleDeferredStays ==
    /\ phase = "drain"
    /\ IF deferred = <<>>
       THEN phase' = "recv" /\ UNCHANGED <<deferred, dbg, bps, pend, refs>>
       ELSE HandleRequest(Head(deferred)) /\ deferred' = Tail(deferred) /\ phase' = phase
    /\ run' = NoRun
    /\ UNCHANGED <<chan, sent, client, machine, seen>>

\* The main loop answers the requests put aside during the run, then looks whether
\* one of them asked to end the session.
HandleDeferred ==
    /\ phase = "drain"
    /\ IF deferred = <<>>
       THEN phase' = "recv" /\ UNCHANGED <<deferred, dbg, bps, pend, refs>>
       ELSE /\ HandleRequest(Head(deferred))
            /\ deferred' = Tail(deferred)
            /\ phase' = IF Head(deferred).c = "Disconnect" THEN "exited" ELSE phase
    /\ run' = NoRun
    /\ UNCHANGED <<chan, sent, client, machine, seen>>

Next ==
    \/ \E q \in Requests : Send(q)
    \/ Receive \/ ReceiveResume \/ StepIteration \/ CycleCompleted \/ Halt \/ Execute
    \/ ExecutionLimit \/ InflightRequest \/ PollDone \/ SleepDone \/ CycleCap \/ HandleDeferred

\* The main thread never waits but for a request.
Spec ==
    /\ Init /\ [][Next]_vars
    /\ WF_vars(Receive \/ ReceiveResume \/ StepIteration \/ CycleCompleted \/ Halt \/ Execute
                 \/ ExecutionLimit \/ InflightRequest \/ PollDone \/ SleepDone \/ CycleCap
                 \/ HandleDeferred)

-----------------------------------------------------------------------------
(* Properties *)

LocalTypeOK ==
    /\ phase \in {"recv", "entry", "start", "run", "poll", "sleep", "capped", "drain", "exited"}
    /\ client \in {"init", "stopped", "running", "failed", "terminated"}
    /\ dbg.mode \in Resumes \cup {"Paused"}
    /\ \A i \in 1..Depth : stack[i].pc \in 1..(Len(Functions[stack[i].f].code) + 1)
    /\ run.cycles \in 0..SafetyCycleCap
    /\ phase \in {"start", "run", "poll", "sleep", "capped"} => client = "running"

\* The statements a step may begin without stopping there although it is about them:
\* further executions of the one it starts at, since should_pause tells statements by
\* their offset only; all of the program's when it starts between two cycles, where the
\* depth to come back to is 0.
StepPasses ==
    CASE seen.mode = "StepOver" /\ seen.depth = 0 -> Nat
      [] seen.mode = "StepOut" -> {}
      [] OTHER -> {seen.src}

\* A step stops at the next statement: stepping in at any, stepping over at the next of
\* its own depth or above, stepping out at once in the caller, also when the cycle ends
\* on the way and the step goes on in the next one (should_pause, the wrap-around of
\* resume_execution).  "Execute one statement" (vscode-tutorial.md:321-322,
\* commands.md:274) does not hold in two cases, where the code never stops within the
\* cycle: a loop of one statement is run through by a step from that statement, and a
\* step over from between two cycles runs a whole cycle.
StepSkipsNothing ==
    [][(client = "running" /\ client' = "stopped") =>
         /\ seen.passed \subseteq StepPasses
         /\ (dbg'.reason = "Step" /\ run.cycles = 0 /\ seen.mode # "StepOut")
              => Ins.src # seen.src /\ (seen.mode = "StepOver" => seen.depth > 0)]_vars

\* No statement with a breakpoint is executed without a stop, whatever was set, stepped
\* or paused in between, but for two: the statement of the last breakpoint stop until
\* another one is executed, and the one a step into starts at.  The first is not only
\* the rest of that statement: a loop or a program of this one statement runs on for
\* ever without a second stop (last_breakpoint_offset), against "runs until the
\* breakpoint is hit again (next scan cycle)" (vscode-tutorial.md:378, commands.md:276).
\* And execution stopped by a breakpoint is at a line the client has set, in the file it
\* has set it for (set_line_breakpoints and handle_stack_trace translate between lines
\* and offsets separately).
BreakpointsStop ==
    [][/\ (stack' # stack /\ count' = count + 1 /\ phase = "run" /\ Ins.src \in bps)
            => Ins.src = seen.hit \/ (seen.mode = "StepIn" /\ Ins.src = seen.src)
       /\ (client = "running" /\ client' = "stopped" /\ dbg'.reason = "Breakpoint")
            => Ins.src # seen.hit /\ FrameLine(Top)[2] \in pend[FrameLine(Top)[1]]]_vars

\* Once a Pause has been taken from the channel no further scan cycle completes,
\* wherever it arrived: between two cycles or in the sleep (process_inflight_requests,
\* interruptible_sleep, step_one_dap_iteration).
PauseStopsRun ==
    [][run'.cycles > run.cycles => \A i \in 1..Len(deferred) : deferred[i].c # "Pause"]_vars

\* The fields shown for an instance are those of the function block whose state the
\* machine keeps under that key, for instances nested in others too (handle_variables
\* and caller_identity build the key separately).
RefsNameInstances ==
    /\ LocalTypeOK
    /\ \A id \in DOMAIN refs.fbs :
         LET r == refs.fbs[id]
         IN  <<r.caller, r.slot>> \in DOMAIN inst => inst[<<r.caller, r.slot>>] = r.f

\* A client that was told that the program runs is told of a stop or the end, or the
\* session ends: no resume request leaves both sides waiting.
RunEnds == (client = "running") ~> (client # "running" \/ phase = "exited")
=============================================================================
