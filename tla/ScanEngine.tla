----------------------------- MODULE ScanEngine -----------------------------
(***************************************************************************)
(* The variables of one PROGRAM through the life of an engine              *)
(* (crates/st-engine/src/engine.rs, vm.rs, retain_store.rs): global init,  *)
(* warm restart from the retain file, scan cycles that may halt in the     *)
(* debugger and resume, forcing, checkpoints, online change, stop, crash.  *)
(*                                                                         *)
(* A module is one PROGRAM with its locals and the globals; a slot carries *)
(* its type, initializer and RETAIN/PERSISTENT qualifiers.  A value is a   *)
(* variant of the enum Value with a number, [of, n]: a variable may hold a *)
(* value of another variant than its type (an Int in a REAL, stored by     *)
(* x := 1 or forced).  The initializer of at most one global fails.  The   *)
(* program's instructions are abstracted to the writes they make.  Calls,  *)
(* and the fields of structs and function blocks, are left out.            *)
(***************************************************************************)
EXTENDS OnlineChange, Integers, FiniteSetsExt

CONSTANTS Programs,    \* modules that may be started or changed to
          Values,      \* values a variable may take
          Checkpoint,  \* checkpoint_cycles (10000 in the agent)
          MaxForces,   \* bound: variables forced at a time
          Debugger,    \* a debugger may halt the program
          Referenced   \* globals that programs take references to

Default(ty) == [of |-> ty, n |-> 0]   \* Value::default_for_type
RegisterDefault == Default("INT")     \* Value::default, in every register
NoInit == [of |-> "none", n |-> 0]    \* a slot without initializer
Fails == [of |-> "error", n |-> 0]    \* an initializer that ends in a runtime error

ASSUME EngineAssumption ==
  /\ RegisterDefault \in Values
  /\ Checkpoint \in Nat \ {0}
  /\ Debugger \in BOOLEAN

VARIABLES
  alive,     \* there is an engine
  module,    \* Vm.module
  globals,   \* Vm.globals
  ran,       \* retained_locals has an entry for the program ...
  retained,  \* ... and this is it
  frame,     \* the bottom frame of the call stack
  forced,    \* forced_variables, name -> value
  fslots,    \* forced_global_slots
  moved,     \* history: forced globals that a change has moved or taken out
  counter,   \* retain_cycle_counter
  save,      \* save_retain: "no", "write", "rename"
  after,     \* what save_retain returns to: "run", "change", "stop"
  tmp,       \* the snapshot being written
  file,      \* the retain file
  pending,   \* module of the online change under way
  fresh,     \* history: no cycle has begun since the engine was built
  loaded,    \* history: until the first cycle, the retain file could be read
  kept,      \* history: RETAIN and PERSISTENT values at the last completed save
  debugged   \* history: the last cycle to complete had been halted

buildVars == <<alive, module>>
vmVars == <<globals, ran, retained, frame>>
forceVars == <<forced, fslots, moved>>
saveVars == <<counter, save, after, tmp, file, pending>>
history == <<fresh, loaded, kept, debugged>>
vars == <<buildVars, vmVars, forceVars, saveVars, history>>

Locals == FunctionOf(module, "Main").locals
LocalsOf(m) == FunctionOf(m, "Main").locals

NoFrame == [at |-> "none", locals |-> <<>>, resumed |-> FALSE]
Empty == [n \in {} |-> 0]
NoEntries == Empty

Defaults(layout) == [i \in DOMAIN layout |-> Default(layout[i].ty)]
InitOf(slot) == IF slot.init = NoInit THEN Default(slot.ty) ELSE slot.init
Inits(layout) == [i \in DOMAIN layout |-> InitOf(layout[i])]

\* what the compiler guarantees: slots with distinct names; a local is known
\* by its dotted name ("Main.x"), which no global has
ASSUME ProgramsAssumption ==
  /\ \A m \in Programs :
       /\ "Main" \in FunctionNames(m)
       /\ IsLayout(m.globals) /\ IsLayout(LocalsOf(m))
       /\ \A i \in DOMAIN LocalsOf(m) :
            Default(LocalsOf(m)[i].ty) \in Values /\ LocalsOf(m)[i].init \in Values \cup {NoInit}
       /\ \A i \in DOMAIN m.globals :
            Default(m.globals[i].ty) \in Values /\ m.globals[i].init \in Values \cup {NoInit, Fails}
       /\ \A i, j \in DOMAIN m.globals :
            m.globals[i].init = Fails /\ m.globals[j].init = Fails => i = j
  /\ \A m, p \in Programs : SlotNames(m.globals) \cap SlotNames(LocalsOf(p)) = {}

Frames == [at : {"none", "ginit", "init", "body", "halted"},
           locals : Seq(Values), resumed : BOOLEAN]

TypeOK ==
  /\ alive \in BOOLEAN /\ module \in Programs /\ pending \in Programs
  /\ globals \in [DOMAIN module.globals -> Values]
  /\ ran \in BOOLEAN
  /\ ran => retained \in [DOMAIN Locals -> Values]
  /\ frame \in Frames
  /\ frame.at \in {"init", "body", "halted"} => DOMAIN frame.locals = DOMAIN Locals
  /\ \A n \in DOMAIN forced : forced[n] \in Values
  /\ fslots \subseteq Nat
  /\ counter \in 0 .. Checkpoint - 1
  /\ save \in {"no", "write", "rename"} /\ after \in {"run", "change", "stop"}

-----------------------------------------------------------------------------
(* retain_store: capture and restore *)

Marked(slot) == slot.retain \/ slot.persistent
Entry(scope, slot, value) ==
  [scope |-> scope, value |-> value,
   retain |-> slot.retain, persistent |-> slot.persistent]

\* capture_snapshot: marked globals, and marked locals once the program ran
CapturedNames ==
  {module.globals[i].name : i \in {k \in DOMAIN module.globals : Marked(module.globals[k])}}
  \cup (IF ran THEN {Locals[i].name : i \in {k \in DOMAIN Locals : Marked(Locals[k])}} ELSE {})

\* mutant of CaptureSnapshot: locals are captured as declared, not as they are
CaptureInitialLocals ==
  [n \in CapturedNames |->
     IF n \in SlotNames(module.globals)
     THEN LET i == IndexOf(module.globals, n) IN Entry("global", module.globals[i], globals[i])
     ELSE LET i == IndexOf(Locals, n) IN Entry("local", Locals[i], InitOf(Locals[i]))]

CaptureSnapshot ==
  [n \in CapturedNames |->
     IF n \in SlotNames(module.globals)
     THEN LET i == IndexOf(module.globals, n) IN Entry("global", module.globals[i], globals[i])
     ELSE LET i == IndexOf(Locals, n) IN Entry("local", Locals[i], retained[i])]

\* restore_snapshot with warm = true, as Engine::new always calls it;
\* is_compatible compares the variant of the value with the slot's type
Restores(entry, slot) == entry.retain /\ entry.value.of = slot.ty

Restored(snapshot, scope, layout, values) ==
  [i \in DOMAIN layout |->
     IF /\ layout[i].name \in DOMAIN snapshot
        /\ snapshot[layout[i].name].scope = scope
        /\ Restores(snapshot[layout[i].name], layout[i])
     THEN snapshot[layout[i].name].value
     ELSE values[i]]

\* the snapshot has a section for the program's locals
HasLocals(snapshot) == \E n \in DOMAIN snapshot : snapshot[n].scope = "local"

-----------------------------------------------------------------------------
(* Construction and the scan cycle *)

Init ==
  /\ alive = FALSE /\ module \in Programs
  /\ globals = Defaults(module.globals)
  /\ ran = FALSE /\ retained = <<>> /\ frame = NoFrame
  /\ forced = Empty /\ fslots = {} /\ moved = {}
  /\ counter = 0 /\ save = "no" /\ after = "run"
  /\ tmp = NoEntries /\ file = NoEntries /\ pending = module
  /\ fresh = FALSE /\ loaded = FALSE /\ kept = NoEntries /\ debugged = FALSE

\* the slot whose initializer fails, past the end if none does
FailingSlot(layout) ==
  Min({i \in DOMAIN layout : layout[i].init = Fails} \cup {Len(layout) + 1})

\* Engine::new: run_global_init applies the initializers; a failure is
\* discarded, with the frame left on the stack; then the restore, unless the
\* file cannot be read or parsed, which is only logged
Build(m, ok) ==
  /\ ~alive
  /\ alive' = TRUE
  /\ module' = m
  /\ LET f == FailingSlot(m.globals)
         inits == [i \in DOMAIN m.globals |->
                     IF i < f THEN InitOf(m.globals[i]) ELSE Default(m.globals[i].ty)]
         snapshot == IF ok THEN file ELSE NoEntries
     IN /\ globals' = Restored(snapshot, "global", m.globals, inits)
        /\ frame' = IF f > Len(m.globals) THEN NoFrame ELSE [NoFrame EXCEPT !.at = "ginit"]
        /\ ran' = HasLocals(snapshot)
        /\ retained' = IF HasLocals(snapshot)
                       THEN Restored(snapshot, "local", LocalsOf(m), Defaults(LocalsOf(m)))
                       ELSE <<>>
  /\ forced' = Empty /\ fslots' = {} /\ moved' = {}
  /\ counter' = 0
  /\ fresh' = TRUE /\ loaded' = ok /\ debugged' = FALSE
  /\ UNCHANGED <<save, after, tmp, file, pending, kept>>

Running == alive /\ save = "no"

\* run_one_cycle, empty stack: Vm::run reuses the retained locals and skips
\* the initialisation preamble
CycleBegin ==
  /\ Running
  /\ frame.at = "none"
  /\ frame' = IF ran THEN [NoFrame EXCEPT !.at = "body", !.locals = retained]
              ELSE [NoFrame EXCEPT !.at = "init", !.locals = Defaults(Locals)]
  /\ fresh' = FALSE /\ loaded' = FALSE
  /\ UNCHANGED <<buildVars, globals, ran, retained, forceVars, saveVars, kept, debugged>>

\* a cycle is over: perhaps a checkpoint is due
CountCycle ==
  IF counter + 1 = Checkpoint
  THEN counter' = 0 /\ save' = "write" /\ after' = "run"
  ELSE counter' = counter + 1 /\ UNCHANGED <<save, after>>

\* run_one_cycle, frame left by a failed __global_init: execution goes on
\* behind the failed instruction, whose register holds the default, and
\* that was the cycle
CycleContinuesInit ==
  /\ Running
  /\ frame.at = "ginit"
  /\ LET f == FailingSlot(module.globals)
     IN globals' = [i \in DOMAIN globals |->
                      IF i = f THEN RegisterDefault
                      ELSE IF i > f /\ module.globals[i].init # NoInit THEN module.globals[i].init
                      ELSE globals[i]]
  /\ frame' = NoFrame
  /\ CountCycle
  /\ fresh' = FALSE /\ loaded' = FALSE
  /\ UNCHANGED <<buildVars, ran, retained, forceVars, tmp, file, pending, kept, debugged>>

InitPreamble ==
  /\ Running
  /\ frame.at = "init"
  /\ frame' = [frame EXCEPT !.at = "body", !.locals = Inits(Locals)]
  /\ UNCHANGED <<buildVars, globals, ran, retained, forceVars, saveVars, history>>

\* can_coerce: what the program may store in a variable, as it is
CanCoerce(from, to) == from = to \/ (from = "INT" /\ to = "REAL")

StoreLocal(i, v) ==
  /\ Running
  /\ frame.at = "body" /\ i \in DOMAIN frame.locals
  /\ CanCoerce(v.of, Locals[i].ty)
  /\ frame' = [frame EXCEPT !.locals[i] = v]
  /\ UNCHANGED <<buildVars, globals, ran, retained, forceVars, saveVars, history>>

\* a forced slot drops the write ...
StoreGlobal(i, v) ==
  /\ Running
  /\ frame.at = "body" /\ i \in DOMAIN globals \ fslots
  /\ CanCoerce(v.of, module.globals[i].ty)
  /\ globals' = [globals EXCEPT ![i] = v]
  /\ UNCHANGED <<buildVars, ran, retained, frame, forceVars, saveVars, history>>

\* ... but not one through a reference
DerefStore(i, v) ==
  /\ Running
  /\ frame.at = "body" /\ i \in DOMAIN globals
  /\ module.globals[i].name \in Referenced /\ CanCoerce(v.of, module.globals[i].ty)
  /\ globals' = [globals EXCEPT ![i] = v]
  /\ UNCHANGED <<buildVars, ran, retained, frame, forceVars, saveVars, history>>

\* Err(Halt), then continue_execution or, when the debugger is gone,
\* clear_call_stack
Halt ==
  /\ Running /\ Debugger
  /\ frame.at = "body"
  /\ frame' = [frame EXCEPT !.at = "halted"]
  /\ UNCHANGED <<buildVars, globals, ran, retained, forceVars, saveVars, history>>

Resume ==
  /\ Running
  /\ frame.at = "halted"
  /\ \/ frame' = [frame EXCEPT !.at = "body", !.resumed = TRUE]
     \/ frame' = NoFrame
  /\ UNCHANGED <<buildVars, globals, ran, retained, forceVars, saveVars, history>>

\* mutant of Enforced: forces of locals are not applied after the cycle
EnforcedNot(values) == values

\* enforce_retained_locals
Enforced(values) ==
  [i \in DOMAIN values |->
     IF Locals[i].name \in DOMAIN forced THEN forced[Locals[i].name] ELSE values[i]]

\* the program returns: its locals are retained; a cycle that was not
\* resumed ends with enforce_retained_locals; then perhaps a checkpoint
CycleEnd ==
  /\ Running
  /\ frame.at = "body"
  /\ ran' = TRUE
  /\ retained' = IF frame.resumed THEN frame.locals ELSE Enforced(frame.locals)
  /\ frame' = NoFrame
  /\ CountCycle
  /\ debugged' = frame.resumed
  /\ UNCHANGED <<buildVars, globals, forceVars, tmp, file, pending, fresh, loaded, kept>>

-----------------------------------------------------------------------------
(* Commands between cycles, or while the program is halted *)

Commandable == Running /\ frame.at \in {"none", "halted"} /\ ~fresh

ForceVariable(n, v) ==
  /\ Commandable
  /\ Cardinality(DOMAIN forced \cup {n}) <= MaxForces
  /\ forced' = [x \in DOMAIN forced \cup {n} |-> IF x = n THEN v ELSE forced[x]]
  /\ moved' = moved \ {n}
  /\ IF n \in SlotNames(module.globals)
     THEN /\ fslots' = fslots \cup {IndexOf(module.globals, n)}
          /\ globals' = [globals EXCEPT ![IndexOf(module.globals, n)] = v]
          /\ UNCHANGED retained
     ELSE /\ retained' = IF ran THEN [retained EXCEPT ![IndexOf(Locals, n)] = v] ELSE retained
          /\ UNCHANGED <<fslots, globals>>
  /\ UNCHANGED <<buildVars, ran, frame, saveVars, history>>

UnforceVariable(n) ==
  /\ Commandable
  /\ forced' = [x \in DOMAIN forced \ {n} |-> forced[x]]
  /\ moved' = moved \ {n}
  /\ fslots' = IF n \in SlotNames(module.globals)
               THEN fslots \ {IndexOf(module.globals, n)} ELSE fslots
  /\ UNCHANGED <<buildVars, vmVars, saveVars, history>>

\* online_change_module: the retain file is saved first; between cycles only
OnlineChangeBegins(m) ==
  /\ Commandable
  /\ frame.at = "none"
  /\ save' = "write" /\ after' = "change" /\ pending' = m
  /\ UNCHANGED <<buildVars, vmVars, forceVars, counter, tmp, file, history>>

\* runtime_thread saves when run_cycle_loop returns: on Stop between cycles
\* or while paused, and on an error in the middle of a cycle
StopBegins ==
  /\ Running
  /\ save' = "write" /\ after' = "stop"
  /\ UNCHANGED <<buildVars, vmVars, forceVars, counter, tmp, file, pending, history>>

Migrated(values, old, new) ==
  [i \in DOMAIN new |-> MigrateLocals(values, old, new, Default(new[i].ty))[i]]

\* the global is in both modules, in the same slot
Stays(n) == /\ n \in SlotNames(module.globals) \cap SlotNames(pending.globals)
            /\ IndexOf(module.globals, n) = IndexOf(pending.globals, n)

\* apply_online_change when compatible; swap_module leaves the forces and the
\* numbers of the forced slots as they are, wherever the globals go
Change ==
  IF AnalyzeChange(module, pending)
  THEN /\ module' = pending
       /\ globals' = Migrated(globals, module.globals, pending.globals)
       /\ retained' = IF ran THEN Migrated(retained, Locals, LocalsOf(pending)) ELSE retained
       /\ frame' = NoFrame
       /\ moved' = moved \cup {n \in DOMAIN forced \ SlotNames(Locals) : ~Stays(n)}
       /\ UNCHANGED <<alive, ran>>
  ELSE UNCHANGED <<buildVars, vmVars, moved>>

\* the engine is dropped
Drop ==
  /\ alive' = FALSE
  /\ globals' = Defaults(module.globals)
  /\ ran' = FALSE /\ retained' = <<>> /\ frame' = NoFrame
  /\ forced' = Empty /\ fslots' = {} /\ moved' = {}
  /\ counter' = 0
  /\ UNCHANGED module

\* save_retain has returned; what it was called for goes on
Proceed ==
  /\ save' = "no" /\ after' = "run"
  /\ pending' = module /\ tmp' = NoEntries
  /\ CASE after = "change" -> Change /\ UNCHANGED <<forced, fslots, counter>>
       [] after = "stop" -> Drop
       [] OTHER -> UNCHANGED <<buildVars, vmVars, forceVars, counter>>

\* save_to_file: the snapshot goes to a temporary file ...
SaveWrite ==
  /\ save = "write"
  /\ CapturedNames # {}
  /\ save' = "rename"
  /\ tmp' = CaptureSnapshot
  /\ UNCHANGED <<buildVars, vmVars, forceVars, counter, after, file, pending, history>>

SlotOf(n) == IF n \in SlotNames(module.globals) THEN module.globals[IndexOf(module.globals, n)]
             ELSE Locals[IndexOf(Locals, n)]
ValueOf(n) == IF n \in SlotNames(module.globals) THEN globals[IndexOf(module.globals, n)]
              ELSE retained[IndexOf(Locals, n)]

\* ... that is renamed over the old one
SaveRename ==
  /\ save = "rename"
  /\ file' = tmp
  /\ kept' = [n \in CapturedNames |-> [slot |-> SlotOf(n), value |-> ValueOf(n)]]
  /\ Proceed
  /\ UNCHANGED <<fresh, loaded, debugged>>

\* there is nothing to save, or the save fails and is only logged
SaveSkipped ==
  /\ save # "no"
  /\ Proceed
  /\ UNCHANGED <<file, history>>

\* the process dies: its files stay as they are
Crash ==
  /\ alive
  /\ Drop
  /\ save' = "no" /\ after' = "run" /\ tmp' = NoEntries /\ pending' = module
  /\ fresh' = FALSE /\ loaded' = FALSE /\ debugged' = FALSE
  /\ UNCHANGED <<file, kept>>

Declared == SlotNames(module.globals) \cup SlotNames(Locals)

Next ==
  \/ \E m \in Programs : OnlineChangeBegins(m) \/ \E ok \in BOOLEAN : Build(m, ok)
  \/ CycleBegin \/ CycleContinuesInit \/ InitPreamble \/ CycleEnd
  \/ \E i \in DOMAIN frame.locals, v \in Values : StoreLocal(i, v)
  \/ \E i \in DOMAIN globals, v \in Values : StoreGlobal(i, v) \/ DerefStore(i, v)
  \/ Halt \/ Resume
  \/ \E n \in Declared : UnforceVariable(n) \/ \E v \in Values : ForceVariable(n, v)
  \/ StopBegins \/ SaveWrite \/ SaveRename \/ SaveSkipped \/ Crash

Spec == Init /\ [][Next]_vars

-----------------------------------------------------------------------------
(* Properties *)

(* A force sticks: whatever the program, an online change or a save does   *)
(* meanwhile, a forced global of the running module keeps its forced value *)
(* until it is unforced.  There are two ways to lose it, and no other: the *)
(* program writes through a reference, or an accepted online change gives  *)
(* the global another slot number (or takes it out and brings it back):    *)
(* forced_global_slots then closes the wrong slot, while the variable is   *)
(* still reported as forced.                                               *)
ForcedGlobalsHold ==
  alive => \A i \in DOMAIN globals :
    LET n == module.globals[i].name
    IN n \in DOMAIN forced \ (Referenced \cup moved) => globals[i] = forced[n]

(* "Called by the engine after each scan cycle so forced values persist":  *)
(* between cycles the locals hold their forced values, also those forced   *)
(* before the program ever ran or while it was halted.  It holds as long   *)
(* as cycles run through: one resumed by the debugger ends without it.     *)
ForcedLocalsHold ==
  alive /\ ran /\ frame.at = "none" /\ ~debugged =>
    \A i \in DOMAIN retained :
      Locals[i].name \in DOMAIN forced => retained[i] = forced[Locals[i].name]

(* Forces, with the types of all variables.                                *)
ForcesHold == TypeOK /\ ForcedGlobalsHold /\ ForcedLocalsHold

FirstCycle == fresh /\ ~fresh' /\ alive'

\* what the body of the first cycle will find
AtFirstCycle(n) ==
  IF n \in SlotNames(module.globals) \/ ran THEN ValueOf(n) ELSE InitOf(SlotOf(n))

Initialized == FailingSlot(module.globals) > Len(module.globals)

\* saved RETAIN variables whose value is of the variant of the declared type
Survivors ==
  {n \in DOMAIN kept : loaded /\ kept[n].slot.retain /\ kept[n].value.of = SlotOf(n).ty}

\* locals come without their initializers when any local was saved: the
\* program then counts as having run, and its preamble is skipped
SkipsPreamble ==
  loaded /\ \E n \in DOMAIN kept : n \notin UNION {SlotNames(m.globals) : m \in Programs}

WarmValue(n) ==
  IF n \in Survivors THEN kept[n].value
  ELSE IF n \in SlotNames(Locals) /\ SkipsPreamble THEN Default(SlotOf(n).ty)
  ELSE InitOf(SlotOf(n))

(* A warm restart, variable by variable: a RETAIN variable enters the      *)
(* first cycle with the value it had at the last completed save, whether   *)
(* the engine was stopped, failed or was killed in the middle of a save,   *)
(* and although the program's preamble sets it, provided that the file can *)
(* be read and the value is of the variant of the declared type: a REAL    *)
(* that held an Int is not restored.  Everything else starts from its      *)
(* initializer, but for the locals of a program of which any local was     *)
(* saved: those start from the default of their type.  Globals are exposed *)
(* when a global initializer fails: the first cycle then continues the     *)
(* initialisation.                                                         *)
RetainSurvives ==
  [][FirstCycle /\ Initialized => \A n \in Declared : AtFirstCycle(n) = WarmValue(n)]_vars

=============================================================================
