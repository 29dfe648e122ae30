------------------------------ MODULE HotSwap ------------------------------
(***************************************************************************)
(* An online change applied to a VM that holds state                       *)
(* (apply_online_change, Vm::swap_module): program locals and globals are  *)
(* migrated by name, function-block instances stay under their old keys    *)
(* (program index, slot), whatever these mean in the new module.           *)
(*                                                                         *)
(* Data is abstracted to ownership: a variable holds its own value (its    *)
(* name), another's, or the type's default.                                *)
(***************************************************************************)
EXTENDS OnlineChange

CONSTANTS Modules,   \* modules that may be deployed
          Program,   \* name of the PROGRAM POU
          Default    \* the default value of any type

ASSUME HotSwapAssumption ==
  \A m \in Modules :
    /\ Program \in FunctionNames(m)
    /\ IsLayout(m.globals)
    /\ \A i \in DOMAIN m.functions : IsLayout(m.functions[i].locals)

VARIABLES module,     \* the VM's module
          locals,     \* retained_locals of the program
          globals,
          instances   \* fb_instances: (program index, slot) -> owner of the state

vars == <<module, locals, globals, instances>>

Index(m) == IndexOf(m.functions, Program)
Layout(m) == FunctionOf(m, Program).locals
Names == UNION {SlotNames(Layout(m)) \cup SlotNames(m.globals) : m \in Modules}
IsInstance(slot) == slot.ty[1] = "FB"

Defaults(layout) == [i \in DOMAIN layout |-> Default]
OwnValues(layout) == [i \in DOMAIN layout |-> layout[i].name]

TypeOK ==
  /\ module \in Modules
  /\ DOMAIN locals = DOMAIN Layout(module)
  /\ DOMAIN globals = DOMAIN module.globals
  /\ \A i \in DOMAIN locals : locals[i] \in Names \cup {Default}
  /\ \A i \in DOMAIN globals : globals[i] \in Names \cup {Default}
  /\ \A k \in DOMAIN instances : instances[k] \in Names

Init ==
  /\ module \in Modules
  /\ locals = Defaults(Layout(module))
  /\ globals = Defaults(module.globals)
  /\ instances = [k \in {} |-> Default]

\* a scan cycle in which every variable is written and every FB is called
Cycle ==
  /\ locals' = OwnValues(Layout(module))
  /\ globals' = OwnValues(module.globals)
  /\ LET keys == {<<Index(module), i>> :
                    i \in {j \in DOMAIN Layout(module) : IsInstance(Layout(module)[j])}}
     IN instances' = [k \in keys \cup DOMAIN instances |->
                        IF k \in keys THEN Layout(module)[k[2]].name ELSE instances[k]]
  /\ UNCHANGED module

\* mutant of MigrateGlobals: globals keep their slots
MigrateGlobalsByPosition(new) ==
  globals' = MigrateLocalsByPosition(globals, module.globals, new.globals, Default)

\* apply_online_change: get_global, migrate_locals
MigrateGlobals(new) ==
  globals' = MigrateLocals(globals, module.globals, new.globals, Default)

\* online_change_module with a compatible module; an incompatible one is
\* refused and changes nothing
Swap(new) ==
  /\ AnalyzeChange(module, new)
  /\ module' = new
  /\ locals' = MigrateLocals(locals, Layout(module), Layout(new), Default)
  /\ MigrateGlobals(new)
  /\ UNCHANGED instances

Next == Cycle \/ \E new \in Modules : Swap(new)

Spec == Init /\ [][Next]_vars

-----------------------------------------------------------------------------
(* Properties *)

(* No value ever lands in another variable: after any sequence of online   *)
(* changes that add, reorder and remove variables, each program local and  *)
(* global holds its own value or a default.                                *)
NoMixUp ==
  /\ \A i \in DOMAIN locals : locals[i] \in {Layout(module)[i].name, Default}
  /\ \A i \in DOMAIN globals : globals[i] \in {module.globals[i].name, Default}

\* the state a call of the instance in this slot finds under its key
StateAt(m, i, insts) ==
  IF <<Index(m), i>> \in DOMAIN insts THEN insts[<<Index(m), i>>] ELSE Default

(* What an accepted change keeps: every local of the running program is    *)
(* carried over, a plain one with its value.  A function-block instance    *)
(* keeps its state only if neither the program's index nor the instance's  *)
(* slot has changed, as when variables are only appended.  One that has    *)
(* moved finds what its new key held before the change: nothing, and it    *)
(* starts from its defaults, or the state of the instance that was there,  *)
(* although the change was accepted and the aim is to "hot-reload PLC      *)
(* programs without losing state".                                         *)
ChangeKeepsLocals ==
  [][module' # module =>
       \A i \in DOMAIN locals : \E j \in DOMAIN locals' :
         /\ SameSlot(Layout(module')[j], Layout(module)[i])
         /\ locals'[j] = locals[i]
         /\ IF Index(module') = Index(module) /\ j = i
            THEN StateAt(module', j, instances') = StateAt(module, i, instances)
            ELSE StateAt(module', j, instances') = StateAt(module', j, instances)]_vars

=============================================================================
