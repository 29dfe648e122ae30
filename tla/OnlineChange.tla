---------------------------- MODULE OnlineChange ----------------------------
(***************************************************************************)
(* Compatibility analysis and variable migration of an online change       *)
(* (crates/st-engine/src/online_change.rs).                                *)
(*                                                                         *)
(* A slot is a record with at least a name and a type ty; a layout is a    *)
(* sequence of slots with distinct names.  A POU is [name, kind, locals],  *)
(* a module [functions, globals]: a POU's index is its position.           *)
(* Instruction sequences matter only for the reported kind of change, not  *)
(* for compatibility, and are left out.                                    *)
(***************************************************************************)
EXTENDS Naturals, Sequences

SlotNames(layout) == {layout[i].name : i \in DOMAIN layout}

\* a layout is a sequence of slots, declared under distinct names
IsLayout(layout) ==
  /\ DOMAIN layout = 1 .. Len(layout)
  /\ Len(layout) \in Nat
  /\ \A i, j \in DOMAIN layout : layout[i].name = layout[j].name => i = j

\* find_slot
IndexOf(layout, name) == CHOOSE i \in DOMAIN layout : layout[i].name = name

\* a slot of the layout with this slot's name and type
SameSlot(a, b) == a.name = b.name /\ a.ty = b.ty
Keeps(layout, slot) == \E i \in DOMAIN layout : SameSlot(layout[i], slot)

\* compare_functions: the old slots are a prefix, or all of them are still
\* there and there are more
LayoutSame(old, new) ==
  /\ Len(old) <= Len(new)
  /\ \A i \in DOMAIN old : SameSlot(old[i], new[i])

CompareFunctions(old, new) ==
  CASE LayoutSame(old.locals, new.locals) ->
         IF Len(new.locals) > Len(old.locals) THEN "VarsAdded" ELSE "CodeOnly"
    [] /\ ~LayoutSame(old.locals, new.locals)
       /\ \A i \in DOMAIN old.locals : Keeps(new.locals, old.locals[i])
       /\ Len(new.locals) > Len(old.locals) -> "VarsAdded"
    [] OTHER -> "LayoutChanged"

FunctionNames(module) == SlotNames(module.functions)
FunctionOf(module, name) == module.functions[IndexOf(module.functions, name)]

\* same name, other type: reported for the variables of programs and FBs
TypeChanged(old, new) ==
  \E i \in DOMAIN new, j \in DOMAIN old :
    new[i].name = old[j].name /\ new[i].ty # old[j].ty

\* check_globals_compat: only a changed type counts
GlobalsCompatible(old, new) == ~TypeChanged(old.globals, new.globals)

\* mutant of AnalyzeChange: only the number of variables is compared
AnalyzeChangeByCount(old, new) ==
  /\ FunctionNames(old) \subseteq FunctionNames(new)
  /\ \A n \in FunctionNames(old) :
       Len(FunctionOf(old, n).locals) <= Len(FunctionOf(new, n).locals)
  /\ GlobalsCompatible(old, new)

\* analyze_change: the change is compatible when there is no reason against
AnalyzeChange(old, new) ==
  /\ FunctionNames(old) \subseteq FunctionNames(new)
  /\ \A n \in FunctionNames(new) \cap FunctionNames(old) :
       LET o == FunctionOf(old, n)
           f == FunctionOf(new, n)
       IN /\ CompareFunctions(o, f) # "LayoutChanged"
          /\ f.kind \in {"Program", "FunctionBlock"} => ~TypeChanged(o.locals, f.locals)
  /\ GlobalsCompatible(old, new)

\* mutant of MigrateLocals: values are taken over by position
MigrateLocalsByPosition(values, old, new, default) ==
  [i \in DOMAIN new |-> IF i \in DOMAIN values THEN values[i] ELSE default]

\* migrate_locals: the value of the variable with the same name and type
MigrateLocals(values, old, new, default) ==
  [i \in DOMAIN new |->
     IF /\ new[i].name \in SlotNames(old)
        /\ old[IndexOf(old, new[i].name)].ty = new[i].ty
        /\ IndexOf(old, new[i].name) \in DOMAIN values
     THEN values[IndexOf(old, new[i].name)]
     ELSE default]

=============================================================================
