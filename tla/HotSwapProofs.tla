--------------------------- MODULE HotSwapProofs ---------------------------
(***************************************************************************)
(* Proofs about online changes, for every set of modules: values are never *)
(* mixed up, and a change that is accepted loses no local of the program;  *)
(* of the function-block instances it keeps those whose key stays.         *)
(***************************************************************************)
EXTENDS HotSwap, TLAPS

(* find_slot finds the slot it is asked for. *)
LEMMA IndexOfFinds ==
  ASSUME NEW layout, NEW name \in SlotNames(layout)
  PROVE  /\ IndexOf(layout, name) \in DOMAIN layout
         /\ layout[IndexOf(layout, name)].name = name
  <1>1. PICK i \in DOMAIN layout : layout[i].name = name
    BY DEF SlotNames
  <1> QED
    BY <1>1 DEF IndexOf

(* The program's layout is one: the hypothesis HotSwapAssumption names it  *)
(* for every POU.                                                          *)
LEMMA ProgramLayout ==
  ASSUME NEW m \in Modules
  PROVE  IsLayout(Layout(m))
  <1>1. Program \in SlotNames(m.functions)
    BY HotSwapAssumption DEF FunctionNames
  <1>2. IndexOf(m.functions, Program) \in DOMAIN m.functions
    BY <1>1, IndexOfFinds
  <1> QED
    BY <1>2, HotSwapAssumption DEF Layout, FunctionOf

(* A migrated vector has the new layout, and where the old vector holds    *)
(* own values or defaults, so does the new one.                            *)
LEMMA MigrateKeepsOwnership ==
  ASSUME NEW values, NEW old, NEW new,
         \A i \in DOMAIN values : values[i] \in {old[i].name, Default}
  PROVE  LET r == MigrateLocals(values, old, new, Default)
         IN /\ DOMAIN r = DOMAIN new
            /\ \A i \in DOMAIN r : r[i] \in {new[i].name, Default}
  <1> DEFINE r == MigrateLocals(values, old, new, Default)
  <1>1. DOMAIN r = DOMAIN new
    BY DEF MigrateLocals
  <1>2. ASSUME NEW i \in DOMAIN new
        PROVE  r[i] \in {new[i].name, Default}
    <2> DEFINE k == IndexOf(old, new[i].name)
    <2>1. CASE new[i].name \in SlotNames(old) /\ old[k].ty = new[i].ty /\ k \in DOMAIN values
      <3>1. r[i] = values[k]
        BY <2>1 DEF MigrateLocals
      <3>2. old[k].name = new[i].name
        BY <2>1, IndexOfFinds
      <3> QED
        BY <2>1, <3>1, <3>2
    <2>2. CASE ~(new[i].name \in SlotNames(old) /\ old[k].ty = new[i].ty /\ k \in DOMAIN values)
      BY <2>2 DEF MigrateLocals
    <2> QED
      BY <2>1, <2>2
  <1> QED
    BY <1>1, <1>2

(* After any number of online changes every program local and global holds *)
(* its own value or a default (migrate_locals, Vm::swap_module).           *)
THEOREM NoMixUpHolds == Spec => []NoMixUp
  <1>1. Init => NoMixUp
    BY DEF Init, NoMixUp, Defaults
  <1>2. NoMixUp /\ [Next]_vars => NoMixUp'
    <2> SUFFICES ASSUME NoMixUp, [Next]_vars PROVE NoMixUp'
      OBVIOUS
    <2>1. CASE Cycle
      BY <2>1 DEF Cycle, NoMixUp, OwnValues
    <2>2. ASSUME NEW new \in Modules, Swap(new) PROVE NoMixUp'
      <3>1. \A i \in DOMAIN locals' : locals'[i] \in {Layout(module')[i].name, Default}
        <4>1. \A i \in DOMAIN locals : locals[i] \in {Layout(module)[i].name, Default}
          BY DEF NoMixUp
        <4>2. /\ locals' = MigrateLocals(locals, Layout(module), Layout(new), Default)
              /\ module' = new
          BY <2>2 DEF Swap
        <4> QED
          BY <4>1, <4>2, MigrateKeepsOwnership
      <3>2. \A i \in DOMAIN globals' : globals'[i] \in {module'.globals[i].name, Default}
        <4>1. \A i \in DOMAIN globals : globals[i] \in {module.globals[i].name, Default}
          BY DEF NoMixUp
        <4>2. /\ globals' = MigrateLocals(globals, module.globals, new.globals, Default)
              /\ module' = new
          BY <2>2 DEF Swap, MigrateGlobals
        <4> QED
          BY <4>1, <4>2, MigrateKeepsOwnership
      <3> QED
        BY <3>1, <3>2 DEF NoMixUp
    <2>3. CASE UNCHANGED vars
      BY <2>3 DEF vars, NoMixUp, Layout
    <2> QED
      BY <2>1, <2>2, <2>3 DEF Next
  <1> QED
    BY <1>1, <1>2, PTL DEF Spec

(* Migration brings in no value that was not there.                        *)
LEMMA MigrateStays ==
  ASSUME NEW values, NEW old, NEW new, NEW S, Default \in S,
         \A i \in DOMAIN values : values[i] \in S
  PROVE  LET r == MigrateLocals(values, old, new, Default)
         IN DOMAIN r = DOMAIN new /\ \A i \in DOMAIN r : r[i] \in S
  BY DEF MigrateLocals

(* The vectors of values always fit the VM's module and hold what some     *)
(* module declares, and an instance belongs to a declared variable         *)
(* (Vm::swap_module, retained_locals, fb_instances).                       *)
THEOREM VectorsFitModule == Spec => []TypeOK
  <1> DEFINE S == Names \cup {Default}
  <1>1. ASSUME NEW m \in Modules
        PROVE  /\ \A i \in DOMAIN Layout(m) : Layout(m)[i].name \in Names
               /\ \A i \in DOMAIN m.globals : m.globals[i].name \in Names
    BY DEF Names, SlotNames
  <1>2. Init => TypeOK
    BY DEF Init, TypeOK, Defaults
  <1>3. TypeOK /\ [Next]_vars => TypeOK'
    <2> SUFFICES ASSUME TypeOK, [Next]_vars PROVE TypeOK'
      OBVIOUS
    <2>1. CASE Cycle
      <3>1. module' = module /\ module \in Modules
        BY <2>1 DEF Cycle, TypeOK
      <3>2. /\ DOMAIN locals' = DOMAIN Layout(module')
            /\ DOMAIN globals' = DOMAIN module'.globals
        BY <2>1, <3>1 DEF Cycle, OwnValues
      <3>3. /\ \A i \in DOMAIN locals' : locals'[i] \in S
            /\ \A i \in DOMAIN globals' : globals'[i] \in S
        BY <1>1, <2>1, <3>1 DEF Cycle, OwnValues
      <3>4. \A k \in DOMAIN instances' : instances'[k] \in Names
        <4> DEFINE keys == {<<Index(module), i>> :
                              i \in {j \in DOMAIN Layout(module) : IsInstance(Layout(module)[j])}}
        <4>1. instances' = [k \in keys \cup DOMAIN instances |->
                              IF k \in keys THEN Layout(module)[k[2]].name ELSE instances[k]]
          BY <2>1 DEF Cycle
        <4>2. \A k \in keys : k[2] \in DOMAIN Layout(module)
          OBVIOUS
        <4>3. \A k \in DOMAIN instances : instances[k] \in Names
          BY DEF TypeOK
        <4> HIDE DEF keys
        <4> QED
          BY <1>1, <3>1, <4>1, <4>2, <4>3
      <3> QED
        BY <3>1, <3>2, <3>3, <3>4 DEF TypeOK
    <2>2. ASSUME NEW new \in Modules, Swap(new) PROVE TypeOK'
      <3>1. /\ module' = new /\ instances' = instances
            /\ locals' = MigrateLocals(locals, Layout(module), Layout(new), Default)
            /\ globals' = MigrateLocals(globals, module.globals, new.globals, Default)
        BY <2>2 DEF Swap, MigrateGlobals
      <3>5. /\ Default \in S
            /\ \A i \in DOMAIN locals : locals[i] \in S
            /\ \A i \in DOMAIN globals : globals[i] \in S
        BY DEF TypeOK
      <3> HIDE DEF S
      <3>2. DOMAIN locals' = DOMAIN Layout(new) /\ \A i \in DOMAIN locals' : locals'[i] \in S
        BY <3>1, <3>5, MigrateStays
      <3>3. DOMAIN globals' = DOMAIN new.globals /\ \A i \in DOMAIN globals' : globals'[i] \in S
        BY <3>1, <3>5, MigrateStays
      <3>4. \A k \in DOMAIN instances' : instances'[k] \in Names
        BY <3>1 DEF TypeOK
      <3> QED
        BY <3>1, <3>2, <3>3, <3>4 DEF TypeOK, S
    <2>3. CASE UNCHANGED vars
      BY <2>3 DEF vars, TypeOK, Layout
    <2> QED
      BY <2>1, <2>2, <2>3 DEF Next
  <1> QED
    BY <1>2, <1>3, PTL DEF Spec

(* compare_functions accepts a layout only if every old slot is in it.     *)
LEMMA AcceptedKeepsSlots ==
  ASSUME NEW o, NEW f, IsLayout(o.locals), IsLayout(f.locals),
         CompareFunctions(o, f) # "LayoutChanged",
         NEW i \in DOMAIN o.locals
  PROVE  Keeps(f.locals, o.locals[i])
  <1>1. CASE LayoutSame(o.locals, f.locals)
    <2>1. i \in DOMAIN f.locals /\ SameSlot(o.locals[i], f.locals[i])
      BY <1>1 DEF LayoutSame, IsLayout
    <2> QED
      BY <2>1 DEF Keeps, SameSlot
  <1>2. CASE ~LayoutSame(o.locals, f.locals)
    <2>1. \A k \in DOMAIN o.locals : Keeps(f.locals, o.locals[k])
      BY <1>2 DEF CompareFunctions
    <2> QED
      BY <2>1
  <1> QED
    BY <1>1, <1>2

(* A migrated vector holds the old value of every slot that is kept.       *)
LEMMA MigrateKeepsValues ==
  ASSUME NEW values, NEW old, NEW new, IsLayout(old), DOMAIN values = DOMAIN old,
         NEW i \in DOMAIN old, NEW j \in DOMAIN new, SameSlot(new[j], old[i])
  PROVE  MigrateLocals(values, old, new, Default)[j] = values[i]
  <1>1. new[j].name \in SlotNames(old)
    BY DEF SameSlot, SlotNames
  <1>2. IndexOf(old, new[j].name) = i
    BY <1>1, IndexOfFinds DEF SameSlot, IsLayout
  <1> QED
    BY <1>1, <1>2 DEF MigrateLocals, SameSlot

(* A change that analyze_change accepts carries every local of the running *)
(* program over, plain ones with their values whatever was added, moved or *)
(* renamed, and the state of a function-block instance exactly if its key  *)
(* (program index, slot) stays; behind a moved key is what was there       *)
(* before (Vm::swap_module leaves fb_instances as they are).               *)
THEOREM ChangeKeepsLocalsHolds == Spec => ChangeKeepsLocals
  <1> DEFINE Found(i, j) ==
               IF Index(module') = Index(module) /\ j = i
               THEN StateAt(module', j, instances') = StateAt(module, i, instances)
               ELSE StateAt(module', j, instances') = StateAt(module', j, instances)
             Kept == \A i \in DOMAIN locals : \E j \in DOMAIN locals' :
                       /\ SameSlot(Layout(module')[j], Layout(module)[i])
                       /\ locals'[j] = locals[i]
                       /\ Found(i, j)
  <1>1. ASSUME TypeOK, NEW new \in Modules, Swap(new) PROVE Kept
    <2> DEFINE o == FunctionOf(module, Program)
               f == FunctionOf(new, Program)
    <2>1. module' = new /\ locals' = MigrateLocals(locals, Layout(module), Layout(new), Default)
      BY <1>1 DEF Swap
    <2>2. IsLayout(o.locals) /\ IsLayout(f.locals)
      BY <1>1, ProgramLayout DEF TypeOK, Layout
    <2>3. CompareFunctions(o, f) # "LayoutChanged"
      BY <1>1, HotSwapAssumption DEF Swap, AnalyzeChange, TypeOK
    <2>4. SUFFICES ASSUME NEW i \in DOMAIN locals
                   PROVE  \E j \in DOMAIN locals' :
                            /\ SameSlot(Layout(new)[j], Layout(module)[i])
                            /\ locals'[j] = locals[i]
                            /\ Found(i, j)
      BY <2>1
    <2>5. i \in DOMAIN o.locals
      BY <1>1 DEF TypeOK, Layout
    <2>6. PICK j \in DOMAIN f.locals : SameSlot(f.locals[j], o.locals[i])
      BY <2>2, <2>3, <2>5, AcceptedKeepsSlots DEF Keeps
    <2>7. MigrateLocals(locals, o.locals, f.locals, Default)[j] = locals[i]
      BY <1>1, <2>2, <2>5, <2>6, MigrateKeepsValues DEF TypeOK, Layout
    <2>8. DOMAIN locals' = DOMAIN f.locals
      BY <2>1 DEF MigrateLocals, Layout
    <2>9. Found(i, j)
      BY <1>1 DEF Swap, StateAt
    <2> QED
      BY <2>1, <2>6, <2>7, <2>8, <2>9 DEF Layout
  <1>2. TypeOK /\ [Next]_vars => [module' # module => Kept]_vars
    BY <1>1 DEF Next, Cycle, vars
  <1> QED
    BY <1>2, VectorsFitModule, PTL DEF Spec, ChangeKeepsLocals

=============================================================================
