-------------------------- MODULE ScanEngineProofs --------------------------
(***************************************************************************)
(* Proofs about the variables of a program, for every set of modules, any  *)
(* values and any checkpoint interval.                                     *)
(***************************************************************************)
EXTENDS ScanEngine, TLAPS

-----------------------------------------------------------------------------
(* Layouts *)

(* find_slot finds the slot it is asked for.                               *)
LEMMA IndexOfFinds ==
  ASSUME NEW layout, NEW name \in SlotNames(layout)
  PROVE  /\ IndexOf(layout, name) \in DOMAIN layout
         /\ layout[IndexOf(layout, name)].name = name
  <1>1. PICK i \in DOMAIN layout : layout[i].name = name
    BY DEF SlotNames
  <1> QED
    BY <1>1 DEF IndexOf

(* In a layout a name stands for one slot.                                 *)
LEMMA IndexOfSlot ==
  ASSUME NEW layout, IsLayout(layout), NEW i \in DOMAIN layout
  PROVE  layout[i].name \in SlotNames(layout) /\ IndexOf(layout, layout[i].name) = i
  <1>1. layout[i].name \in SlotNames(layout)
    BY DEF SlotNames
  <1> QED
    BY <1>1, IndexOfFinds DEF IsLayout

(* With at most one failing initializer, the slot where __global_init      *)
(* stops is that one.                                                      *)
LEMMA FailingSlotIs ==
  ASSUME NEW layout, IsLayout(layout),
         \A i, j \in DOMAIN layout : layout[i].init = Fails /\ layout[j].init = Fails => i = j
  PROVE  /\ FailingSlot(layout) \in Nat
         /\ \A i \in DOMAIN layout : layout[i].init = Fails => FailingSlot(layout) = i
  <1> DEFINE S == {i \in DOMAIN layout : layout[i].init = Fails} \cup {Len(layout) + 1}
  <1>1. FailingSlot(layout) = Min(S)
    BY DEF FailingSlot
  <1>2. PICK x \in S : \A y \in S : x <= y
    <2>1. CASE \E k \in DOMAIN layout : layout[k].init = Fails
      <3>1. PICK k \in DOMAIN layout : layout[k].init = Fails
        BY <2>1
      <3>2. k \in S /\ \A y \in S : k <= y
        BY <3>1 DEF IsLayout
      <3> QED
        BY <3>2
    <2>2. CASE ~ \E k \in DOMAIN layout : layout[k].init = Fails
      <3>1. S = {Len(layout) + 1} /\ Len(layout) + 1 \in Nat
        BY <2>2 DEF IsLayout
      <3> QED
        BY <3>1
    <2> QED
      BY <2>1, <2>2
  <1>3. Min(S) \in S /\ \A y \in S : Min(S) <= y
    BY <1>2 DEF Min
  <1>4. S \subseteq Nat
    BY DEF IsLayout
  <1>5. ASSUME NEW i \in DOMAIN layout, layout[i].init = Fails PROVE Min(S) = i
    <2>1. i \in S /\ i < Len(layout) + 1 /\ Len(layout) + 1 \in Nat
      BY <1>5 DEF IsLayout
    <2>2. Min(S) <= i /\ Min(S) \in Nat /\ i \in Nat
      BY <1>3, <1>4, <2>1
    <2>3. Min(S) # Len(layout) + 1
      BY <2>1, <2>2
    <2> QED
      BY <1>3, <1>5, <2>3
  <1> QED
    BY <1>1, <1>3, <1>4, <1>5


(* migrate_locals fills the new layout with values.                        *)
LEMMA MigrateTyped ==
  ASSUME NEW old, NEW new, NEW values \in [DOMAIN old -> Values],
         \A i \in DOMAIN new : Default(new[i].ty) \in Values
  PROVE  Migrated(values, old, new) \in [DOMAIN new -> Values]
  <1>1. ASSUME NEW i \in DOMAIN new
        PROVE  MigrateLocals(values, old, new, Default(new[i].ty))[i] \in Values
    BY DEF MigrateLocals
  <1> QED
    BY <1>1 DEF Migrated

(* What the compiler guarantees of a module.                               *)
LEMMA LayoutsOf ==
  ASSUME NEW m \in Programs
  PROVE  /\ IsLayout(m.globals) /\ IsLayout(LocalsOf(m))
         /\ \A i \in DOMAIN LocalsOf(m) : Default(LocalsOf(m)[i].ty) \in Values
         /\ \A i \in DOMAIN m.globals : Default(m.globals[i].ty) \in Values
         /\ Defaults(LocalsOf(m)) \in [DOMAIN LocalsOf(m) -> Values]
         /\ Defaults(m.globals) \in [DOMAIN m.globals -> Values]
         /\ Inits(LocalsOf(m)) \in [DOMAIN LocalsOf(m) -> Values]
         /\ \A i \in DOMAIN m.globals : \/ m.globals[i].init \in Values
                                        \/ m.globals[i].init \in {NoInit, Fails}
         /\ \A i \in DOMAIN m.globals : InitOf(m.globals[i]) \in Values \/ m.globals[i].init = Fails
         /\ FailingSlot(m.globals) \in Nat
         /\ \A i \in DOMAIN m.globals : m.globals[i].init = Fails => FailingSlot(m.globals) = i
  <1>1. /\ IsLayout(m.globals) /\ IsLayout(LocalsOf(m))
        /\ \A i \in DOMAIN LocalsOf(m) : /\ Default(LocalsOf(m)[i].ty) \in Values
                                        /\ LocalsOf(m)[i].init \in Values \cup {NoInit}
        /\ \A i \in DOMAIN m.globals : /\ Default(m.globals[i].ty) \in Values
                                      /\ m.globals[i].init \in Values \cup {NoInit, Fails}
        /\ \A i, j \in DOMAIN m.globals :
             m.globals[i].init = Fails /\ m.globals[j].init = Fails => i = j
    BY ProgramsAssumption
  <1>2. \A i \in DOMAIN LocalsOf(m) : InitOf(LocalsOf(m)[i]) \in Values
    BY <1>1 DEF InitOf
  <1>3. \A i \in DOMAIN m.globals : InitOf(m.globals[i]) \in Values \/ m.globals[i].init = Fails
    BY <1>1 DEF InitOf
  <1>4. /\ Defaults(LocalsOf(m)) \in [DOMAIN LocalsOf(m) -> Values]
        /\ Defaults(m.globals) \in [DOMAIN m.globals -> Values]
        /\ Inits(LocalsOf(m)) \in [DOMAIN LocalsOf(m) -> Values]
    BY <1>1, <1>2 DEF Defaults, Inits
  <1>5. /\ FailingSlot(m.globals) \in Nat
        /\ \A i \in DOMAIN m.globals : m.globals[i].init = Fails => FailingSlot(m.globals) = i
    BY <1>1, FailingSlotIs
  <1> QED
    BY <1>1, <1>3, <1>4, <1>5

-----------------------------------------------------------------------------
(* Types, saves and the retain file *)

(* Nothing runs while save_retain is at work, and an online change is only *)
(* begun between the cycles of a program that has started.                 *)
SaveInv ==
  /\ save # "no" => alive
  /\ save = "rename" => tmp = CaptureSnapshot
  /\ after = "change" => save # "no" /\ frame.at = "none" /\ ~fresh

(* The retain file holds what was in the variables at the last save.       *)
FileInv ==
  /\ DOMAIN file = DOMAIN kept
  /\ \A n \in DOMAIN file :
       /\ file[n].value = kept[n].value /\ kept[n].value \in Values
       /\ file[n].retain = kept[n].slot.retain
       /\ \/ file[n].scope = "global" /\ \E m \in Programs : n \in SlotNames(m.globals)
          \/ file[n].scope = "local" /\ \E m \in Programs : n \in SlotNames(LocalsOf(m))

EngineInv == TypeOK /\ SaveInv /\ FileInv

(* restore_snapshot leaves the variables with values of their type.        *)
LEMMA RestoredTyped ==
  ASSUME FileInv, NEW ok, NEW scope, NEW layout, NEW values \in [DOMAIN layout -> Values]
  PROVE  Restored(IF ok THEN file ELSE NoEntries, scope, layout, values) \in [DOMAIN layout -> Values]
  <1> DEFINE snapshot == IF ok THEN file ELSE NoEntries
  <1>1. \A n \in DOMAIN snapshot : snapshot[n].value \in Values
    BY DEF FileInv, NoEntries, Empty
  <1> HIDE DEF snapshot
  <1>2. Restored(snapshot, scope, layout, values) \in [DOMAIN layout -> Values]
    BY <1>1 DEF Restored
  <1> QED
    BY <1>2 DEF snapshot

(* save_retain returns to the loop, to the online change or to the end of  *)
(* the runtime thread.                                                     *)
LEMMA ProceedSteps ==
  ASSUME Proceed
  PROVE  \/ after = "change" /\ Change /\ UNCHANGED <<forced, fslots, counter>>
         \/ after = "stop" /\ Drop
         \/ /\ after \notin {"change", "stop"}
            /\ UNCHANGED <<buildVars, vmVars, forceVars, counter>>
  <1>1. CASE after = "change"
    BY <1>1, Zenon DEF Proceed
  <1>2. CASE after = "stop"
    BY <1>2, Zenon DEF Proceed
  <1>3. CASE after # "change" /\ after # "stop"
    BY <1>3, Zenon DEF Proceed
  <1> QED
    BY <1>1, <1>2, <1>3

(* A migrated engine is well typed.                                        *)
LEMMA ChangeTyped ==
  ASSUME TypeOK, Change, forced' = forced, fslots' = fslots, counter' = counter,
         after = "change" => frame.at = "none", after = "change",
         save' = "no", after' = "run", pending' = module
  PROVE  TypeOK'
  <1>1. CASE AnalyzeChange(module, pending)
    <2>1. /\ module' = pending
          /\ globals' = Migrated(globals, module.globals, pending.globals)
          /\ retained' = IF ran THEN Migrated(retained, Locals, LocalsOf(pending))
                         ELSE retained
          /\ frame' = NoFrame /\ UNCHANGED <<alive, ran>>
      BY <1>1 DEF Change
    <2>2. Locals' = LocalsOf(pending)
      BY <2>1 DEF Locals, LocalsOf
    <2>3. globals' \in [DOMAIN module'.globals -> Values]
      BY <2>1, MigrateTyped, LayoutsOf DEF TypeOK
    <2>4. ran' => retained' \in [DOMAIN Locals' -> Values]
      BY <2>1, <2>2, MigrateTyped, LayoutsOf DEF TypeOK
    <2>5. frame' \in Frames /\ frame'.at = "none"
      BY <2>1 DEF NoFrame, Frames
    <2>6. module' \in Programs /\ pending' \in Programs
      BY <2>1 DEF TypeOK
    <2> QED
      BY <2>1, <2>3, <2>4, <2>5, <2>6 DEF TypeOK
  <1>2. CASE ~AnalyzeChange(module, pending)
    BY <1>2 DEF Change, TypeOK, buildVars, vmVars, Locals
  <1> QED
    BY <1>1, <1>2

(* A dropped engine is well typed.                                         *)
LEMMA DropTyped ==
  ASSUME TypeOK, Drop, save' = "no", after' = "run", pending' = module
  PROVE  TypeOK'
  <1>1. frame' \in Frames /\ frame'.at = "none"
    BY DEF Drop, NoFrame, Frames
  <1>2. globals' \in [DOMAIN module'.globals -> Values]
    BY LayoutsOf DEF Drop, TypeOK
  <1>3. counter' \in 0 .. Checkpoint - 1
    BY EngineAssumption DEF Drop
  <1>4. DOMAIN forced' = {} /\ fslots' \subseteq Nat
    BY DEF Drop, Empty
  <1>5. alive' \in BOOLEAN /\ ran' \in BOOLEAN /\ ~ran'
    BY Zenon DEF Drop
  <1>6. module' \in Programs /\ pending' \in Programs
    BY DEF Drop, TypeOK
  <1> QED
    BY <1>1, <1>2, <1>3, <1>4, <1>5, <1>6 DEF TypeOK

(* The engine keeps its variables typed in every step.                     *)
LEMMA TypeStep ==
  ASSUME EngineInv, [Next]_vars
  PROVE  TypeOK'
  <1> USE DEF EngineInv, buildVars, vmVars, forceVars, saveVars, history
  <1> TypeOK
    OBVIOUS
  <1>1. ASSUME NEW m \in Programs, NEW ok \in BOOLEAN, Build(m, ok) PROVE TypeOK'
    <2> DEFINE f == FailingSlot(m.globals)
               inits == [i \in DOMAIN m.globals |->
                           IF i < f THEN InitOf(m.globals[i]) ELSE Default(m.globals[i].ty)]
               snapshot == IF ok THEN file ELSE NoEntries
    <2>1. inits \in [DOMAIN m.globals -> Values]
      BY LayoutsOf DEF IsLayout
    <2>2. globals' \in [DOMAIN module'.globals -> Values]
      BY <1>1, <2>1, RestoredTyped DEF Build
    <2>3. frame' \in Frames /\ frame'.at \in {"none", "ginit"}
      <3>1. frame' = NoFrame \/ frame' = [NoFrame EXCEPT !.at = "ginit"]
        BY <1>1 DEF Build
      <3>2. NoFrame \in Frames /\ NoFrame.at = "none"
        BY DEF NoFrame, Frames
      <3>3. [NoFrame EXCEPT !.at = "ginit"] \in Frames /\ [NoFrame EXCEPT !.at = "ginit"].at = "ginit"
        BY <3>2 DEF Frames
      <3> QED
        BY <3>1, <3>2, <3>3
    <2>4. Defaults(LocalsOf(m)) \in [DOMAIN LocalsOf(m) -> Values]
      BY LayoutsOf
    <2>5. ran' => retained' \in [DOMAIN Locals' -> Values]
      BY <1>1, <2>4, RestoredTyped DEF Build, Locals, LocalsOf
    <2>6. alive' \in BOOLEAN /\ ran' \in BOOLEAN
      BY <1>1, Zenon DEF Build, HasLocals
    <2>7. DOMAIN forced' = {} /\ fslots' \subseteq Nat
      BY <1>1 DEF Build, Empty
    <2>8. counter' \in 0 .. Checkpoint - 1
      BY <1>1, EngineAssumption DEF Build
    <2>9. UNCHANGED <<pending, save, after>> /\ module' \in Programs
      BY <1>1 DEF Build
    <2> QED
      BY <2>2, <2>3, <2>5, <2>6, <2>7, <2>8, <2>9 DEF TypeOK
  <1>2. ASSUME NEW m \in Programs, OnlineChangeBegins(m) PROVE TypeOK'
    BY <1>2 DEF OnlineChangeBegins, TypeOK, Locals
  <1>3. CASE CycleBegin
    <2>1. frame' \in Frames /\ DOMAIN frame'.locals = DOMAIN Locals
      <3>1. DOMAIN Locals = 1 .. Len(Locals) /\ Len(Locals) \in Nat
        BY LayoutsOf DEF TypeOK, IsLayout, Locals, LocalsOf
      <3>2. CASE ran
        <4>1. retained \in Seq(Values)
          BY <3>1, <3>2 DEF TypeOK
        <4> QED
          BY <1>3, <3>2, <4>1 DEF CycleBegin, NoFrame, Frames, TypeOK
      <3>3. CASE ~ran
        <4>1. Defaults(Locals) \in [1 .. Len(Locals) -> Values]
          BY <3>1, LayoutsOf DEF TypeOK, Locals, LocalsOf
        <4>2. Defaults(Locals) \in Seq(Values) /\ DOMAIN Defaults(Locals) = DOMAIN Locals
          BY <3>1, <4>1
        <4> QED
          BY <1>3, <3>3, <4>2 DEF CycleBegin, NoFrame, Frames
      <3> QED
        BY <3>2, <3>3
    <2>2. UNCHANGED <<alive, module, globals, ran, retained, forced, fslots, counter, save,
                      after, tmp, file, pending>>
      BY <1>3 DEF CycleBegin
    <2> QED
      BY <2>1, <2>2 DEF TypeOK, Locals
  <1>4. CASE CycleContinuesInit
    <2> DEFINE f == FailingSlot(module.globals)
    <2>1. globals' \in [DOMAIN module.globals -> Values]
      <3>1. globals' = [i \in DOMAIN globals |->
                          IF i = f THEN RegisterDefault
                          ELSE IF i > f /\ module.globals[i].init # NoInit THEN module.globals[i].init
                          ELSE globals[i]]
        BY <1>4 DEF CycleContinuesInit
      <3>2. \A i \in DOMAIN globals : i # f => module.globals[i].init \in Values \cup {NoInit}
        BY LayoutsOf DEF TypeOK
      <3> QED
        BY <3>1, <3>2, EngineAssumption DEF TypeOK
    <2>2. frame' \in Frames /\ frame'.at = "none"
      BY <1>4 DEF CycleContinuesInit, NoFrame, Frames
    <2>3. /\ counter' \in 0 .. Checkpoint - 1 /\ save' \in {"no", "write", "rename"}
          /\ after' \in {"run", "change", "stop"}
      BY <1>4, EngineAssumption DEF CycleContinuesInit, CountCycle, TypeOK
    <2>4. UNCHANGED <<alive, module, ran, retained, forced, fslots, pending>>
      BY <1>4 DEF CycleContinuesInit
    <2> QED
      BY <2>1, <2>2, <2>3, <2>4 DEF TypeOK, Locals
  <1>5. CASE InitPreamble
    <2>1. DOMAIN Locals = 1 .. Len(Locals) /\ Len(Locals) \in Nat
      BY LayoutsOf DEF TypeOK, IsLayout, Locals, LocalsOf
    <2>2. Inits(Locals) \in [1 .. Len(Locals) -> Values]
      BY <2>1, LayoutsOf DEF TypeOK, Locals, LocalsOf
    <2>3. Inits(Locals) \in Seq(Values) /\ DOMAIN Inits(Locals) = DOMAIN Locals
      BY <2>1, <2>2
    <2>4. frame' \in Frames /\ DOMAIN frame'.locals = DOMAIN Locals
      BY <1>5, <2>3 DEF InitPreamble, TypeOK, Frames
    <2>5. UNCHANGED <<alive, module, globals, ran, retained, forced, fslots, counter, save,
                      after, tmp, file, pending>>
      BY <1>5 DEF InitPreamble
    <2> QED
      BY <2>4, <2>5 DEF TypeOK, Locals
  <1>6. CASE CycleEnd
    <2>1. frame.locals \in [DOMAIN Locals -> Values]
      BY <1>6 DEF CycleEnd, TypeOK, Frames
    <2>2. Enforced(frame.locals) \in [DOMAIN Locals -> Values]
      BY <2>1 DEF Enforced, TypeOK
    <2>3. retained' \in [DOMAIN Locals -> Values]
      BY <1>6, <2>1, <2>2 DEF CycleEnd
    <2>4. frame' \in Frames /\ frame'.at = "none"
      BY <1>6 DEF CycleEnd, NoFrame, Frames
    <2>5. /\ counter' \in 0 .. Checkpoint - 1 /\ save' \in {"no", "write", "rename"}
          /\ after' \in {"run", "change", "stop"}
      BY <1>6, EngineAssumption DEF CycleEnd, CountCycle, TypeOK
    <2>6. UNCHANGED <<alive, module, globals, forced, fslots, pending>>
      BY <1>6 DEF CycleEnd
    <2>7. ran' \in BOOLEAN
      BY <1>6, Zenon DEF CycleEnd
    <2> QED
      BY <2>3, <2>4, <2>5, <2>6, <2>7 DEF TypeOK, Locals
  <1>7. ASSUME NEW i \in DOMAIN frame.locals, NEW v \in Values, StoreLocal(i, v) PROVE TypeOK'
    <2>1. frame' \in Frames /\ frame'.at = frame.at /\ DOMAIN frame'.locals = DOMAIN frame.locals
      <3>1. frame \in Frames /\ frame' = [frame EXCEPT !.locals[i] = v]
        BY <1>7 DEF StoreLocal, TypeOK
      <3> QED
        BY <3>1 DEF Frames
    <2>2. UNCHANGED <<alive, module, globals, ran, retained, forced, fslots, counter, save,
                      after, tmp, file, pending>>
      BY <1>7 DEF StoreLocal
    <2> QED
      BY <2>1, <2>2 DEF TypeOK, Locals
  <1>8. ASSUME NEW i \in DOMAIN globals, NEW v \in Values, StoreGlobal(i, v) \/ DerefStore(i, v)
        PROVE  TypeOK'
    <2>1. globals' = [globals EXCEPT ![i] = v]
      BY <1>8 DEF StoreGlobal, DerefStore
    <2>2. UNCHANGED <<alive, module, ran, retained, frame, forced, fslots, counter, save,
                      after, tmp, file, pending>>
      BY <1>8 DEF StoreGlobal, DerefStore
    <2> QED
      BY <2>1, <2>2 DEF TypeOK, Locals
  <1>9. CASE Halt \/ Resume
    <2>1. /\ frame' \in Frames
          /\ frame'.at \in {"init", "body", "halted"} => DOMAIN frame'.locals = DOMAIN Locals
      <3>1. CASE frame' = NoFrame
        BY <3>1 DEF NoFrame, Frames
      <3>2. CASE Halt
        BY <3>2 DEF Halt, TypeOK, Frames
      <3>3. CASE frame.at = "halted" /\ frame' = [frame EXCEPT !.at = "body", !.resumed = TRUE]
        BY <3>3 DEF TypeOK, Frames
      <3> QED
        BY <1>9, <3>1, <3>2, <3>3 DEF Resume
    <2>2. UNCHANGED <<alive, module, globals, ran, retained, forced, fslots, counter, save,
                      after, tmp, file, pending>>
      BY <1>9 DEF Halt, Resume
    <2> QED
      BY <2>1, <2>2 DEF TypeOK, Locals
  <1>10. ASSUME NEW n \in Declared, UnforceVariable(n) PROVE TypeOK'
    <2>1. /\ \A x \in DOMAIN forced' : forced'[x] \in Values
          /\ fslots' \subseteq Nat
      BY <1>10 DEF UnforceVariable, TypeOK
    <2>2. UNCHANGED <<alive, module, globals, ran, retained, frame, counter, save,
                      after, tmp, file, pending>>
      BY <1>10 DEF UnforceVariable
    <2> QED
      BY <2>1, <2>2 DEF TypeOK, Locals
  <1>11. ASSUME NEW n \in Declared, NEW v \in Values, ForceVariable(n, v) PROVE TypeOK'
    <2>1. \A x \in DOMAIN forced' : forced'[x] \in Values
      BY <1>11 DEF ForceVariable, TypeOK
    <2>2. /\ globals' \in [DOMAIN module.globals -> Values]
          /\ ran => retained' \in [DOMAIN Locals -> Values]
          /\ fslots' \subseteq Nat
      <3>1. CASE n \in SlotNames(module.globals)
        <4>1. IndexOf(module.globals, n) \in DOMAIN module.globals
          BY <3>1, IndexOfFinds
        <4>2. IndexOf(module.globals, n) \in Nat
          BY <4>1, LayoutsOf DEF TypeOK, IsLayout
        <4> QED
          BY <1>11, <3>1, <4>1, <4>2 DEF ForceVariable, TypeOK
      <3>2. CASE n \notin SlotNames(module.globals)
        BY <1>11, <3>2 DEF ForceVariable, TypeOK
      <3> QED
        BY <3>1, <3>2
    <2>3. UNCHANGED <<alive, module, ran, frame, counter, save, after, tmp, file, pending>>
      BY <1>11 DEF ForceVariable
    <2> QED
      BY <2>1, <2>2, <2>3 DEF TypeOK, Locals
  <1>12. CASE StopBegins
    BY <1>12 DEF StopBegins, TypeOK, Locals
  <1>13. CASE SaveWrite
    BY <1>13 DEF SaveWrite, TypeOK, Locals
  <1>14. CASE Proceed
    <2>1. save' = "no" /\ after' = "run" /\ pending' = module
      BY <1>14 DEF Proceed
    <2>2. CASE after = "change" /\ Change /\ UNCHANGED <<forced, fslots, counter>>
      BY <2>1, <2>2, ChangeTyped DEF SaveInv
    <2>3. CASE Drop
      BY <2>1, <2>3, DropTyped
    <2>4. CASE UNCHANGED <<buildVars, vmVars, forceVars, counter>>
      BY <2>1, <2>4 DEF TypeOK, Locals
    <2> QED
      BY <1>14, <2>2, <2>3, <2>4, ProceedSteps
  <1>15. CASE Crash
    BY <1>15, DropTyped DEF Crash
  <1>16. CASE UNCHANGED vars
    BY <1>16 DEF vars, TypeOK, Locals
  <1> QED
    BY <1>1, <1>2, <1>3, <1>4, <1>5, <1>6, <1>7, <1>8, <1>9, <1>10, <1>11, <1>12, <1>13, <1>14,
       <1>15, <1>16 DEF Next, SaveRename, SaveSkipped

(* The snapshot depends on the module and its variables only.              *)
LEMMA SnapshotOf ==
  ASSUME module' = module, globals' = globals, ran' = ran, retained' = retained
  PROVE  CaptureSnapshot' = CaptureSnapshot
  BY DEF CaptureSnapshot, CapturedNames, Locals

(* Saves run to their end before anything else happens.                    *)
LEMMA SaveStep ==
  ASSUME EngineInv, [Next]_vars
  PROVE  SaveInv'
  <1> USE DEF EngineInv, buildVars, vmVars, forceVars, saveVars, history
  <1> TypeOK /\ SaveInv
    OBVIOUS
  <1>1. ASSUME NEW m \in Programs, NEW ok \in BOOLEAN, Build(m, ok) PROVE SaveInv'
    <2>1. save = "no" /\ UNCHANGED <<save, after>>
      BY <1>1 DEF Build, SaveInv
    <2> QED
      BY <2>1 DEF SaveInv
  <1>2. ASSUME NEW m \in Programs, OnlineChangeBegins(m) PROVE SaveInv'
    BY <1>2, SnapshotOf DEF OnlineChangeBegins, Commandable, Running, SaveInv
  <1>3. ASSUME Running, save' # "rename", after' # "change", alive' PROVE SaveInv'
    BY <1>3 DEF SaveInv
  <1>4. ASSUME Running, UNCHANGED <<save, after>>, alive' PROVE SaveInv'
    <2>1. save' = "no" /\ after' # "change"
      BY <1>4 DEF Running, SaveInv
    <2> QED
      BY <1>4, <2>1 DEF SaveInv
  <1>5. CASE CycleBegin
    BY <1>4, <1>5 DEF CycleBegin, Running
  <1>6. CASE CycleContinuesInit \/ CycleEnd
    <2>1. Running /\ alive' /\ CountCycle
      BY <1>6 DEF CycleContinuesInit, CycleEnd, Running
    <2> QED
      BY <1>3, <1>4, <2>1 DEF CountCycle
  <1>7. CASE InitPreamble
    BY <1>4, <1>7 DEF InitPreamble, Running
  <1>8. ASSUME NEW i \in DOMAIN frame.locals, NEW v \in Values, StoreLocal(i, v) PROVE SaveInv'
    BY <1>4, <1>8 DEF StoreLocal, Running
  <1>9. ASSUME NEW i \in DOMAIN globals, NEW v \in Values, StoreGlobal(i, v) \/ DerefStore(i, v)
        PROVE  SaveInv'
    BY <1>4, <1>9 DEF StoreGlobal, DerefStore, Running
  <1>10. CASE Halt \/ Resume
    BY <1>4, <1>10 DEF Halt, Resume, Running
  <1>11. ASSUME NEW n \in Declared, UnforceVariable(n) PROVE SaveInv'
    BY <1>4, <1>11 DEF UnforceVariable, Commandable, Running
  <1>12. ASSUME NEW n \in Declared, NEW v \in Values, ForceVariable(n, v) PROVE SaveInv'
    BY <1>4, <1>12 DEF ForceVariable, Commandable, Running
  <1>13. CASE StopBegins
    BY <1>3, <1>13 DEF StopBegins, Running
  <1>14. CASE SaveWrite
    <2>1. /\ save = "write" /\ save' = "rename" /\ tmp' = CaptureSnapshot
          /\ UNCHANGED <<alive, module, globals, ran, retained, frame, after, fresh>>
      BY <1>14 DEF SaveWrite
    <2>2. CaptureSnapshot' = CaptureSnapshot
      BY <2>1, SnapshotOf
    <2> QED
      BY <2>1, <2>2 DEF SaveInv
  <1>15. CASE Proceed \/ Crash
    <2>1. save' = "no" /\ after' = "run"
      BY <1>15 DEF Proceed, Crash
    <2> QED
      BY <2>1 DEF SaveInv
  <1>16. CASE UNCHANGED vars
    <2>1. UNCHANGED <<alive, module, globals, ran, retained, frame, save, after, tmp, fresh>>
      BY <1>16 DEF vars
    <2>2. CaptureSnapshot' = CaptureSnapshot
      BY <2>1, SnapshotOf
    <2> QED
      BY <2>1, <2>2 DEF SaveInv
  <1> QED
    BY <1>1, <1>2, <1>5, <1>6, <1>7, <1>8, <1>9, <1>10, <1>11, <1>12, <1>13, <1>14, <1>15, <1>16
    DEF Next, SaveRename, SaveSkipped

(* Every variable that capture_snapshot takes is one of the module's, and  *)
(* its value is what the snapshot holds.                                   *)
LEMMA CapturedSlots ==
  ASSUME TypeOK, NEW n \in CapturedNames
  PROVE  /\ n \in Declared
         /\ ValueOf(n) \in Values
         /\ CaptureSnapshot[n].value = ValueOf(n)
         /\ CaptureSnapshot[n].retain = SlotOf(n).retain
         /\ \/ CaptureSnapshot[n].scope = "global" /\ n \in SlotNames(module.globals)
            \/ CaptureSnapshot[n].scope = "local" /\ n \in SlotNames(Locals) /\ ran
  <1>1. CASE n \in SlotNames(module.globals)
    <2>1. IndexOf(module.globals, n) \in DOMAIN module.globals
      BY <1>1, IndexOfFinds
    <2>2. CaptureSnapshot[n] = Entry("global", module.globals[IndexOf(module.globals, n)],
                                     globals[IndexOf(module.globals, n)])
      BY <1>1 DEF CaptureSnapshot
    <2> QED
      BY <1>1, <2>1, <2>2 DEF Entry, SlotOf, ValueOf, TypeOK, Declared
  <1>2. CASE n \notin SlotNames(module.globals)
    <2>1. ran /\ n \in SlotNames(Locals)
      BY <1>2 DEF CapturedNames, SlotNames
    <2>2. IndexOf(Locals, n) \in DOMAIN Locals
      BY <2>1, IndexOfFinds
    <2>3. CaptureSnapshot[n] = Entry("local", Locals[IndexOf(Locals, n)], retained[IndexOf(Locals, n)])
      BY <1>2 DEF CaptureSnapshot
    <2> QED
      BY <1>2, <2>1, <2>2, <2>3 DEF Entry, SlotOf, ValueOf, TypeOK, Declared
  <1> QED
    BY <1>1, <1>2

(* The file is replaced by a complete snapshot or not at all.              *)
LEMMA FileStep ==
  ASSUME EngineInv, [Next]_vars
  PROVE  FileInv'
  <1> USE DEF EngineInv, buildVars, vmVars, forceVars, saveVars, history
  <1> TypeOK /\ SaveInv /\ FileInv
    OBVIOUS
  <1>1. CASE SaveRename
    <2>1. /\ file' = CaptureSnapshot
          /\ kept' = [n \in CapturedNames |-> [slot |-> SlotOf(n), value |-> ValueOf(n)]]
      BY <1>1 DEF SaveRename, SaveInv
    <2>2. DOMAIN file' = CapturedNames /\ DOMAIN kept' = CapturedNames
      BY <2>1 DEF CaptureSnapshot
    <2>3. ASSUME NEW n \in CapturedNames
          PROVE  /\ file'[n].value = kept'[n].value /\ kept'[n].value \in Values
                 /\ file'[n].retain = kept'[n].slot.retain
                 /\ \/ file'[n].scope = "global" /\ \E m \in Programs : n \in SlotNames(m.globals)
                    \/ file'[n].scope = "local" /\ \E m \in Programs : n \in SlotNames(LocalsOf(m))
      <3>1. kept'[n].slot = SlotOf(n) /\ kept'[n].value = ValueOf(n) /\ file'[n] = CaptureSnapshot[n]
        BY <2>1
      <3>2. module \in Programs /\ Locals = LocalsOf(module)
        BY DEF TypeOK, Locals, LocalsOf
      <3> QED
        BY <3>1, <3>2, CapturedSlots
    <2> QED
      BY <2>2, <2>3 DEF FileInv
  <1>2. CASE UNCHANGED <<file, kept>>
    BY <1>2 DEF FileInv
  <1>3. SaveRename \/ UNCHANGED <<file, kept>>
    BY DEF Next, vars, Build, OnlineChangeBegins, CycleBegin, CycleContinuesInit, InitPreamble, CycleEnd,
       StoreLocal, StoreGlobal, DerefStore, Halt, Resume, UnforceVariable, ForceVariable, StopBegins,
       SaveWrite, SaveSkipped, Crash
  <1> QED
    BY <1>1, <1>2, <1>3

(* Types, and what every variable holds, for every set of modules.         *)
LEMMA EngineInvHolds == Spec => []EngineInv
  <1>1. Init => EngineInv
    <2> SUFFICES ASSUME Init PROVE EngineInv
      OBVIOUS
    <2>1. TypeOK
      <3>1. frame \in Frames /\ frame.at = "none"
        BY DEF Init, NoFrame, Frames
      <3>2. globals \in [DOMAIN module.globals -> Values]
        BY LayoutsOf DEF Init
      <3>3. counter \in 0 .. Checkpoint - 1
        BY EngineAssumption DEF Init
      <3>4. DOMAIN forced = {} /\ fslots \subseteq Nat
        BY DEF Init, Empty
      <3>5. alive \in BOOLEAN /\ ran \in BOOLEAN /\ ~ran
        BY Zenon DEF Init
      <3> QED
        BY <3>1, <3>2, <3>3, <3>4, <3>5 DEF TypeOK, Init
    <2>2. SaveInv /\ FileInv
      BY DEF Init, SaveInv, FileInv, NoEntries, Empty
    <2> QED
      BY <2>1, <2>2 DEF EngineInv
  <1>2. EngineInv /\ [Next]_vars => EngineInv'
    BY TypeStep, SaveStep, FileStep DEF EngineInv
  <1> QED
    BY <1>1, <1>2, PTL DEF Spec

-----------------------------------------------------------------------------
(* Forces *)

(* An engine that has not begun a cycle has no forces, and a cycle leaves  *)
(* no frame of __global_init behind.                                       *)
StartInv ==
  /\ alive /\ fresh => frame.at \in {"none", "ginit"} /\ forced = Empty
  /\ frame.at = "ginit" => alive /\ fresh

(* Every force is in effect: on a global that no change has moved its slot *)
(* is closed to the program and holds the value, on a local the retained   *)
(* locals have it, unless the debugger intervened.  A forced name is a     *)
(* local, or a global of this module or of an earlier one.                 *)
ForcedNames ==
  \A n \in DOMAIN forced :
    n \in SlotNames(Locals) \/ \E m \in Programs : n \in SlotNames(m.globals)
ForcedGlobalSlots ==
  \A i \in DOMAIN module.globals :
    module.globals[i].name \in DOMAIN forced \ moved =>
      /\ i \in fslots
      /\ module.globals[i].name \notin Referenced => globals[i] = forced[module.globals[i].name]
ForcedLocalSlots ==
  ran /\ ~debugged =>
    \A i \in DOMAIN Locals : Locals[i].name \in DOMAIN forced => retained[i] = forced[Locals[i].name]
ForceInv ==
  alive => ForcedNames /\ ForcedGlobalSlots /\ ForcedLocalSlots

(* No force exists before the first cycle.                                 *)
LEMMA StartStep ==
  ASSUME EngineInv, StartInv, [Next]_vars
  PROVE  StartInv'
  <1> USE DEF EngineInv, buildVars, vmVars, forceVars, saveVars, history
  <1> TypeOK /\ SaveInv
    OBVIOUS
  <1>1. ASSUME NEW m \in Programs, NEW ok \in BOOLEAN, Build(m, ok) PROVE StartInv'
    <2>1. frame' = NoFrame \/ frame' = [NoFrame EXCEPT !.at = "ginit"]
      BY <1>1 DEF Build
    <2>2. frame'.at \in {"none", "ginit"} /\ forced' = Empty /\ alive' /\ fresh'
      BY <1>1, <2>1 DEF Build, NoFrame
    <2> QED
      BY <2>2 DEF StartInv
  <1>2. ASSUME ~fresh', frame'.at # "ginit" PROVE StartInv'
    BY <1>2 DEF StartInv
  <1>3. ASSUME UNCHANGED <<alive, fresh, frame, forced>> PROVE StartInv'
    BY <1>3 DEF StartInv
  <1>4. CASE CycleBegin \/ CycleContinuesInit
    <2>1. ~fresh'
      BY <1>4 DEF CycleBegin, CycleContinuesInit
    <2>2. \/ frame' = NoFrame
          \/ frame' = [NoFrame EXCEPT !.at = "body", !.locals = retained]
          \/ frame' = [NoFrame EXCEPT !.at = "init", !.locals = Defaults(Locals)]
      BY <1>4 DEF CycleBegin, CycleContinuesInit
    <2>3. NoFrame \in Frames /\ NoFrame.at = "none"
      BY DEF NoFrame, Frames
    <2>4. frame'.at # "ginit"
      BY <2>2, <2>3 DEF Frames
    <2> QED
      BY <1>2, <2>1, <2>4
  <1>5. ASSUME alive, frame.at \in {"init", "body", "halted"}, fresh' = fresh, frame'.at # "ginit"
        PROVE  StartInv'
    BY <1>2, <1>5 DEF StartInv
  <1>6. CASE InitPreamble \/ CycleEnd \/ Halt \/ Resume
    <2>1. alive /\ frame.at \in {"init", "body", "halted"} /\ fresh' = fresh
      BY <1>6 DEF InitPreamble, CycleEnd, Halt, Resume, Running
    <2>2. \/ frame' = NoFrame
          \/ frame' = [frame EXCEPT !.at = "body", !.locals = Inits(Locals)]
          \/ frame' = [frame EXCEPT !.at = "halted"]
          \/ frame' = [frame EXCEPT !.at = "body", !.resumed = TRUE]
      BY <1>6 DEF InitPreamble, CycleEnd, Halt, Resume
    <2>3. NoFrame.at = "none" /\ frame \in Frames
      BY DEF NoFrame, TypeOK
    <2>4. frame'.at # "ginit"
      BY <2>2, <2>3 DEF Frames
    <2> QED
      BY <1>5, <2>1, <2>4
  <1>7. ASSUME NEW i \in DOMAIN frame.locals, NEW v \in Values, StoreLocal(i, v) PROVE StartInv'
    <2>1. alive /\ frame.at = "body" /\ fresh' = fresh
      BY <1>7 DEF StoreLocal, Running
    <2>2. frame'.at = frame.at
      BY <1>7 DEF StoreLocal, TypeOK, Frames
    <2> QED
      BY <1>5, <2>1, <2>2
  <1>8. ASSUME NEW i \in DOMAIN globals, NEW v \in Values, StoreGlobal(i, v) \/ DerefStore(i, v)
        PROVE  StartInv'
    BY <1>3, <1>8 DEF StoreGlobal, DerefStore
  <1>9. ASSUME NEW n \in Declared, UnforceVariable(n) PROVE StartInv'
    BY <1>2, <1>9 DEF UnforceVariable, Commandable
  <1>10. ASSUME NEW n \in Declared, NEW v \in Values, ForceVariable(n, v) PROVE StartInv'
    BY <1>2, <1>10 DEF ForceVariable, Commandable
  <1>11. ASSUME NEW m \in Programs, OnlineChangeBegins(m) PROVE StartInv'
    BY <1>3, <1>11 DEF OnlineChangeBegins
  <1>12. CASE StopBegins \/ SaveWrite
    BY <1>3, <1>12 DEF StopBegins, SaveWrite
  <1>13. CASE SaveRename \/ SaveSkipped
    <2>1. Proceed /\ fresh' = fresh
      BY <1>13 DEF SaveRename, SaveSkipped
    <2>2. CASE after = "change" /\ Change
      <3>1. ~fresh' /\ frame.at = "none"
        BY <2>1, <2>2 DEF SaveInv
      <3>2. frame'.at # "ginit"
        BY <2>2, <3>1 DEF Change, NoFrame
      <3> QED
        BY <1>2, <3>1, <3>2
    <2>3. CASE Drop
      BY <2>3 DEF Drop, StartInv, NoFrame
    <2>4. CASE UNCHANGED <<buildVars, vmVars, forceVars, counter>>
      BY <1>3, <2>1, <2>4
    <2> QED
      BY <2>1, <2>2, <2>3, <2>4, ProceedSteps
  <1>14. CASE Crash
    BY <1>14 DEF Crash, Drop, StartInv, NoFrame
  <1>15. CASE UNCHANGED vars
    BY <1>3, <1>15 DEF vars
  <1> QED
    BY <1>1, <1>4, <1>6, <1>7, <1>8, <1>9, <1>10, <1>11, <1>12, <1>13, <1>14, <1>15 DEF Next

(* Until the first cycle only a stop makes the engine save.                *)
LateInv == save # "no" /\ after # "stop" => ~fresh

LEMMA LateStep ==
  ASSUME EngineInv, StartInv, LateInv, [Next]_vars
  PROVE  LateInv'
  <1> USE DEF EngineInv, buildVars, vmVars, forceVars, saveVars, history, SaveInv
  <1>1. ASSUME NEW m \in Programs, NEW ok \in BOOLEAN, Build(m, ok) PROVE LateInv'
    BY <1>1 DEF Build, LateInv
  <1>2. CASE CycleContinuesInit
    BY <1>2 DEF CycleContinuesInit, LateInv
  <1>3. CASE CycleEnd
    <2>1. ~fresh /\ fresh' = fresh
      BY <1>3 DEF CycleEnd, Running, StartInv
    <2> QED
      BY <2>1 DEF LateInv
  <1>4. ASSUME NEW m \in Programs, OnlineChangeBegins(m) PROVE LateInv'
    BY <1>4 DEF OnlineChangeBegins, Commandable, LateInv
  <1>5. CASE StopBegins
    BY <1>5 DEF StopBegins, LateInv
  <1>6. CASE SaveWrite
    BY <1>6 DEF SaveWrite, LateInv
  <1>7. CASE Proceed \/ Crash
    BY <1>7 DEF Proceed, Crash, LateInv
  <1>8. CASE UNCHANGED <<save, after>> /\ (fresh' = fresh \/ ~fresh')
    BY <1>8 DEF LateInv
  <1>9. CASE CycleBegin \/ InitPreamble \/ Halt \/ Resume \/ UNCHANGED vars
    BY <1>8, <1>9 DEF CycleBegin, InitPreamble, Halt, Resume, vars
  <1>10. ASSUME NEW i \in DOMAIN frame.locals, NEW v \in Values, StoreLocal(i, v) PROVE LateInv'
    BY <1>8, <1>10 DEF StoreLocal
  <1>11. ASSUME NEW i \in DOMAIN globals, NEW v \in Values, StoreGlobal(i, v) \/ DerefStore(i, v)
         PROVE  LateInv'
    BY <1>8, <1>11 DEF StoreGlobal, DerefStore
  <1>12. ASSUME NEW n \in Declared, UnforceVariable(n) PROVE LateInv'
    BY <1>8, <1>12 DEF UnforceVariable
  <1>13. ASSUME NEW n \in Declared, NEW v \in Values, ForceVariable(n, v) PROVE LateInv'
    BY <1>8, <1>13 DEF ForceVariable
  <1> QED
    BY <1>1, <1>2, <1>3, <1>4, <1>5, <1>6, <1>7, <1>9, <1>10, <1>11, <1>12, <1>13
    DEF Next, SaveRename, SaveSkipped

(* compare_functions accepts a layout only if every old slot is in it.     *)
LEMMA AcceptedKeepsSlots ==
  ASSUME NEW o, NEW f, IsLayout(o.locals), IsLayout(f.locals),
         CompareFunctions(o, f) # "LayoutChanged",
         NEW i \in DOMAIN o.locals
  PROVE  Keeps(f.locals, o.locals[i])
  <1>1. CASE LayoutSame(o.locals, f.locals)
    <2>1. i \in DOMAIN f.locals /\ SameSlot(o.locals[i], f.locals[i])
      BY <1>1 DEF LayoutSame, IsLayout
    <2> QED
      BY <2>1 DEF Keeps, SameSlot
  <1>2. CASE ~LayoutSame(o.locals, f.locals)
    <2>1. \A k \in DOMAIN o.locals : Keeps(f.locals, o.locals[k])
      BY <1>2 DEF CompareFunctions
    <2> QED
      BY <2>1
  <1> QED
    BY <1>1, <1>2

(* A change that analyze_change accepts keeps every local of the program.  *)
LEMMA ChangeKeepsLocals ==
  ASSUME NEW p \in Programs, NEW q \in Programs, AnalyzeChange(p, q),
         NEW i \in DOMAIN LocalsOf(p)
  PROVE  \E j \in DOMAIN LocalsOf(q) : SameSlot(LocalsOf(q)[j], LocalsOf(p)[i])
  <1>1. "Main" \in FunctionNames(p) \cap FunctionNames(q)
    BY ProgramsAssumption
  <1>2. CompareFunctions(FunctionOf(p, "Main"), FunctionOf(q, "Main")) # "LayoutChanged"
    BY <1>1 DEF AnalyzeChange
  <1>3. IsLayout(FunctionOf(p, "Main").locals) /\ IsLayout(FunctionOf(q, "Main").locals)
    BY LayoutsOf DEF LocalsOf
  <1>4. Keeps(FunctionOf(q, "Main").locals, FunctionOf(p, "Main").locals[i])
    BY <1>2, <1>3, AcceptedKeepsSlots DEF LocalsOf
  <1> QED
    BY <1>4 DEF Keeps, LocalsOf

(* A migrated vector holds the old value of every slot that is kept.       *)
LEMMA MigrateKeepsValues ==
  ASSUME NEW values, NEW old, NEW new, IsLayout(old), DOMAIN values = DOMAIN old,
         NEW i \in DOMAIN old, NEW j \in DOMAIN new, SameSlot(new[j], old[i])
  PROVE  Migrated(values, old, new)[j] = values[i]
  <1>1. new[j].name = old[i].name /\ new[j].ty = old[i].ty
    BY DEF SameSlot
  <1>2. new[j].name \in SlotNames(old) /\ IndexOf(old, new[j].name) = i
    BY <1>1, IndexOfSlot
  <1> QED
    BY <1>1, <1>2 DEF MigrateLocals, Migrated

(* Global and local names are apart, in one module and across a change.    *)
LEMMA NamesApart ==
  ASSUME NEW p \in Programs, NEW q \in Programs,
         NEW i \in DOMAIN p.globals, NEW j \in DOMAIN LocalsOf(q)
  PROVE  p.globals[i].name # LocalsOf(q)[j].name
  BY ProgramsAssumption DEF SlotNames

(* Forces survive an accepted change, but for those of globals that it     *)
(* moves or takes out: the locals are found again under their names.       *)
LEMMA ChangeKeepsForces ==
  ASSUME TypeOK, ForceInv, alive, Change,
         forced' = forced, fslots' = fslots, debugged' = debugged
  PROVE  ForceInv'
  <1>1. CASE AnalyzeChange(module, pending)
    <2>1. /\ module' = pending
          /\ globals' = Migrated(globals, module.globals, pending.globals)
          /\ ran => retained' = Migrated(retained, Locals, LocalsOf(pending))
          /\ ran' = ran
          /\ moved' = moved \cup {n \in DOMAIN forced \ SlotNames(Locals) : ~Stays(n)}
      BY <1>1 DEF Change
    <2>2. module \in Programs /\ pending \in Programs /\ Locals = LocalsOf(module)
          /\ Locals' = LocalsOf(pending)
      BY <2>1 DEF TypeOK, Locals, LocalsOf
    <2>3. /\ IsLayout(module.globals) /\ IsLayout(LocalsOf(module))
          /\ IsLayout(pending.globals) /\ IsLayout(LocalsOf(pending))
      BY <2>2, LayoutsOf
    <2>5. ForcedNames'
      <3> SUFFICES ASSUME NEW n \in DOMAIN forced
                   PROVE  n \in SlotNames(LocalsOf(pending)) \/ \E m \in Programs : n \in SlotNames(m.globals)
        BY <2>2 DEF ForcedNames
      <3>1. CASE \E m \in Programs : n \in SlotNames(m.globals)
        BY <3>1
      <3>2. CASE n \in SlotNames(LocalsOf(module))
        <4>1. PICK i \in DOMAIN LocalsOf(module) : LocalsOf(module)[i].name = n
          BY <3>2 DEF SlotNames
        <4>2. PICK j \in DOMAIN LocalsOf(pending) : SameSlot(LocalsOf(pending)[j], LocalsOf(module)[i])
          BY <1>1, <2>2, ChangeKeepsLocals
        <4> QED
          BY <4>1, <4>2 DEF SameSlot, SlotNames
      <3> QED
        BY <2>2, <3>1, <3>2 DEF ForceInv, ForcedNames
    <2>6. ForcedGlobalSlots'
      <3> SUFFICES ASSUME NEW j \in DOMAIN pending.globals,
                          pending.globals[j].name \in DOMAIN forced \ moved'
                   PROVE  /\ j \in fslots
                          /\ pending.globals[j].name \notin Referenced
                               => globals'[j] = forced[pending.globals[j].name]
        BY <2>1 DEF ForcedGlobalSlots
      <3> DEFINE n == pending.globals[j].name
      <3>1. n \notin SlotNames(Locals)
        BY <2>2, NamesApart DEF SlotNames
      <3>2. Stays(n) /\ n \notin moved
        BY <2>1, <3>1
      <3>3. /\ n \in SlotNames(module.globals) /\ IndexOf(pending.globals, n) = j
            /\ IndexOf(module.globals, n) = j
        BY <2>3, <3>2, IndexOfSlot DEF Stays
      <3>4. j \in DOMAIN module.globals /\ module.globals[j].name = n
        BY <3>3, IndexOfFinds
      <3>5. module.globals[j].ty = pending.globals[j].ty
        BY <1>1, <3>4 DEF AnalyzeChange, GlobalsCompatible, TypeChanged
      <3>6. SameSlot(pending.globals[j], module.globals[j])
        BY <3>4, <3>5 DEF SameSlot
      <3>7. globals'[j] = globals[j]
        BY <2>1, <2>3, <3>4, <3>6, MigrateKeepsValues DEF TypeOK
      <3> QED
        BY <3>2, <3>4, <3>7 DEF ForceInv, ForcedGlobalSlots
    <2>7. ForcedLocalSlots'
      <3> SUFFICES ASSUME ran, ~debugged, NEW j \in DOMAIN LocalsOf(pending),
                          LocalsOf(pending)[j].name \in DOMAIN forced
                   PROVE  retained'[j] = forced[LocalsOf(pending)[j].name]
        BY <2>1, <2>2 DEF ForcedLocalSlots
      <3>1. PICK i \in DOMAIN LocalsOf(module) :
              LocalsOf(module)[i].name = LocalsOf(pending)[j].name
        <4>1. \A m \in Programs : LocalsOf(pending)[j].name \notin SlotNames(m.globals)
          BY <2>2, NamesApart DEF SlotNames
        <4> QED
          BY <2>2, <4>1, NamesApart DEF ForceInv, ForcedNames, SlotNames
      <3>2. PICK k \in DOMAIN LocalsOf(pending) : SameSlot(LocalsOf(pending)[k], LocalsOf(module)[i])
        BY <1>1, <2>2, ChangeKeepsLocals
      <3>3. k = j
        BY <2>3, <3>1, <3>2 DEF SameSlot, IsLayout
      <3>4. DOMAIN retained = DOMAIN LocalsOf(module)
        BY <2>2 DEF TypeOK
      <3>5. retained'[j] = retained[i]
        BY <2>1, <2>2, <2>3, <3>2, <3>3, <3>4, MigrateKeepsValues
      <3>6. retained[i] = forced[LocalsOf(module)[i].name]
        BY <2>2, <3>1 DEF ForceInv, ForcedLocalSlots
      <3> QED
        BY <3>1, <3>5, <3>6
    <2> QED
      BY <2>5, <2>6, <2>7 DEF ForceInv
  <1>2. CASE ~AnalyzeChange(module, pending)
    BY <1>2 DEF Change, ForceInv, ForcedNames, ForcedGlobalSlots, ForcedLocalSlots, Locals, buildVars, vmVars
  <1> QED
    BY <1>1, <1>2

(* No step takes a force away but unforcing it, or moving the global.      *)
LEMMA ForceStep ==
  ASSUME EngineInv, StartInv, ForceInv, [Next]_vars
  PROVE  ForceInv'
  <1> USE DEF EngineInv, buildVars, vmVars, forceVars, saveVars, history
  <1> TypeOK /\ SaveInv
    OBVIOUS
  <1>1. ASSUME UNCHANGED <<alive, module, globals, ran, retained, forced, fslots, moved, debugged>>
        PROVE  ForceInv'
    BY <1>1 DEF ForceInv, ForcedNames, ForcedGlobalSlots, ForcedLocalSlots, Locals
  <1>2. ASSUME forced' = Empty PROVE ForceInv'
    <2>1. DOMAIN forced' = {}
      BY <1>2 DEF Empty
    <2> QED
      BY <2>1 DEF ForceInv, ForcedNames, ForcedGlobalSlots, ForcedLocalSlots
  <1>3. ASSUME NEW m \in Programs, NEW ok \in BOOLEAN, Build(m, ok) PROVE ForceInv'
    BY <1>2, <1>3 DEF Build
  <1>4. CASE CycleBegin \/ InitPreamble \/ Halt \/ Resume
    BY <1>1, <1>4 DEF CycleBegin, InitPreamble, Halt, Resume
  <1>5. CASE CycleContinuesInit
    <2>1. forced' = Empty
      BY <1>5 DEF CycleContinuesInit, StartInv
    <2> QED
      BY <1>2, <2>1
  <1>6. CASE CycleEnd
    <2>1. alive /\ UNCHANGED <<alive, module, globals, forced, fslots, moved>>
      BY <1>6 DEF CycleEnd, Running
    <2>2. ForcedLocalSlots'
      <3> SUFFICES ASSUME ~debugged', NEW i \in DOMAIN Locals, Locals[i].name \in DOMAIN forced
                   PROVE  retained'[i] = forced[Locals[i].name]
        BY <2>1 DEF ForcedLocalSlots, Locals
      <3>1. retained' = Enforced(frame.locals)
        BY <1>6 DEF CycleEnd
      <3>2. DOMAIN frame.locals = DOMAIN Locals
        BY <1>6 DEF CycleEnd, TypeOK
      <3> QED
        BY <3>1, <3>2 DEF Enforced
    <2> QED
      BY <2>1, <2>2 DEF ForceInv, ForcedNames, ForcedGlobalSlots, Locals
  <1>7. ASSUME NEW i \in DOMAIN frame.locals, NEW v \in Values, StoreLocal(i, v) PROVE ForceInv'
    BY <1>1, <1>7 DEF StoreLocal
  <1>8. ASSUME NEW i \in DOMAIN globals, NEW v \in Values, StoreGlobal(i, v) \/ DerefStore(i, v)
        PROVE  ForceInv'
    <2>1. /\ alive /\ globals' = [globals EXCEPT ![i] = v]
          /\ i \notin fslots \/ module.globals[i].name \in Referenced
          /\ UNCHANGED <<alive, module, ran, retained, forced, fslots, moved, debugged>>
      BY <1>8 DEF StoreGlobal, DerefStore, Running
    <2>2. ForcedGlobalSlots'
      BY <2>1 DEF ForceInv, ForcedGlobalSlots, TypeOK
    <2> QED
      BY <2>1, <2>2 DEF ForceInv, ForcedNames, ForcedLocalSlots, Locals
  <1>9. ASSUME NEW n \in Declared, UnforceVariable(n) PROVE ForceInv'
    <2>1. /\ alive /\ forced' = [x \in DOMAIN forced \ {n} |-> forced[x]]
          /\ fslots' = IF n \in SlotNames(module.globals)
                       THEN fslots \ {IndexOf(module.globals, n)} ELSE fslots
          /\ moved' = moved \ {n}
          /\ UNCHANGED <<alive, module, globals, ran, retained, debugged>>
      BY <1>9 DEF UnforceVariable, Commandable, Running
    <2>2. ForcedGlobalSlots'
      <3> SUFFICES ASSUME NEW i \in DOMAIN module.globals, module.globals[i].name \in DOMAIN forced' \ moved'
                   PROVE  /\ i \in fslots'
                          /\ module.globals[i].name \notin Referenced
                               => globals[i] = forced'[module.globals[i].name]
        BY <2>1 DEF ForcedGlobalSlots
      <3>1. module.globals[i].name # n /\ module.globals[i].name \in DOMAIN forced \ moved
        BY <2>1
      <3>2. n \in SlotNames(module.globals) => IndexOf(module.globals, n) # i
        BY <3>1, IndexOfFinds
      <3> QED
        BY <2>1, <3>1, <3>2 DEF ForceInv, ForcedGlobalSlots
    <2> QED
      BY <2>1, <2>2 DEF ForceInv, ForcedNames, ForcedLocalSlots, Locals
  <1>10. ASSUME NEW n \in Declared, NEW v \in Values, ForceVariable(n, v) PROVE ForceInv'
    <2>1. /\ alive /\ UNCHANGED <<alive, module, ran, debugged>>
          /\ forced' = [x \in DOMAIN forced \cup {n} |-> IF x = n THEN v ELSE forced[x]]
          /\ moved' = moved \ {n}
      BY <1>10 DEF ForceVariable, Commandable, Running
    <2>2. DOMAIN forced' = DOMAIN forced \cup {n} /\ forced'[n] = v
          /\ \A x \in DOMAIN forced : x # n => forced'[x] = forced[x]
      BY <2>1
    <2>3. module \in Programs /\ Locals = LocalsOf(module)
      BY DEF TypeOK, Locals, LocalsOf
    <2>4. IsLayout(module.globals) /\ IsLayout(Locals)
      BY <2>3, LayoutsOf
    <2>7. ForcedNames'
      BY <2>1, <2>2, <2>3 DEF ForceInv, ForcedNames, Declared, Locals
    <2>5. CASE n \in SlotNames(module.globals)
      <3> DEFINE k == IndexOf(module.globals, n)
      <3>1. k \in DOMAIN module.globals /\ module.globals[k].name = n
        BY <2>5, IndexOfFinds
      <3>2. /\ fslots' = fslots \cup {k} /\ globals' = [globals EXCEPT ![k] = v]
            /\ retained' = retained
        BY <1>10, <2>5 DEF ForceVariable
      <3> HIDE DEF k
      <3>3. ForcedGlobalSlots'
        <4> SUFFICES ASSUME NEW i \in DOMAIN module.globals, module.globals[i].name \in DOMAIN forced' \ moved'
                     PROVE  /\ i \in fslots'
                            /\ module.globals[i].name \notin Referenced
                                 => globals'[i] = forced'[module.globals[i].name]
          BY <2>1 DEF ForcedGlobalSlots
        <4>1. CASE i = k
          BY <2>2, <3>1, <3>2, <4>1 DEF TypeOK
        <4>2. CASE i # k
          <5>1. module.globals[i].name # n
            BY <2>4, <3>1, <4>2 DEF IsLayout
          <5> QED
            BY <2>1, <2>2, <3>1, <3>2, <4>2, <5>1 DEF ForceInv, ForcedGlobalSlots, TypeOK
        <4> QED
          BY <4>1, <4>2
      <3>4. ForcedLocalSlots'
        <4>1. \A j \in DOMAIN Locals : Locals[j].name # n
          BY <2>3, <3>1, NamesApart
        <4> QED
          BY <2>1, <2>2, <3>2, <4>1 DEF ForceInv, ForcedLocalSlots, Locals
      <3> QED
        BY <2>1, <2>2, <2>7, <3>3, <3>4 DEF ForceInv
    <2>6. CASE n \notin SlotNames(module.globals)
      <3> DEFINE k == IndexOf(Locals, n)
      <3>1. k \in DOMAIN Locals /\ Locals[k].name = n
        BY <2>6, IndexOfFinds DEF Declared
      <3>2. /\ UNCHANGED <<fslots, globals>>
            /\ ran => retained' = [retained EXCEPT ![k] = v]
        BY <1>10, <2>6 DEF ForceVariable
      <3> HIDE DEF k
      <3>3. ForcedGlobalSlots'
        <4>1. \A i \in DOMAIN module.globals : module.globals[i].name # n
          BY <2>6 DEF SlotNames
        <4> QED
          BY <2>1, <2>2, <3>2, <4>1 DEF ForceInv, ForcedGlobalSlots
      <3>4. ForcedLocalSlots'
        <4> SUFFICES ASSUME ran, ~debugged, NEW j \in DOMAIN Locals, Locals[j].name \in DOMAIN forced'
                     PROVE  retained'[j] = forced'[Locals[j].name]
          BY <2>1 DEF ForcedLocalSlots, Locals
        <4>1. CASE j = k
          BY <2>2, <3>1, <3>2, <4>1 DEF TypeOK
        <4>2. CASE j # k
          <5>1. Locals[j].name # n
            BY <2>4, <3>1, <4>2 DEF IsLayout
          <5> QED
            BY <2>1, <2>2, <3>1, <3>2, <4>2, <5>1 DEF ForceInv, ForcedLocalSlots, TypeOK
        <4> QED
          BY <4>1, <4>2
      <3> QED
        BY <2>1, <2>2, <2>7, <3>3, <3>4 DEF ForceInv
    <2> QED
      BY <2>5, <2>6
  <1>11. ASSUME NEW m \in Programs, OnlineChangeBegins(m) PROVE ForceInv'
    BY <1>1, <1>11 DEF OnlineChangeBegins
  <1>12. CASE StopBegins \/ SaveWrite
    BY <1>1, <1>12 DEF StopBegins, SaveWrite
  <1>13. CASE SaveRename \/ SaveSkipped
    <2>1. Proceed /\ debugged' = debugged /\ alive
      BY <1>13 DEF SaveRename, SaveSkipped, SaveInv
    <2>2. CASE Change /\ UNCHANGED <<forced, fslots, counter>>
      BY <2>1, <2>2, ChangeKeepsForces
    <2>3. CASE Drop
      BY <1>2, <2>3 DEF Drop
    <2>4. CASE UNCHANGED <<buildVars, vmVars, forceVars, counter>>
      BY <1>1, <2>1, <2>4
    <2> QED
      BY <2>1, <2>2, <2>3, <2>4, ProceedSteps
  <1>14. CASE Crash
    BY <1>2, <1>14 DEF Crash, Drop
  <1>15. CASE UNCHANGED vars
    BY <1>1, <1>15 DEF vars
  <1> QED
    BY <1>3, <1>4, <1>5, <1>6, <1>7, <1>8, <1>9, <1>10, <1>11, <1>12, <1>13, <1>14, <1>15 DEF Next

(* For all modules and all changes between them, a forced variable holds   *)
(* its forced value until it is unforced, whatever the program writes, the *)
(* debugger does or an online change migrates, except in the three ways    *)
(* that ForcedGlobalsHold and ForcedLocalsHold name: a write through a     *)
(* reference, a change that moves the global to another slot, a cycle      *)
(* resumed by the debugger (force_variable, StoreGlobal's check of         *)
(* forced_global_slots, swap_module, enforce_retained_locals).             *)
THEOREM ForcesHoldAlways == Spec => []ForcesHold
  <1>1. Init => StartInv /\ ForceInv
    <2> SUFFICES ASSUME Init PROVE StartInv /\ ForceInv
      OBVIOUS
    <2>1. ~alive /\ frame.at = "none"
      BY DEF Init, NoFrame
    <2> QED
      BY <2>1 DEF StartInv, ForceInv
  <1>2. EngineInv /\ StartInv /\ ForceInv /\ [Next]_vars => (StartInv /\ ForceInv)'
    BY StartStep, ForceStep
  <1>3. EngineInv /\ ForceInv => ForcesHold
    <2> SUFFICES ASSUME EngineInv, ForceInv PROVE ForcesHold
      OBVIOUS
    <2>1. TypeOK
      BY DEF EngineInv
    <2>2. ForcedGlobalsHold
      BY <2>1 DEF ForcedGlobalsHold, ForceInv, ForcedGlobalSlots, TypeOK
    <2>3. ForcedLocalsHold
      BY <2>1 DEF ForcedLocalsHold, ForceInv, ForcedLocalSlots, TypeOK
    <2> QED
      BY <2>1, <2>2, <2>3 DEF ForcesHold
  <1> QED
    BY <1>1, <1>2, <1>3, EngineInvHolds, PTL DEF Spec

-----------------------------------------------------------------------------
(* RETAIN variables *)

(* Until the first cycle, an engine holds what the file had for it.        *)
RestoreInv ==
  alive /\ fresh /\ Initialized => \A n \in Declared : AtFirstCycle(n) = WarmValue(n)

(* A name is the file's local exactly if no module has it as a global.     *)
LEMMA FileScopes ==
  ASSUME FileInv, NEW n \in DOMAIN file
  PROVE  /\ file[n].scope \in {"global", "local"}
         /\ file[n].scope = "local" <=> n \notin UNION {SlotNames(m.globals) : m \in Programs}
  <1>1. CASE file[n].scope = "global" /\ \E m \in Programs : n \in SlotNames(m.globals)
    BY <1>1
  <1>2. CASE file[n].scope = "local" /\ \E m \in Programs : n \in SlotNames(LocalsOf(m))
    BY <1>2, ProgramsAssumption
  <1> QED
    BY <1>1, <1>2 DEF FileInv

(* Engine::new gives every variable what a warm restart promises it.       *)
LEMMA BuildRestores ==
  ASSUME EngineInv, NEW m \in Programs, NEW ok \in BOOLEAN, Build(m, ok)
  PROVE  RestoreInv'
  <1> FileInv
    BY DEF EngineInv
  <1> DEFINE snapshot == IF ok THEN file ELSE NoEntries
             f == FailingSlot(m.globals)
             inits == [i \in DOMAIN m.globals |->
                         IF i < f THEN InitOf(m.globals[i]) ELSE Default(m.globals[i].ty)]
  <1>1. /\ module' = m /\ UNCHANGED <<file, kept>> /\ Locals' = LocalsOf(m)
        /\ loaded' = ok /\ ran' = HasLocals(snapshot)
    BY DEF Build, Locals, LocalsOf
  <1>2. globals' = Restored(snapshot, "global", m.globals, inits)
    BY DEF Build
  <1>3. ASSUME HasLocals(snapshot)
        PROVE  retained' = Restored(snapshot, "local", LocalsOf(m), Defaults(LocalsOf(m)))
    BY <1>3 DEF Build
  <1>4. IsLayout(m.globals) /\ IsLayout(LocalsOf(m)) /\ f \in Nat
    BY LayoutsOf
  <1>5. DOMAIN snapshot = IF ok THEN DOMAIN kept ELSE {}
    BY DEF NoEntries, Empty, FileInv
  <1>6. \A n \in DOMAIN snapshot : ok /\ snapshot[n] = file[n]
    BY DEF NoEntries, Empty
  <1>7. SkipsPreamble' <=> HasLocals(snapshot)
    BY <1>1, <1>5, <1>6, FileScopes DEF SkipsPreamble, HasLocals, FileInv
  <1> HIDE DEF snapshot, f
  <1> SUFFICES ASSUME Initialized', NEW n \in SlotNames(m.globals) \cup SlotNames(LocalsOf(m))
               PROVE  AtFirstCycle(n)' = WarmValue(n)'
    BY <1>1 DEF RestoreInv, Declared
  <1>8. f > Len(m.globals)
    BY <1>1 DEF Initialized, f
  <1>9. n \in Survivors' <=> n \in DOMAIN snapshot /\ Restores(snapshot[n], SlotOf(n)')
    BY <1>1, <1>5, <1>6 DEF Survivors, Restores, FileInv
  <1>10. n \in DOMAIN snapshot => snapshot[n].value = kept[n].value
    BY <1>6, <1>5 DEF FileInv
  <1>11. CASE n \in SlotNames(m.globals)
    <2> DEFINE k == IndexOf(m.globals, n)
    <2>1. k \in DOMAIN m.globals /\ m.globals[k].name = n /\ k < f
      BY <1>4, <1>8, <1>11, IndexOfFinds DEF IsLayout
    <2>2. n \in DOMAIN snapshot => snapshot[n].scope = "global"
      BY <1>5, <1>6, <1>11, FileScopes DEF FileInv
    <2>3. SlotOf(n)' = m.globals[k] /\ AtFirstCycle(n)' = globals'[k]
      BY <1>1, <1>11 DEF SlotOf, AtFirstCycle, ValueOf
    <2>4. n \notin SlotNames(LocalsOf(m))
      BY <1>11, ProgramsAssumption
    <2> HIDE DEF k
    <2>5. globals'[k] = IF n \in DOMAIN snapshot /\ Restores(snapshot[n], m.globals[k])
                        THEN snapshot[n].value ELSE InitOf(m.globals[k])
      BY <1>2, <2>1, <2>2 DEF Restored
    <2> QED
      BY <1>1, <1>9, <1>10, <2>3, <2>4, <2>5 DEF WarmValue
  <1>12. CASE n \notin SlotNames(m.globals)
    <2> DEFINE k == IndexOf(LocalsOf(m), n)
    <2>1. k \in DOMAIN LocalsOf(m) /\ LocalsOf(m)[k].name = n /\ n \in SlotNames(LocalsOf(m))
      BY <1>12, IndexOfFinds
    <2>2. n \in DOMAIN snapshot => snapshot[n].scope = "local"
      <3>1. n \notin UNION {SlotNames(p.globals) : p \in Programs}
        BY <2>1, ProgramsAssumption
      <3> QED
        BY <1>5, <1>6, <3>1, FileScopes DEF FileInv
    <2>3. SlotOf(n)' = LocalsOf(m)[k]
      BY <1>1, <1>12 DEF SlotOf
    <2>4. CASE HasLocals(snapshot)
      <3>1. AtFirstCycle(n)' = retained'[k]
        BY <1>1, <1>12, <2>4 DEF AtFirstCycle, ValueOf
      <3> HIDE DEF k
      <3>2. retained'[k] = IF n \in DOMAIN snapshot /\ Restores(snapshot[n], LocalsOf(m)[k])
                           THEN snapshot[n].value ELSE Default(LocalsOf(m)[k].ty)
        BY <1>3, <2>1, <2>2, <2>4 DEF Restored, Defaults
      <3> QED
        BY <1>1, <1>7, <1>9, <1>10, <2>1, <2>3, <2>4, <3>1, <3>2 DEF WarmValue
    <2>5. CASE ~HasLocals(snapshot)
      <3>1. AtFirstCycle(n)' = InitOf(LocalsOf(m)[k])
        BY <1>1, <1>12, <2>3, <2>5 DEF AtFirstCycle
      <3>2. n \notin DOMAIN snapshot
        BY <2>2, <2>5 DEF HasLocals
      <3> HIDE DEF k
      <3> QED
        BY <1>1, <1>7, <1>9, <2>3, <2>5, <3>1, <3>2 DEF WarmValue
    <2> QED
      BY <2>4, <2>5
  <1> QED
    BY <1>11, <1>12

(* What was restored stays until the first cycle begins.                   *)
LEMMA RestoreStep ==
  ASSUME EngineInv, StartInv, LateInv, RestoreInv, [Next]_vars
  PROVE  RestoreInv'
  <1> USE DEF EngineInv, buildVars, vmVars, forceVars, saveVars, history
  <1> TypeOK /\ SaveInv
    OBVIOUS
  <1>1. ASSUME UNCHANGED <<alive, module, globals, ran, retained, fresh, loaded, kept>>
        PROVE  RestoreInv'
    BY <1>1 DEF RestoreInv, Initialized, Survivors, SkipsPreamble, WarmValue, AtFirstCycle, SlotOf, ValueOf,
       Declared, Locals
  <1>2. ASSUME ~(alive' /\ fresh') PROVE RestoreInv'
    BY <1>2 DEF RestoreInv
  <1>3. ASSUME NEW m \in Programs, NEW ok \in BOOLEAN, Build(m, ok) PROVE RestoreInv'
    BY <1>3, BuildRestores
  <1>4. CASE CycleBegin \/ CycleContinuesInit
    BY <1>2, <1>4 DEF CycleBegin, CycleContinuesInit
  <1>5. ASSUME alive, frame.at \in {"init", "body", "halted"}, fresh' = fresh PROVE RestoreInv'
    BY <1>2, <1>5 DEF StartInv
  <1>6. CASE InitPreamble \/ CycleEnd \/ Halt \/ Resume
    BY <1>5, <1>6 DEF InitPreamble, CycleEnd, Halt, Resume, Running
  <1>7. ASSUME NEW i \in DOMAIN frame.locals, NEW v \in Values, StoreLocal(i, v) PROVE RestoreInv'
    BY <1>5, <1>7 DEF StoreLocal, Running
  <1>8. ASSUME NEW i \in DOMAIN globals, NEW v \in Values, StoreGlobal(i, v) \/ DerefStore(i, v)
        PROVE  RestoreInv'
    BY <1>5, <1>8 DEF StoreGlobal, DerefStore, Running
  <1>9. ASSUME NEW n \in Declared, UnforceVariable(n) PROVE RestoreInv'
    BY <1>2, <1>9 DEF UnforceVariable, Commandable
  <1>10. ASSUME NEW n \in Declared, NEW v \in Values, ForceVariable(n, v) PROVE RestoreInv'
    BY <1>2, <1>10 DEF ForceVariable, Commandable
  <1>11. ASSUME NEW m \in Programs, OnlineChangeBegins(m) PROVE RestoreInv'
    BY <1>1, <1>11 DEF OnlineChangeBegins
  <1>12. CASE StopBegins \/ SaveWrite
    BY <1>1, <1>12 DEF StopBegins, SaveWrite
  <1>13. CASE SaveRename \/ SaveSkipped
    <2>1. Proceed /\ fresh' = fresh
      BY <1>13 DEF SaveRename, SaveSkipped
    <2>2. CASE after = "change"
      BY <1>2, <2>1, <2>2 DEF SaveInv
    <2>3. CASE Drop
      BY <1>2, <2>3 DEF Drop
    <2>4. CASE after \notin {"change", "stop"}
      BY <1>2, <1>13, <2>1, <2>4 DEF LateInv, SaveRename, SaveSkipped
    <2> QED
      BY <2>1, <2>2, <2>3, <2>4, ProceedSteps
  <1>14. CASE Crash
    BY <1>2, <1>14 DEF Crash
  <1>15. CASE UNCHANGED vars
    BY <1>1, <1>15 DEF vars
  <1> QED
    BY <1>3, <1>4, <1>6, <1>7, <1>8, <1>9, <1>10, <1>11, <1>12, <1>13, <1>14, <1>15 DEF Next

(* A warm restart of any program, with any values and checkpoint interval: *)
(* wherever the engine was stopped or killed and whichever module is       *)
(* started, each variable enters the first cycle with the value of the     *)
(* last completed save where the code restores it, and with the            *)
(* initializer or default that the code gives it elsewhere                 *)
(* (capture_snapshot, save_to_file, load_from_file, restore_snapshot,      *)
(* is_compatible).                                                         *)
THEOREM RetainSurvivesAlways == Spec => RetainSurvives
  <1> DEFINE Survives == FirstCycle /\ Initialized =>
                           \A n \in Declared : AtFirstCycle(n) = WarmValue(n)
  <1>1. Init => StartInv /\ LateInv /\ RestoreInv
    <2> SUFFICES ASSUME Init PROVE StartInv /\ LateInv /\ RestoreInv
      OBVIOUS
    <2>1. ~alive /\ frame.at = "none" /\ save = "no"
      BY DEF Init, NoFrame
    <2> QED
      BY <2>1 DEF StartInv, LateInv, RestoreInv
  <1>2. EngineInv /\ StartInv /\ LateInv /\ RestoreInv /\ [Next]_vars
          => (StartInv /\ LateInv /\ RestoreInv)'
    BY StartStep, LateStep, RestoreStep
  <1>3. RestoreInv /\ [Next]_vars => [Survives]_vars
    <2> SUFFICES ASSUME RestoreInv, Next, FirstCycle PROVE Survives
      BY DEF FirstCycle
    <2>1. alive
      <3>1. CASE \E m \in Programs, ok \in BOOLEAN : Build(m, ok)
        BY <3>1 DEF Build, FirstCycle
      <3>2. CASE CycleBegin \/ CycleContinuesInit \/ Crash
        BY <3>2 DEF CycleBegin, CycleContinuesInit, Running, Crash
      <3>3. fresh' = fresh \/ CycleBegin \/ CycleContinuesInit \/ Crash
            \/ \E m \in Programs, ok \in BOOLEAN : Build(m, ok)
        BY DEF Next, OnlineChangeBegins, InitPreamble, CycleEnd, StoreLocal, StoreGlobal, DerefStore, Halt,
           Resume, UnforceVariable, ForceVariable, StopBegins, SaveWrite, SaveRename, SaveSkipped, history
      <3> QED
        BY <3>1, <3>2, <3>3 DEF FirstCycle
    <2> QED
      BY <2>1 DEF RestoreInv, FirstCycle
  <1> QED
    BY <1>1, <1>2, <1>3, EngineInvHolds, PTL DEF Spec, RetainSurvives

=============================================================================
