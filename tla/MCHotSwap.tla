----------------------------- MODULE MCHotSwap -----------------------------
(* Every program with up to three locals out of five declarations, up to   *)
(* two globals, and a helper FUNCTION in any position.                     *)
EXTENDS HotSwap

CONSTANT MaxLocals   \* bound on the locals of the program

Slot(name, ty) == [name |-> name, ty |-> ty]

Distinct(layout) ==
  \A i, j \in DOMAIN layout : layout[i].name = layout[j].name => i = j

Layouts(slots, max) ==
  {s \in UNION {[1 .. n -> slots] : n \in 0 .. max} : Distinct(s)}

Pou(name, kind, slots) == [name |-> name, kind |-> kind, locals |-> slots]

\* the FB's position decides the type of its instances
Functions(shape, slots) ==
  LET fb == Pou("Fb", "FunctionBlock", <<Slot("in", <<"INT">>)>>)
      aux == Pou("Aux", "Function", <<Slot("p", <<"INT">>)>>)
      main == Pou(Program, "Program", slots)
  IN CASE shape = "plain" -> <<fb, main>>
       [] shape = "auxFirst" -> <<aux, fb, main>>
       [] shape = "auxMiddle" -> <<fb, aux, main>>

FbIndex(shape) == IF shape = "auxFirst" THEN 2 ELSE 1

LocalSlots(shape) ==
  {Slot("x", <<"INT">>), Slot("x", <<"REAL">>),
   Slot("a", <<"FB", FbIndex(shape)>>), Slot("b", <<"FB", FbIndex(shape)>>)}

GlobalLayouts ==
  {<<Slot("g", <<"INT">>)>>, <<Slot("g", <<"REAL">>)>>,
   <<Slot("h", <<"INT">>), Slot("g", <<"INT">>)>>}

MCModules ==
  {[functions |-> Functions(shape, slots), globals |-> globs] :
     shape \in {"plain", "auxFirst", "auxMiddle"},
     slots \in Layouts(LocalSlots("plain") \cup LocalSlots("auxFirst"), MaxLocals),
     globs \in GlobalLayouts}

\* instances of a program refer to the FB where it is
WellTyped(m) ==
  \A i \in DOMAIN m.functions : \A k \in DOMAIN m.functions[i].locals :
    LET ty == m.functions[i].locals[k].ty
    IN ty[1] = "FB" => m.functions[ty[2]].name = "Fb"

MCWellTyped == {m \in MCModules : WellTyped(m)}

=============================================================================
