---------------------------- MODULE MCMonitoring ----------------------------
(* Three programs with as many catalog entries, so that one can replace the  *)
(* other by online change: a variable of each type whose text some parser    *)
(* treats apart, and one variable that changes its type.  A fourth one, for  *)
(* clients that watch, has every kind of compound within every other.        *)
EXTENDS MonitorUpdates

Simple(n, ty) == Slot(n, ty, ty, <<>>, FALSE)
Array(n, of, lo, hi, keep) == Slot(n, "ARRAY", of, <<<<lo, hi>>>>, keep)
Instance(n, ty, of) == Slot(n, ty, of, <<>>, FALSE)
\* A compiled block with an array, one without, a native block, a STRUCT.
Types == [Ctl |-> <<Simple("q", "BOOL"), Array("tab", "INT", 1, 2, FALSE), Simple("lim", "INT"),
                    Instance("cnt", "FB", "Cnt")>>,
          Cnt |-> <<Simple("cv", "UINT")>>,
          Pt |-> <<Simple("x", "SINT"), Instance("rest", "STRUCT", "Pt")>>]
MoreTypes == [Ctl |-> Types.Ctl \o <<Instance("pt", "STRUCT", "Pt"), Instance("obj", "CLASS", "Obj")>>,
              Cnt |-> Append(Types.Cnt, Instance("pt", "STRUCT", "Pt")),
              Rtu |-> <<Simple("err", "INT"), Array("di", "BOOL", 0, 1, FALSE), Simple("level", "UINT")>>,
              Pt |-> Types.Pt]
Locals ==
    <<Simple("u", "ULINT"), Simple("r", "REAL"), Simple("s", "STRING"), Array("arr", "INT", 1, 2, TRUE),
      Instance("pt", "STRUCT", "Pt"), Slot("fb", "FB", "Ctl", <<>>, TRUE)>>
MoreLocals ==
    <<Array("arr2", "STRUCT", 0, 0, FALSE), Slot("grid", "ARRAY", "INT", <<<<0, 1>>, <<0, 1>>>>, FALSE),
      Instance("rtu", "FB", "Rtu"), Instance("cnt", "FB", "Cnt"), Instance("obj", "CLASS", "Obj")>>
Program(more, types) ==
    [globals |-> <<Slot("g", "BOOL", "BOOL", <<>>, TRUE), Array("all", "INT", 0, 3, FALSE)>>,
     pous |-> <<[n |-> "Main", slots |-> Locals \o more], [n |-> "Spare", slots |-> <<Simple("z", "INT")>>]>>,
     types |-> types, native |-> {"Rtu"}]
MCDecl == [p1 |-> Program(<<Simple("t", "TIME")>>, Types), p2 |-> Program(<<Simple("w", "INT")>>, Types),
           p3 |-> Program(<<Simple("t", "INT")>>, Types), p4 |-> Program(MoreLocals, MoreTypes)]
MCBeginnings == {<<"arr", "arr2">>}

Main(n) == <<Field("Main"), Field(n)>>
Marked == {<<Append(Main("fb"), Field("q")), Text("true", 0)>>}
Values ==
    {<<Main("u"), Variant("ULINT", "number", LongHalf)>>,
     <<Main("r"), Variant("Float", "number", 4)>>,
     <<Main("r"), Variant("Float", "number", 6)>>,
     <<Main("r"), Variant("Float", "number", 7)>>,
     <<Main("s"), Variant("String", "word", 3)>>,
     <<Main("s"), Variant("String", "true", 0)>>,
     <<Main("s"), Variant("String", "int", LongHalf)>>,
     <<Main("s"), Variant("String", "digits", 7)>>,
     <<<<Field("all")>>, Variant("INT", "number", 3)>>,
     <<Append(Main("fb"), Field("lim")), Variant("INT", "number", 3)>>,
     <<Append(Main("arr"), Elem(1)), Variant("INT", "number", 0)>>}

Within == {<<Append(Main("fb"), Field("q")), Variant("Boolean", "TRUE", 0)>>,
           <<Append(Main("pt"), Field("x")), Variant("SINT", "number", -2)>>}
Timed == <<Main("t"), Variant("Int64", "number", 3)>>

Quiet == [progs |-> {"p1"}, calls |-> TRUE, debug |-> FALSE, opcua |-> FALSE,
          watch |-> {}, forces |-> {}, writes |-> {}]
\* A client that watches and forces, with a debugger; one write of each kind,
\* also to a block that is not called, to a STRUCT that is not stored to and
\* while the type changes; the OPC UA server beside changes of the program.
MCSettings ==
    {[Quiet EXCEPT !.calls = calls, !.debug = calls, !.forces = Marked, !.progs = {"p4"},
                   !.watch = {<<Field("Main")>>, IF calls THEN Main("arr") ELSE <<Field("all")>>}] :
        calls \in BOOLEAN} \union
    {[Quiet EXCEPT !.opcua = TRUE, !.writes = {w}] : w \in Values \union Within} \union
    {[Quiet EXCEPT !.opcua = TRUE, !.calls = FALSE, !.writes = {w}] : w \in Within} \union
    {[Quiet EXCEPT !.opcua = TRUE, !.writes = {Timed}, !.progs = {"p1", "p3"}]} \union
    {[Quiet EXCEPT !.opcua = TRUE, !.progs = {"p1", "p2"}]}
=============================================================================
