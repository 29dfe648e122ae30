----------------------------- MODULE MCLanguage -----------------------------
(* Instances of StLanguage: every pair of statements of a pool as the body of Main, and
   single sources for the constructs that are rejected or known to deviate. *)
EXTENDS StLanguage

V(n) == [t |-> "var", n |-> n]
N(i) == [t |-> "lit", v |-> IntV(i)]
Lit(v) == [t |-> "lit", v |-> v]
Bin(l, op, r) == [t |-> "bin", op |-> op, l |-> l, r |-> r]
Un(op, e) == [t |-> "un", op |-> op, e |-> e]
Idx(n, i) == [t |-> "idx", n |-> n, i |-> i]
Fld(n, f) == [t |-> "fld", n |-> n, f |-> f]
Part(n, bits, i) == [t |-> "part", n |-> n, bits |-> bits, i |-> i]
Star(n) == [t |-> "deref", n |-> n]
Deep(of, f) == [t |-> "deep", n |-> of.n, of |-> of, more |-> "fld", f |-> f]
DeepPart(of, bits, i) == [t |-> "deep", n |-> of.n, of |-> of, more |-> "part", bits |-> bits, i |-> i]
Arg(e) == [n |-> "", e |-> e]
Named(n, e) == [n |-> n, e |-> e]
Call(n, args) == [t |-> "call", n |-> n, args |-> args]
Meth(n, m, args) == [t |-> "meth", n |-> n, m |-> m, args |-> args]

Asg(tgt, e) == [s |-> "asg", tgt |-> tgt, e |-> e, ln |-> 1]
Do(e) == [s |-> "call", e |-> e, ln |-> 1]
If(c, th, el) == [s |-> "if", c |-> c, th |-> th, elsifs |-> <<>>, el |-> el, ln |-> 1]
Elsif(c, th, c2, th2, el) ==
    [s |-> "if", c |-> c, th |-> th, elsifs |-> <<[c |-> c2, body |-> th2]>>, el |-> el, ln |-> 1]
Case(e, br, el) == [s |-> "case", e |-> e, br |-> br, el |-> el, ln |-> 1]
For(n, from, to, by, body) ==
    [s |-> "for", n |-> n, from |-> from, to |-> to, by |-> by, body |-> body, ln |-> 1]
While(c, body) == [s |-> "while", c |-> c, body |-> body, n |-> "y", ln |-> 1]
Repeat(body, c) == [s |-> "repeat", c |-> c, body |-> body, n |-> "y", ln |-> 1]
Exit == [s |-> "exit", ln |-> 1]
Ret == [s |-> "return", ln |-> 1]

T(b) == [b |-> b]
FbT(n) == [b |-> "FB", n |-> n]
ClassT(n) == [b |-> "CLASS", n |-> n]
ArrOf(lo, hi, ty) == [b |-> "ARRAY", lo |-> lo, hi |-> hi, e |-> ty]
Arr(lo, hi) == ArrOf(lo, hi, T("INT"))
Var(n, ty) == [n |-> n, ty |-> ty, vk |-> "var", init |-> <<>>, rt |-> FALSE, ln |-> 1]
Kind(vk, n, ty) == [Var(n, ty) EXCEPT !.vk = vk]
With0(n, ty, e) == [Var(n, ty) EXCEPT !.init = <<e>>]

Pou(name, kind, vars, body) ==
    [name |-> name, kind |-> kind, base |-> "", ifaces |-> <<>>, mods |-> {}, vars |-> vars,
     methods |-> <<>>, ty |-> T("INT"), body |-> body]
Method(name, ty, mods, vars, body) ==
    [name |-> name, ty |-> ty, mods |-> mods, vars |-> vars, body |-> body]

Add(l, r) == Bin(l, "plus", r)
In(n) == Kind("in", n, T("INT"))

Twice == Pou("Twice", "function", <<In("k")>>, <<Asg(V("Twice"), Add(V("k"), V("k")))>>)
Minus == Pou("Minus", "function", <<In("p"), In("q")>>,
             <<Asg(V("g"), Add(V("g"), N(1))), Asg(V("Minus"), Bin(V("p"), "minus", V("q")))>>)
Early == Pou("Early", "function", <<In("k")>>, <<Asg(V("Early"), Add(V("k"), N(1))), Ret>>)
Down == Pou("Down", "function", <<In("k")>>,
            <<Asg(V("Down"), Add(N(1), Call("Up", <<Arg(V("k"))>>)))>>)
Up == Pou("Up", "function", <<In("k")>>, <<Asg(V("Up"), Call("Down", <<Arg(V("k"))>>))>>)
Counter == Pou("Counter", "fb", <<In("step"), Kind("out", "q", T("INT")), Var("n", T("INT")), Var("m", T("SINT"))>>,
               <<Asg(V("n"), Add(V("n"), V("step"))), Asg(V("m"), Add(V("m"), N(100))),
                 Asg(V("q"), Add(V("n"), V("m")))>>)
Twin == Pou("Twin", "fb", <<Kind("out", "q", T("INT")), Var("l", FbT("Counter")), Var("r", FbT("Counter"))>>,
            <<Do(Call("l", <<Named("step", N(1))>>)), Do(Call("r", <<Arg(N(3))>>)),
              Asg(V("q"), Add(Fld("l", "q"), Fld("r", "q")))>>)
Outer == Pou("Outer", "fb", <<Kind("out", "q", T("INT")), Var("w", FbT("Twin"))>>,
             <<Do(Call("w", <<>>)), Asg(V("q"), Fld("w", "q"))>>)
Latch == Pou("Latch", "fb", <<Kind("out", "q", T("INT")), With0("k", T("INT"), N(7))>>,
             <<Asg(V("q"), V("k"))>>)
Early2 == Pou("Later", "fb", <<Kind("out", "q", T("INT")), Var("c", FbT("Tail"))>>,
              <<Do(Call("c", <<Arg(N(2))>>)), Asg(V("q"), Fld("c", "q"))>>)
TailFb == Pou("Tail", "fb", <<In("step"), Kind("out", "q", T("INT"))>>, <<Asg(V("q"), N(9))>>)
Level == Pou("ILevel", "interface", <<>>, <<>>)
Tank == [Pou("Tank", "class", <<Kind("out", "level", T("INT")), With0("cap", T("INT"), N(3))>>, <<>>)
           EXCEPT !.methods =
             <<Method("Fill", <<T("BOOL")>>, {}, <<In("k"), With0("z", T("INT"), N(1))>>,
                      <<Asg(V("level"), Add(V("level"), Bin(V("k"), "times", V("z")))),
                        Asg(V("Fill"), Bin(V("level"), "ge", V("cap")))>>),
               Method("Drain", <<>>, {"final"}, <<>>, <<Asg(V("level"), N(0))>>)>>]
Big == [Pou("Big", "class", <<With0("spare", T("INT"), N(2))>>, <<>>)
          EXCEPT !.base = "Tank", !.ifaces = <<"ILevel">>,
                 !.methods = <<Method("Fill", <<T("BOOL")>>, {"override"}, <<In("k")>>,
                                      <<Asg(V("level"), Add(V("level"), Add(V("k"), V("spare")))),
                                        Asg(V("Fill"), Lit(BoolV(TRUE)))>>)>>]
Debt == [Pou("Debt", "class", <<With0("due", T("INT"), Un("Neg", N(5)))>>, <<>>)
           EXCEPT !.methods = <<Method("Due", <<T("INT")>>, {}, <<>>, <<Asg(V("Due"), V("due"))>>)>>]

Take == Pou("Take", "function", <<Kind("in", "k", T("USINT"))>>, <<Asg(V("Take"), V("k"))>>)
Bump == Pou("Bump", "function", <<Kind("inout", "t", T("INT"))>>, <<Asg(V("t"), Add(V("t"), N(1)))>>)
Gauge == Pou("Gauge", "fb", <<Kind("in", "k", T("USINT")), Kind("out", "q", T("INT"))>>,
             <<Asg(V("q"), V("k"))>>)
Backward == Pou("Backward", "fb", <<Kind("out", "q", T("INT")), In("i")>>,
                <<Asg(V("q"), Add(V("q"), V("i")))>>)
Nest == Pou("Nest", "fb", <<Kind("out", "c", FbT("Counter"))>>, <<Do(Call("c", <<Arg(N(3))>>))>>)
Quick == [Pou("Quick", "class", <<>>, <<>>)
            EXCEPT !.methods = <<Method("Go", <<T("INT")>>, {}, <<>>, <<Asg(V("Go"), N(4)), Ret>>)>>]

LevelI == [Level EXCEPT !.methods = <<Method("Fill", <<T("BOOL")>>, {}, <<>>, <<>>)>>]

Vars == <<With0("x", T("SINT"), N(125)), Var("y", T("INT")), Var("b", T("BOOL")),
          Var("a", Arr(1, 2)), Var("c1", FbT("Counter")), Var("c2", FbT("Counter")),
          Var("w", FbT("Twin")), Var("o", ClassT("Tank")), Var("v", ClassT("Big")),
          Var("p", T("REF")), Var("s", T("STRING")), Var("u", T("USINT")),
          Var("d", T("TOD")), Var("r", T("REAL")), Var("z", T("BYTE")), Var("e", T("TIME"))>>

Globals == <<With0("g", T("INT"), Add(N(2), N(3))), Var("h", T("SINT"))>>

Library == <<Twice, Minus, Early, Down, Up, Counter, Twin, Outer, Latch, LevelI, Tank, Big, Debt,
             Take, Bump, Gauge, Backward, Nest, Quick>>

MainWith(vars, body) == Pou("Main", "program", vars, body)

\* A source holds the units and the instances its body reaches.
InstancesIn(body) == {e.n : e \in {x \in Exprs(body) : x.t \in {"call", "meth", "fld"}}}
SourceOf(vars, body) ==
    LET used == SelectSeq(vars, LAMBDA d : d.ty.b \in {"FB", "CLASS"} => d.n \in InstancesIn(body))
        main == MainWith(used, body)
        all == [globals |-> Globals, units |-> <<main>> \o Library]
        names == {u.name : u \in Reached(all, {"Main"})}
    IN  [all EXCEPT !.units =
            <<main>> \o SelectSeq(Library, LAMBDA u : u.name \in names
                                                      \/ (u.name = "ILevel" /\ "Big" \in names))]

\* The pool: narrowing, nesting of control flow, calls with state, arrays, references,
\* partial access, strings and times.
Pool ==
    <<Asg(V("x"), Add(V("x"), N(1))),
      Asg(V("y"), Call("Minus", <<Arg(V("x")), Arg(V("y"))>>)),
      Asg(V("h"), Un("Neg", N(128))),
      If(Bin(V("x"), "lt", N(0)), <<Asg(V("y"), N(9))>>, <<Asg(V("b"), Un("Not", V("b")))>>),
      Elsif(Bin(V("y"), "eq", N(7)), <<Asg(V("y"), N(1))>>, V("b"),
            <<Asg(V("y"), N(7))>>, <<Asg(V("b"), Lit(BoolV(TRUE)))>>),
      Case(V("y"), <<[sel |-> <<<<"one", N(1)>>, <<"rng", N(5), N(7)>>>>,
                      body |-> <<Asg(V("y"), Add(V("y"), N(1)))>>],
                     [sel |-> <<<<"one", N(8)>>>>, body |-> <<>>]>>, <<Asg(V("y"), N(5))>>),
      For("y", N(1), N(2), <<>>,
          <<Asg(Idx("a", V("y")), Add(Idx("a", V("y")), V("x"))),
            If(Bin(Idx("a", N(1)), "gt", N(200)), <<Exit>>, <<>>)>>),
      While(Bin(V("y"), "gt", N(0)), <<Asg(V("y"), Bin(V("y"), "minus", N(3)))>>),
      Repeat(<<Asg(V("y"), Add(V("y"), N(2))), If(V("b"), <<Exit>>, <<>>)>>,
             Bin(V("y"), "ge", N(4))),
      Do(Call("c1", <<Named("step", N(100))>>)),
      Asg(V("y"), Add(Fld("c1", "q"), Call("Twice", <<Arg(Fld("c2", "q"))>>))),
      Do(Call("w", <<>>)),
      Asg(V("b"), Meth("o", "Fill", <<Arg(N(2))>>)),
      Asg(V("b"), Meth("v", "Fill", <<Arg(N(1))>>)),
      Asg(Fld("c2", "q"), Fld("o", "level")),
      Asg(V("p"), Call("REF", <<Arg(V("y"))>>)),
      Asg(Star("p"), Add(Star("p"), N(4))),
      Asg(Part("u", 1, 7), V("b")),
      Asg(V("s"), Call("CONCAT", <<Arg(V("s")), Arg(Lit(StrV(<<1, 2>>)))>>)),
      Asg(V("d"), Call("ADD_TOD_TIME", <<Arg(V("d")), Arg(Lit(TimeV(TicksPerDay - 1)))>>)),
      Asg(V("y"), Bin(N(12), "div", V("y"))),
      If(V("b"), <<Ret>>, <<Asg(V("g"), Add(V("g"), V("y")))>>)>>

\* Sources that deviate or that end in an error.
Specials ==
    <<<<For("y", N(3), N(1), <<Un("Neg", N(1))>>, <<Asg(V("x"), N(1))>>)>>,
      <<For("g", N(1), N(2), <<>>, <<Asg(V("x"), Add(V("x"), N(1))), If(V("b"), <<Exit>>, <<>>),
                                     Asg(V("b"), Lit(BoolV(TRUE)))>>)>>,
      <<Asg(V("y"), Call("Early", <<Arg(N(1))>>))>>,
      <<Asg(V("y"), Call("Minus", <<Named("q", N(1)), Named("p", N(5))>>))>>,
      <<Asg(V("y"), Call("Down", <<Arg(N(1))>>))>>,
      <<While(Lit(BoolV(TRUE)), <<Asg(V("y"), Bin(V("y"), "mod", N(5)))>>)>>,
      <<Asg(V("y"), N(1)), Asg(V("y"), Call("TO_INT", <<Arg(Bin(V("r"), "div", Lit(RealV(3))))>>)),
        Asg(V("y"), Call("LEN", <<Arg(V("s"))>>))>>,
      <<Asg(V("z"), Part("y", 8, 1)), Asg(Part("y", 8, 1), N(3)), Asg(V("b"), Part("y", 1, 9)),
        Asg(V("e"), Call("SYSTEM_TIME", <<>>)), Asg(V("p"), Lit(NullV)), Asg(Star("p"), N(1)),
        Asg(V("p"), Call("REF", <<Arg(V("g"))>>)), Asg(Star("p"), Add(Star("p"), N(1))),
        Do(Meth("o", "Drain", <<>>)),
        Asg(V("b"), Bin(Bin(V("b"), "and", V("b")), "xor", Bin(V("y"), "ne", N(2))))>>>>

\* Sources that meet a construct whose machine meaning differs, and the variables of them.
SmallVars ==
    <<With0("x", T("SINT"), Un("Neg", N(1))), With0("y", T("INT"), N(6)), Var("b", T("BOOL")),
      Var("z", T("BYTE")), Var("s", T("STRING")), Var("r", T("REAL")), Var("u", T("USINT")),
      Var("p", T("REF")), Var("a", ArrOf(0, 1, T("USINT"))), Var("k1", FbT("Gauge")),
      Var("b1", FbT("Backward")), Var("n1", FbT("Nest")), Var("c1", FbT("Counter")),
      Var("o1", ClassT("Quick")), Var("ks", ArrOf(1, 2, FbT("Gauge")))>>

Oddities ==
    <<<<Asg(V("z"), Bin(Part("y", 8, 0), "and", Un("Not", V("z"))))>>,
      <<Asg(V("z"), Bin(Bin(V("z"), "xor", Part("y", 8, 0)), "or", Part("y", 8, 0)))>>,
      <<If(Bin(V("s"), "eq", Lit(StrV(<<1>>))), <<Asg(V("y"), N(1))>>, <<Asg(V("y"), N(2))>>)>>,
      <<If(Bin(V("s"), "lt", Lit(StrV(<<1>>))), <<Asg(V("y"), N(1))>>, <<Asg(V("y"), N(2))>>)>>,
      <<Asg(V("b"), Lit(BoolV(TRUE))), Asg(V("r"), Call("TO_REAL", <<Arg(V("b"))>>))>>,
      <<Asg(V("y"), N(5)), Asg(V("r"), V("y")), Asg(V("r"), Bin(V("r"), "div", N(2)))>>,
      <<Asg(V("y"), Call("Take", <<Arg(V("x"))>>))>>,
      <<Do(Call("k1", <<Arg(V("x"))>>)), Asg(V("y"), Fld("k1", "q"))>>,
      <<Asg(Fld("k1", "k"), V("x")), Asg(V("y"), Fld("k1", "k"))>>,
      <<Asg(Idx("a", N(1)), V("x"))>>,
      <<Asg(V("p"), Call("REF", <<Arg(V("u"))>>)), Asg(Star("p"), N(300)), Asg(V("y"), V("u"))>>,
      <<Asg(V("p"), Call("REF", <<Arg(V("h"))>>)), Asg(Star("p"), N(300)), Asg(V("y"), V("h"))>>,
      <<Do(Call("Bump", <<Arg(V("y"))>>))>>,
      <<Do(Call("b1", <<Arg(N(5))>>)), Asg(V("y"), Fld("b1", "q"))>>,
      <<Do(Call("n1", <<>>)), Asg(V("y"), Deep(Fld("n1", "c"), "q"))>>,
      <<Asg(Deep(Idx("ks", N(1)), "k"), N(5)), Asg(Deep(Idx("ks", N(1)), "q"), N(7)),
        Asg(V("y"), Deep(Idx("ks", N(1)), "k"))>>,
      <<Do(Call("c1", <<Arg(N(2))>>)), Asg(V("b"), DeepPart(Fld("c1", "q"), 1, 1)),
        Asg(DeepPart(Fld("c1", "q"), 8, 0), N(1)), Asg(V("y"), Fld("c1", "q"))>>,
      <<Asg(V("y"), Meth("o1", "Go", <<>>))>>>>

\* Sources with one statement the analyser must refuse.
Refused ==
    <<Asg(V("x"), V("b")), Asg(V("zz"), N(1)), Asg(V("x"), V("zz")), Exit, While(V("y"), <<>>),
      Asg(V("y"), Fld("c1", "zz")), Asg(V("y"), Call("Nope", <<>>)),
      Asg(V("y"), Call("Twice", <<Arg(N(1)), Arg(N(2))>>)), Asg(V("y"), Meth("o", "Zap", <<>>)),
      Asg(V("x"), V("y")), Asg(V("y"), Idx("y", N(1))), Asg(V("b"), Un("Neg", V("b"))),
      For("b", N(1), N(2), <<>>, <<>>), Asg(V("x"), N(200)), Do(Call("y", <<>>)),
      Asg(V("s"), V("y")), Asg(V("b"), Bin(V("b"), "and", V("y"))),
      Asg(V("y"), Deep(Fld("c1", "q"), "zz"))>>

WithInstances(n, q) ==
    SourceOf(<<Var("i1", FbT(n)), Var("i2", FbT(n)), Var("y", T("INT")), Var("x", T("INT"))>>,
             <<Do(Call("i1", <<>>)), Do(Call("i2", <<>>)), Asg(V("y"), Fld("i1", q)),
               Asg(V("x"), Fld("i2", q))>>)

Instances ==
    <<WithInstances("Twin", "q"), WithInstances("Outer", "q"), WithInstances("Latch", "q"),
      SourceOf(<<Var("i1", ClassT("Debt")), Var("y", T("INT"))>>,
               <<Asg(V("y"), Meth("i1", "Due", <<>>))>>),
      [globals |-> <<Var("g", T("INT")), Var("ga", Arr(1, 2))>>,
       units |-> <<Early2, TailFb,
                   MainWith(<<Var("i1", FbT("Later")), Var("y", T("INT"))>>,
                            <<Do(Call("i1", <<>>)), Asg(V("y"), Idx("ga", N(1)))>>)>>]>>

MCSources ==
    {SourceOf(Vars, <<Pool[i], Pool[j]>>) : i, j \in 1..Len(Pool)}
      \cup {SourceOf(Vars, Specials[i]) : i \in 1..Len(Specials)}
      \cup {SourceOf(SmallVars, Oddities[i]) : i \in 1..Len(Oddities)}
      \cup {SourceOf(Vars, <<Refused[i]>>) : i \in 1..Len(Refused)}
      \cup {Instances[i] : i \in 1..Len(Instances)}

MCPrograms == Accepted(MCSources)
=============================================================================
