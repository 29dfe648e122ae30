---------------------------- MODULE MCScanEngine ----------------------------
(* Programs for TLC: p2 puts a global with a failing initializer in front  *)
(* of the one of p1, and p1 can be changed to p2 and back.  g is a REAL    *)
(* that may hold an Int.                                                   *)
EXTENDS ScanEngine

Int0 == Default("INT")
Int1 == [of |-> "INT", n |-> 1]
Real0 == Default("REAL")
IntsAndReal == {Int0, Int1, Real0}

Slot(name, ty, init, retain, persistent) ==
  [name |-> name, ty |-> ty, init |-> init, retain |-> retain, persistent |-> persistent]

Module(globs, locs) ==
  [globals |-> globs,
   functions |-> <<[name |-> "Main", kind |-> "Program", locals |-> locs]>>]

g == Slot("g", "REAL", Int1, TRUE, FALSE)
d == Slot("d", "INT", Fails, FALSE, FALSE)
l == Slot("l", "INT", Int1, TRUE, FALSE)

p1 == Module(<<g>>, <<l>>)
p2 == Module(<<d, g>>, <<l>>)

Moving == {p1, p2}

=============================================================================
