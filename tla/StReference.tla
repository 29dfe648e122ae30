---------------------------- MODULE StReference ----------------------------
(***************************************************************************)
(* What a source means, stated without registers, slots or instance keys:  *)
(* a big-step semantics in which every variable has a path (Main's x is    *)
(* <<"Main", "x">>, the x of its instance b is <<"Main", "b", "x">>, a     *)
(* global g is <<"g">>), values are coerced to the declared type by every  *)
(* assignment, initial values apply to every instance, arguments are bound *)
(* by name, VAR_IN_OUT by reference, AND, OR, XOR and NOT work bitwise on  *)
(* bit strings, and RETURN yields what the function's name holds.  It      *)
(* follows docs/src/language; the compiled program is compared with it.    *)
(*                                                                         *)
(* Evaluation threads a record: the memory m, the value v of the last      *)
(* expression, the signal g ("ok", "ret", "exit" or an error), the loop    *)
(* iterations left, n, and in odd the constructs met so far to which the   *)
(* machine gives another meaning.                                          *)
(***************************************************************************)
EXTENDS StAnalyzer, SequencesExt, Bitwise

CONSTANTS MaxLoops,   \* loop iterations after which a cycle counts as endless
          MaxNesting  \* calls after which a recursion counts as endless

Unit(src, n) == src.units[CHOOSE i \in 1..Len(src.units) : src.units[i].name = n]
UnitNames(src) == {src.units[i].name : i \in 1..Len(src.units)}

\* The declaration of a name in a sequence of declarations, or of a global.
DeclOf(decls, n) == decls[FindSlot(decls, n) + 1]
Declared(decls, n) == FindSlot(decls, n) >= 0

FullVars(src, u) == InheritedVars(src.units, u) \o u.vars

Coerce(v, ty) == IF ty.b = "REAL" /\ v[1] \in {"int", "uint"} THEN RealV(2 * v[2])
                 ELSE NarrowValue(v, ty)

\* A widening to REAL, and any other change of a value by the coercion.
Widens(v, ty) == ty.b = "REAL" /\ v[1] \in {"int", "uint"}
Alters(v, ty) == Widens(v, ty) \/ (v[1] \in {"int", "uint"} /\ NarrowValue(v, ty)[2] # v[2])

\* Notes a construct to which the machine gives another meaning.
Odd(st, what, is) == [st EXCEPT !.odd = IF is THEN @ \cup {what} ELSE @]

Set(m, path, v) == (path :> v) @@ m

Fresh(ty) ==
    IF ty.b = "ARRAY" THEN <<"arr", [i \in 1..(ty.hi - ty.lo + 1) |-> DefaultFor(ty.e)]>>
    ELSE DefaultFor(ty)

\* The unit whose code runs at a path, with what its VAR_IN_OUT parameters stand for.
Frame(src, u, vars, at) == [src |-> src, u |-> u, vars |-> vars, at |-> at, ref |-> [n \in {} |-> at]]

PathOf(fr, n) == IF n \in DOMAIN fr.ref THEN fr.ref[n]
                 ELSE IF Declared(fr.vars, n) THEN Append(fr.at, n) ELSE <<n>>
TypeOf(fr, n) == IF Declared(fr.vars, n) THEN DeclOf(fr.vars, n).ty
                 ELSE DeclOf(fr.src.globals, n).ty

RECURSIVE Eval(_, _, _), EvalArgs(_, _, _, _), Allocate(_, _, _, _), Exec(_, _, _),
          ExecAll(_, _, _), ExecArms(_, _, _, _), ExecLoop(_, _, _), Invoke(_, _, _, _, _),
          FindMethod(_, _, _), ExecBranches(_, _, _, _)

\* Puts the value of the last expression at a path; the machine does not widen it.
Keep(st, path, ty) ==
    Odd([st EXCEPT !.m = Set(st.m, path, Coerce(st.v, ty))], "real", Widens(st.v, ty))

\* The machine does not narrow it either at such a site.
KeepAt(site, st, path, ty) == Odd(Keep(st, path, ty), site, Alters(st.v, ty))

HoldsInstances(ty) == ty.b = "ARRAY" /\ ty.e.b \in {"FB", "CLASS"}

AllocateAt(st, fr, d, path) ==
    LET inside(s, at, sub, vars) == Allocate(s, Frame(fr.src, sub, vars, at), vars, 1)
        instance(s, at, sub) == inside(s, at, sub, FullVars(fr.src, sub))
        element(s, i) == instance(s, Append(path, ToString(i)), Unit(fr.src, d.ty.e.n))
    IN  CASE d.ty.b \in {"FB", "CLASS"} -> instance(st, path, Unit(fr.src, d.ty.n))
          [] HoldsInstances(d.ty) ->
               FoldLeft(element, [st EXCEPT !.m = Set(st.m, path, Fresh(d.ty))],
                        [i \in 1..(d.ty.hi - d.ty.lo + 1) |-> d.ty.lo + i - 1])
          [] d.ty.b \notin {"FB", "CLASS"} /\ d.init # <<>> ->
               Keep(Eval(st, fr, d.init[1]), path, d.ty)
          [] OTHER -> [st EXCEPT !.m = Set(st.m, path, Fresh(d.ty))]

AllocateOne(st, fr, d) == AllocateAt(st, fr, d, Append(fr.at, d.n))

\* Creates the variables of a path, those of nested instances included.
Allocate(st, fr, decls, i) ==
    IF i > Len(decls) THEN st ELSE Allocate(AllocateOne(st, fr, decls[i]), fr, decls, i + 1)

FindMethod(src, u, n) ==
    LET own == {i \in 1..Len(u.methods) : u.methods[i].name = n}
    IN  IF own # {} THEN <<u, u.methods[CHOOSE i \in own : TRUE]>>
        ELSE FindMethod(src, Unit(src, u.base), n)

\* The parameter the i-th argument is for: by name, or by position.
ParameterOf(args, i, params) == IF args[i].n # "" THEN args[i].n ELSE params[i].n

\* Evaluates the arguments into a sequence of <<parameter, value>>.
EvalArgs(st, fr, args, params) ==
    IF args = <<>> THEN [st EXCEPT !.v = <<>>]
    ELSE LET a == args[Len(args)]
             name == ParameterOf(args, Len(args), params)
             bind(last, vs) == [last EXCEPT !.v = Append(vs, <<name, last.v>>)]
             after(before) == bind(Eval(before, fr, a.e), before.v)
         IN  after(EvalArgs(st, fr, SubSeq(args, 1, Len(args) - 1), params))

\* Binds arguments at a path and runs a body there.
Invoke(st, fr, bound, decls, body) ==
    LET given == {bound[i][1] : i \in 1..Len(bound)}
        value(n) == bound[CHOOSE i \in 1..Len(bound) : bound[i][1] = n][2]
        type(n) == DeclOf(decls, n).ty
        m == [p \in {Append(fr.at, n) : n \in given} |-> Coerce(value(p[Len(p)]), type(p[Len(p)]))]
               @@ st.m
        passed == Odd(Odd(st, "argument", \E n \in given : Alters(value(n), type(n))),
                      "inout", DOMAIN fr.ref # {})
        end(done) == [done EXCEPT !.g = IF @ \in {"ret", "exit"} THEN "ok" ELSE @,
                                  !.depth = st.depth]
    IN  IF st.depth >= MaxNesting THEN [st EXCEPT !.g = "StackOverflow"]
        ELSE end(ExecAll([passed EXCEPT !.m = m, !.depth = @ + 1], fr, body))

ResultOf(n, ty) == [n |-> n, ty |-> ty, vk |-> "result", init |-> <<>>, rt |-> FALSE]

\* What a call runs: the parameters, the frame, the variables created for the call,
\* the body and where it leaves a result.
Callee(params, callee, fresh, body, result) ==
    [params |-> params, frame |-> callee, fresh |-> fresh, body |-> body, result |-> result]

FunctionRef(fr, u) ==
    LET vars == Append(u.vars, ResultOf(u.name, u.ty))
    IN  Callee(Params(u.vars), Frame(fr.src, u, vars, <<"fn", u.name>>), vars, u.body,
               <<"fn", u.name, u.name>>)

FbRef(fr, e, u) == Callee(Params(u.vars), Frame(fr.src, u, u.vars, Append(fr.at, e.n)), <<>>, u.body, <<>>)

\* A method's own variables are fresh; its class's are those of the instance.
MethodRef(fr, e, u, meth) ==
    LET none == meth.ty = <<>>
        own == meth.vars \o (IF none THEN <<>> ELSE <<ResultOf(meth.name, meth.ty[1])>>)
    IN  Callee(Params(meth.vars), Frame(fr.src, u, FullVars(fr.src, u) \o own, Append(fr.at, e.n)),
               own, meth.body, IF none THEN <<>> ELSE fr.at \o <<e.n, meth.name>>)

CalleeOf(fr, e) ==
    LET method(found) == MethodRef(fr, e, found[1], found[2])
        unit(n) == Unit(fr.src, n)
    IN  CASE e.t = "meth" -> method(FindMethod(fr.src, unit(TypeOf(fr, e.n).n), e.m))
          [] e.t = "call" /\ e.n \in UnitNames(fr.src) -> FunctionRef(fr, unit(e.n))
          [] OTHER -> FbRef(fr, e, unit(TypeOf(fr, e.n).n))

\* Takes the result; a function's variables exist for the call only.
Leave(done, before, callee) ==
    LET own == {Append(callee.frame.at, callee.fresh[i].n) : i \in 1..Len(callee.fresh)}
        taken == [done EXCEPT !.v = CASE callee.result = <<>> -> @
                                      [] callee.result # <<>> /\ done.g = "ok" -> done.m[callee.result]
                                      [] OTHER -> VoidV]
    IN  IF callee.frame.u.kind # "function" THEN taken
        ELSE [taken EXCEPT !.m = [p \in DOMAIN before \cap own |-> before[p]]
                                   @@ [p \in DOMAIN done.m \ own |-> done.m[p]]]

\* Evaluates the arguments, creates the variables and runs the body; a variable passed
\* VAR_IN_OUT is the variable itself.
Enter(st, fr, e, callee) ==
    LET name(i) == ParameterOf(e.args, i, callee.params)
        shared == {i \in 1..Len(e.args) :
                     e.args[i].e.t = "var" /\ DeclOf(callee.params, name(i)).vk = "inout"}
        alias == [n \in {name(i) : i \in shared} |->
                    PathOf(fr, e.args[CHOOSE i \in shared : name(i) = n].e.n)]
        call(a) == Invoke(Allocate(a, callee.frame, callee.fresh, 1),
                          [callee.frame EXCEPT !.ref = alias], a.v, callee.frame.vars, callee.body)
    IN  Leave(call(EvalArgs(st, fr, e.args, callee.params)), st.m, callee)

\* v is the value of the variable the access starts from.
EvalPart(st, fr, e, v) ==
    LET element(at) == IF at \in DOMAIN v[2] THEN v[2][at] ELSE IntV(0)
        read(i) == [i EXCEPT !.v = element(AsInt(i.v) - TypeOf(fr, e.n).lo + 1)]
    IN  CASE e.t = "var" -> [st EXCEPT !.v = v]
          [] e.t = "part" -> [st EXCEPT !.v = IF e.bits = 1 THEN ExtractBit(v, e.i)
                                              ELSE ExtractPartial(v, e.i, e.bits)]
          [] e.t = "deref" -> [st EXCEPT !.v = IF v[1] = "ptr" THEN st.m[v[2]] ELSE IntV(0)]
          [] e.t = "idx" -> read(Eval(st, fr, e.i))

EvalSimple(st, fr, e) ==
    IF e.t = "fld" THEN [st EXCEPT !.v = st.m[fr.at \o <<e.n, e.f>>]]
    ELSE EvalPart(st, fr, e, st.m[PathOf(fr, e.n)])

\* The path of the instance that a.b or arr[i] is, and its unit.
Inner(st, fr, e) ==
    fr.at \o <<e.n, IF e.t = "fld" THEN e.f ELSE ToString(AsInt(Eval(st, fr, e.i).v))>>
InnerUnit(fr, e) ==
    Unit(fr.src, IF e.t = "idx" THEN TypeOf(fr, e.n).e.n
                 ELSE DeclOf(FullVars(fr.src, Unit(fr.src, TypeOf(fr, e.n).n)), e.f).ty.n)

EvalVariable(st, fr, e) ==
    LET bits(b) == [b EXCEPT !.v = IF e.bits = 1 THEN ExtractBit(b.v, e.i)
                                   ELSE ExtractPartial(b.v, e.i, e.bits)]
    IN  CASE e.t # "deep" -> EvalSimple(st, fr, e)
          [] e.t = "deep" /\ e.more = "fld" ->
               Odd([st EXCEPT !.v = st.m[Append(Inner(st, fr, e.of), e.f)]], "access", TRUE)
          [] OTHER -> Odd(bits(EvalSimple(st, fr, e.of)), "access", TRUE)

\* TRUE is 1.0 (standard-library.md: BOOL_TO_REAL).
IntrinsicResult(n, vs) ==
    CASE n = "TO_REAL" /\ vs[1][1] = "bool" -> RealV(2 * vs[1][2])
      [] n \in DOMAIN Intrinsic1 /\ ~(n = "TO_REAL" /\ vs[1][1] = "bool") ->
           ConvertOp(Intrinsic1[n], vs[1])
      [] n \in DOMAIN TimeIntrinsic2 ->
           LET r == ArithOp(TimeIntrinsic2[n][1], vs[1], vs[2])
           IN  IF TimeIntrinsic2[n][2] THEN ConvertOp("ToTod", r) ELSE r
      [] n \in DOMAIN StringIntrinsic -> StringOp(StringIntrinsic[n][1], vs)

EvalIntrinsic(st, fr, e) ==
    LET result(a, vs) == Odd([a EXCEPT !.v = IntrinsicResult(e.n, vs)], "truth",
                             e.n = "TO_REAL" /\ vs[1] = BoolV(TRUE))
        apply(a) == result(a, [i \in 1..Len(a.v) |-> a.v[i][2]])
    IN  apply(EvalArgs(st, fr, e.args, [i \in 1..Len(e.args) |-> [n |-> "arg"]]))

\* Strings compare by their characters, references by what they refer to.
Before(s, t) ==
    \E k \in 0..Len(s) : /\ k <= Len(t) /\ SubSeq(s, 1, k) = SubSeq(t, 1, k)
                         /\ k < Len(t) /\ (k = Len(s) \/ s[k + 1] < t[k + 1])
Comparison(op, l, r) ==
    CASE l[1] = "str" /\ r[1] = "str" ->
           Compare(op, IF l = r THEN 0 ELSE IF Before(l[2], r[2]) THEN -1 ELSE 1, 0)
      [] {l[1], r[1]} \subseteq {"ptr", "null"} -> Compare(op, IF l = r THEN 0 ELSE 1, 0)
      [] OTHER -> CmpOp(op, l, r)

BitString(v) == v[1] \in {"int", "uint"}
Logical(op, l, r) ==
    CASE ~(BitString(l) /\ BitString(r)) -> LogicOp(op, l, r)
      [] BitString(l) /\ BitString(r) /\ op = "And" -> UIntV(l[2] & r[2])
      [] BitString(l) /\ BitString(r) /\ op = "Or" -> UIntV(l[2] | r[2])
      [] BitString(l) /\ BitString(r) /\ op = "Xor" -> UIntV(l[2] ^^ r[2])

\* NOT of a BYTE inverts its eight bits.
Negation(st) ==
    IF BitString(st.v) THEN Odd([st EXCEPT !.v = UIntV(255 - @[2])], "bits", TRUE)
    ELSE [st EXCEPT !.v = BoolV(~AsBool(@))]

EvalBinary(r, op, l) ==
    CASE op \in {"CmpEq", "CmpNe", "CmpLt", "CmpGt", "CmpLe", "CmpGe"} ->
           Odd([r EXCEPT !.v = BoolV(Comparison(op, l, r.v))], "text",
               l[1] = "str" /\ Comparison(op, l, r.v) # CmpOp(op, l, r.v))
      [] op \in {"And", "Or", "Xor"} ->
           Odd([r EXCEPT !.v = Logical(op, l, r.v)], "bits", BitString(l) /\ BitString(r.v))
      [] op \in {"Add", "Sub", "Mul", "Div", "Mod"} /\ DividesByZero(op, r.v) ->
           [r EXCEPT !.g = "DivisionByZero"]
      [] op = "Mod" /\ ~DividesByZero(op, r.v) ->
           [r EXCEPT !.v = IntV(TRem(AsInt(l), AsInt(r.v)))]
      [] OTHER -> [r EXCEPT !.v = ArithOp(op, l, r.v)]

\* An expression that follows an error is not evaluated.
Eval(st, fr, e) ==
    CASE st.g # "ok" -> st
      [] st.g = "ok" /\ e.t = "lit" -> [st EXCEPT !.v = LiteralValue(e.v)]
      [] st.g = "ok" /\ e.t = "bin" ->
           LET apply(r, l) == IF r.g = "ok" THEN EvalBinary(r, BinaryOps[e.op], l) ELSE r
               right(l) == apply(Eval(l, fr, e.r), l.v)
           IN  right(Eval(st, fr, e.l))
      [] st.g = "ok" /\ e.t = "un" ->
           LET apply(a) == CASE a.g # "ok" -> a
                             [] a.g = "ok" /\ e.op = "Neg" -> [a EXCEPT !.v = NegOf(@)]
                             [] OTHER -> Negation(a)
           IN  apply(Eval(st, fr, e.e))
      [] st.g = "ok" /\ e.t \in {"call", "meth"} ->
          (CASE e.n = "REF" -> [st EXCEPT !.v = <<"ptr", PathOf(fr, e.args[1].e.n), TypeOf(fr, e.args[1].e.n)>>]
             [] e.n = "SYSTEM_TIME" -> [st EXCEPT !.v = TimeV(st.now)]
             [] e.n \in Intrinsics -> EvalIntrinsic(st, fr, e)
             [] OTHER -> Enter(st, fr, e, CalleeOf(fr, e)))
      [] OTHER -> EvalVariable(st, fr, e)

-----------------------------------------------------------------------------
\* The value old with the bits that tgt names replaced.
Inserted(old, tgt, v) == IF tgt.bits = 1 THEN InsertBit(old, tgt.i, v)
                         ELSE InsertPartial(old, tgt.i, tgt.bits, v)

AssignPart(st, fr, tgt, path, ty, old) ==
    LET write(i, at) == IF at \in DOMAIN old[2]
                        THEN Odd([i EXCEPT !.m[path][2][at] = Coerce(st.v, ty.e)], "element",
                                 Alters(st.v, ty.e))
                        ELSE i
        place(i) == write(i, AsInt(i.v) - ty.lo + 1)
    IN  CASE tgt.t = "var" -> Keep(st, path, ty)
          [] tgt.t = "part" -> Keep([st EXCEPT !.v = Inserted(old, tgt, @)], path, ty)
          [] tgt.t = "deref" -> IF old[1] = "ptr" THEN KeepAt("reference", st, old[2], old[3]) ELSE st
          [] tgt.t = "idx" -> place(Eval(st, fr, tgt.i))

FieldType(u, src, f) == DeclOf(FullVars(src, u), f).ty

AssignSimple(st, fr, tgt) ==
    IF tgt.t = "fld"
    THEN KeepAt("field", st, fr.at \o <<tgt.n, tgt.f>>,
                FieldType(Unit(fr.src, TypeOf(fr, tgt.n).n), fr.src, tgt.f))
    ELSE AssignPart(st, fr, tgt, PathOf(fr, tgt.n), TypeOf(fr, tgt.n), st.m[PathOf(fr, tgt.n)])

Assign(st, fr, tgt) ==
    LET bits(old) == AssignSimple([st EXCEPT !.v = Inserted(old, tgt, @)], fr, tgt.of)
    IN  CASE tgt.t # "deep" -> AssignSimple(st, fr, tgt)
          [] tgt.t = "deep" /\ tgt.more = "fld" ->
               Odd(Keep(st, Append(Inner(st, fr, tgt.of), tgt.f),
                        FieldType(InnerUnit(fr, tgt.of), fr.src, tgt.f)), "access", TRUE)
          [] OTHER -> Odd(bits(EvalSimple(st, fr, tgt.of).v), "access", TRUE)

ExecAll(st, fr, body) ==
    IF body = <<>> \/ st.g # "ok" THEN st ELSE ExecAll(Exec(st, fr, Head(body)), fr, Tail(body))

ExecArms(st, fr, arms, el) ==
    LET choose(c) == IF AsBool(c.v) THEN ExecAll(c, fr, Head(arms).body)
                     ELSE ExecArms(c, fr, Tail(arms), el)
    IN  IF arms = <<>> THEN ExecAll(st, fr, el) ELSE choose(Eval(st, fr, Head(arms).c))

\* A selector is <<"one", e>> or <<"rng", lo, hi>>.
Selects(st, fr, sel, v) ==
    \A k \in 2..Len(sel) :
        CmpOp(IF sel[1] = "one" THEN "CmpEq" ELSE IF k = 2 THEN "CmpGe" ELSE "CmpLe",
              v, Eval(st, fr, sel[k]).v)

ExecBranches(st, fr, s, v) ==
    IF s.br = <<>> THEN ExecAll(st, fr, s.el)
    ELSE IF \E i \in 1..Len(Head(s.br).sel) : Selects(st, fr, Head(s.br).sel[i], v)
         THEN ExecAll(st, fr, Head(s.br).body)
         ELSE ExecBranches(st, fr, [s EXCEPT !.br = Tail(@)], v)

\* The state after the step of a FOR was evaluated.
StepOf(st, fr, s) == IF s.by = <<>> THEN [st EXCEPT !.v = IntV(1)] ELSE Eval(st, fr, s.by[1])

EndLoop(st) == [st EXCEPT !.g = IF @ = "exit" THEN "ok" ELSE @]

Turn(st) == [st EXCEPT !.n = @ - 1]

\* After a turn: the loop variable is stepped, UNTIL is tested.
Stepped(b, fr, s) ==
    LET step(var) == [b EXCEPT !.m = Set(b.m, var, Coerce(ArithOp("Add", b.m[var], b.v), TypeOf(fr, s.n)))]
    IN  IF s.s = "for" THEN step(PathOf(fr, s.n)) ELSE b

\* A turn that ends in EXIT, RETURN or an error is the last.
AfterTurn(b, fr, s) ==
    LET again(u) == IF s.s = "repeat" /\ AsBool(u.v) THEN u ELSE ExecLoop(Stepped(u, fr, s), fr, s)
    IN  IF b.g # "ok" THEN EndLoop(b)
        ELSE again(IF s.s = "while" THEN b ELSE IF s.s = "for" THEN StepOf(b, fr, s) ELSE Eval(b, fr, s.c))

\* c holds the condition, or the limit of a FOR.
Goes(c, fr, s) ==
    LET within(i, by) == IF by < 0 THEN i >= AsInt(c.v) ELSE i <= AsInt(c.v)
    IN  CASE s.s = "repeat" -> TRUE
          [] s.s = "while" -> AsBool(c.v)
          [] s.s = "for" -> within(AsInt(c.m[PathOf(fr, s.n)]), AsInt(StepOf(c, fr, s).v))

ExecLoop(st, fr, s) ==
    LET test(c) == IF Goes(c, fr, s) THEN AfterTurn(ExecAll(Turn(c), fr, s.body), fr, s) ELSE c
    IN  IF st.n = 0 THEN [st EXCEPT !.g = "ExecutionLimit"]
        ELSE test(IF s.s = "repeat" THEN st ELSE Eval(st, fr, IF s.s = "for" THEN s.to ELSE s.c))

Exec(st, fr, s) ==
    CASE s.s = "asg" ->
           LET store(e) == IF e.g = "ok" THEN Assign(e, fr, s.tgt) ELSE e
           IN  store(Eval(st, fr, s.e))
      [] s.s = "call" -> Eval(st, fr, s.e)
      [] s.s = "if" -> ExecArms(st, fr, <<[c |-> s.c, body |-> s.th]>> \o s.elsifs, s.el)
      [] s.s = "case" -> LET on(e) == ExecBranches(e, fr, s, e.v) IN on(Eval(st, fr, s.e))
      [] s.s \in {"for", "while", "repeat"} ->
           ExecLoop(IF s.s = "for" THEN Keep(Eval(st, fr, s.from), PathOf(fr, s.n), TypeOf(fr, s.n))
                    ELSE st, fr, s)
      [] s.s = "return" -> [st EXCEPT !.g = "ret"]
      [] s.s = "exit" -> [st EXCEPT !.g = "exit"]
      [] s.s = "empty" -> st

-----------------------------------------------------------------------------
(* A whole program: the state before the first cycle and after each one *)

MainFrame(src) == LET u == Unit(src, "Main") IN Frame(src, u, u.vars, <<"Main">>)

Start(src) ==
    LET zero == [m |-> [p \in {} |-> 0], v |-> VoidV, g |-> "ok", n |-> MaxLoops, depth |-> 1,
                 now |-> 0, odd |-> {}]
        top == Frame(src, Unit(src, "Main"), src.globals, <<>>)
        all == [i \in 1..Len(src.globals) |-> [fr |-> top, d |-> src.globals[i]]]
                 \o [i \in 1..Len(MainFrame(src).vars) |->
                       [fr |-> MainFrame(src), d |-> MainFrame(src).vars[i]]]
    IN  FoldLeft(LAMBDA st, a : AllocateOne(st, a.fr, a.d), zero, all)

RECURSIVE AfterCycles(_, _)
OneMore(st, src, k) ==
    IF st.g \notin {"ok", "ret", "exit"} THEN st
    ELSE ExecAll([st EXCEPT !.g = "ok", !.n = MaxLoops, !.now = k - 1], MainFrame(src),
                 MainFrame(src).u.body)
AfterCycles(src, k) == IF k = 0 THEN Start(src) ELSE OneMore(AfterCycles(src, k - 1), src, k)
=============================================================================
