----------------------------- MODULE StCompiler -----------------------------
(***************************************************************************)
(* The compiler from the syntax tree to the register IR                    *)
(* (st-compiler/src/compile.rs), as operators that thread the state c of   *)
(* one FunctionCompiler: the code and its source map, the positions of the *)
(* labels, the next register, the local slots, the exit labels of the      *)
(* enclosing loops and the register the last expression was compiled to.   *)
(*                                                                         *)
(* A source is a record of the globals and the program organisation units; *)
(* expressions carry their form in t, statements in s and their line in    *)
(* ln; a declaration is [n, ty, vk, init] with init a sequence of at most  *)
(* one expression.                                                         *)
(***************************************************************************)
EXTENDS StValues

\* Index of the first slot of that name, counted from 0, or -1.
FindSlot(slots, n) ==
    LET at == {i \in 1..Len(slots) : slots[i].n = n}
    IN  IF at = {} THEN -1 ELSE (CHOOSE i \in at : \A j \in at : i <= j) - 1

\* Index of the first function of that name, or 0 when there is none.
FindFunc(funcs, n) ==
    LET at == {i \in 1..Len(funcs) : funcs[i].name = n}
    IN  IF at = {} THEN 0 ELSE CHOOSE i \in at : \A j \in at : i <= j

NewCompiler(funcs, globals, bases) ==
    [code |-> <<>>, map |-> <<>>, lab |-> <<>>, reg |-> 0, slots |-> <<>>,
     exits |-> <<>>, pend |-> 0, out |-> 0, args |-> <<>>, holes |-> 0,
     funcs |-> funcs, globals |-> globals, bases |-> bases]

Emit(c, ins) ==
    [c EXCEPT !.code = Append(@, ins), !.map = Append(@, c.pend), !.pend = 0]

EmitSourced(c, ins, ln) ==
    [c EXCEPT !.code = Append(@, ins), !.map = Append(@, ln), !.pend = 0]

SetSource(c, ln) == [c EXCEPT !.pend = ln]
AllocReg(c) == [c EXCEPT !.reg = @ + 1, !.out = c.reg]
AllocLabel(c) == [c EXCEPT !.lab = Append(@, -1)]
PlaceLabel(c, l) == [c EXCEPT !.lab[l] = Len(c.code)]
CurrentPc(c) == Len(c.code)

\* Counts the places where the compiler guesses because it could not resolve a name
\* (a history variable: the code prints a warning or nothing at all).
Guess(c) == [c EXCEPT !.holes = @ + 1]

\* c.out holds the last operand, l and r name registers.
Operate(c, op, l) == Emit(AllocReg(c), <<op, c.reg, l, c.out>>)
JumpUnless(c, label) == Emit(c, <<"JumpIfNot", c.out, label>>)
StoreTo(c, op, slot) == Emit(c, <<op, slot, c.out>>)

LoadConst(c, v) == Emit(AllocReg(c), <<"LoadConst", c.reg, v>>)

CompileLoadVariable(c, n) ==
    LET local == FindSlot(c.slots, n)
        global == FindSlot(c.globals, n)
    IN  CASE local >= 0 -> Emit(AllocReg(c), <<"LoadLocal", c.reg, local>>)
          [] local < 0 /\ global >= 0 -> Emit(AllocReg(c), <<"LoadGlobal", c.reg, global>>)
          [] OTHER -> LoadConst(Guess(c), IntV(0))

CompileStoreVariable(c, n, r, ln) ==
    LET local == FindSlot(c.slots, n)
        global == FindSlot(c.globals, n)
    IN  CASE local >= 0 -> EmitSourced(c, <<"StoreLocal", local, r>>, ln)
          [] local < 0 /\ global >= 0 -> EmitSourced(c, <<"StoreGlobal", global, r>>, ln)
          [] OTHER -> Guess(c)

\* The type name of an instance slot (fb_type_names), "" for other slots.
TypeNameOf(c, slot) ==
    IF c.slots[slot + 1].ty.b \in {"FB", "CLASS"} THEN c.slots[slot + 1].ty.n ELSE ""

\* resolve_field_index: an unknown field silently becomes field 0.
ResolveField(c, type, field) ==
    LET f == FindFunc(c.funcs, type)
        i == IF f = 0 THEN -1 ELSE FindSlot(c.funcs[f].slots, field)
    IN  IF i < 0 THEN 0 ELSE i

KnownField(c, type, field) ==
    FindFunc(c.funcs, type) > 0 /\ FindSlot(c.funcs[FindFunc(c.funcs, type)].slots, field) >= 0

\* The compiler, with a guess counted when the field is not known to it.
ForField(c, type, field) == IF KnownField(c, type, field) THEN c ELSE Guess(c)

\* The class of the hierarchy that defines the method, as a function index.
RECURSIVE FindMethodInHierarchy(_, _, _)
FindMethodInHierarchy(c, class, method) ==
    LET own == {i \in 1..Len(c.funcs) : c.funcs[i].name = class /\ c.funcs[i].m = method}
    IN  CASE own # {} -> CHOOSE i \in own : \A j \in own : i <= j
          [] own = {} /\ class \in DOMAIN c.bases ->
                FindMethodInHierarchy(c, c.bases[class], method)
          [] OTHER -> 0

\* One name of each group of aliases the compiler maps to an instruction.
Intrinsic1 == [TO_INT |-> "ToInt", TO_REAL |-> "ToReal", TO_BOOL |-> "ToBool",
               TO_TIME |-> "ToTime", TO_TOD |-> "ToTod", DT_TO_DATE |-> "DtExtractDate",
               DT_TO_TOD |-> "DtExtractTod", DAY_OF_WEEK |-> "DayOfWeek",
               LEN |-> "StringLen"]

\* Two-argument time arithmetic: the operation, and whether it wraps to a day.
TimeIntrinsic2 == [ADD_TOD_TIME |-> <<"Add", TRUE>>, SUB_TOD_TIME |-> <<"Sub", TRUE>>,
                   ADD_DT_TIME |-> <<"Add", FALSE>>, SUB_DT_DT |-> <<"Sub", FALSE>>,
                   MULTIME |-> <<"Mul", FALSE>>, DIVTIME |-> <<"Div", FALSE>>]

\* String intrinsics: the operation and its number of arguments.
StringIntrinsic == [CONCAT |-> <<"StringConcat", 2>>, FIND |-> <<"StringFind", 2>>,
                    LEFT |-> <<"StringLeft", 2>>, RIGHT |-> <<"StringRight", 2>>,
                    MID |-> <<"StringMid", 3>>, INSERT |-> <<"StringInsert", 3>>,
                    DELETE |-> <<"StringDelete", 3>>, REPLACE |-> <<"StringReplace", 4>>]

BinaryOps == [plus |-> "Add", minus |-> "Sub", times |-> "Mul", div |-> "Div",
              mod |-> "Mod", and |-> "And", or |-> "Or", xor |-> "Xor", eq |-> "CmpEq",
              ne |-> "CmpNe", lt |-> "CmpLt", gt |-> "CmpGt", le |-> "CmpLe", ge |-> "CmpGe"]

LiteralValue(lit) ==
    IF lit[1] = "ymd" THEN TimeV(YmdToEpoch(lit[2], lit[3], lit[4])) ELSE lit

-----------------------------------------------------------------------------
(* Expressions: the result register is out *)

RECURSIVE CompileExpression(_, _), CompileCallArgs(_, _, _), CompileCallArg(_, _, _)

\* e is the compiler after an argument, args what was passed before it.
PassTo(e, args, slot) == [e EXCEPT !.args = Append(args, <<slot, e.out>>)]
PassNext(e, args) == [e EXCEPT !.args = Append(args, e.out)]

\* The i-th argument's register goes to the i-th slot, whatever its name.
CompileCallArgs(c, args, i) ==
    IF i > Len(args) THEN c
    ELSE CompileCallArgs(PassTo(CompileExpression(c, args[i].e), c.args, i - 1), args, i + 1)

CompileCallArg(c, args, i) ==
    IF i <= Len(args) THEN CompileExpression(c, args[i].e) ELSE LoadConst(c, IntV(0))

\* Compiles n arguments and leaves their registers in args.
RECURSIVE CompileFixedArgs(_, _, _)
AfterArgs(c, args, n) == PassNext(CompileCallArg(c, args, n), c.args)
CompileFixedArgs(c, args, n) ==
    IF n = 0 THEN [c EXCEPT !.args = <<>>]
    ELSE AfterArgs(CompileFixedArgs(c, args, n - 1), args, n)

CompilePartialRead(c, src, bits, i) ==
    Emit(AllocReg(c), IF bits = 1 THEN <<"ExtractBit", c.reg, src, i>>
                      ELSE <<"ExtractPartial", c.reg, src, i, bits>>)

CompileField(c, slot, type, f) ==
    Emit(AllocReg(ForField(c, type, f)), <<"LoadField", c.reg, slot, ResolveField(c, type, f)>>)

CompileVariableAt(c, e, slot) ==
    LET deref(p) == Emit(AllocReg(p), <<"Deref", p.reg, p.out>>)
        index(i) == Emit(AllocReg(i), <<"LoadArray", i.reg, slot, i.out>>)
        partial(b) == CompilePartialRead(b, b.out, e.bits, e.i)
    IN  CASE e.t = "deref" -> deref(CompileLoadVariable(c, e.n))
          [] e.t = "idx" /\ slot >= 0 -> index(CompileExpression(c, e.i))
          [] e.t = "fld" /\ slot >= 0 /\ TypeNameOf(c, slot) # "" ->
               CompileField(c, slot, TypeNameOf(c, slot), e.f)
          [] e.t = "part" -> partial(CompileLoadVariable(c, e.n))
          [] OTHER -> CompileLoadVariable(IF e.t = "var" THEN c ELSE Guess(c), e.n)

\* Of an access with a further part (a.b.c, arr[i].f, a.b.%X0: form "deep") only the
\* part before it is compiled.
Plain(e) == IF e.t = "deep" THEN e.of ELSE e
Counted(c, e) == IF e.t = "deep" THEN Guess(c) ELSE c

CompileVariable(c, e) == CompileVariableAt(Counted(c, e), Plain(e), FindSlot(c.slots, e.n))

CompileRef(c, dst, args) ==
    LET n == IF Len(args) > 0 /\ args[1].e.t = "var" THEN args[1].e.n ELSE ""
        local == FindSlot(c.slots, n)
        global == FindSlot(c.globals, n)
    IN  CASE local >= 0 -> Emit(c, <<"MakeRefLocal", dst, local>>)
          [] local < 0 /\ global >= 0 -> Emit(c, <<"MakeRefGlobal", dst, global>>)
          [] OTHER -> Emit(Guess(c), <<"LoadNull", dst>>)

\* An instruction on the registers in args; wrap adds the reduction to a day.
EmitArgs(a, op, dst) == Emit(a, <<op, dst>> \o a.args)
EmitTime(a, op, wrap, dst) ==
    IF wrap THEN Emit(EmitArgs(AllocReg(a), op, a.reg), <<"ToTod", dst, a.reg>>)
    ELSE EmitArgs(a, op, dst)

\* Calls of methods, instances and functions, after the arguments.
EmitMethod(c, slot, type, method, dst) ==
    Emit(c, <<"CallMethod", slot, FindFunc(c.funcs, type), method, dst, c.args>>)

EmitCallFb(c, slot, callee) ==
    Emit(IF callee = 0 THEN Guess(c) ELSE c,
         <<"CallFb", slot, IF callee = 0 THEN 1 ELSE callee, c.args>>)

EmitCallee(c, e, slot, type, method, callee, dst) ==
    CASE method > 0 -> EmitMethod(c, slot, type, method, dst)
      [] method = 0 /\ slot >= 0 -> EmitCallFb(c, slot, callee)
      [] method = 0 /\ slot < 0 /\ callee > 0 -> Emit(c, <<"Call", callee, dst, c.args>>)
      [] OTHER -> Emit(Guess(c), <<"LoadConst", dst, IntV(0)>>)

\* A conversion without an argument converts 0.0.
ZeroReal == [t |-> "lit", v |-> RealV(0)]

CompileIntrinsic(c, e, dst) ==
    CASE e.n = "REF" -> CompileRef(c, dst, e.args)
      [] e.n = "SYSTEM_TIME" -> Emit(c, <<"SystemTime", dst>>)
      [] e.n \in DOMAIN Intrinsic1 ->
           EmitArgs(CompileFixedArgs(c, IF e.args = <<>> THEN <<[e |-> ZeroReal]>> ELSE e.args, 1),
                    Intrinsic1[e.n], dst)
      [] e.n \in DOMAIN TimeIntrinsic2 ->
           EmitTime(CompileFixedArgs(c, e.args, 2), TimeIntrinsic2[e.n][1], TimeIntrinsic2[e.n][2], dst)
      [] e.n \in DOMAIN StringIntrinsic ->
           EmitArgs(CompileFixedArgs(c, e.args, StringIntrinsic[e.n][2]), StringIntrinsic[e.n][1], dst)

Intrinsics == DOMAIN Intrinsic1 \cup DOMAIN TimeIntrinsic2 \cup DOMAIN StringIntrinsic
                \cup {"REF", "SYSTEM_TIME"}

\* compile_function_call_expr: dst is allocated before the arguments; a method of an
\* instance goes first, then the intrinsics, instances and functions.
CompileCall(c0, e) ==
    LET c == [AllocReg(c0) EXCEPT !.args = <<>>]
        emit(slot, type, method) ==
            IF method = 0 /\ e.n \in Intrinsics THEN CompileIntrinsic(c, e, c0.reg)
            ELSE EmitCallee(CompileCallArgs(c, e.args, 1), e, slot, type, method,
                            FindFunc(c0.funcs, IF type # "" THEN type ELSE e.n), c0.reg)
        typed(slot, type) ==
            emit(slot, type, IF e.t = "meth" /\ type # "" THEN FindMethodInHierarchy(c0, type, e.m) ELSE 0)
        found(slot) == typed(slot, IF slot >= 0 THEN TypeNameOf(c0, slot) ELSE "")
    IN  [found(FindSlot(c0.slots, e.n)) EXCEPT !.out = c0.reg]

CompileUnary(a, op) == Emit(AllocReg(a), <<op, a.reg, a.out>>)
CompileRight(l, e) == Operate(CompileExpression(l, e.r), BinaryOps[e.op], l.out)

CompileExpression(c, e) ==
    CASE e.t = "lit" -> LoadConst(c, LiteralValue(e.v))
      [] e.t = "bin" -> CompileRight(CompileExpression(c, e.l), e)
      [] e.t = "un" -> CompileUnary(CompileExpression(c, e.e), e.op)
      [] e.t \in {"call", "meth"} -> CompileCall(c, e)
      [] OTHER -> CompileVariable(c, e)

-----------------------------------------------------------------------------
(* Statements *)

\* compile_store: c0.out is the register that holds the value.
CompileStore(c0, access, ln) ==
    LET c == Counted(c0, access)
        tgt == Plain(access)
        val == c.out
        slot == FindSlot(c.slots, tgt.n)
    IN  CASE tgt.t = "deref" ->
               LET p == CompileLoadVariable(c, tgt.n)
               IN  EmitSourced(p, <<"DerefStore", p.out, val>>, ln)
          [] tgt.t = "idx" /\ slot >= 0 ->
               LET i == CompileExpression(c, tgt.i)
               IN  EmitSourced(i, <<"StoreArray", slot, i.out, val>>, ln)
          [] tgt.t = "fld" /\ slot >= 0 /\ TypeNameOf(c, slot) # "" ->
               EmitSourced(ForField(c, TypeNameOf(c, slot), tgt.f),
                           <<"StoreField", slot, ResolveField(c, TypeNameOf(c, slot), tgt.f), val>>,
                           ln)
          [] tgt.t = "part" ->
               LET b == CompileLoadVariable(c, tgt.n)
                   d == Emit(AllocReg(b),
                             IF tgt.bits = 1 THEN <<"InsertBit", b.reg, b.out, tgt.i, val>>
                             ELSE <<"InsertPartial", b.reg, b.out, tgt.i, tgt.bits, val>>)
               IN  CompileStoreVariable(d, tgt.n, d.out, ln)
          [] OTHER -> CompileStoreVariable(IF tgt.t = "var" THEN c ELSE Guess(c), tgt.n, val, ln)

\* Only a local loop variable is initialised and incremented; the stores to a global
\* are left out.
StoreLoopVariable(c, n, r) ==
    LET slot == FindSlot(c.slots, n)
    IN  IF slot >= 0 THEN Emit(c, <<"StoreLocal", slot, r>>) ELSE Guess(c)

PushExit(c, l) == [c EXCEPT !.exits = Append(@, l)]
PopExit(c) == [c EXCEPT !.exits = SubSeq(@, 1, Len(@) - 1)]

RECURSIVE CompileStatement(_, _), CompileStatements(_, _), CompileElsifs(_, _, _),
          CompileSelectors(_, _, _, _), CompileBranches(_, _, _, _)

CompileStatements(c, body) ==
    IF body = <<>> THEN c ELSE CompileStatements(CompileStatement(c, Head(body)), Tail(body))

\* One conditional arm: test, body, jump to the end, then the label of the next arm.
CompileArm(c, cond, body, next, end) ==
    PlaceLabel(Emit(CompileStatements(JumpUnless(CompileExpression(c, cond), next), body),
                    <<"Jump", end>>), next)

CompileElsifs(c, arms, end) ==
    IF arms = <<>> THEN c
    ELSE LET l == AllocLabel(c)
         IN  CompileElsifs(CompileArm(l, Head(arms).c, Head(arms).body, Len(l.lab), end),
                           Tail(arms), end)

CompileIf(c0, s) ==
    LET end == Len(c0.lab) + 1
        c == AllocLabel(AllocLabel(c0))
        arms == CompileElsifs(CompileArm(c, s.c, s.th, end + 1, end), s.elsifs, end)
    IN  PlaceLabel(CompileStatements(arms, s.el), end)

CompileRange(lo, sel, on) ==
    LET between(hi) ==
          Emit(Emit(Emit(AllocReg(AllocReg(AllocReg(hi))), <<"CmpGe", hi.reg, on, lo.out>>),
                    <<"CmpLe", hi.reg + 1, on, hi.out>>),
               <<"And", hi.reg + 2, hi.reg, hi.reg + 1>>)
    IN  between(CompileExpression(lo, sel[3]))

CompileSelector(c, sel, on) ==
    IF sel[1] = "one" THEN Operate(CompileExpression(c, sel[2]), "CmpEq", on)
    ELSE CompileRange(CompileExpression(c, sel[2]), sel, on)

CompileSelectors(c, sels, on, body) ==
    LET jump(t) == Emit(t, <<"JumpIf", t.out, body>>)
    IN  IF sels = <<>> THEN c
        ELSE CompileSelectors(jump(CompileSelector(c, Head(sels), on)), Tail(sels), on, body)

CompileBranches(c0, brs, on, end) ==
    IF brs = <<>> THEN c0
    ELSE LET body == Len(c0.lab) + 1
             next == body + 1
             sel == CompileSelectors(AllocLabel(AllocLabel(c0)), Head(brs).sel, on, body)
             c == CompileStatements(PlaceLabel(Emit(sel, <<"Jump", next>>), body), Head(brs).body)
         IN  CompileBranches(PlaceLabel(Emit(c, <<"Jump", end>>), next), Tail(brs), on, end)

CompileCase(c, s) ==
    LET end == Len(c.lab) + 1
        branches(on) == CompileBranches(on, s.br, on.out, end)
    IN  PlaceLabel(CompileStatements(branches(CompileExpression(AllocLabel(c), s.e)), s.el), end)

\* The loop runs while the variable is at most the limit, whatever the sign of BY.
CompileFor(c, s) ==
    LET loop == Len(c.lab) + 1
        exit == loop + 1
        start(from) == PlaceLabel(StoreLoopVariable(from, s.n, from.out), loop)
        top == start(CompileExpression(AllocLabel(AllocLabel(c)), s.from))
        test(var) == JumpUnless(Operate(CompileExpression(var, s.to), "CmpLe", var.out), exit)
        body == CompileStatements(PushExit(test(CompileLoadVariable(top, s.n)), exit), s.body)
        step(b) == IF s.by = <<>> THEN LoadConst(b, IntV(1)) ELSE CompileExpression(b, s.by[1])
        sum(old, by) == Emit(AllocReg(old), <<"Add", old.reg, old.out, by>>)
        add(by) == sum(CompileLoadVariable(by, s.n), by.out)
        store(v) == StoreLoopVariable(v, s.n, v.out)
    IN  PlaceLabel(Emit(store(add(step(PopExit(body)))), <<"Jump", loop>>), exit)

CompileWhile(c, s) ==
    LET loop == Len(c.lab) + 1
        exit == loop + 1
        cond == CompileExpression(PlaceLabel(AllocLabel(AllocLabel(c)), loop), s.c)
        body == CompileStatements(PushExit(JumpUnless(cond, exit), exit), s.body)
    IN  PlaceLabel(Emit(PopExit(body), <<"Jump", loop>>), exit)

CompileRepeat(c, s) ==
    LET loop == Len(c.lab) + 1
        exit == loop + 1
        top == PlaceLabel(AllocLabel(AllocLabel(c)), loop)
        body == PopExit(CompileStatements(PushExit(top, exit), s.body))
    IN  PlaceLabel(JumpUnless(CompileExpression(body, s.c), loop), exit)

\* RETURN returns a constant 0, whatever the function's name holds.
CompileReturn(c, ln) ==
    Emit(EmitSourced(AllocReg(c), <<"LoadConst", c.reg, IntV(0)>>, ln), <<"Ret", c.reg>>)

CompileExit(c) ==
    IF c.exits = <<>> THEN Guess(c) ELSE Emit(c, <<"Jump", c.exits[Len(c.exits)]>>)

CompileStatement(c0, s) ==
    LET c == SetSource(c0, s.ln)
    IN  CASE s.s = "asg" -> CompileStore(CompileExpression(c, s.e), s.tgt, s.ln)
          [] s.s = "call" -> CompileExpression(c, s.e)
          [] s.s = "if" -> CompileIf(c, s)
          [] s.s = "case" -> CompileCase(c, s)
          [] s.s = "for" -> CompileFor(c, s)
          [] s.s = "while" -> CompileWhile(c, s)
          [] s.s = "repeat" -> CompileRepeat(c, s)
          [] s.s = "return" -> CompileReturn(c, s.ln)
          [] s.s = "exit" -> CompileExit(c)
          [] s.s = "empty" -> c

-----------------------------------------------------------------------------
(* Program organisation units and the module *)

\* compile_var_blocks (init = TRUE) and register_var_blocks (init = FALSE).
RECURSIVE CompileVars(_, _, _)
CompileVars(c0, decls, init) ==
    IF decls = <<>> THEN c0
    ELSE LET d == Head(decls)
             c == [c0 EXCEPT !.slots = Append(@, [n |-> d.n, ty |-> d.ty, rt |-> d.rt])]
         IN  CompileVars(IF init /\ d.init # <<>>
                         THEN StoreTo(CompileExpression(c, d.init[1]), "StoreLocal", Len(c.slots) - 1)
                         ELSE c,
                         Tail(decls), init)

Finish(c, name, m, kind, start) ==
    [name |-> name, m |-> m, kind |-> kind, slots |-> c.slots, code |-> c.code,
     lab |-> c.lab, map |-> c.map, start |-> start, regs |-> c.reg, holes |-> c.holes]

\* register_item: every unit gets a function entry with an empty layout.
Stub(name, m, kind) ==
    [name |-> name, m |-> m, kind |-> kind, slots |-> <<>>, code |-> <<>>, lab |-> <<>>,
     map |-> <<>>, start |-> 0, regs |-> 0, holes |-> 0]

Concrete(u) == SelectSeq(u.methods, LAMBDA m : "abstract" \notin m.mods)

\* Interfaces and abstract methods have no run-time representation.
Stubs(u) ==
    IF u.kind = "interface" THEN <<>>
    ELSE <<Stub(u.name, "", u.kind)>>
           \o [i \in 1..Len(Concrete(u)) |-> Stub(u.name, Concrete(u)[i].name, "method")]

\* The declarations of the ancestors of a class, the root's first.
RECURSIVE InheritedVars(_, _)
InheritedVars(units, u) ==
    IF u.base = "" THEN <<>>
    ELSE LET b == CHOOSE v \in {units[i] : i \in 1..Len(units)} : v.name = u.base
         IN  InheritedVars(units, b) \o b.vars

\* A function's or method's result is a local of its own name, read at the end.
Epilogue(c, n) ==
    IF n = "" THEN Emit(c, <<"RetVoid">>)
    ELSE LET r == CompileLoadVariable(c, n) IN Emit(r, <<"Ret", r.out>>)

AddResult(c, n, ty) ==
    IF n = "" THEN c
    ELSE [c EXCEPT !.slots = Append(@, [n |-> n, ty |-> ty, rt |-> FALSE])]

CompileBody(c0, name, m, kind, result, ty, body) ==
    LET c == AddResult(c0, result, ty)
    IN  Finish(Epilogue(CompileStatements(c, body), result), name, m, kind, CurrentPc(c))

CompileMethod(funcs, src, bases, u, meth) ==
    LET c == CompileVars(NewCompiler(funcs, src.globals, bases),
                         InheritedVars(src.units, u) \o u.vars, FALSE)
    IN  CompileBody(CompileVars(c, meth.vars, TRUE), u.name, meth.name, "method",
                    IF meth.ty = <<>> THEN "" ELSE meth.name,
                    IF meth.ty = <<>> THEN u ELSE meth.ty[1], meth.body)

RECURSIVE CompileMethods(_, _, _, _, _)
CompileMethods(funcs, src, bases, u, i) ==
    IF i > Len(Concrete(u)) THEN funcs
    ELSE LET at == CHOOSE k \in 1..Len(funcs) :
                      funcs[k].name = u.name /\ funcs[k].m = Concrete(u)[i].name
         IN  CompileMethods([funcs EXCEPT ![at] =
                               CompileMethod(funcs, src, bases, u, Concrete(u)[i])],
                            src, bases, u, i + 1)

CompileItem(funcs, src, bases, u) ==
    LET c == CompileVars(NewCompiler(funcs, src.globals, bases),
                         InheritedVars(src.units, u) \o u.vars, TRUE)
        f == CompileBody(c, u.name, "", u.kind, IF u.kind = "function" THEN u.name ELSE "",
                         u.ty, u.body)
    IN  CompileMethods([funcs EXCEPT ![FindFunc(funcs, u.name)] = f], src, bases, u, 1)

RECURSIVE CompileItems(_, _, _, _)
CompileItems(funcs, src, bases, units) ==
    IF units = <<>> THEN funcs
    ELSE CompileItems(CompileItem(funcs, src, bases, Head(units)), src, bases, Tail(units))

\* Programs are compiled last, so that the layouts they refer to are known.
CompileOrder(units) ==
    SelectSeq(units, LAMBDA u : u.kind \notin {"program", "interface"})
      \o SelectSeq(units, LAMBDA u : u.kind = "program")

RECURSIVE CompileGlobalInits(_, _, _)
CompileGlobalInits(c, globals, i) ==
    IF i > Len(globals) THEN c
    ELSE CompileGlobalInits(
             IF globals[i].init = <<>> THEN c
             ELSE StoreTo(CompileExpression(SetSource(c, globals[i].ln), globals[i].init[1]),
                          "StoreGlobal", i - 1), globals, i + 1)

\* Pass 3: __global_init, when some global has an initial value.
CompileGlobalInit(funcs, src, bases) ==
    IF \A i \in 1..Len(src.globals) : src.globals[i].init = <<>> THEN funcs
    ELSE LET c == CompileGlobalInits(NewCompiler(funcs, src.globals, bases), src.globals, 1)
         IN  Append(funcs, Finish(Emit(c, <<"RetVoid">>), "__global_init", "", "function", 0))

RECURSIVE AllStubs(_)
AllStubs(units) == IF units = <<>> THEN <<>> ELSE Stubs(Head(units)) \o AllStubs(Tail(units))

CompileModule(src) ==
    LET classes == {i \in 1..Len(src.units) : src.units[i].base # ""}
        bases == [n \in {src.units[i].name : i \in classes} |->
                    src.units[CHOOSE i \in classes : src.units[i].name = n].base]
    IN  CompileGlobalInit(CompileItems(AllStubs(src.units), src, bases, CompileOrder(src.units)),
                          src, bases)
=============================================================================
