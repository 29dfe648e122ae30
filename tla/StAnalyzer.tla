----------------------------- MODULE StAnalyzer -----------------------------
(***************************************************************************)
(* The semantic analyser (st-semantics/src/analyze.rs, types.rs,           *)
(* scope.rs): Errors(src) is the set of error codes it reports, and a      *)
(* source is compiled only when there is none.  Checking an expression     *)
(* yields its type and the errors found; the type Unknown silences every   *)
(* check it takes part in.  A scope chain is a sequence of declaration     *)
(* sequences, the innermost first.  Warnings are left out.                 *)
(***************************************************************************)
EXTENDS StCompiler, TLC

Unknown == [b |-> "?"]
Void == [b |-> "VOID"]
Ty(b) == [b |-> b]

\* numeric_rank; types without a rank are coerced to nothing but themselves.
Rank(ty) == CASE ty.b = "SINT" -> 1 [] ty.b = "USINT" -> 2 [] ty.b = "INT" -> 3
              [] ty.b = "UINT" -> 4 [] ty.b = "REAL" -> 9 [] OTHER -> 0

IsInteger(ty) == ty.b \in {"SINT", "USINT", "INT", "UINT"}
IsNumeric(ty) == Rank(ty) > 0
IsBitString(ty) == ty.b = "BYTE"
IsTime(ty) == ty.b \in TimeTypes

CanCoerce(from, to) == from = to \/ (Rank(from) > 0 /\ Rank(to) > 0 /\ Rank(from) <= Rank(to))

\* Unknown stands for "no common type" as well.
CommonType(a, b) ==
    CASE a = b -> a
      [] a # b /\ Rank(a) > 0 /\ Rank(b) > 0 -> IF Rank(a) >= Rank(b) THEN a ELSE b
      [] OTHER -> Unknown

IntegerRange(ty) ==
    CASE ty.b = "SINT" -> <<-128, 127>>
      [] ty.b = "INT" -> <<-32768, 32767>>
      [] ty.b \in {"USINT", "BYTE"} -> <<0, 255>>
      [] ty.b = "UINT" -> <<0, 65535>>
      [] OTHER -> <<1, 0>>

\* integer_literal_value as an empty or one-element sequence.
RECURSIVE IntegerLiteral(_)
IntegerLiteral(e) ==
    CASE e.t = "lit" -> IF e.v[1] = "int" THEN <<e.v[2]>> ELSE <<>>
      [] e.t = "un" -> IF e.op = "Neg" /\ IntegerLiteral(e.e) # <<>>
                       THEN <<-IntegerLiteral(e.e)[1]>> ELSE <<>>
      [] OTHER -> <<>>

LiteralFits(e, ty) ==
    /\ IntegerLiteral(e) # <<>>
    /\ IntegerLiteral(e)[1] \in IntegerRange(ty)[1]..IntegerRange(ty)[2]

LiteralType(v) ==
    CASE v[1] = "int" -> Ty("INT")
      [] v[1] = "real" -> Ty("REAL")
      [] v[1] = "str" -> Ty("STRING")
      [] v[1] = "bool" -> Ty("BOOL")
      [] v[1] = "time" -> Ty("TIME")
      [] v[1] = "ymd" -> Ty("DATE")
      [] OTHER -> Unknown

\* register_intrinsics: parameter types and result; "?" accepts anything.
ConversionSignature ==
    [TO_INT |-> <<<<"?">>, "INT">>, TO_REAL |-> <<<<"?">>, "REAL">>, TO_BOOL |-> <<<<"?">>, "BOOL">>,
     TO_TIME |-> <<<<"?">>, "TIME">>]

DateSignature ==
    [TO_TOD |-> <<<<"?">>, "TOD">>, DT_TO_DATE |-> <<<<"DT">>, "DATE">>,
     DT_TO_TOD |-> <<<<"DT">>, "TOD">>, DAY_OF_WEEK |-> <<<<"DATE">>, "INT">>]

DateArithmeticSignature ==
    [ADD_TOD_TIME |-> <<<<"TOD", "TIME">>, "TOD">>, SUB_TOD_TIME |-> <<<<"TOD", "TIME">>, "TOD">>,
     ADD_DT_TIME |-> <<<<"DT", "TIME">>, "DT">>, SUB_DT_DT |-> <<<<"DT", "DT">>, "TIME">>,
     MULTIME |-> <<<<"TIME", "INT">>, "TIME">>, DIVTIME |-> <<<<"TIME", "INT">>, "TIME">>]

StringSignature ==
    LET str == "STRING"
    IN  [LEN |-> <<<<str>>, "INT">>, CONCAT |-> <<<<str, str>>, str>>,
         FIND |-> <<<<str, str>>, "INT">>, LEFT |-> <<<<str, "INT">>, str>>,
         RIGHT |-> <<<<str, "INT">>, str>>, MID |-> <<<<str, "INT", "INT">>, str>>,
         DELETE |-> <<<<str, "INT", "INT">>, str>>, INSERT |-> <<<<str, str, "INT">>, str>>,
         REPLACE |-> <<<<str, str, "INT", "INT">>, str>>]

Signature == ConversionSignature @@ DateSignature @@ DateArithmeticSignature @@ StringSignature
               @@ [REF |-> <<<<"?">>, "?">>, SYSTEM_TIME |-> <<<<>>, "TIME">>]

IntrinsicNames == DOMAIN Signature

-----------------------------------------------------------------------------
(* Names *)

UnitOf(src, n) == {src.units[i] : i \in {j \in 1..Len(src.units) : src.units[j].name = n}}
IsClass(src, n) == \E u \in UnitOf(src, n) : u.kind = "class"

\* resolve_data_type: a type that is declared nowhere becomes Unknown.
ResolveType(src, ty) ==
    CASE ty.b = "REF" -> Unknown
      [] ty.b \in {"FB", "CLASS"} -> IF UnitOf(src, ty.n) = {} THEN Unknown ELSE ty
      [] OTHER -> ty

\* The innermost declaration of a name, as a set of at most one element.
RECURSIVE Resolve(_, _)
Resolve(scopes, n) ==
    IF scopes = <<>> THEN {}
    ELSE LET i == FindSlot(Head(scopes), n)
         IN  IF i >= 0 THEN {Head(scopes)[i + 1]} ELSE Resolve(Tail(scopes), n)

Params(vars) == SelectSeq(vars, LAMBDA d : d.vk \in {"in", "inout"})
Visible(vars) == SelectSeq(vars, LAMBDA d : d.vk \in {"in", "inout", "out"})

RECURSIVE ResolveMethod(_, _, _)
ResolveMethod(src, class, n) ==
    LET cs == {u \in UnitOf(src, class) : u.kind = "class"}
        own == UNION {{u.methods[i] : i \in {j \in 1..Len(u.methods) : u.methods[j].name = n}} :
                        u \in cs}
    IN  CASE cs = {} -> {}
          [] cs # {} /\ own # {} -> own
          [] OTHER -> LET u == CHOOSE v \in cs : TRUE IN ResolveMethod(src, u.base, n)

-----------------------------------------------------------------------------
(* Expressions: [ty, err] *)

OK(ty) == [ty |-> ty, err |-> {}]
Err(code) == [ty |-> Unknown, err |-> {code}]
With(r, errs) == [r EXCEPT !.err = @ \cup errs]

Mismatch(from, to) == ~CanCoerce(from, to) /\ from # Unknown /\ to # Unknown

RECURSIVE Check(_, _), CheckArgs(_, _, _, _, _)

\* The errors of one argument for the i-th parameter.
CheckArg(v, params, i) ==
    v.err \cup (IF Mismatch(v.ty, params[i].ty) THEN {"ParamTypeMismatch"} ELSE {})

\* Named arguments are matched by name, the others in order; seen holds the names.
CheckArgs(env, args, params, pos, seen) ==
    LET next(errs, p, names) == errs \cup CheckArgs(env, Tail(args), params, p, seen \cup names)
        named(n, i) ==
            IF n \in seen THEN {"DuplicateParam"}
            ELSE IF i = 0 THEN {"UnknownParam"} ELSE CheckArg(Check(env, Head(args).e), params, i)
    IN  CASE args = <<>> ->
               {c \in {"MissingRequiredParam"} :
                   \E i \in 1..Len(params) :
                      params[i].vk = "inout" /\ params[i].n \notin seen /\ i > pos}
          [] args # <<>> /\ Head(args).n # "" ->
               next(named(Head(args).n, FindSlot(params, Head(args).n) + 1), pos, {Head(args).n})
          [] args # <<>> /\ Head(args).n = "" /\ pos >= Len(params) ->
               next({"TooManyPositionalArgs"}, pos, {})
          [] args # <<>> /\ Head(args).n = "" /\ pos < Len(params) ->
               next(CheckArg(Check(env, Head(args).e), params, pos + 1), pos + 1, {})

CheckField(env, unit, f) ==
    IF FindSlot(Visible(unit.vars), f) < 0 THEN Err("NoSuchField")
    ELSE OK(ResolveType(env.src, Visible(unit.vars)[FindSlot(Visible(unit.vars), f) + 1].ty))

CheckIndex(index, ty) ==
    With(OK(IF ty.b = "ARRAY" THEN ty.e ELSE Ty("BYTE")),
         index.err \cup (IF IsInteger(index.ty) \/ index.ty = Unknown
                         THEN {} ELSE {"ArrayIndexTypeMismatch"}))

\* ty is the type of the variable the access starts from.
CheckPart(env, e, ty) ==
    CASE e.t = "var" -> OK(ty)
      [] e.t = "deref" -> OK(Unknown)
      [] e.t = "part" -> OK(Ty(IF e.bits = 1 THEN "BOOL" ELSE "BYTE"))
      [] e.t = "fld" -> IF ty.b \notin {"FB", "CLASS"} THEN Err("FieldAccessOnNonStruct")
                        ELSE CheckField(env, CHOOSE u \in UnitOf(env.src, ty.n) : TRUE, e.f)
      [] e.t = "idx" ->
           CASE ty = Unknown -> OK(Unknown)
             [] ty # Unknown /\ ty.b \notin {"ARRAY", "STRING"} -> Err("IndexOnNonArray")
             [] OTHER -> CheckIndex(Check(env, e.i), ty)

\* A further part of an access: a field, or bits.
CheckTail(env, e, base) ==
    CASE base.err # {} -> base
      [] base.err = {} /\ e.more = "part" -> OK(Ty(IF e.bits = 1 THEN "BOOL" ELSE "BYTE"))
      [] OTHER -> IF base.ty.b \notin {"FB", "CLASS"} THEN Err("FieldAccessOnNonStruct")
                  ELSE CheckField(env, CHOOSE u \in UnitOf(env.src, base.ty.n) : TRUE, e.f)

CheckAccess(env, e) ==
    LET typed(ty) == IF e.t = "deep" THEN CheckTail(env, e, CheckPart(env, e.of, ty))
                     ELSE CheckPart(env, e, ty)
        found(sym) == IF sym = {} THEN Err("UndeclaredVariable")
                      ELSE typed(ResolveType(env.src, (CHOOSE d \in sym : TRUE).ty))
    IN  found(Resolve(env.scopes, e.n))

IntrinsicParams(n) ==
    [i \in 1..Len(Signature[n][1]) |-> [n |-> "", vk |-> "in", ty |-> Ty(Signature[n][1][i])]]

CheckMethodCall(env, e, ms) ==
    LET call(meth) == With(OK(IF meth.ty = <<>> THEN Void ELSE meth.ty[1]),
                           CheckArgs(env, e.args, Params(meth.vars), 0, {}))
    IN  IF ms = {} THEN Err("NoSuchField") ELSE call(CHOOSE m \in ms : TRUE)

\* A call through a variable of type ty.
CheckInstanceCall(env, e, ty) ==
    LET call(unit) ==
          With(OK(Void), CheckArgs(env, e.args, Params(unit.vars), 0, {}) \cup
                         (IF ty.b = "CLASS" /\ "abstract" \in unit.mods
                          THEN {"CannotInstantiateAbstractClass"} ELSE {}))
    IN  CASE e.t = "meth" -> IF ty.b = "CLASS"
                             THEN CheckMethodCall(env, e, ResolveMethod(env.src, ty.n, e.m))
                             ELSE Err("UndeclaredPou")
          [] e.t = "call" /\ ty.b \in {"FB", "CLASS"} ->
               call(CHOOSE u \in UnitOf(env.src, ty.n) : TRUE)
          [] OTHER -> Err("NotCallable")

CheckUnitCall(env, e, unit) ==
    IF unit.kind \in {"program", "interface"} THEN Err("NotCallable")
    ELSE With(OK(IF unit.kind = "function" THEN unit.ty ELSE Void),
              CheckArgs(env, e.args, Params(unit.vars), 0, {}))

CheckCall(env, e) ==
    LET found(sym) ==
          CASE sym # {} ->
                 CheckInstanceCall(env, e, ResolveType(env.src, (CHOOSE d \in sym : TRUE).ty))
            [] sym = {} /\ e.t = "call" /\ e.n \in IntrinsicNames ->
                 With(OK(Ty(Signature[e.n][2])), CheckArgs(env, e.args, IntrinsicParams(e.n), 0, {}))
            [] sym = {} /\ e.t = "call" /\ UnitOf(env.src, e.n) # {} ->
                 CheckUnitCall(env, e, CHOOSE u \in UnitOf(env.src, e.n) : TRUE)
            [] OTHER -> Err("UndeclaredPou")
    IN  found(Resolve(env.scopes, e.n))

CheckUnary(op, a) ==
    IF a.ty = Unknown \/ (IF op = "Neg" THEN IsNumeric(a.ty)
                          ELSE a.ty.b = "BOOL" \/ IsBitString(a.ty))
    THEN a ELSE With(Err("IncompatibleUnaryOp"), a.err)

CheckArithmetic(e, l, r) ==
    CASE ~(IsNumeric(l) /\ IsNumeric(r)) ->
           IF IsTime(l) /\ IsTime(r) /\ e.op \in {"plus", "minus"}
           THEN OK(l) ELSE Err("IncompatibleBinaryOp")
      [] e.op = "mod" /\ ~(IsInteger(l) /\ IsInteger(r)) -> Err("IncompatibleBinaryOp")
      [] IsInteger(l) /\ LiteralFits(e.r, l) -> OK(l)
      [] IsInteger(r) /\ LiteralFits(e.l, r) -> OK(r)
      [] OTHER -> OK(CommonType(l, r))

CheckLogic(l, r) ==
    IF l.b = "BOOL" /\ r.b = "BOOL" THEN OK(Ty("BOOL"))
    ELSE IF IsBitString(l) /\ IsBitString(r) THEN OK(CommonType(l, r))
    ELSE Err("IncompatibleBinaryOp")

CheckBinary(e, l, r) ==
    With(CASE Unknown \in {l.ty, r.ty} -> OK(Unknown)
           [] Unknown \notin {l.ty, r.ty} /\ e.op \in {"plus", "minus", "times", "div", "mod"} ->
                CheckArithmetic(e, l.ty, r.ty)
           [] Unknown \notin {l.ty, r.ty} /\ e.op \in {"and", "or", "xor"} -> CheckLogic(l.ty, r.ty)
           [] OTHER -> With(OK(Ty("BOOL")), IF CommonType(l.ty, r.ty) = Unknown
                                            THEN {"IncompatibleBinaryOp"} ELSE {}),
         l.err \cup r.err)

Check(env, e) ==
    CASE e.t = "lit" -> OK(LiteralType(e.v))
      [] e.t = "bin" -> CheckBinary(e, Check(env, e.l), Check(env, e.r))
      [] e.t = "un" -> CheckUnary(e.op, Check(env, e.e))
      [] e.t \in {"call", "meth"} -> CheckCall(env, e)
      [] OTHER -> CheckAccess(env, e)

-----------------------------------------------------------------------------
(* Statements: sets of error codes *)

ExpectBool(env, e) ==
    LET expect(c) == c.err \cup (IF c.ty.b \in {"BOOL", "?"} THEN {} ELSE {"TypeMismatchCondition"})
    IN  expect(Check(env, e))

ExpectInteger(env, e) ==
    LET expect(c) == c.err \cup (IF IsInteger(c.ty) \/ c.ty = Unknown THEN {} ELSE {"TypeMismatch"})
    IN  expect(Check(env, e))

InLoop(env) == [env EXCEPT !.loop = TRUE]

\* There is no check of CONSTANT: every declared variable may be assigned.
CheckAssignment(env, s) ==
    LET assign(t, v) ==
          t.err \cup v.err \cup
          (IF Mismatch(v.ty, t.ty) /\ ~LiteralFits(s.e, t.ty) THEN {"TypeMismatchAssignment"} ELSE {})
    IN  assign(CheckAccess(env, s.tgt), Check(env, s.e))

CheckSelector(env, e, on) ==
    LET expect(c) == c.err \cup (IF Mismatch(c.ty, on) THEN {"CaseSelectorTypeMismatch"} ELSE {})
    IN  expect(Check(env, e))

CheckForVariable(env, n) ==
    LET sym == Resolve(env.scopes, n)
    IN  IF sym = {} THEN {"UndeclaredVariable"}
        ELSE {c \in {"ForVariableNotInteger"} : \E d \in sym : ~IsInteger(d.ty)}

RECURSIVE CheckStatement(_, _)
CheckStatements(env, body) == UNION {CheckStatement(env, body[i]) : i \in 1..Len(body)}

CheckBranch(env, br, on) ==
    UNION {UNION {CheckSelector(env, br.sel[i][k], on) : k \in 2..Len(br.sel[i])} : i \in 1..Len(br.sel)}
      \cup CheckStatements(env, br.body)

CheckCase(env, s) ==
    LET branches(on) == on.err \cup UNION {CheckBranch(env, s.br[i], on.ty) : i \in 1..Len(s.br)}
    IN  branches(Check(env, s.e)) \cup CheckStatements(env, s.el)

CheckStatement(env, s) ==
    CASE s.s = "asg" -> CheckAssignment(env, s)
      [] s.s = "call" -> Check(env, s.e).err
      [] s.s = "if" ->
           ExpectBool(env, s.c) \cup CheckStatements(env, s.th) \cup CheckStatements(env, s.el)
             \cup UNION {ExpectBool(env, s.elsifs[i].c) \cup CheckStatements(env, s.elsifs[i].body) :
                           i \in 1..Len(s.elsifs)}
      [] s.s = "case" -> CheckCase(env, s)
      [] s.s = "for" ->
           CheckForVariable(env, s.n) \cup ExpectInteger(env, s.from) \cup ExpectInteger(env, s.to)
             \cup UNION {ExpectInteger(env, s.by[i]) : i \in 1..Len(s.by)}
             \cup CheckStatements(InLoop(env), s.body)
      [] s.s \in {"while", "repeat"} ->
           ExpectBool(env, s.c) \cup CheckStatements(InLoop(env), s.body)
      [] s.s = "exit" -> IF env.loop THEN {} ELSE {"ExitOutsideLoop"}
      [] s.s \in {"return", "empty"} -> {}

-----------------------------------------------------------------------------
(* Declarations and units *)

Duplicates(decls) ==
    {c \in {"DuplicateDeclaration"} :
        \E i, j \in 1..Len(decls) : i # j /\ decls[i].n = decls[j].n}

CheckInit(env, d) ==
    LET assign(v) ==
          v.err \cup (IF Mismatch(v.ty, ResolveType(env.src, d.ty)) /\ ~LiteralFits(d.init[1], d.ty)
                      THEN {"TypeMismatchAssignment"} ELSE {})
    IN  assign(Check(env, d.init[1]))

CheckVars(env, decls) ==
    Duplicates(decls)
      \cup UNION {IF decls[i].init = <<>> THEN {} ELSE CheckInit(env, decls[i]) : i \in 1..Len(decls)}

\* mutant of Env: the loop depth is not reset at the start of a body
EnvInsideLoop(src, vars) == [src |-> src, scopes |-> <<vars, src.globals>>, loop |-> TRUE]

Env(src, vars) == [src |-> src, scopes |-> <<vars, src.globals>>, loop |-> FALSE]

Result(n, ty) == [n |-> n, ty |-> ty, vk |-> "var", init |-> <<>>, rt |-> FALSE]

\* An OVERRIDE is looked for in the direct base only.
CheckOverride(src, u, m) ==
    LET base == UnitOf(src, u.base)
        found == UNION {{b.methods[i] : i \in {j \in 1..Len(b.methods) : b.methods[j].name = m.name}} :
                          b \in base}
    IN  CASE "override" \notin m.mods -> {}
          [] "override" \in m.mods /\ found = {} -> {"InvalidOverride"}
          [] OTHER -> {c \in {"CannotOverrideFinalMethod"} : \E b \in found : "final" \in b.mods}

CheckMethod(src, u, fields, m) ==
    LET own == (IF m.ty = <<>> THEN <<>> ELSE <<Result(m.name, m.ty[1])>>) \o m.vars
        env == [Env(src, fields) EXCEPT !.scopes = <<own>> \o @]
    IN  CheckOverride(src, u, m) \cup CheckVars(env, own) \cup
        (IF "abstract" \in m.mods THEN {} ELSE CheckStatements(env, m.body))

CheckClass(src, u) ==
    LET fields == InheritedVars(src.units, u) \o u.vars
        base == UnitOf(src, u.base)
        known == u.base = "" \/ IsClass(src, u.base)
        unmet == \E i \in 1..Len(u.ifaces) : \E f \in UnitOf(src, u.ifaces[i]) :
                   \E k \in 1..Len(f.methods) :
                      \A j \in 1..Len(u.methods) : u.methods[j].name # f.methods[k].name
    IN  IF ~known THEN {"UndeclaredType"}
        ELSE {c \in {"CannotExtendFinalClass"} : \E b \in base : "final" \in b.mods}
             \cup {c \in {"UndeclaredType"} :
                     \E i \in 1..Len(u.ifaces) : \A f \in UnitOf(src, u.ifaces[i]) : f.kind # "interface"}
             \cup {c \in {"InterfaceNotImplemented"} : unmet}
             \cup {c \in {"AbstractMethodInNonAbstractClass"} :
                     /\ "abstract" \notin u.mods
                     /\ \E i \in 1..Len(u.methods) : "abstract" \in u.methods[i].mods}
             \cup CheckVars(Env(src, fields), u.vars)
             \cup UNION {CheckMethod(src, u, fields, u.methods[i]) : i \in 1..Len(u.methods)}

CheckUnit(src, u) ==
    CASE u.kind = "class" -> CheckClass(src, u)
      [] u.kind = "interface" -> {}
      [] u.kind = "function" ->
           LET vars == <<Result(u.name, u.ty)>> \o u.vars
           IN  CheckVars(Env(src, vars), vars) \cup CheckStatements(Env(src, vars), u.body)
      [] OTHER -> CheckVars(Env(src, u.vars), u.vars) \cup CheckStatements(Env(src, u.vars), u.body)

\* analyze: every unit is registered first, then every body is checked.
Errors(src) ==
    Duplicates([i \in 1..Len(src.units) |-> [n |-> src.units[i].name]])
      \cup CheckVars([Env(src, <<>>) EXCEPT !.scopes = <<src.globals>>], src.globals)
      \cup UNION {CheckUnit(src, src.units[i]) : i \in 1..Len(src.units)}
=============================================================================
