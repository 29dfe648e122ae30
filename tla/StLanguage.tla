----------------------------- MODULE StLanguage -----------------------------
(***************************************************************************)
(* The language pipeline as one system: a source is analysed, a source     *)
(* without errors is compiled, and the virtual machine runs it cycle by    *)
(* cycle.  The properties compare what runs with the meaning of the        *)
(* source (StReference).                                                   *)
(***************************************************************************)
EXTENDS StMachine, StReference

LanguageNext == RunGlobalInit \/ ScanCycle \/ Instruction

LanguageSpec == Init /\ [][LanguageNext]_mvars

meant == prog.meant
Source == prog.src

-----------------------------------------------------------------------------
(* Walking a source *)

RECURSIVE SubExprs(_), SubStmts(_)
SubExprs(e) ==
    {e} \cup CASE e.t = "bin" -> SubExprs(e.l) \cup SubExprs(e.r)
               [] e.t = "un" -> SubExprs(e.e)
               [] e.t = "idx" -> SubExprs(e.i)
               [] e.t = "deep" -> SubExprs(e.of)
               [] e.t \in {"call", "meth"} -> UNION {SubExprs(e.args[i].e) : i \in 1..Len(e.args)}
               [] OTHER -> {}

SubStmts(body) ==
    UNION {{body[i]} \cup
             LET s == body[i]
             IN  CASE s.s = "if" -> SubStmts(s.th) \cup SubStmts(s.el)
                                      \cup UNION {SubStmts(s.elsifs[k].body) : k \in 1..Len(s.elsifs)}
                   [] s.s = "case" -> SubStmts(s.el)
                                        \cup UNION {SubStmts(s.br[k].body) : k \in 1..Len(s.br)}
                   [] s.s \in {"for", "while", "repeat"} -> SubStmts(s.body)
                   [] OTHER -> {} : i \in 1..Len(body)}

\* The expressions of a statement, its target and its conditions included.
StmtExprs(s) ==
    LET each(seq) == {seq[i] : i \in 1..Len(seq)}
    IN  CASE s.s = "asg" -> {s.tgt, s.e}
          [] s.s = "call" -> {s.e}
          [] s.s = "if" -> {s.c} \cup {a.c : a \in each(s.elsifs)}
          [] s.s = "case" -> {s.e}
          [] s.s = "for" -> {s.from, s.to} \cup each(s.by)
          [] s.s \in {"while", "repeat"} -> {s.c}
          [] OTHER -> {}

Exprs(body) == UNION {UNION {SubExprs(e) : e \in StmtExprs(s)} : s \in SubStmts(body)}

\* The pieces of code of a unit, its body and its methods: the variables each one sees,
\* and whether it returns a value.
Codes(src, u) ==
    {[vars |-> FullVars(src, u), body |-> u.body, result |-> u.kind = "function"]}
      \cup {[vars |-> u.methods[i].vars \o FullVars(src, u), body |-> u.methods[i].body,
             result |-> u.methods[i].ty # <<>>] : i \in 1..Len(u.methods)}

\* Only the units Main reaches matter for what it does.
RECURSIVE Reached(_, _)
Reached(src, names) ==
    LET us == {u \in {src.units[i] : i \in 1..Len(src.units)} : u.name \in names}
        calls(c) == {e.n : e \in {x \in Exprs(c.body) : x.t = "call"}}
        called == UNION {UNION {calls(c) : c \in Codes(src, u)} : u \in us}
        types(u) == {u.vars[i].ty : i \in 1..Len(u.vars)}
        instances(u) == {t.n : t \in {x \in types(u) : x.b \in {"FB", "CLASS"}}}
                          \cup {t.e.n : t \in {x \in types(u) : HoldsInstances(x)}}
        next == names \cup ((called \cup UNION {instances(u) : u \in us} \cup {u.base : u \in us})
                              \cap UnitNames(src))
    IN  IF next = names THEN us ELSE Reached(src, next)

ReachedCodes(src) == UNION {Codes(src, u) : u \in Reached(src, {"Main"})}

-----------------------------------------------------------------------------
(* The constructs whose compiled meaning is known to differ from the       *)
(* documented one; every other source must behave as documented.  Some are *)
(* seen in the source, the others (odd) when their evaluation meets them:  *)
(*   bits        AND, OR, XOR, NOT on bit strings, Boolean to the machine  *)
(*   text        strings, which all compare as equal                       *)
(*   truth       TO_REAL(TRUE), which is 0.0                               *)
(*   real        an integer put into a REAL, where it stays an integer     *)
(*   inout       a VAR_IN_OUT argument, which is copied and not written    *)
(*               back                                                      *)
(*   argument, field, element, reference                                   *)
(*               a value beyond the type of the parameter, field, array    *)
(*               element or referenced variable it is put into             *)
(*   access      a.b.c, arr[i].f, a.b.%X0, of which the last part is lost  *)

Negative(e) == IntegerLiteral(e) # <<>> /\ IntegerLiteral(e)[1] < 0

\* FOR over a global variable, which is neither set nor stepped.
GlobalLoop(c) == \E s \in SubStmts(c.body) : s.s = "for" /\ ~Declared(c.vars, s.n)

\* FOR ... BY with a negative step.
DownwardLoop(c) ==
    \E s \in SubStmts(c.body) : s.s = "for" /\ \E i \in 1..Len(s.by) : Negative(s.by[i])

\* RETURN in a function or method with a result.
DeviantReturn(c) == c.result /\ \E s \in SubStmts(c.body) : s.s = "return"

\* The declarations the arguments of a call are bound to; <<>> for an intrinsic.
CalleeVars(src, c, e) ==
    LET type == DeclOf(c.vars, e.n).ty.n
    IN  CASE e.t = "call" /\ e.n \in UnitNames(src) -> Unit(src, e.n).vars
          [] e.t = "call" /\ Declared(c.vars, e.n) -> Unit(src, type).vars
          [] e.t = "meth" -> FindMethod(src, Unit(src, type), e.m)[2].vars
          [] OTHER -> <<>>

\* Arguments that do not stand where their parameters are declared.
DeviantArguments(src, c) ==
    \E e \in {x \in Exprs(c.body) : x.t \in {"call", "meth"}} :
        LET vars == CalleeVars(src, c, e)
        IN  vars # <<>> /\ \E i \in 1..Len(e.args) :
               FindSlot(vars, ParameterOf(e.args, i, Params(vars))) # i - 1

\* Initial values of function blocks, and of classes when they are not literals.
DeviantInitial(u) ==
    \E i \in 1..Len(u.vars) :
        /\ u.vars[i].init # <<>>
        /\ u.kind = "fb" \/ (u.kind = "class" /\ u.vars[i].init[1].t # "lit")

\* Two instances below two instances of a block that has instances itself.
InstanceVars(u) == {i \in 1..Len(u.vars) : u.vars[i].ty.b \in {"FB", "CLASS"}}
DeviantNesting(src) ==
    LET main == Unit(src, "Main")
        below(u, i) == Unit(src, u.vars[i].ty.n)
    IN  \E i, j \in InstanceVars(main) :
           /\ i # j /\ main.vars[i].ty = main.vars[j].ty
           /\ LET top == below(main, i)
              IN  \E k \in InstanceVars(top) : InstanceVars(below(top, k)) # {}

DeviantSource(src) ==
    \/ DeviantNesting(src)
    \/ \E u \in Reached(src, {"Main"}) : DeviantInitial(u)
    \/ \E c \in ReachedCodes(src) :
          GlobalLoop(c) \/ DownwardLoop(c) \/ DeviantReturn(c) \/ DeviantArguments(src, c)

\* Only a source without errors is compiled; meant is what the source means, the
\* memory before the first and after each cycle.
Compiled(src) ==
    [src |-> src, mod |-> CompileModule(src), deviant |-> DeviantSource(src),
     meant |-> [k \in 0..MaxCycles |-> AfterCycles(src, k)]]

Accepted(srcs) == {Compiled(src) : src \in {s \in srcs : Errors(s) = {}}}

\* Up to the end of the k-th cycle.
Deviates(k) == prog.deviant \/ meant[k].odd # {}

-----------------------------------------------------------------------------
(* Properties *)

\* The state is well formed: the program counter never runs off the code, at most
\* one register waits for a result per frame, and an error ends the cycle.
MachineTypeOK ==
    /\ status \in {"boot", "idle", "run", "DivisionByZero", "ExecutionLimit", "StackOverflow"}
    /\ status \in {"boot", "idle"} => stack = <<>>
    /\ count \in 0..(MaxInstructions + 1) /\ cycles \in 0..MaxCycles
    /\ Len(stack) <= MaxCallDepth
    /\ \A d \in 1..Len(stack) :
         LET fr == stack[d] IN
           /\ fr.f \in 1..Len(Functions)
           /\ fr.pc \in 0..(Len(Functions[fr.f].code) - IF status = "run" THEN 1 ELSE 0)
           /\ fr.ret \in -1..(Len(fr.regs) - 1)
           /\ Len(fr.loc) >= Len(Functions[fr.f].slots)

Same(v, w) == IF "str" \in {v[1], w[1]} THEN AsStr(v) = AsStr(w)
              ELSE IF "real" \in {v[1], w[1]} THEN AsReal(v) = AsReal(w)
              ELSE AsInt(v) = AsInt(w)

\* The values of the globals and of Main's variables and array elements are the
\* ones the source means after that many cycles.
Matches ==
    LET want == meant[cycles]
        main == FindFunc(Functions, "Main")
        vars == Unit(Source, "Main").vars
        array(i) == <<<<main, -1>>, i - 1>>
        same(i) ==
            CASE vars[i].ty.b \in {"FB", "CLASS", "REF"} \/ HoldsInstances(vars[i].ty) -> TRUE
              [] vars[i].ty.b = "ARRAY" ->
                   LET w == want.m[<<"Main", vars[i].n>>][2]
                   IN  \A k \in 1..Len(w) :
                         Same(IF array(i) \in DOMAIN inst THEN inst[array(i)][k] ELSE IntV(0), w[k])
              [] OTHER -> Same(retained[i], want.m[<<"Main", vars[i].n>>])
    IN  /\ want.g \in {"ok", "ret"}
        /\ \A i \in 1..Len(Source.globals) : Same(globals[i], want.m[<<Source.globals[i].n>>])
        /\ \A i \in 1..Len(vars) : same(i)

\* Registers, slots and instance keys implement the documented meaning of every
\* accepted source that has met no construct of the list above: after each cycle the
\* memory is the one of the reference semantics, and an error is the error it
\* predicts.  The list is exact: a source that has met one has gone wrong by the last
\* cycle.
CompiledMatchesSource ==
    /\ status = "idle" /\ cycles > 0 /\ ~Deviates(cycles) => Matches
    /\ status \in {"DivisionByZero", "ExecutionLimit", "StackOverflow"} /\ ~Deviates(cycles + 1)
         => meant[cycles + 1].g = status
    /\ status = "idle" /\ cycles = MaxCycles /\ Deviates(cycles) => ~Matches

\* What the analyser accepts and the compiler still cannot resolve: a member of a
\* block that is compiled later, and an array or instance declared VAR_GLOBAL.
Position(src, n) == CHOOSE i \in 1..Len(src.units) : src.units[i].name = n
Unresolvable(src) ==
    \/ \E i \in 1..Len(src.globals) : src.globals[i].ty.b \in {"ARRAY", "FB", "CLASS"}
    \/ \E i \in 1..Len(src.units) :
          /\ src.units[i].kind # "program"
          /\ \E k \in InstanceVars(src.units[i]) :
                Position(src, src.units[i].vars[k].ty.n) >= i

\* What the analyser accepts and the compiler leaves out: both stores of a FOR over a
\* global, and whatever follows a.b or arr[i] in an access.
LeftOut(src) ==
    \E i \in 1..Len(src.units) : \E c \in Codes(src, src.units[i]) :
        GlobalLoop(c) \/ \E e \in Exprs(c.body) : e.t = "deep"

\* A source the analyser accepts leaves the compiler nothing to guess, but for the
\* constructs above: no variable reads as 0, no assignment or EXIT is dropped, no
\* field falls back to field 0, no call to function 0.  What is LeftOut is lost
\* without a word: the source is accepted and some of it is not compiled.
AcceptedResolves ==
    LET resolved == \A f \in 1..Len(Functions) : Functions[f].holes = 0
    IN  /\ resolved \/ Unresolvable(Source) \/ LeftOut(Source)
        /\ LeftOut(Source) => ~resolved

Fits(v, ty) ==
    CASE ty.b \in Signed \cup Unsigned ->
           v[1] \in {"int", "uint"} => v[2] \in IntegerRange(ty)[1]..IntegerRange(ty)[2]
      [] ty.b = "STRING" -> v[1] \in {"str", "int"}
      [] ty.b \in TimeTypes -> v[1] \in {"time", "int"}
      [] OTHER -> TRUE

\* The slots some instruction fills without narrowing: with an argument, as a field
\* from outside, or through a reference (which names a slot of whatever frame is at
\* its depth).
Code == UNION {{Functions[f].code[i] : i \in 1..Len(Functions[f].code)} : f \in 1..Len(Functions)}
Unnarrowed(f, slot) ==
    LET passes(args, off) == \E a \in 1..Len(args) : args[a][1] + off = slot
    IN  \E ins \in Code :
          CASE ins[1] = "Call" -> ins[2] = f /\ passes(ins[4], 0)
            [] ins[1] = "CallFb" -> ins[3] = f /\ passes(ins[4], 0)
            [] ins[1] = "CallMethod" -> ins[4] = f /\ passes(ins[6], ClassVarCount(f))
            [] ins[1] = "StoreField" -> ins[3] = slot /\ Functions[f].kind \in {"fb", "class", "method"}
            [] ins[1] = "MakeRefLocal" -> ins[3] = slot
            [] OTHER -> FALSE

\* The values of an array or instance fit the types of its elements or variables.
TypeAt(k) == Functions[k[1][1]].slots[k[2] + 1].ty
StoredFits(k, exempt(_, _)) ==
    CASE TypeAt(k).b = "ARRAY" -> exempt(0, 0) \/ \A i \in 1..Len(inst[k]) : Fits(inst[k][i], TypeAt(k).e)
      [] TypeAt(k).b \in {"FB", "CLASS"} ->
           LET f == FindFunc(Functions, TypeAt(k).n)
           IN  \A i \in 1..Len(inst[k]) :
                 i <= Len(Functions[f].slots) =>
                   Fits(inst[k][i], Functions[f].slots[i].ty) \/ exempt(f, i - 1)
      [] OTHER -> TRUE

\* Everything that is kept between two cycles fits its type.
AllKeptFits ==
    LET none(f, i) == FALSE
        main == FindFunc(Functions, "Main")
    IN  /\ \A i \in 1..Len(globals) : Fits(globals[i], Source.globals[i].ty)
        /\ \A i \in 1..Len(retained) : Fits(retained[i], Functions[main].slots[i].ty)
        /\ \A k \in DOMAIN inst : StoredFits(k, none)

\* A variable of an accepted source never holds an integer outside the range of its
\* declared type, in any frame or instance, at any instruction: arithmetic is done in
\* 64 bits and only the stores to a variable by its name narrow.  The exceptions are
\* the array elements and the slots that are filled in another way, and those do hold
\* such values: one is left after a cycle that put a value beyond its type into a
\* field, an element or a referenced variable.  The frames themselves stay well formed.
ValuesFitTypes ==
  LET element(f, i) == f = 0 \/ Unnarrowed(f, i)
      referred(i) == \E ins \in Code : ins[1] = "MakeRefGlobal" /\ ins[3] = i
  IN  /\ MachineTypeOK
      /\ \A i \in 1..Len(globals) : Fits(globals[i], Source.globals[i].ty) \/ referred(i - 1)
      /\ \A d \in 1..Len(stack) :
           LET slots == Functions[stack[d].f].slots
           IN  \A i \in 1..Len(slots) :
                 Fits(stack[d].loc[i], slots[i].ty) \/ Unnarrowed(stack[d].f, i - 1)
      /\ \A k \in DOMAIN inst : StoredFits(k, element)
      /\ status = "idle" /\ meant[cycles].odd \cap {"field", "element", "reference"} # {}
           => ~AllKeptFits
=============================================================================
