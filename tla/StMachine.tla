----------------------------- MODULE StMachine -----------------------------
(***************************************************************************)
(* The virtual machine of st-engine (vm.rs): a stack of frames that runs   *)
(* the compiled program one instruction at a time.  Function block and     *)
(* class instances and arrays live in inst, keyed by the identity of the   *)
(* calling frame and the slot; the locals of the program live in retained  *)
(* between two cycles.  The program Main runs once per scan cycle, after   *)
(* __global_init when the module has one.  Forced variables are the        *)
(* subject of ScanEngine; here none is forced.                             *)
(***************************************************************************)
EXTENDS StCompiler, TLC

CONSTANTS Programs,         \* the compiled programs that may be loaded: [src, mod, ...]
          MaxCallDepth,     \* VmConfig.max_call_depth
          MaxInstructions,  \* VmConfig.max_instructions
          MaxCycles         \* bound on the scan cycles explored

ASSUME MachineAssumption ==
    MaxCallDepth \in Nat \ {0} /\ MaxInstructions \in Nat \ {0} /\ MaxCycles \in Nat

VARIABLES prog,      \* the loaded program: its source and the compiled module
          stack,     \* call_stack, the current frame last
          globals,   \* the values of the global slots
          inst,      \* fb_instances
          retained,  \* retained_locals of Main, <<>> before the first cycle
          count,     \* instruction_count
          status,    \* "boot", "idle", "run" or the error that ended the cycle
          cycles     \* completed scan cycles

mvars == <<prog, stack, globals, inst, retained, count, status, cycles>>

Functions == prog.mod

Put(m, k, v) == (k :> v) @@ m

Top == stack[Len(stack)]
Func == Functions[Top.f]
Ins == Func.code[Top.pc + 1]
Op == Ins[1]

Defaults(slots) == [i \in 1..Len(slots) |-> DefaultFor(slots[i].ty)]

NewFrame(f, loc, pc, slot) ==
    [f |-> f, regs |-> [i \in 1..Greatest(Functions[f].regs, 1) |-> IntV(0)],
     loc |-> loc, pc |-> pc, ret |-> -1, inst |-> slot]

\* mutant of CallerIdentityAt: it forgets which instance the caller is
CallerFunctionOnly(depth) == <<stack[depth].f, -1>>

\* caller_identity_at: the frame's function and the slot it was itself called through.
CallerIdentityAt(depth) == <<stack[depth].f, stack[depth].inst>>
Key(slot) == <<CallerIdentityAt(Len(stack)), slot>>

Reg(r) == Top.regs[r + 1]

-----------------------------------------------------------------------------
\* A new machine with a compiled module.
Init ==
    /\ prog \in Programs
    /\ stack = <<>>
    /\ globals = Defaults(prog.src.globals)
    /\ inst = [k \in {} |-> <<>>]
    /\ retained = <<>>
    /\ count = 0
    /\ status = "boot"
    /\ cycles = 0

\* Vm::run: a program whose locals are retained starts behind its initialisers.
Run(name) ==
    LET f == FindFunc(Functions, name)
        kept == Functions[f].kind = "program" /\ retained # <<>>
    IN  /\ stack' = <<NewFrame(f, IF kept THEN retained ELSE Defaults(Functions[f].slots),
                               IF kept THEN Functions[f].start ELSE 0, -1)>>
        /\ status' = "run"

\* run_global_init, a no-op in a module without initialised globals.
RunGlobalInit ==
    /\ status = "boot"
    /\ IF FindFunc(Functions, "__global_init") = 0
       THEN status' = "idle" /\ UNCHANGED stack
       ELSE Run("__global_init")
    /\ UNCHANGED <<prog, globals, inst, retained, count, cycles>>

ScanCycle ==
    /\ status = "idle" /\ cycles < MaxCycles
    /\ Run("Main")
    /\ count' = 0
    /\ UNCHANGED <<prog, globals, inst, retained, cycles>>

-----------------------------------------------------------------------------
(* One instruction.  The program counter advances and the instruction is   *)
(* counted before it executes.                                             *)

Executing == status = "run" /\ count < MaxInstructions

\* Replaces the current frame by fr, with the program counter advanced.
Continue(fr) ==
    /\ stack' = [stack EXCEPT ![Len(stack)] = [fr EXCEPT !.pc = @ + 1]]
    /\ count' = count + 1
    /\ UNCHANGED <<prog, retained, status, cycles>>

SetReg(r, v) == Continue([Top EXCEPT !.regs[r + 1] = v])

Fail(error) ==
    /\ status' = error
    /\ count' = count + 1
    /\ stack' = [stack EXCEPT ![Len(stack)].pc = @ + 1]
    /\ UNCHANGED <<prog, globals, retained, cycles>>

ExecutionLimit ==
    /\ status = "run" /\ count >= MaxInstructions
    /\ Fail("ExecutionLimit")
    /\ UNCHANGED inst

\* The engine sets the elapsed time between two cycles: a cycle is one tick.
Load ==
    /\ Executing /\ Op \in {"LoadConst", "LoadLocal", "LoadGlobal", "SystemTime"}
    /\ SetReg(Ins[2], CASE Op = "LoadConst" -> Ins[3]
                        [] Op = "LoadLocal" -> Top.loc[Ins[3] + 1]
                        [] Op = "LoadGlobal" -> globals[Ins[3] + 1]
                        [] Op = "SystemTime" -> TimeV(cycles))
    /\ UNCHANGED <<globals, inst>>

\* Stores narrow the value to the width of the slot.
StoreLocal ==
    /\ Executing /\ Op = "StoreLocal"
    /\ Continue([Top EXCEPT !.loc[Ins[2] + 1] =
                    NarrowValue(Reg(Ins[3]), Func.slots[Ins[2] + 1].ty)])
    /\ UNCHANGED <<globals, inst>>

StoreGlobal ==
    /\ Executing /\ Op = "StoreGlobal"
    /\ globals' = [globals EXCEPT ![Ins[2] + 1] =
                      NarrowValue(Reg(Ins[3]), prog.src.globals[Ins[2] + 1].ty)]
    /\ Continue(Top)
    /\ UNCHANGED inst

ArithOps == {"Add", "Sub", "Mul", "Div", "Mod"}

Arith ==
    /\ Executing /\ Op \in ArithOps
    /\ ~DividesByZero(Op, Reg(Ins[4]))
    /\ SetReg(Ins[2], IF Op = "Mod" THEN IntV(TRem(AsInt(Reg(Ins[3])), AsInt(Reg(Ins[4]))))
                      ELSE ArithOp(Op, Reg(Ins[3]), Reg(Ins[4])))
    /\ UNCHANGED <<globals, inst>>

DivisionByZero ==
    /\ Executing /\ Op \in ArithOps
    /\ DividesByZero(Op, Reg(Ins[4]))
    /\ Fail("DivisionByZero")
    /\ UNCHANGED inst

Logic ==
    /\ Executing
    /\ \/ /\ Op \in {"CmpEq", "CmpNe", "CmpLt", "CmpGt", "CmpLe", "CmpGe"}
          /\ SetReg(Ins[2], BoolV(CmpOp(Op, Reg(Ins[3]), Reg(Ins[4]))))
       \/ /\ Op \in {"And", "Or", "Xor"}
          /\ SetReg(Ins[2], LogicOp(Op, Reg(Ins[3]), Reg(Ins[4])))
       \/ /\ Op = "Not"
          /\ SetReg(Ins[2], BoolV(~AsBool(Reg(Ins[3]))))
       \/ /\ Op = "Neg"
          /\ SetReg(Ins[2], NegOf(Reg(Ins[3])))
    /\ UNCHANGED <<globals, inst>>

ConvertOps == {Intrinsic1[n] : n \in DOMAIN Intrinsic1}
StringOps == {StringIntrinsic[n][1] : n \in DOMAIN StringIntrinsic}

Convert ==
    /\ Executing
    /\ \/ Op \in ConvertOps /\ SetReg(Ins[2], ConvertOp(Op, Reg(Ins[3])))
       \/ /\ Op \in StringOps
          /\ SetReg(Ins[2], StringOp(Op, [i \in 1..(Len(Ins) - 2) |-> Reg(Ins[i + 2])]))
    /\ UNCHANGED <<globals, inst>>

Partial ==
    /\ Executing
    /\ \/ Op = "ExtractBit" /\ SetReg(Ins[2], ExtractBit(Reg(Ins[3]), Ins[4]))
       \/ Op = "ExtractPartial" /\ SetReg(Ins[2], ExtractPartial(Reg(Ins[3]), Ins[4], Ins[5]))
       \/ Op = "InsertBit" /\ SetReg(Ins[2], InsertBit(Reg(Ins[3]), Ins[4], Reg(Ins[5])))
       \/ /\ Op = "InsertPartial"
          /\ SetReg(Ins[2], InsertPartial(Reg(Ins[3]), Ins[4], Ins[5], Reg(Ins[6])))
    /\ UNCHANGED <<globals, inst>>

JumpTo(l) == Continue([Top EXCEPT !.pc = Func.lab[l] - 1])

Jump ==
    /\ Executing
    /\ \/ Op = "Jump" /\ JumpTo(Ins[2])
       \/ Op = "JumpIf" /\ IF AsBool(Reg(Ins[2])) THEN JumpTo(Ins[3]) ELSE Continue(Top)
       \/ Op = "JumpIfNot" /\ IF AsBool(Reg(Ins[2])) THEN Continue(Top) ELSE JumpTo(Ins[3])
    /\ UNCHANGED <<globals, inst>>

-----------------------------------------------------------------------------
(* Arrays, fields and references *)

Stored(slot) == IF Key(slot) \in DOMAIN inst THEN inst[Key(slot)] ELSE <<>>
At(s, i) == IF i \in 1..Len(s) THEN s[i] ELSE IntV(0)

\* The element of an index outside the array reads as 0.
LoadArray ==
    /\ Executing /\ Op = "LoadArray"
    /\ SetReg(Ins[2], At(Stored(Ins[3]), AsInt(Reg(Ins[4])) - Func.slots[Ins[3] + 1].ty.lo + 1))
    /\ UNCHANGED <<globals, inst>>

\* A store to an index outside the array is dropped.
StoreArray ==
    /\ Executing /\ Op = "StoreArray"
    /\ LET ty == Func.slots[Ins[2] + 1].ty
           arr == IF Key(Ins[2]) \in DOMAIN inst THEN inst[Key(Ins[2])]
                  ELSE [i \in 1..(ty.hi - ty.lo + 1) |-> IntV(0)]
           i == AsInt(Reg(Ins[3])) - ty.lo + 1
       IN  inst' = Put(inst, Key(Ins[2]),
                       IF i \in DOMAIN arr THEN [arr EXCEPT ![i] = Reg(Ins[4])] ELSE arr)
    /\ Continue(Top)
    /\ UNCHANGED globals

LoadField ==
    /\ Executing /\ Op = "LoadField"
    /\ SetReg(Ins[2], At(Stored(Ins[3]), Ins[4] + 1))
    /\ UNCHANGED <<globals, inst>>

StoreField ==
    /\ Executing /\ Op = "StoreField"
    /\ LET old == Stored(Ins[2])
           len == Greatest(Len(old), Ins[3] + 1)
       IN  inst' = Put(inst, Key(Ins[2]),
                       [i \in 1..len |-> IF i = Ins[3] + 1 THEN Reg(Ins[4]) ELSE At(old, i)])
    /\ Continue(Top)
    /\ UNCHANGED globals

\* A reference to a local names the frame by its position on the stack.
MakeRef ==
    /\ Executing
    /\ \/ Op = "MakeRefLocal" /\ SetReg(Ins[2], <<"ref", Len(stack), Ins[3]>>)
       \/ Op = "MakeRefGlobal" /\ SetReg(Ins[2], <<"ref", 0, Ins[3]>>)
       \/ Op = "LoadNull" /\ SetReg(Ins[2], NullV)
    /\ UNCHANGED <<globals, inst>>

Deref ==
    /\ Executing /\ Op = "Deref"
    /\ LET p == Reg(Ins[3])
       IN  SetReg(Ins[2], CASE p[1] = "ref" /\ p[2] = 0 -> globals[p[3] + 1]
                            [] p[1] = "ref" /\ p[2] \in 1..Len(stack) -> At(stack[p[2]].loc, p[3] + 1)
                            [] OTHER -> IntV(0))
    /\ UNCHANGED <<globals, inst>>

\* Unlike the other stores it does not narrow; a store through NULL is dropped.
DerefStore ==
    /\ Executing /\ Op = "DerefStore"
    /\ LET p == Reg(Ins[2])
           v == Reg(Ins[3])
           moved == [stack EXCEPT ![Len(stack)].pc = @ + 1]
           frame == p[1] = "ref" /\ p[2] \in 1..Len(stack)
       IN  /\ globals' = IF p[1] = "ref" /\ p[2] = 0 THEN [globals EXCEPT ![p[3] + 1] = v]
                         ELSE globals
           /\ stack' = IF frame /\ p[3] + 1 <= Len(stack[p[2]].loc)
                       THEN [moved EXCEPT ![p[2]].loc[p[3] + 1] = v] ELSE moved
    /\ count' = count + 1
    /\ UNCHANGED <<prog, inst, retained, status, cycles>>

-----------------------------------------------------------------------------
(* Calls and returns *)

\* Arguments overwrite the slots from the offset on; they are not narrowed.
WithArgs(loc, args, off) ==
    [i \in 1..Len(loc) |->
        LET given == {a \in 1..Len(args) : args[a][1] + off + 1 = i}
        IN  IF given = {} THEN loc[i] ELSE Reg(args[CHOOSE a \in given : TRUE][2])]

Push(frame, ret) ==
    /\ stack' = Append([stack EXCEPT ![Len(stack)].pc = @ + 1,
                                     ![Len(stack)].ret = IF ret >= 0 THEN ret ELSE @], frame)
    /\ count' = count + 1
    /\ UNCHANGED <<prog, globals, retained, status, cycles>>

CallFunction ==
    /\ Executing /\ Op = "Call" /\ Len(stack) < MaxCallDepth
    /\ Push(NewFrame(Ins[2], WithArgs(Defaults(Functions[Ins[2]].slots), Ins[4], 0), 0, -1), Ins[3])
    /\ UNCHANGED inst

\* The frame starts behind the initialisers, which run for no instance.
CallFb ==
    /\ Executing /\ Op = "CallFb" /\ Len(stack) < MaxCallDepth
    /\ LET fb == Functions[Ins[3]]
           kept == Stored(Ins[2])
           loc == IF kept = <<>> THEN Defaults(fb.slots)
                  ELSE [i \in 1..Greatest(Len(kept), Len(fb.slots)) |-> At(kept, i)]
       IN  Push(NewFrame(Ins[3], WithArgs(loc, Ins[4], 0), fb.start, Ins[2]), -1)
    /\ UNCHANGED inst

\* The number of class variables the method's layout starts with.
ClassVarCount(f) == Len(Functions[FindFunc(Functions, Functions[f].name)].slots)

\* init_class_instance: only constants stored to a slot are understood.
InitClassInstance(f) ==
    LET code == Functions[f].code
        consts == [i \in 1..Len(code) |->
                     CASE code[i][1] = "StoreLocal" ->
                            LET ld == {j \in 1..i : /\ code[j][1] = "LoadConst"
                                                    /\ code[j][2] = code[i][3]}
                            IN  <<code[i][2], IF ld = {} THEN IntV(0) ELSE
                                                code[CHOOSE j \in ld : \A k \in ld : j >= k][3]>>
                       [] OTHER -> <<-1, IntV(0)>>]
    IN  [s \in 1..Len(Functions[f].slots) |->
            LET st == {i \in 1..Len(code) : consts[i][1] = s - 1}
            IN  IF st = {} THEN IntV(0) ELSE consts[CHOOSE i \in st : \A k \in st : i >= k][2]]

CallMethod ==
    /\ Executing /\ Op = "CallMethod" /\ Len(stack) < MaxCallDepth
    /\ LET k == Key(Ins[2])
           f == Ins[4]
           own == ClassVarCount(f)
           state == IF k \in DOMAIN inst THEN inst[k] ELSE InitClassInstance(Ins[3])
           fresh == Defaults(Functions[f].slots)
           loc == [i \in 1..Len(fresh) |->
                      IF i <= own /\ i <= Len(state) THEN state[i] ELSE fresh[i]]
       IN  /\ inst' = Put(inst, k, state)
           /\ Push(NewFrame(f, WithArgs(loc, Ins[6], own), 0, Ins[2]), Ins[5])

\* CallMethod creates the instance before it looks at the depth.
StackOverflow ==
    /\ Executing /\ Op \in {"Call", "CallFb", "CallMethod"}
    /\ Len(stack) >= MaxCallDepth
    /\ Fail("StackOverflow")
    /\ inst' = IF Op = "CallMethod" /\ Key(Ins[2]) \notin DOMAIN inst
               THEN Put(inst, Key(Ins[2]), InitClassInstance(Ins[3])) ELSE inst

\* save_retained_locals: where the state of the returning frame goes.
SaveRetainedLocals ==
    LET depth == Len(stack) - 1
        k == <<CallerIdentityAt(depth), Top.inst>>
        own == ClassVarCount(Top.f)
    IN  CASE Func.kind = "program" -> retained' = Top.loc /\ UNCHANGED inst
          [] Func.kind = "fb" ->
               inst' = Put(inst, k, Top.loc) /\ UNCHANGED retained
          [] Func.kind = "method" ->
               /\ inst' = Put(inst, k, [i \in 1..Len(inst[k]) |->
                                          IF i <= own /\ i <= Len(Top.loc) THEN Top.loc[i]
                                          ELSE inst[k][i]])
               /\ UNCHANGED retained
          [] OTHER -> UNCHANGED <<inst, retained>>

Return ==
    /\ Executing /\ Op \in {"Ret", "RetVoid"}
    /\ SaveRetainedLocals
    /\ LET rest == SubSeq(stack, 1, Len(stack) - 1)
           n == Len(rest)
       IN  IF n = 0
           THEN /\ stack' = <<>>
                /\ status' = "idle"
                /\ cycles' = cycles + IF Func.kind = "program" THEN 1 ELSE 0
           ELSE /\ stack' = IF rest[n].ret < 0 THEN rest
                            ELSE [rest EXCEPT ![n].ret = -1,
                                              ![n].regs[rest[n].ret + 1] =
                                                 IF Op = "Ret" THEN Reg(Ins[2]) ELSE @]
                /\ UNCHANGED <<status, cycles>>
    /\ count' = count + 1
    /\ UNCHANGED <<prog, globals>>

Instruction ==
    \/ Load \/ StoreLocal \/ StoreGlobal \/ Arith \/ Logic \/ Convert \/ Partial \/ Jump
    \/ LoadArray \/ StoreArray \/ LoadField \/ StoreField \/ MakeRef \/ Deref \/ DerefStore
    \/ CallFunction \/ CallFb \/ CallMethod \/ Return
    \/ DivisionByZero \/ ExecutionLimit \/ StackOverflow
=============================================================================
