---------------------------- MODULE MCLocalDebug ----------------------------
(* Two project files.  The first holds a function, a function block and a    *)
(* block nested in it; the second a program that is one IF around a loop of  *)
(* one statement, a call and an instance call.                               *)
EXTENDS LocalDebug

Ins0(op) == [op |-> op, src |-> 0]
At(op, src) == [op |-> op, src |-> src]
To(op, src, to) == [op |-> op, src |-> src, to |-> to]
Fb(src, slot) == [op |-> "callfb", src |-> src, slot |-> slot]

\* lib: function at offset 3, block at 5; main: statements at 7, 9, 11 and 12.
MCFunctions == <<
    [kind |-> "function", file |-> 1, fbs |-> <<>>, code |-> <<At("op", 3), Ins0("ret")>>],
    [kind |-> "fb", file |-> 1, fbs |-> <<>>, code |-> <<Ins0("ret")>>],
    [kind |-> "fb", file |-> 1, fbs |-> <<2>>, code |-> <<Fb(5, 1), Ins0("ret")>>],
    [kind |-> "program", file |-> 2, fbs |-> <<3>>,
     code |-> <<To("jump", 7, 7), At("op", 9), To("jump", 0, 2), To("call", 11, 1), At("op", 11), Fb(12, 1),
                Ins0("ret")>>]>>

MCFiles == <<<<2, 2, 2>>, <<2, 2, 3>>>>
MCBreakLines == {{}, {1}, {2, 3}}
=============================================================================
