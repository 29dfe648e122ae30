-------------------------- MODULE MCRuntimeManager --------------------------
(* A small instance of RuntimeManager for TLC: one program, which is started *)
(* and changed again and again, and two debuggers.                           *)
EXTENDS RuntimeManager

CONSTANT m1

MCCompatible == {<<m1, m1>>}

=============================================================================
