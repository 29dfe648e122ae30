--------------------------- MODULE MCRemoteDebug ---------------------------
(* Small instances of RemoteDebug for TLC. *)
EXTENDS RemoteDebug, TLC

CONSTANTS m1

MCCompatible == {<<m1, m1>>}
Symm == Permutations(Sessions)

=============================================================================
