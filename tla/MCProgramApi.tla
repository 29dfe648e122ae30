---------------------------- MODULE MCProgramApi ----------------------------
(* Small instances of ProgramApi for TLC. *)
EXTENDS ProgramApi

CONSTANTS m1, m2

\* m2 replaces m1 online, the way back needs a restart
MCCompatible == {<<m1, m2>>, <<m1, m1>>, <<m2, m2>>}

\* the instances have one deployer, as the theorems suppose
ASSUME SingleDeployer == OneClerk

=============================================================================
