---------------------------- MODULE MCBootstrap ----------------------------
(***************************************************************************)
(* Two revisions; the second drops a package and uses a newer uv, and one  *)
(* distribution is in no lock.                                             *)
(***************************************************************************)
EXTENDS Bootstrap, TLC

CONSTANTS R1, R2, A, B, C, U1, U2

Selections == [l \in Revision |-> IF l = R1 THEN {A, B} ELSE {A}]
ToolPins == [m \in Revision |-> IF m = R1 THEN U1 ELSE U2]
Runs == Permutations(Proc)
=============================================================================
