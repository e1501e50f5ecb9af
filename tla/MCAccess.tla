------------------------------- MODULE MCAccess ------------------------------
(* Instances of Access small enough for TLC.                               *)
EXTENDS Access, TLC

Symmetry == Permutations(Calls)
==============================================================================
