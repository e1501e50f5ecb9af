------------------------------- MODULE MCOutbox -------------------------------
(* Instances of Outbox small enough for TLC.                               *)
EXTENDS Outbox, TLC

Symmetry == Permutations(Workers)
==============================================================================
