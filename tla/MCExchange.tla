------------------------------ MODULE MCExchange ------------------------------
(* Instances of Exchange small enough for TLC.                             *)
EXTENDS Exchange, TLC

Symmetry == Permutations(Docs) \cup Permutations(Calls) \cup Permutations(Keys)
              \cup Permutations(Envelopes) \cup Permutations(Profiles)
==============================================================================
