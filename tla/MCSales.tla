------------------------------- MODULE MCSales --------------------------------
(* Instances of Sales small enough for TLC.                                *)
EXTENDS Sales, TLC

(* The parties of these orders have no address.                            *)
MCAddresses == [o \in OrderIds |-> [customer |-> {NoAddress}, seller |-> {NoAddress}]]

Symmetry == Permutations(SaleIds) \cup Permutations(Keys) \cup Permutations(References)
              \cup Permutations(Variants) \cup Permutations(Branches)
==============================================================================
