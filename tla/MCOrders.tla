------------------------------- MODULE MCOrders -------------------------------
(* Instances of Orders small enough for TLC.                               *)
EXTENDS Orders, TLC

CONSTANTS o1, m1, m2

(* The customer of one order has an address, the seller's or none; the     *)
(* parties of the other have none.                                         *)
MCAddresses ==
  [o \in OrderIds |->
     IF o = o1 THEN [customer |-> {m1, m2}, seller |-> {m2}]
               ELSE [customer |-> {NoAddress}, seller |-> {NoAddress}]]

Symmetry == Permutations(Warehouses) \cup Permutations(Variants)
==============================================================================
