------------------------------- MODULE MCPortal -------------------------------
(* Instances of Portal small enough for TLC.                               *)
EXTENDS Portal, TLC

(* The parties of these orders have no address.                            *)
MCAddresses == [o \in OrderIds |-> [customer |-> {NoAddress}, seller |-> {NoAddress}]]

Symmetry == Permutations(OrderIds) \cup Permutations(Warehouses) \cup Permutations(Users)
              \cup Permutations(Customers) \cup Permutations(Calls) \cup Permutations(RequestKeys)
==============================================================================
