------------------------------ MODULE MCCheckout ------------------------------
(* Instances of Checkout small enough for TLC.                             *)
EXTENDS Checkout, TLC

CONSTANTS p1, p2, n1, n2
OnePayment == (n1 :> p1)
TwoPayments == (n1 :> p1) @@ (n2 :> p2)
Symmetry == Permutations(Workers) \cup Permutations(Requests) \cup Permutations(Resolvers)
==============================================================================
