------------------------------ MODULE MCCatalog ------------------------------
(* Instances of Catalog small enough for TLC.                              *)
EXTENDS Catalog, TLC

CONSTANTS c1, c2, c3, b1, s1, p1, p2, v1, v2, x1, x2, w1, k1, k2

Tables == c1 :> "category" @@ c2 :> "category" @@ c3 :> "category" @@ b1 :> "brand"
          @@ s1 :> "supplier" @@ p1 :> "product" @@ p2 :> "product" @@ v1 :> "variant"
          @@ v2 :> "variant" @@ x1 :> "customer" @@ x2 :> "customer" @@ w1 :> "warehouse"
Kind == [i \in Ids |-> Tables[i]]

(* A category in another, a product with a variant, and a customer.        *)
Stocked ==
  LET rows == c1 :> Row({c2}, NoCode, TRUE) @@ c2 :> Row({}, NoCode, TRUE)
              @@ p1 :> Row({c1}, NoCode, TRUE) @@ v1 :> Row({p1}, k1, TRUE)
              @@ x1 :> Row({}, k1, TRUE)
  IN  [i \in Ids |-> IF i \in DOMAIN rows THEN rows[i] ELSE None]

Symmetry == Permutations(Calls) \cup Permutations(Challenges)
==============================================================================
