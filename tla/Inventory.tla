------------------------------ MODULE Inventory ------------------------------
(***************************************************************************)
(* The stock rows of one company (inventory/models.py) and the operations  *)
(* of inventory/services.py on them.                                       *)
(*                                                                         *)
(* Every operation runs in one transaction.atomic block that locks each    *)
(* stock row it touches until it commits, so it is one step here.          *)
(* Quantities are counted in thousandths (DecimalField(14, 3)), hence      *)
(* natural numbers.                                                        *)
(***************************************************************************)
EXTENDS Integers, FiniteSets

CONSTANTS
  Warehouses,   \* warehouses of the company
  Variants,     \* product variants
  Quantities,   \* quantities a request may name
  MaxStock      \* largest quantity the column DecimalField(14, 3) can hold

ASSUME QuantitiesAssumption == Quantities \subseteq Nat \ {0}
ASSUME MaxStockAssumption == MaxStock \in Nat

VARIABLES
  rows,         \* <<warehouse, variant>> pairs that have an InventoryStock row
  stock,        \* stock[w][v]: InventoryStock.quantity, 0 when there is no row
  base          \* history: what stock[w][v] would be had no order touched it

inventoryVars == <<rows, stock, base>>

(***************************************************************************)
(* The items of a request, one quantity per variant, 0 for a variant that  *)
(* is not listed.  Orders refuse a repeated variant; a transfer may repeat *)
(* one, and its effect and its checks are those of the total.              *)
(***************************************************************************)
Baskets == [Variants -> Quantities \cup {0}]
NoItems == [v \in Variants |-> 0]
Listed(b) == {v \in Variants : b[v] # 0}

InventoryTypeOK ==
  /\ rows \subseteq Warehouses \X Variants
  /\ stock \in [Warehouses -> [Variants -> Nat]]
  /\ base \in [Warehouses -> [Variants -> Int]]

InventoryInit ==
  /\ rows = {}
  /\ stock = [w \in Warehouses |-> NoItems]
  /\ base = [w \in Warehouses |-> NoItems]

(***************************************************************************)
(* apply_inventory_movement for every item of a basket.  An exit fails as  *)
(* a whole when one row is missing or short, because the exception rolls   *)
(* the transaction back; an entry creates the rows it does not find.       *)
(***************************************************************************)
CanExit(w, b) == \A v \in Variants : b[v] <= stock[w][v]
CanEnter(w, b) == \A v \in Variants : stock[w][v] + b[v] <= MaxStock

AfterExit(w, b) == [v \in Variants |-> stock[w][v] - b[v]]
AfterEntry(w, b) == [v \in Variants |-> stock[w][v] + b[v]]
RowsAfterEntry(w, b) == rows \cup ({w} \X Listed(b))

(* InventoryMovement.clean: a movement's type and the sign of its delta.   *)
MovementTypes == {"ENTRY", "EXIT", "ADJUSTMENT"}
ValidMovement(type, delta) ==
  /\ delta # 0
  /\ type = "ENTRY" => delta > 0
  /\ type = "EXIT" => delta < 0

(* POST inventory/stocks: the first quantity of a row; it needs no movement. *)
CreateStock(w, v, q) ==
  /\ <<w, v>> \notin rows
  /\ q <= MaxStock
  /\ rows' = rows \cup {<<w, v>>}
  /\ stock' = [stock EXCEPT ![w][v] = q]
  /\ base' = [base EXCEPT ![w][v] = @ + q]

(* Mutant of RegisterMovement: the row may go below zero.                  *)
RegisterMovementUnchecked(w, v, type, delta) ==
  /\ ValidMovement(type, delta)
  /\ stock[w][v] + delta <= MaxStock
  /\ rows' = rows \cup {<<w, v>>}
  /\ stock' = [stock EXCEPT ![w][v] = @ + delta]
  /\ base' = [base EXCEPT ![w][v] = @ + delta]

(* POST inventory/movements: one manual movement.                          *)
RegisterMovement(w, v, type, delta) ==
  /\ ValidMovement(type, delta)
  /\ stock[w][v] + delta \in 0..MaxStock
  /\ rows' = rows \cup {<<w, v>>}
  /\ stock' = [stock EXCEPT ![w][v] = @ + delta]
  /\ base' = [base EXCEPT ![w][v] = @ + delta]

(* create_inventory_transfer: every item leaves src and enters dst.        *)
TransferStock(src, dst, b) ==
  /\ src # dst
  /\ CanExit(src, b)
  /\ CanEnter(dst, b)
  /\ rows' = RowsAfterEntry(dst, b)
  /\ stock' = [stock EXCEPT ![src] = AfterExit(src, b), ![dst] = AfterEntry(dst, b)]
  /\ base' = [base EXCEPT ![src] = [v \in Variants |-> @[v] - b[v]],
                          ![dst] = [v \in Variants |-> @[v] + b[v]]]

InventoryNext ==
  \/ \E w \in Warehouses, v \in Variants, q \in Quantities \cup {0} : CreateStock(w, v, q)
  \/ \E w \in Warehouses, v \in Variants, type \in MovementTypes, q \in Quantities :
       RegisterMovement(w, v, type, q) \/ RegisterMovement(w, v, type, -q)
  \/ \E src, dst \in Warehouses, b \in Baskets : TransferStock(src, dst, b)
==============================================================================
