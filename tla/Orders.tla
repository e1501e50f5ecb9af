-------------------------------- MODULE Orders --------------------------------
(***************************************************************************)
(* The order lifecycle of orders/services.py on top of the stock rows of   *)
(* module Inventory.  Each service locks its Order row and runs in one     *)
(* transaction, so each is one action; when any part of it raises, the     *)
(* whole step does not happen.                                             *)
(*                                                                         *)
(* The Mercado Pago checkout of an order is read by two services and       *)
(* written by external_payments: its status is a variable that changes on  *)
(* its own here, and module Checkout models what changes it (and the sale  *)
(* that delivering a paid order creates).                                  *)
(***************************************************************************)
EXTENDS Inventory

CONSTANTS
  OrderIds,     \* orders that may be created
  Addresses,    \* Addresses[o][role]: the e-mail addresses its party may have
  NoAddress,    \*   and that of a party who has none
  NoWarehouse   \* the warehouse of an order that does not exist yet

ASSUME NoWarehouseAssumption == NoWarehouse \notin Warehouses

VARIABLES
  status,       \* status[o]: Order.Status, or "NONE"
  warehouse,    \* warehouse[o]: Order.warehouse
  items,        \* items[o]: the basket of its OrderItem rows
  links,        \* links[o][kind][v]: delta of the linked movement, 0 if no link
  number,       \* number[o]: Order.number, 0 before the order exists
  nextNumber,   \* OrderNumberSequence.next_number of the company
  checkout,     \* checkout[o]: what MercadoPagoCheckout.status says, or "NONE"
  outbox        \* the notices of order statuses, by their idempotency keys

orderVars == <<status, warehouse, items, links, number, nextNumber, checkout, outbox>>
vars == <<inventoryVars, orderVars>>

Statuses == {"DRAFT", "CONFIRMED", "PREPARED", "DELIVERED", "CANCELLED"}
Kinds == {"CONFIRMATION", "CANCELLATION"}
Roles == {"customer", "seller"}
Notices == [order : OrderIds, status : Statuses, role : Roles,
            address : UNION {Addresses[o][r] : o \in OrderIds, r \in Roles}]

(* The services tell an approved checkout from the others: OPEN stands for *)
(* each of its other seven statuses.                                       *)
CheckoutStatuses == {"OPEN", "APPROVED"}

TypeOK ==
  /\ InventoryTypeOK
  /\ status \in [OrderIds -> Statuses \cup {"NONE"}]
  /\ warehouse \in [OrderIds -> Warehouses \cup {NoWarehouse}]
  /\ items \in [OrderIds -> Baskets]
  /\ links \in [OrderIds -> [Kinds -> [Variants -> Int]]]
  /\ number \in [OrderIds -> Nat]
  /\ nextNumber \in Nat \ {0}
  /\ checkout \in [OrderIds -> CheckoutStatuses \cup {"NONE"}]
  /\ outbox \subseteq Notices

Init ==
  /\ InventoryInit
  /\ status = [o \in OrderIds |-> "NONE"]
  /\ warehouse = [o \in OrderIds |-> NoWarehouse]
  /\ items = [o \in OrderIds |-> NoItems]
  /\ links = [o \in OrderIds |-> [k \in Kinds |-> NoItems]]
  /\ number = [o \in OrderIds |-> 0]
  /\ nextNumber = 1
  /\ checkout = [o \in OrderIds |-> "NONE"]
  /\ outbox = {}

------------------------------------------------------------------------------
(* enqueue_order_status_notification: one notice for the customer and one  *)
(* for the seller, none for a party without an address and one for both at *)
(* the same address.  Customers and users are edited, so the parties may   *)
(* have other addresses at each status.                                    *)
(* Mutant of Recipients: the customer's address is not remembered.         *)
RecipientsTwice(customer, seller) ==
  {r \in {<<"customer", customer>>, <<"seller", seller>>} : r[2] # NoAddress}
Recipients(customer, seller) ==
  {r \in {<<"customer", customer>>, <<"seller", seller>>} :
     r[2] # NoAddress /\ (r[1] = "seller" => seller # customer)}

NoticesTo(o, new, recipients) ==
  {[order |-> o, status |-> new, role |-> r[1], address |-> r[2]] : r \in recipients}

(* _set_order_status: the new status and its notices, in one transaction.  *)
SetOrderStatus(o, new) ==
  /\ status' = [status EXCEPT ![o] = new]
  /\ \E customer \in Addresses[o]["customer"], seller \in Addresses[o]["seller"] :
       outbox' = outbox \cup NoticesTo(o, new, Recipients(customer, seller))

(* The movements linked to the items of o, by kind.                        *)
Linked(o, kind) == {v \in Variants : links[o][kind][v] # 0}
LinkedExit(b) == [v \in Variants |-> -b[v]]

(* create_draft_order: under the company's lock, so numbers do not race.   *)
CreateDraftOrder(o, w, b) ==
  /\ status[o] = "NONE"
  /\ status' = [status EXCEPT ![o] = "DRAFT"]
  /\ warehouse' = [warehouse EXCEPT ![o] = w]
  /\ items' = [items EXCEPT ![o] = b]
  /\ number' = [number EXCEPT ![o] = nextNumber]
  /\ nextNumber' = nextNumber + 1
  /\ UNCHANGED <<inventoryVars, links, checkout, outbox>>

(* Mutant of UpdateDraftOrder: a confirmed order may still be edited.      *)
UpdateConfirmedOrder(o, w, b) ==
  /\ status[o] \in {"DRAFT", "CONFIRMED"}
  /\ warehouse' = [warehouse EXCEPT ![o] = w]
  /\ items' = [items EXCEPT ![o] = b]
  /\ UNCHANGED <<inventoryVars, status, links, number, nextNumber, checkout, outbox>>

(* update_draft_order: a draft may change its warehouse, its items or both. *)
UpdateDraftOrder(o, w, b) ==
  /\ status[o] = "DRAFT"
  /\ warehouse' = [warehouse EXCEPT ![o] = w]
  /\ items' = [items EXCEPT ![o] = b]
  /\ UNCHANGED <<inventoryVars, status, links, number, nextNumber, checkout, outbox>>

(* confirm_order: one EXIT movement and one link per item, or nothing.     *)
ConfirmOrder(o) ==
  /\ status[o] = "DRAFT"
  /\ Listed(items[o]) # {}
  /\ CanExit(warehouse[o], items[o])
  /\ stock' = [stock EXCEPT ![warehouse[o]] = AfterExit(warehouse[o], items[o])]
  /\ links' = [links EXCEPT ![o]["CONFIRMATION"] = LinkedExit(items[o])]
  /\ SetOrderStatus(o, "CONFIRMED")
  /\ UNCHANGED <<rows, base, warehouse, items, number, nextNumber, checkout>>

PrepareOrder(o) ==
  /\ status[o] = "CONFIRMED"
  /\ SetOrderStatus(o, "PREPARED")
  /\ UNCHANGED <<inventoryVars, warehouse, items, links, number, nextNumber, checkout>>

(* has_incomplete_external_checkout, has_approved_external_payment.        *)
HasIncompleteCheckout(o) == checkout[o] \notin {"NONE", "APPROVED"}
HasApprovedPayment(o) == checkout[o] = "APPROVED"

DeliverOrder(o) ==
  /\ status[o] = "PREPARED"
  /\ ~HasIncompleteCheckout(o)
  /\ SetOrderStatus(o, "DELIVERED")
  /\ UNCHANGED <<inventoryVars, warehouse, items, links, number, nextNumber, checkout>>

(* cancel_order of a draft: there is nothing to put back.                  *)
CancelDraft(o) ==
  /\ ~HasApprovedPayment(o)
  /\ status[o] = "DRAFT"
  /\ SetOrderStatus(o, "CANCELLED")
  /\ UNCHANGED <<inventoryVars, warehouse, items, links, number, nextNumber, checkout>>

(* cancel_order of a confirmed or prepared order: one ENTRY movement per   *)
(* CONFIRMATION link, for the quantity of the linked movement.             *)
Traceable(o) == Cardinality(Linked(o, "CONFIRMATION")) = Cardinality(Listed(items[o]))
ToReturn(o) == LinkedExit(links[o]["CONFIRMATION"])

(* Mutants of CancelOrder: the entries are not linked; a delivered order   *)
(* may be cancelled.                                                       *)
CancelOrderUnlinked(o) ==
  /\ ~HasApprovedPayment(o)
  /\ status[o] \in {"CONFIRMED", "PREPARED"}
  /\ Traceable(o)
  /\ CanEnter(warehouse[o], ToReturn(o))
  /\ rows' = RowsAfterEntry(warehouse[o], ToReturn(o))
  /\ stock' = [stock EXCEPT ![warehouse[o]] = AfterEntry(warehouse[o], ToReturn(o))]
  /\ SetOrderStatus(o, "CANCELLED")
  /\ UNCHANGED <<base, warehouse, items, links, number, nextNumber, checkout>>

CancelDeliveredOrder(o) ==
  /\ ~HasApprovedPayment(o)
  /\ status[o] \in {"CONFIRMED", "PREPARED", "DELIVERED"}
  /\ Traceable(o)
  /\ CanEnter(warehouse[o], ToReturn(o))
  /\ rows' = RowsAfterEntry(warehouse[o], ToReturn(o))
  /\ stock' = [stock EXCEPT ![warehouse[o]] = AfterEntry(warehouse[o], ToReturn(o))]
  /\ links' = [links EXCEPT ![o]["CANCELLATION"] = ToReturn(o)]
  /\ SetOrderStatus(o, "CANCELLED")
  /\ UNCHANGED <<base, warehouse, items, number, nextNumber, checkout>>

CancelOrder(o) ==
  /\ ~HasApprovedPayment(o)
  /\ status[o] \in {"CONFIRMED", "PREPARED"}
  /\ Traceable(o)
  /\ CanEnter(warehouse[o], ToReturn(o))
  /\ rows' = RowsAfterEntry(warehouse[o], ToReturn(o))
  /\ stock' = [stock EXCEPT ![warehouse[o]] = AfterEntry(warehouse[o], ToReturn(o))]
  /\ links' = [links EXCEPT ![o]["CANCELLATION"] = ToReturn(o)]
  /\ SetOrderStatus(o, "CANCELLED")
  /\ UNCHANGED <<base, warehouse, items, number, nextNumber, checkout>>

(* external_payments: a checkout appears only for an order that was        *)
(* confirmed, and its status then moves as the provider and its answers    *)
(* say, in any order.                                                      *)
CheckoutMoves(o, s) ==
  /\ checkout[o] = "NONE" => status[o] \notin {"NONE", "DRAFT"} /\ s = "OPEN"
  /\ checkout' = [checkout EXCEPT ![o] = s]
  /\ UNCHANGED <<inventoryVars, status, warehouse, items, links, number, nextNumber, outbox>>

OrderNext(o) ==
  \/ \E w \in Warehouses, b \in Baskets : CreateDraftOrder(o, w, b)
  \/ \E w \in Warehouses, b \in Baskets : UpdateDraftOrder(o, w, b)
  \/ ConfirmOrder(o)
  \/ PrepareOrder(o)
  \/ DeliverOrder(o)
  \/ CancelDraft(o)
  \/ CancelOrder(o)
  \/ \E s \in CheckoutStatuses : CheckoutMoves(o, s)

Next ==
  \/ InventoryNext /\ UNCHANGED orderVars
  \/ \E o \in OrderIds : OrderNext(o)

Spec == Init /\ [][Next]_vars

------------------------------------------------------------------------------
(* Orders whose goods are out of the warehouse.                            *)
Live == {"CONFIRMED", "PREPARED", "DELIVERED"}
HeldBy(o, w, v) ==
  IF status[o] \in Live /\ warehouse[o] = w THEN items[o][v] ELSE 0

(* One element per unit of v that live orders took from w.                 *)
UnitsOut(w, v) == UNION {{o} \X (1..HeldBy(o, w, v)) : o \in OrderIds}

(***************************************************************************)
(* Stock is explained by the orders: whatever the order of confirmations,  *)
(* edits, cancellations, transfers and manual movements, the quantity of a *)
(* row is what the inventory operations alone would leave there minus what *)
(* confirmed, prepared and delivered orders hold.  No cancellation loses   *)
(* or doubles goods, none returns them to another warehouse.               *)
(***************************************************************************)
Conservation ==
  \A w \in Warehouses, v \in Variants :
    stock[w][v] + Cardinality(UnitsOut(w, v)) = base[w][v]

(***************************************************************************)
(* The traceability that cancel_order relies on: an order's links say      *)
(* exactly what its status says.  A draft has none, a live order has one   *)
(* EXIT per item for the item's quantity, a cancelled one has either none  *)
(* or both an EXIT and the ENTRY that undoes it.  In particular the        *)
(* "trazabilidad incompleta" error of cancel_order cannot happen.          *)
(***************************************************************************)
TraceOf(o) ==
  LET out == links[o]["CONFIRMATION"]
      in == links[o]["CANCELLATION"]
  IN  /\ status[o] \in {"NONE", "DRAFT"} => out = NoItems /\ in = NoItems
      /\ status[o] \in Live => /\ Listed(items[o]) # {}
                               /\ out = LinkedExit(items[o])
                               /\ in = NoItems
                               /\ Traceable(o)
      /\ status[o] = "CANCELLED" =>
           \/ out = NoItems /\ in = NoItems
           \/ out = LinkedExit(items[o]) /\ in = items[o]

Traceability == \A o \in OrderIds : TraceOf(o)

(***************************************************************************)
(* What the parties of an order are told is a story it can have: a status  *)
(* only after the order had it, never that it is delivered and that it is  *)
(* cancelled, and of each status at most one notice for the customer, at   *)
(* most one for the seller and never two at one address, however the       *)
(* addresses are edited in between.  (Who has no address is told nothing.) *)
(***************************************************************************)
NoticesOf(o) == {n \in outbox : n.order = o}
StatusesTold(o) == {n.status : n \in NoticesOf(o)}
MayTell(s) ==
  CASE s \in {"NONE", "DRAFT"} -> {}
    [] s = "CONFIRMED" -> {"CONFIRMED"}
    [] s = "PREPARED" -> {"CONFIRMED", "PREPARED"}
    [] s = "DELIVERED" -> {"CONFIRMED", "PREPARED", "DELIVERED"}
    [] s = "CANCELLED" -> {"CONFIRMED", "PREPARED", "CANCELLED"}
NoticesFollowStatus ==
  \A o \in OrderIds :
    /\ StatusesTold(o) \subseteq MayTell(status[o])
    /\ \A m, n \in NoticesOf(o) :
         m.status = n.status /\ (m.role = n.role \/ m.address = n.address) => m = n

(* Two orders of the company never get the same number.                    *)
NumbersUnique ==
  /\ \A o \in OrderIds : number[o] < nextNumber /\ (number[o] = 0 <=> status[o] = "NONE")
  /\ \A o, p \in OrderIds : number[o] = number[p] => o = p \/ number[o] = 0

(***************************************************************************)
(* The component implements its promise: goods held are the ones linked by *)
(* CONFIRMATION and not yet by CANCELLATION.                               *)
(***************************************************************************)
GoodsOf(o) ==
  IF Linked(o, "CANCELLATION") # {} THEN "returned"
  ELSE IF Linked(o, "CONFIRMATION") # {} THEN "held" ELSE "none"

Lifecycle == INSTANCE OrderLifecycle WITH goods <- [o \in OrderIds |-> GoodsOf(o)]
LifecycleSpec == Lifecycle!Spec
==============================================================================
