----------------------------- MODULE OrdersProofs -----------------------------
(***************************************************************************)
(* Proofs about module Orders and the two modules that extend it, Sales    *)
(* and Portal, for every set of orders, warehouses, variants, quantities,  *)
(* sales, keys, totals, calls, users and customers.  In this order:        *)
(*   Orders             the lifecycle and the ledger, OrderInv;            *)
(*   Sales              the sale of a delivered order, SalesInv;           *)
(*   Events and money   what the events of a sale tell, LogInv;            *)
(*   The portal         the orders that customers place, PortalInv.        *)
(***************************************************************************)
EXTENDS Sales, Portal, FiniteSetTheorems, TLAPS

(* An order that exists has a warehouse.                                   *)
Placed == \A o \in OrderIds : status[o] # "NONE" => warehouse[o] \in Warehouses

(***************************************************************************)
(* TypeOK is not inductive alone: what cancel_order puts back is minus the *)
(* delta of the linked movement, and that is a natural number only because *)
(* of Traceability.                                                        *)
(***************************************************************************)
OrderInv == TypeOK /\ Placed /\ Traceability

(* Minus a basket is linked exactly where the basket lists something.      *)
LEMMA LinkedExitFacts ==
  ASSUME NEW b \in Baskets
  PROVE  /\ LinkedExit(b) \in [Variants -> Int]
         /\ LinkedExit(LinkedExit(b)) = b
         /\ \A v \in Variants : LinkedExit(b)[v] # 0 <=> b[v] # 0
         /\ b \in [Variants -> Nat]
<1>1. b \in [Variants -> Nat]
  <2>1. Quantities \cup {0} \subseteq Nat
    BY QuantitiesAssumption
  <2>2. b \in [Variants -> Quantities \cup {0}]
    BY DEF Baskets
  <2> QED
    BY <2>1, <2>2
<1>2. \A v \in Variants : LinkedExit(b)[v] = -b[v]
  BY DEF LinkedExit
<1>0. \A v \in Variants : -b[v] \in Int /\ -(-b[v]) = b[v]
  BY <1>1
<1>3. LinkedExit(b) \in [Variants -> Int]
  BY <1>0 DEF LinkedExit
<1>4. \A v \in Variants : LinkedExit(b)[v] # 0 <=> b[v] # 0
  BY <1>1, <1>2, <1>0
<1>5. LinkedExit(LinkedExit(b)) = [v \in Variants |-> -LinkedExit(b)[v]]
  BY DEF LinkedExit
<1>6. \A v \in Variants : -LinkedExit(b)[v] = b[v]
  BY <1>2, <1>0
<1>7. [v \in Variants |-> -LinkedExit(b)[v]] = [v \in Variants |-> b[v]]
  BY <1>6
<1>8. b = [v \in Variants |-> b[v]]
  BY <1>1
<1> QED
  BY <1>1, <1>3, <1>4, <1>5, <1>7, <1>8

LEMMA NoItemsFacts == NoItems \in Baskets /\ NoItems \in [Variants -> Int]
                      /\ Listed(NoItems) = {}
  BY DEF NoItems, Baskets, Listed

LEMMA OrderInvInit == Init => OrderInv
<1> SUFFICES ASSUME Init PROVE OrderInv
  OBVIOUS
<1> USE DEF Init, InventoryInit
<1>1. TypeOK
  BY NoItemsFacts DEF TypeOK, InventoryTypeOK, NoItems, Statuses
<1>2. Placed
  BY DEF Placed
<1>3. Traceability
  <2>1. \A o \in OrderIds : /\ status[o] = "NONE"
                           /\ links[o]["CONFIRMATION"] = NoItems
                           /\ links[o]["CANCELLATION"] = NoItems
    BY DEF Kinds
  <2> QED
    BY <2>1 DEF Traceability, TraceOf, Live
<1> QED
  BY <1>1, <1>2, <1>3 DEF OrderInv

(* Inventory operations keep quantities within the column and off orders.  *)
LEMMA OrderInvInventory ==
  ASSUME OrderInv, InventoryNext, UNCHANGED orderVars
  PROVE  OrderInv'
<1> USE QuantitiesAssumption, MaxStockAssumption
<1>1. InventoryTypeOK'
  <2>1. CASE \E w \in Warehouses, v \in Variants, q \in Quantities \cup {0} : CreateStock(w, v, q)
    BY <2>1 DEF CreateStock, OrderInv, TypeOK, InventoryTypeOK
  <2>2. CASE \E w \in Warehouses, v \in Variants, type \in MovementTypes, q \in Quantities :
               RegisterMovement(w, v, type, q) \/ RegisterMovement(w, v, type, -q)
    <3>1. PICK w \in Warehouses, v \in Variants, type \in MovementTypes, d \in Int :
                 RegisterMovement(w, v, type, d)
      BY <2>2
    <3> QED
      BY <3>1 DEF RegisterMovement, OrderInv, TypeOK, InventoryTypeOK
  <2>3. CASE \E src, dst \in Warehouses, b \in Baskets : TransferStock(src, dst, b)
    <3>1. PICK src \in Warehouses, dst \in Warehouses, b \in Baskets : TransferStock(src, dst, b)
      BY <2>3
    <3>2. b \in [Variants -> Nat]
      BY LinkedExitFacts
    <3>3. AfterExit(src, b) \in [Variants -> Nat] /\ AfterEntry(dst, b) \in [Variants -> Nat]
      BY <3>1, <3>2 DEF TransferStock, CanExit, AfterExit, AfterEntry, OrderInv, TypeOK, InventoryTypeOK
    <3>5. base' \in [Warehouses -> [Variants -> Int]]
      <4>1. /\ [v \in Variants |-> base[src][v] - b[v]] \in [Variants -> Int]
            /\ [v \in Variants |-> base[dst][v] + b[v]] \in [Variants -> Int]
        BY <3>2 DEF OrderInv, TypeOK, InventoryTypeOK
      <4>2. src # dst
        BY <3>1 DEF TransferStock
      <4>3. base' = [base EXCEPT ![src] = [v \in Variants |-> base[src][v] - b[v]],
                                 ![dst] = [v \in Variants |-> base[dst][v] + b[v]]]
        BY <3>1, <4>2 DEF TransferStock, OrderInv, TypeOK, InventoryTypeOK
      <4> QED
        BY <4>1, <4>3 DEF OrderInv, TypeOK, InventoryTypeOK
    <3>4. rows' \subseteq Warehouses \X Variants
      BY <3>1 DEF TransferStock, RowsAfterEntry, Listed, OrderInv, TypeOK, InventoryTypeOK
    <3> QED
      BY <3>1, <3>3, <3>4, <3>5 DEF TransferStock, OrderInv, TypeOK, InventoryTypeOK
  <2> QED
    BY <2>1, <2>2, <2>3 DEF InventoryNext
<1>2. TypeOK'
  BY <1>1 DEF orderVars, OrderInv, TypeOK
<1>3. Placed' /\ Traceability'
  BY DEF orderVars, OrderInv, Placed, Traceability, TraceOf, Traceable, Linked
<1> QED
  BY <1>2, <1>3 DEF OrderInv

(* A step that leaves an order's status, items and links alone leaves its  *)
(* traceability alone.                                                     *)
LEMMA TraceUntouched ==
  ASSUME NEW o \in OrderIds, TraceOf(o),
         status'[o] = status[o], items'[o] = items[o], links'[o] = links[o]
  PROVE  TraceOf(o)'
  BY DEF TraceOf, Traceable, Linked

(* Full links make an order traceable: as many links as items.             *)
LEMMA FullLinksTraceable ==
  ASSUME NEW o \in OrderIds, items[o] \in Baskets,
         links[o]["CONFIRMATION"] = LinkedExit(items[o])
  PROVE  Traceable(o)
<1>1. Linked(o, "CONFIRMATION") = Listed(items[o])
  BY LinkedExitFacts DEF Linked, Listed
<1> QED
  BY <1>1 DEF Traceable

(***************************************************************************)
(* The notices of one change of status: all of that order and status, one  *)
(* for a party and one for an address.                                     *)
(***************************************************************************)
NoticesAre(N, o, s) ==
  /\ outbox' = outbox \cup N /\ N \subseteq Notices
  /\ \A n \in N : n.order = o /\ n.status = s
  /\ \A m, n \in N : m.role = n.role \/ m.address = n.address => m = n

LEMMA StatusNotices ==
  ASSUME NEW o \in OrderIds, NEW s \in Statuses, SetOrderStatus(o, s)
  PROVE  \E N : NoticesAre(N, o, s)
<1>1. PICK c \in Addresses[o]["customer"], d \in Addresses[o]["seller"] :
        outbox' = outbox \cup NoticesTo(o, s, Recipients(c, d))
  BY DEF SetOrderStatus
<1> DEFINE a == [order |-> o, status |-> s, role |-> "customer", address |-> c]
           b == [order |-> o, status |-> s, role |-> "seller", address |-> d]
           N == NoticesTo(o, s, Recipients(c, d))
<1>2. a \in Notices /\ b \in Notices
  BY DEF Notices, Roles
<1>3. N \subseteq {a, b} /\ (a \in N /\ b \in N => c # d)
  <2>1. ASSUME NEW n \in N PROVE n = a \/ (n = b /\ d # c)
    BY DEF NoticesTo, Recipients
  <2>2. a # b
    OBVIOUS
  <2> QED
    BY <2>1, <2>2
<1>4. \A n \in N : n.order = o /\ n.status = s
  BY <1>3
<1>5. ASSUME NEW m \in N, NEW n \in N, m.role = n.role \/ m.address = n.address PROVE m = n
  BY <1>3, <1>5
<1> HIDE DEF N
<1> QED
  BY <1>1, <1>2, <1>3, <1>4, <1>5 DEF NoticesAre, N

LEMMA NoticesTyped ==
  ASSUME outbox \subseteq Notices, NEW o \in OrderIds, NEW s \in Statuses, SetOrderStatus(o, s)
  PROVE  outbox' \subseteq Notices
BY StatusNotices DEF NoticesAre

(* Only the fields of OrderInv that a service writes are at stake.         *)
LEMMA OrderInvStep ==
  ASSUME OrderInv, NEW o \in OrderIds,
         InventoryTypeOK',
         \E s \in Statuses : status' = [status EXCEPT ![o] = s],
         \/ UNCHANGED <<warehouse, items>>
         \/ \E w \in Warehouses, b \in Baskets :
              /\ warehouse' = [warehouse EXCEPT ![o] = w]
              /\ items' = [items EXCEPT ![o] = b],
         status[o] = "NONE" => warehouse'[o] \in Warehouses,
         \/ UNCHANGED links
         \/ \E k \in Kinds, d \in [Variants -> Int] : links' = [links EXCEPT ![o][k] = d],
         number' \in [OrderIds -> Nat], nextNumber' \in Nat \ {0},
         checkout' \in [OrderIds -> CheckoutStatuses \cup {"NONE"}],
         outbox' \subseteq Notices,
         TraceOf(o)'
  PROVE  OrderInv'
<1>1. TypeOK'
  <2> USE DEF OrderInv, TypeOK
  <2>1. status' \in [OrderIds -> Statuses \cup {"NONE"}]
    OBVIOUS
  <2>2. warehouse' \in [OrderIds -> Warehouses \cup {NoWarehouse}] /\ items' \in [OrderIds -> Baskets]
    <3>1. CASE UNCHANGED <<warehouse, items>>
      BY <3>1
    <3>2. CASE \E w \in Warehouses, b \in Baskets :
                 /\ warehouse' = [warehouse EXCEPT ![o] = w]
                 /\ items' = [items EXCEPT ![o] = b]
      BY <3>2
    <3> QED
      BY <3>1, <3>2
  <2>3. links' \in [OrderIds -> [Kinds -> [Variants -> Int]]]
    <3>1. CASE UNCHANGED links
      BY <3>1
    <3>2. CASE \E k \in Kinds, d \in [Variants -> Int] : links' = [links EXCEPT ![o][k] = d]
      <4>1. PICK k \in Kinds, d \in [Variants -> Int] : links' = [links EXCEPT ![o][k] = d]
        BY <3>2
      <4> QED
        BY <4>1
    <3> QED
      BY <3>1, <3>2
  <2> QED
    BY <2>1, <2>2, <2>3
<1>2. Placed'
  BY DEF OrderInv, TypeOK, Placed, Statuses
<1>3. \A p \in OrderIds : TraceOf(p)'
  <2> SUFFICES ASSUME NEW p \in OrderIds, p # o PROVE TraceOf(p)'
    OBVIOUS
  <2>1. status'[p] = status[p] /\ items'[p] = items[p] /\ links'[p] = links[p]
    BY DEF OrderInv, TypeOK
  <2> QED
    BY <2>1, TraceUntouched DEF OrderInv, Traceability
<1>4. Traceability'
  BY <1>3 DEF Traceability
<1> QED
  BY <1>1, <1>2, <1>4 DEF OrderInv

LEMMA OrderInvDraft ==
  ASSUME OrderInv, NEW o \in OrderIds, NEW w \in Warehouses, NEW b \in Baskets,
         CreateDraftOrder(o, w, b) \/ UpdateDraftOrder(o, w, b)
  PROVE  OrderInv'
<1> USE DEF OrderInv, TypeOK
<1>1. status[o] \in {"NONE", "DRAFT"} /\ status' = [status EXCEPT ![o] = "DRAFT"] /\ links' = links
  BY DEF CreateDraftOrder, UpdateDraftOrder
<1>2. TraceOf(o)'
  <2>1. TraceOf(o)
    BY DEF Traceability
  <2> QED
    BY <1>1, <2>1 DEF TraceOf, Live
<1>3. InventoryTypeOK'
  BY DEF CreateDraftOrder, UpdateDraftOrder, inventoryVars, InventoryTypeOK
<1>4. /\ warehouse' = [warehouse EXCEPT ![o] = w] /\ warehouse'[o] = w
      /\ items' = [items EXCEPT ![o] = b]
      /\ number' \in [OrderIds -> Nat] /\ nextNumber' \in Nat \ {0}
      /\ checkout' = checkout /\ outbox' = outbox
  BY DEF CreateDraftOrder, UpdateDraftOrder
<1> QED
  BY <1>1, <1>2, <1>3, <1>4, OrderInvStep DEF Statuses

LEMMA OrderInvConfirm ==
  ASSUME OrderInv, NEW o \in OrderIds, ConfirmOrder(o)
  PROVE  OrderInv'
<1> USE DEF OrderInv, TypeOK
<1>1. items[o] \in Baskets /\ LinkedExit(items[o]) \in [Variants -> Int]
      /\ items[o] \in [Variants -> Nat]
  BY LinkedExitFacts
<1>2. links' = [links EXCEPT ![o]["CONFIRMATION"] = LinkedExit(items[o])]
      /\ items' = items /\ warehouse' = warehouse
      /\ status' = [status EXCEPT ![o] = "CONFIRMED"]
  BY DEF ConfirmOrder, SetOrderStatus
<1>3. TraceOf(o)'
  <2>1. TraceOf(o) /\ status[o] = "DRAFT" /\ Listed(items[o]) # {}
    BY DEF Traceability, ConfirmOrder
  <2>2. links'[o]["CONFIRMATION"] = LinkedExit(items[o]) /\ links'[o]["CANCELLATION"] = NoItems
    BY <1>2, <2>1 DEF TraceOf, Kinds
  <2>3. Linked(o, "CONFIRMATION")' = Listed(items[o])
    BY <1>1, <2>2, LinkedExitFacts DEF Linked, Listed
  <2>4. Traceable(o)'
    BY <1>2, <2>3 DEF Traceable, Listed
  <2>5. status'[o] = "CONFIRMED"
    BY <1>2
  <2> QED
    BY <1>2, <2>1, <2>2, <2>4, <2>5 DEF TraceOf, Live, Listed
<1>4. InventoryTypeOK'
  <2>1. warehouse[o] \in Warehouses
    BY DEF ConfirmOrder, Placed
  <2>2. AfterExit(warehouse[o], items[o]) \in [Variants -> Nat]
    BY <1>1, <2>1 DEF ConfirmOrder, CanExit, AfterExit, InventoryTypeOK
  <2> QED
    BY <2>1, <2>2 DEF ConfirmOrder, InventoryTypeOK
<1>5. /\ number' = number /\ nextNumber' = nextNumber /\ checkout' = checkout
      /\ outbox' \subseteq Notices /\ status[o] # "NONE"
  BY NoticesTyped DEF ConfirmOrder, Statuses
<1>6. \E s \in Statuses : status' = [status EXCEPT ![o] = s]
  BY <1>2 DEF Statuses
<1>7. \E k \in Kinds, d \in [Variants -> Int] : links' = [links EXCEPT ![o][k] = d]
  BY <1>1, <1>2 DEF Kinds
<1>8. outbox' \subseteq Notices /\ number' \in [OrderIds -> Nat]
      /\ nextNumber' \in Nat \ {0} /\ checkout' \in [OrderIds -> CheckoutStatuses \cup {"NONE"}]
  BY <1>5 DEF Statuses
<1> HIDE DEF OrderInv, TypeOK
<1> QED
  BY <1>2, <1>3, <1>4, <1>5, <1>6, <1>7, <1>8, OrderInvStep

LEMMA OrderInvProgress ==
  ASSUME OrderInv, NEW o \in OrderIds,
         PrepareOrder(o) \/ DeliverOrder(o) \/ CancelDraft(o)
  PROVE  OrderInv'
<1> USE DEF OrderInv, TypeOK
<1>1. PICK s \in Statuses :
        /\ status' = [status EXCEPT ![o] = s]
        /\ SetOrderStatus(o, s)
        /\ \/ s \in Live /\ status[o] \in Live
           \/ s = "CANCELLED" /\ status[o] = "DRAFT"
  <2>1. CASE PrepareOrder(o)
    <3>1. status' = [status EXCEPT ![o] = "PREPARED"] /\ SetOrderStatus(o, "PREPARED")
      BY <2>1 DEF PrepareOrder, SetOrderStatus
    <3>2. "PREPARED" \in Statuses /\ "PREPARED" \in Live /\ status[o] \in Live
      BY <2>1 DEF PrepareOrder, Statuses, Live
    <3> QED
      BY <3>1, <3>2
  <2>2. CASE DeliverOrder(o)
    <3>1. status' = [status EXCEPT ![o] = "DELIVERED"] /\ SetOrderStatus(o, "DELIVERED")
      BY <2>2 DEF DeliverOrder, SetOrderStatus
    <3>2. "DELIVERED" \in Statuses /\ "DELIVERED" \in Live /\ status[o] \in Live
      BY <2>2 DEF DeliverOrder, Statuses, Live
    <3> QED
      BY <3>1, <3>2
  <2>3. CASE CancelDraft(o)
    BY <2>3 DEF CancelDraft, SetOrderStatus, Statuses, Live
  <2> QED
    BY <2>1, <2>2, <2>3
<1>2. UNCHANGED <<inventoryVars, warehouse, items, links, number, nextNumber, checkout>>
  BY DEF PrepareOrder, DeliverOrder, CancelDraft
<1>3. status' = [status EXCEPT ![o] = s] /\ outbox' \subseteq Notices
  BY <1>1, NoticesTyped
<1>4. TraceOf(o)'
  <2>1. TraceOf(o)
    BY DEF Traceability
  <2>2. Traceable(o) => Traceable(o)'
    BY <1>2 DEF Traceable, Linked
  <2> QED
    BY <1>1, <1>2, <1>3, <2>1, <2>2 DEF TraceOf, Live
<1>5. InventoryTypeOK'
  BY <1>2 DEF inventoryVars, InventoryTypeOK
<1>6. status[o] # "NONE"
  BY <1>1 DEF Live
<1>7. outbox' \subseteq Notices /\ number' \in [OrderIds -> Nat]
      /\ nextNumber' \in Nat \ {0} /\ checkout' \in [OrderIds -> CheckoutStatuses \cup {"NONE"}]
  BY <1>2, <1>3
<1> HIDE DEF OrderInv, TypeOK
<1> QED
  BY <1>2, <1>3, <1>4, <1>5, <1>6, <1>7, OrderInvStep

LEMMA OrderInvCancel ==
  ASSUME OrderInv, NEW o \in OrderIds, CancelOrder(o)
  PROVE  OrderInv'
<1> USE DEF OrderInv, TypeOK
<1>1. TraceOf(o) /\ status[o] \in Live /\ status[o] # "NONE"
  BY DEF Traceability, CancelOrder, Live
<1>2. items[o] \in Baskets /\ ToReturn(o) = items[o]
  BY <1>1, LinkedExitFacts DEF ToReturn, TraceOf
<1>3. items[o] \in [Variants -> Nat] /\ items[o] \in [Variants -> Int]
  BY <1>2, LinkedExitFacts
<1>4. /\ links' = [links EXCEPT ![o]["CANCELLATION"] = items[o]]
      /\ status' = [status EXCEPT ![o] = "CANCELLED"]
      /\ UNCHANGED <<base, warehouse, items, number, nextNumber, checkout>>
      /\ outbox' \subseteq Notices
  BY <1>2, NoticesTyped DEF CancelOrder, SetOrderStatus, Statuses
<1>5. TraceOf(o)'
  <2>1. links'[o]["CONFIRMATION"] = links[o]["CONFIRMATION"] /\ links'[o]["CANCELLATION"] = items[o]
    BY <1>4 DEF Kinds
  <2>2. status'[o] = "CANCELLED"
    BY <1>4
  <2> QED
    BY <1>1, <1>4, <2>1, <2>2 DEF TraceOf, Live
<1>6. InventoryTypeOK'
  <2>1. warehouse[o] \in Warehouses
    BY <1>1 DEF Placed
  <2>2. AfterEntry(warehouse[o], items[o]) \in [Variants -> Nat]
    BY <1>3, <2>1 DEF AfterEntry, InventoryTypeOK
  <2>3. rows' \subseteq Warehouses \X Variants
    BY <2>1 DEF CancelOrder, RowsAfterEntry, Listed, InventoryTypeOK
  <2> QED
    BY <1>2, <1>4, <2>1, <2>2, <2>3 DEF CancelOrder, InventoryTypeOK
<1>7. \E s \in Statuses : status' = [status EXCEPT ![o] = s]
  BY <1>4 DEF Statuses
<1>8. \E k \in Kinds, d \in [Variants -> Int] : links' = [links EXCEPT ![o][k] = d]
  BY <1>3, <1>4 DEF Kinds
<1>9. outbox' \subseteq Notices /\ number' \in [OrderIds -> Nat]
      /\ nextNumber' \in Nat \ {0} /\ checkout' \in [OrderIds -> CheckoutStatuses \cup {"NONE"}]
  BY <1>4 DEF Statuses
<1> HIDE DEF OrderInv, TypeOK
<1> QED
  BY <1>1, <1>4, <1>5, <1>6, <1>7, <1>8, <1>9, OrderInvStep

LEMMA OrderInvNext == OrderInv /\ [Next]_vars => OrderInv'
<1> SUFFICES ASSUME OrderInv, [Next]_vars PROVE OrderInv'
  OBVIOUS
<1>1. CASE InventoryNext /\ UNCHANGED orderVars
  BY <1>1, OrderInvInventory
<1>2. ASSUME NEW o \in OrderIds, OrderNext(o) PROVE OrderInv'
  <2>1. CASE \E w \in Warehouses, b \in Baskets : CreateDraftOrder(o, w, b) \/ UpdateDraftOrder(o, w, b)
    BY <2>1, OrderInvDraft
  <2>2. CASE ConfirmOrder(o)
    BY <2>2, OrderInvConfirm
  <2>3. CASE PrepareOrder(o) \/ DeliverOrder(o) \/ CancelDraft(o)
    BY <2>3, OrderInvProgress
  <2>4. CASE CancelOrder(o)
    BY <2>4, OrderInvCancel
  <2>5. CASE \E s \in CheckoutStatuses : CheckoutMoves(o, s)
    <3>1. PICK s \in CheckoutStatuses : CheckoutMoves(o, s)
      BY <2>5
    <3>2. TypeOK'
      BY <3>1 DEF CheckoutMoves, OrderInv, TypeOK, InventoryTypeOK, inventoryVars
    <3>3. Placed' /\ Traceability'
      BY <3>1 DEF CheckoutMoves, OrderInv, Placed, Traceability, TraceOf, Traceable, Linked
    <3> QED
      BY <3>2, <3>3 DEF OrderInv
  <2> QED
    BY <1>2, <2>1, <2>2, <2>3, <2>4, <2>5 DEF OrderNext
<1>3. CASE UNCHANGED vars
  BY <1>3 DEF vars, inventoryVars, orderVars, OrderInv, TypeOK, InventoryTypeOK, Placed,
              Traceability, TraceOf, Traceable, Linked
<1> QED
  BY <1>1, <1>2, <1>3 DEF Next

(* Every reachable state is well typed: in particular no interleaving of   *)
(* services drives a quantity of stock below zero.                         *)
THEOREM TypeCorrect == Spec => []TypeOK
<1>1. OrderInv => TypeOK
  BY DEF OrderInv
<1> QED
  BY OrderInvInit, OrderInvNext, <1>1, PTL DEF Spec

(* The links of every order say what its status says, so cancel_order      *)
(* always finds the traceability it asks for.                              *)
THEOREM TraceabilityHolds == Spec => []Traceability
<1>1. OrderInv => Traceability
  BY DEF OrderInv
<1> QED
  BY OrderInvInit, OrderInvNext, <1>1, PTL DEF Spec

(***************************************************************************)
(* Numbers and notices.  Both need to know where the status of an order    *)
(* comes from, and nothing about its goods.                                *)
(***************************************************************************)
LEMMA NumbersStep ==
  ASSUME TypeOK, NumbersUnique, [Next]_vars
  PROVE  NumbersUnique'
<1> USE DEF TypeOK, NumbersUnique
<1>1. CASE UNCHANGED <<status, number, nextNumber>>
  BY <1>1
<1>2. ASSUME NEW o \in OrderIds, OrderNext(o) PROVE NumbersUnique'
  <2>1. CASE \E w \in Warehouses, b \in Baskets : CreateDraftOrder(o, w, b)
    <3>1. /\ status[o] = "NONE" /\ status' = [status EXCEPT ![o] = "DRAFT"]
          /\ number' = [number EXCEPT ![o] = nextNumber]
          /\ nextNumber' = nextNumber + 1
      BY <2>1 DEF CreateDraftOrder
    <3>2. \A p \in OrderIds : p # o => number'[p] = number[p] /\ status'[p] = status[p]
      BY <3>1
    <3>3. number'[o] = nextNumber /\ status'[o] = "DRAFT"
      BY <3>1
    <3> QED
      BY <3>1, <3>2, <3>3
  <2>2. CASE /\ UNCHANGED <<number, nextNumber>>
             /\ \E s \in Statuses : status[o] # "NONE" /\ status' = [status EXCEPT ![o] = s]
    BY <2>2 DEF Statuses
  <2>3. CASE UNCHANGED <<status, number, nextNumber>>
    BY <2>3
  <2> QED
    BY <1>2, <2>1, <2>2, <2>3
    DEF OrderNext, UpdateDraftOrder, ConfirmOrder, PrepareOrder, DeliverOrder, CancelDraft,
        CancelOrder, CheckoutMoves, SetOrderStatus, Statuses
<1> QED
  BY <1>1, <1>2 DEF Next, vars, orderVars

(* No two orders of a company share a number, in whatever order they are   *)
(* drafted (create_draft_order takes it under the company's lock).         *)
THEOREM OrderNumbersAreUnique == Spec => []NumbersUnique
<1>1. Init => NumbersUnique
  BY DEF Init, NumbersUnique
<1>2. OrderInv /\ NumbersUnique /\ [Next]_vars => NumbersUnique'
  BY NumbersStep DEF OrderInv
<1> QED
  BY <1>1, <1>2, OrderInvInit, OrderInvNext, PTL DEF Spec

LEMMA NoticesStep ==
  ASSUME TypeOK, NoticesFollowStatus, [Next]_vars
  PROVE  NoticesFollowStatus'
<1> USE DEF TypeOK
<1> DEFINE Fine(p) == /\ StatusesTold(p) \subseteq MayTell(status[p])
                      /\ \A m, n \in NoticesOf(p) :
                           m.status = n.status /\ (m.role = n.role \/ m.address = n.address) => m = n
<1>1. ASSUME NEW p \in OrderIds, status'[p] = status[p], NoticesOf(p)' = NoticesOf(p)
      PROVE  Fine(p)'
  BY <1>1 DEF NoticesFollowStatus, StatusesTold
<1>2. CASE UNCHANGED <<status, outbox>>
  BY <1>1, <1>2 DEF NoticesOf, NoticesFollowStatus
<1>3. ASSUME NEW o \in OrderIds, OrderNext(o) PROVE NoticesFollowStatus'
  <2>1. ASSUME NEW s \in Statuses, SetOrderStatus(o, s),
               \/ s = "CONFIRMED" /\ status[o] = "DRAFT"
               \/ s = "PREPARED" /\ status[o] = "CONFIRMED"
               \/ s = "DELIVERED" /\ status[o] = "PREPARED"
               \/ s = "CANCELLED" /\ status[o] \in {"DRAFT", "CONFIRMED", "PREPARED"}
        PROVE  NoticesFollowStatus'
    <3>1. PICK N : NoticesAre(N, o, s)
      BY <2>1, StatusNotices
    <3>2. status' = [status EXCEPT ![o] = s] /\ status'[o] = s
      BY <2>1 DEF SetOrderStatus
    <3>3. ASSUME NEW p \in OrderIds, p # o
          PROVE  NoticesOf(p)' = NoticesOf(p) /\ status'[p] = status[p]
      BY <3>1, <3>2, <3>3 DEF NoticesOf, NoticesAre
    <3>4. NoticesOf(o)' = NoticesOf(o) \cup N
      BY <3>1 DEF NoticesOf, NoticesAre
    <3>5. s \notin MayTell(status[o]) /\ MayTell(status[o]) \cup {s} \subseteq MayTell(s)
      BY <2>1 DEF MayTell
    <3>6. StatusesTold(o)' \subseteq MayTell(s)
      BY <3>1, <3>4, <3>5 DEF StatusesTold, NoticesAre, NoticesFollowStatus
    <3>7. ASSUME NEW m \in NoticesOf(o)', NEW n \in NoticesOf(o)', m.status = n.status,
                 m.role = n.role \/ m.address = n.address
          PROVE  m = n
      <4>1. \A x \in NoticesOf(o) : x.status # s
        BY <3>5 DEF StatusesTold, NoticesFollowStatus
      <4>2. CASE m \in NoticesOf(o) /\ n \in NoticesOf(o)
        BY <3>7, <4>2 DEF NoticesFollowStatus
      <4>3. CASE m \in N /\ n \in N
        BY <3>1, <3>7, <4>3 DEF NoticesAre
      <4> QED
        BY <3>1, <3>4, <3>7, <4>1, <4>2, <4>3 DEF NoticesAre
    <3>8. Fine(o)'
      BY <3>2, <3>6, <3>7
    <3> QED
      BY <1>1, <3>3, <3>8 DEF NoticesFollowStatus
  <2>2. CASE \E w \in Warehouses, b \in Baskets : CreateDraftOrder(o, w, b)
    <3>1. status[o] = "NONE" /\ status' = [status EXCEPT ![o] = "DRAFT"] /\ outbox' = outbox
      BY <2>2 DEF CreateDraftOrder
    <3>2. \A p \in OrderIds : NoticesOf(p)' = NoticesOf(p)
      BY <3>1 DEF NoticesOf
    <3>3. \A p \in OrderIds : MayTell(status'[p]) = MayTell(status[p])
      BY <3>1 DEF MayTell
    <3> QED
      BY <3>2, <3>3 DEF NoticesFollowStatus, StatusesTold
  <2>3. CASE (\E w \in Warehouses, b \in Baskets : UpdateDraftOrder(o, w, b))
             \/ \E s \in CheckoutStatuses : CheckoutMoves(o, s)
    BY <1>2, <2>3 DEF UpdateDraftOrder, CheckoutMoves
  <2>4. CASE ConfirmOrder(o) \/ PrepareOrder(o) \/ DeliverOrder(o) \/ CancelDraft(o) \/ CancelOrder(o)
    BY <2>1, <2>4 DEF ConfirmOrder, PrepareOrder, DeliverOrder, CancelDraft, CancelOrder, Statuses
  <2> QED
    BY <1>3, <2>2, <2>3, <2>4 DEF OrderNext
<1> QED
  BY <1>2, <1>3 DEF Next, vars, orderVars

(* Whatever addresses the parties of an order have from one status to the  *)
(* next, what they are told is a story the order can have, once each.      *)
THEOREM NoticesHold == Spec => []NoticesFollowStatus
<1>1. Init => NoticesFollowStatus
  BY DEF Init, NoticesFollowStatus, NoticesOf, StatusesTold
<1>2. OrderInv /\ NoticesFollowStatus /\ [Next]_vars => NoticesFollowStatus'
  BY NoticesStep DEF OrderInv
<1> QED
  BY <1>1, <1>2, OrderInvInit, OrderInvNext, PTL DEF Spec

------------------------------------------------------------------------------
(***************************************************************************)
(* Conservation.  The units that orders hold are counted as the elements   *)
(* of a set with one column per order, so that a step that changes what    *)
(* one order holds changes the count by the difference of two columns.     *)
(***************************************************************************)
Column(o, n) == {o} \X (1..n)
Columns(h) == UNION {Column(o, h[o]) : o \in DOMAIN h}

LEMMA ColumnSize ==
  ASSUME NEW o, NEW n \in Nat
  PROVE  IsFiniteSet(Column(o, n)) /\ Cardinality(Column(o, n)) = n
<1>1. IsFiniteSet(1..n) /\ Cardinality(1..n) = n
  BY FS_Interval
<1>2. IsFiniteSet({o}) /\ Cardinality({o}) = 1
  BY FS_Singleton
<1>3. IsFiniteSet({o} \X (1..n)) /\ Cardinality({o} \X (1..n)) = Cardinality({o}) * Cardinality(1..n)
  BY <1>1, <1>2, FS_Product
<1> QED
  BY <1>1, <1>2, <1>3 DEF Column

LEMMA DisjointUnion ==
  ASSUME NEW S, NEW T, IsFiniteSet(S), IsFiniteSet(T), S \cap T = {}
  PROVE  IsFiniteSet(S \cup T) /\ Cardinality(S \cup T) = Cardinality(S) + Cardinality(T)
<1>1. Cardinality(S) \in Nat /\ Cardinality(T) \in Nat
  BY FS_CardinalityType
<1>2. /\ IsFiniteSet(S \cup T)
      /\ Cardinality(S \cup T) = Cardinality(S) + Cardinality(T) - Cardinality(S \cap T)
  BY FS_Union
<1>3. Cardinality(S \cap T) = 0
  BY FS_EmptySet
<1> QED
  BY <1>1, <1>2, <1>3

LEMMA ColumnsUpdate ==
  ASSUME NEW S, NEW h \in [S -> Nat], NEW o \in S, NEW n \in Nat,
         IsFiniteSet(Columns(h))
  PROVE  /\ IsFiniteSet(Columns([h EXCEPT ![o] = n]))
         /\ Cardinality(Columns([h EXCEPT ![o] = n])) = Cardinality(Columns(h)) - h[o] + n
<1> DEFINE g == [h EXCEPT ![o] = n]
           rest == {u \in Columns(h) : u[1] # o}
<1>0. \A p, k, u : u \in Column(p, k) => u[1] = p
  BY DEF Column
<1>a. \A f \in [S -> Nat] : \A u : u \in Columns(f) <=> \E p \in S : u \in Column(p, f[p])
  BY DEF Columns
<1>b. g \in [S -> Nat] /\ g[o] = n /\ \A p \in S : p # o => g[p] = h[p]
  OBVIOUS
<1>c. \A u : u \in rest <=> u \in Columns(h) /\ u[1] # o
  OBVIOUS
<1> HIDE DEF g, rest
<1>1. Columns(h) = rest \cup Column(o, h[o]) /\ rest \cap Column(o, h[o]) = {}
  <2>1. \A u : u \in Columns(h) <=> u \in rest \/ u \in Column(o, h[o])
    BY <1>0, <1>a, <1>c
  <2> QED
    BY <1>0, <1>c, <2>1
<1>2. Columns(g) = rest \cup Column(o, n) /\ rest \cap Column(o, n) = {}
  <2>1. \A u : u \in Columns(g) <=> u \in rest \/ u \in Column(o, n)
    BY <1>0, <1>a, <1>b, <1>c
  <2> QED
    BY <1>0, <1>c, <2>1
<1>3. IsFiniteSet(rest) /\ Cardinality(rest) \in Nat
  BY FS_Subset, FS_CardinalityType DEF rest
<1>4. Cardinality(Columns(h)) = Cardinality(rest) + h[o]
  BY <1>1, <1>3, ColumnSize, DisjointUnion
<1>5. IsFiniteSet(Columns(g)) /\ Cardinality(Columns(g)) = Cardinality(rest) + n
  <2>1. IsFiniteSet(Column(o, n)) /\ Cardinality(Column(o, n)) = n
    BY ColumnSize
  <2> QED
    BY <1>2, <1>3, <2>1, DisjointUnion
<1> QED
  BY <1>3, <1>4, <1>5 DEF g

Held(w, v) == [o \in OrderIds |-> HeldBy(o, w, v)]
Balanced(w, v, k) ==
  /\ IsFiniteSet(Columns(Held(w, v)))
  /\ stock[w][v] + Cardinality(Columns(Held(w, v))) + k = base[w][v]
StockBalances(others) == \A w \in Warehouses, v \in Variants : Balanced(w, v, others[w][v])

LEMMA UnitsAreColumns ==
  ASSUME NEW w, NEW v
  PROVE  UnitsOut(w, v) = Columns(Held(w, v))
<1>1. \A o \in OrderIds : Held(w, v)[o] = HeldBy(o, w, v)
  BY DEF Held
<1>2. \A u : u \in UnitsOut(w, v) <=> \E o \in OrderIds : u \in {o} \X (1..HeldBy(o, w, v))
  BY DEF UnitsOut
<1>0. DOMAIN Held(w, v) = OrderIds
  BY DEF Held
<1>3. \A u : u \in Columns(Held(w, v)) <=> \E o \in OrderIds : u \in {o} \X (1..Held(w, v)[o])
  BY <1>0 DEF Columns, Column
<1>4. \A u : u \in UnitsOut(w, v) <=> u \in Columns(Held(w, v))
  BY <1>1, <1>2, <1>3
<1> QED
  BY <1>4

LEMMA HeldType ==
  ASSUME TypeOK, NEW w, NEW v \in Variants
  PROVE  Held(w, v) \in [OrderIds -> Nat]
<1>1. \A o \in OrderIds : items[o] \in [Variants -> Nat]
  BY LinkedExitFacts DEF TypeOK
<1> QED
  BY <1>1 DEF Held, HeldBy

(* A step that only one order takes part in.                               *)
LEMMA BalancedStep ==
  ASSUME TypeOK, TypeOK', NEW w \in Warehouses, NEW v \in Variants,
         NEW k \in Int, Balanced(w, v, k),
         NEW o \in OrderIds,
         \A p \in OrderIds : p # o => HeldBy(p, w, v)' = HeldBy(p, w, v),
         stock'[w][v] + HeldBy(o, w, v)' = stock[w][v] + HeldBy(o, w, v),
         base'[w][v] = base[w][v]
  PROVE  Balanced(w, v, k)'
<1> DEFINE n == HeldBy(o, w, v)'
<1>1. Held(w, v) \in [OrderIds -> Nat]
  BY HeldType
<1>7. Held(w, v)' \in [OrderIds -> Nat]
  <2>1. \A p \in OrderIds : items'[p] \in [Variants -> Nat]
    BY LinkedExitFacts DEF TypeOK
  <2> QED
    BY <2>1 DEF Held, HeldBy
<1>2. n \in Nat /\ HeldBy(o, w, v) = Held(w, v)[o] /\ Held(w, v)'[o] = n
  BY <1>1, <1>7 DEF Held
<1>3. Held(w, v)' = [Held(w, v) EXCEPT ![o] = n]
  <2>1. \A p \in OrderIds : Held(w, v)'[p] = HeldBy(p, w, v)' /\ Held(w, v)[p] = HeldBy(p, w, v)
    BY DEF Held
  <2>2. \A p \in OrderIds : Held(w, v)'[p] = [Held(w, v) EXCEPT ![o] = n][p]
    BY <1>1, <2>1
  <2> QED
    BY <1>1, <1>7, <2>2
<1>4. /\ IsFiniteSet(Columns(Held(w, v)'))
      /\ Cardinality(Columns(Held(w, v)')) = Cardinality(Columns(Held(w, v))) - Held(w, v)[o] + n
  <2>1. IsFiniteSet(Columns(Held(w, v))) /\ n \in Nat
    BY <1>2 DEF Balanced
  <2> DEFINE h == Held(w, v)
             g == Held(w, v)'
  <2>2. h \in [OrderIds -> Nat] /\ n \in Nat /\ IsFiniteSet(Columns(h)) /\ g = [h EXCEPT ![o] = n]
    BY <1>1, <1>3, <2>1
  <2> HIDE DEF n, h, g
  <2>3. /\ IsFiniteSet(Columns([h EXCEPT ![o] = n]))
        /\ Cardinality(Columns([h EXCEPT ![o] = n])) = Cardinality(Columns(h)) - h[o] + n
    BY <2>2, ColumnsUpdate
  <2>4. IsFiniteSet(Columns(g)) /\ Cardinality(Columns(g)) = Cardinality(Columns(h)) - h[o] + n
    BY <2>2, <2>3
  <2> QED
    BY <2>4 DEF h, g
<1>5. Cardinality(Columns(Held(w, v))) \in Nat
  BY FS_CardinalityType DEF Balanced
<1>6. stock[w][v] \in Nat /\ stock'[w][v] \in Nat /\ base[w][v] \in Int
  BY DEF TypeOK, InventoryTypeOK
<1>8. Balanced(w, v, k)' <=> /\ IsFiniteSet(Columns(Held(w, v)'))
                          /\ stock'[w][v] + Cardinality(Columns(Held(w, v)')) + k = base'[w][v]
  BY DEF Balanced, Columns
<1>9. stock'[w][v] + n = stock[w][v] + Held(w, v)[o]
  BY <1>2
<1>10. stock[w][v] + Cardinality(Columns(Held(w, v))) + k = base[w][v]
  BY DEF Balanced
<1>11. Held(w, v)[o] \in Nat
  BY <1>1
<1>12. base'[w][v] = base[w][v]
  OBVIOUS
<1> HIDE DEF n
<1>13. stock'[w][v] + Cardinality(Columns(Held(w, v)')) + k = base'[w][v]
  <2> DEFINE a == stock[w][v]
             b == stock'[w][v]
             c == Cardinality(Columns(Held(w, v)))
             d == Cardinality(Columns(Held(w, v)'))
             e == Held(w, v)[o]
             z == base[w][v]
             y == base'[w][v]
  <2>1. a \in Nat /\ b \in Nat /\ c \in Nat /\ e \in Nat /\ n \in Nat /\ z \in Int
    BY <1>2, <1>5, <1>6, <1>11
  <2>2. d = c - e + n /\ b + n = a + e /\ a + c + k = z /\ y = z
    BY <1>4, <1>9, <1>10, <1>12
  <2> HIDE DEF a, b, c, d, e, z, y
  <2>3. b + d + k = y
    BY <2>1, <2>2
  <2> QED
    BY <2>3 DEF b, d, y
<1> QED
  BY <1>4, <1>8, <1>13

Nothing == [w \in Warehouses |-> NoItems]

LEMMA BalanceInit == Init => StockBalances(Nothing)
<1> SUFFICES ASSUME Init, NEW w \in Warehouses, NEW v \in Variants PROVE Balanced(w, v, 0)
  BY DEF Nothing, NoItems, StockBalances
<1>1. \A o \in OrderIds : HeldBy(o, w, v) = 0
  BY DEF Init, HeldBy, Live
<1>2. UnitsOut(w, v) = {}
  BY <1>1 DEF UnitsOut
<1>3. Columns(Held(w, v)) = {}
  BY <1>2, UnitsAreColumns
<1>4. stock[w][v] = 0 /\ base[w][v] = 0
  BY DEF Init, InventoryInit, NoItems
<1> QED
  BY <1>3, <1>4, FS_EmptySet DEF Balanced

(* A step that no order takes part in moves base and stock together.       *)
LEMMA BalancedInventory ==
  ASSUME TypeOK, TypeOK', NEW w \in Warehouses, NEW v \in Variants,
         NEW k \in Int, Balanced(w, v, k),
         UNCHANGED orderVars, stock'[w][v] - stock[w][v] = base'[w][v] - base[w][v]
  PROVE  Balanced(w, v, k)'
<1>1. Held(w, v)' = Held(w, v)
  BY DEF Held, HeldBy, orderVars
<1>2. Columns(Held(w, v))' = Columns(Held(w, v))
  BY <1>1 DEF Columns
<1>3. /\ stock[w][v] \in Int /\ stock'[w][v] \in Int
      /\ base[w][v] \in Int /\ base'[w][v] \in Int
  BY DEF TypeOK, InventoryTypeOK
<1> DEFINE c == Cardinality(Columns(Held(w, v)))
<1>4. c \in Nat /\ stock[w][v] + c + k = base[w][v] /\ IsFiniteSet(Columns(Held(w, v)))
  BY FS_CardinalityType DEF Balanced
<1>5. stock'[w][v] + c + k = base'[w][v]
  <2>1. c \in Int /\ stock[w][v] + c + k = base[w][v]
    BY <1>4
  <2>2. PICK s \in Int, t \in Int, b \in Int, d \in Int, n \in Int :
          s = stock[w][v] /\ t = stock'[w][v] /\ b = base[w][v] /\ d = base'[w][v] /\ n = c
    BY <1>3, <2>1
  <2>3. t - s = d - b /\ s + n + k = b
    BY <2>1, <2>2
  <2>4. t + n + k = d
    BY <2>3
  <2> QED
    BY <2>2, <2>4
<1>6. Balanced(w, v, k)' <=> /\ IsFiniteSet(Columns(Held(w, v))')
                          /\ stock'[w][v] + Cardinality(Columns(Held(w, v))') + k = base'[w][v]
  BY DEF Balanced, Columns
<1>7. Cardinality(Columns(Held(w, v))') = c
  BY <1>2
<1>8. IsFiniteSet(Columns(Held(w, v))')
  BY <1>2, <1>4
<1> HIDE DEF c
<1> QED
  BY <1>5, <1>6, <1>7, <1>8

(* Goods lie only in rows, so that the first quantity of a row adds up.    *)
Rowed == \A w \in Warehouses, v \in Variants : <<w, v>> \notin rows => stock[w][v] = 0

LEMMA RowedInit == Init => Rowed
  BY DEF Init, InventoryInit, NoItems, Rowed

(* A quantity grows only in a row, and rows stay.                          *)
GrowsInRow(w, v) == <<w, v>> \in rows' \/ stock'[w][v] <= stock[w][v]

LEMMA RowedInventory ==
  ASSUME OrderInv, InventoryNext, NEW w \in Warehouses, NEW v \in Variants
  PROVE  rows \subseteq rows' /\ GrowsInRow(w, v)
<1>0. TypeOK /\ stock[w][v] \in Nat
  BY DEF OrderInv, TypeOK, InventoryTypeOK
<1> USE DEF GrowsInRow
<1>1. CASE \E x \in Warehouses, u \in Variants, q \in Quantities \cup {0} : CreateStock(x, u, q)
  BY <1>0, <1>1 DEF CreateStock, TypeOK, InventoryTypeOK
<1>2. CASE \E x \in Warehouses, u \in Variants, type \in MovementTypes, q \in Quantities :
             RegisterMovement(x, u, type, q) \/ RegisterMovement(x, u, type, -q)
  BY <1>0, <1>2, SMTT(30) DEF RegisterMovement, TypeOK, InventoryTypeOK
<1>3. CASE \E src, dst \in Warehouses, b \in Baskets : TransferStock(src, dst, b)
  <2>1. PICK src \in Warehouses, dst \in Warehouses, b \in Baskets : TransferStock(src, dst, b)
    BY <1>3
  <2>2. /\ rows' = rows \cup ({dst} \X Listed(b))
        /\ stock' = [stock EXCEPT ![src] = AfterExit(src, b), ![dst] = AfterEntry(dst, b)]
        /\ src # dst
    BY <2>1 DEF TransferStock, RowsAfterEntry
  <2>3. b[v] \in Nat
    BY LinkedExitFacts
  <2>4. CASE w = src
    <3>1. stock'[w][v] = stock[w][v] - b[v]
      BY <1>0, <2>2, <2>4 DEF AfterExit, TypeOK, InventoryTypeOK
    <3> QED
      BY <1>0, <2>2, <2>3, <3>1
  <2>5. CASE w = dst
    <3>1. stock'[w][v] = stock[w][v] + b[v]
      BY <1>0, <2>2, <2>5 DEF AfterEntry, TypeOK, InventoryTypeOK
    <3>2. b[v] # 0 => <<w, v>> \in rows'
      BY <2>2, <2>5 DEF Listed
    <3> QED
      BY <1>0, <2>2, <2>3, <3>1, <3>2
  <2>6. CASE w # src /\ w # dst
    BY <1>0, <2>2, <2>6 DEF TypeOK, InventoryTypeOK
  <2> QED
    BY <2>4, <2>5, <2>6
<1> QED
  BY <1>1, <1>2, <1>3 DEF InventoryNext

LEMMA RowedOrder ==
  ASSUME OrderInv, NEW o \in OrderIds, OrderNext(o), NEW w \in Warehouses, NEW v \in Variants
  PROVE  rows \subseteq rows' /\ GrowsInRow(w, v)
<1>0. TypeOK /\ stock[w][v] \in Nat /\ items[o] \in Baskets /\ items[o][v] \in Nat
  BY LinkedExitFacts DEF OrderInv, TypeOK, InventoryTypeOK
<1> USE DEF GrowsInRow
<1>1. CASE ConfirmOrder(o)
  <2>1. rows' = rows /\ stock' = [stock EXCEPT ![warehouse[o]] = AfterExit(warehouse[o], items[o])]
    BY <1>1 DEF ConfirmOrder
  <2>2. stock'[w][v] = stock[w][v] \/ stock'[w][v] = stock[w][v] - items[o][v]
    BY <1>0, <2>1 DEF AfterExit, TypeOK, InventoryTypeOK
  <2> QED
    BY <1>0, <2>1, <2>2
<1>2. CASE CancelOrder(o)
  <2>1. TraceOf(o) /\ status[o] \in Live
    BY <1>2 DEF CancelOrder, Live, OrderInv, Traceability
  <2>2. ToReturn(o) = items[o]
    BY <1>0, <2>1, LinkedExitFacts DEF ToReturn, TraceOf
  <2>3. /\ rows' = rows \cup ({warehouse[o]} \X Listed(items[o]))
        /\ stock' = [stock EXCEPT ![warehouse[o]] = AfterEntry(warehouse[o], items[o])]
    BY <1>2, <2>2 DEF CancelOrder, RowsAfterEntry
  <2>4. CASE w = warehouse[o]
    <3>1. stock'[w][v] = stock[w][v] + items[o][v]
      BY <1>0, <2>3, <2>4 DEF AfterEntry, TypeOK, InventoryTypeOK
    <3>2. items[o][v] # 0 => <<w, v>> \in rows'
      BY <2>3, <2>4 DEF Listed
    <3> QED
      BY <1>0, <2>3, <3>1, <3>2
  <2>5. CASE w # warehouse[o]
    BY <1>0, <2>3, <2>5 DEF TypeOK, InventoryTypeOK
  <2> QED
    BY <2>4, <2>5
<1>3. CASE UNCHANGED <<rows, stock>>
  BY <1>0, <1>3
<1>4. \/ ConfirmOrder(o) \/ CancelOrder(o)
      \/ UNCHANGED <<rows, stock>>
  BY DEF OrderNext, CreateDraftOrder, UpdateDraftOrder, PrepareOrder, DeliverOrder,
         CancelDraft, CheckoutMoves, inventoryVars
<1> QED
  BY <1>1, <1>2, <1>3, <1>4

LEMMA RowedNext == OrderInv /\ OrderInv' /\ Rowed /\ [Next]_vars => Rowed'
<1> SUFFICES ASSUME OrderInv, OrderInv', Rowed, [Next]_vars,
                    NEW w \in Warehouses, NEW v \in Variants, <<w, v>> \notin rows'
             PROVE  stock'[w][v] = 0
  BY DEF Rowed
<1>1. stock[w][v] \in Nat /\ stock'[w][v] \in Nat
  BY DEF OrderInv, TypeOK, InventoryTypeOK
<1>2. rows \subseteq rows' /\ GrowsInRow(w, v)
  <2>1. CASE InventoryNext
    BY <2>1, RowedInventory
  <2>2. CASE \E o \in OrderIds : OrderNext(o)
    BY <2>2, RowedOrder
  <2>3. CASE UNCHANGED vars
    BY <1>1, <2>3 DEF vars, inventoryVars, GrowsInRow
  <2> QED
    BY <2>1, <2>2, <2>3 DEF Next
<1>3. stock[w][v] = 0
  BY <1>2 DEF Rowed
<1> QED
  BY <1>1, <1>2, <1>3 DEF GrowsInRow

LEMMA BalanceInventory ==
  ASSUME NEW others \in [Warehouses -> [Variants -> Int]],
         TypeOK, TypeOK', Rowed, StockBalances(others), InventoryNext, UNCHANGED orderVars
  PROVE  StockBalances(others)'
<1>1. ASSUME NEW w \in Warehouses, NEW v \in Variants
      PROVE  stock'[w][v] - stock[w][v] = base'[w][v] - base[w][v]
  <2> USE DEF TypeOK, InventoryTypeOK
  <2>0. stock[w][v] \in Int /\ base[w][v] \in Int
    OBVIOUS
  <2>1. CASE \E x \in Warehouses, u \in Variants, q \in Quantities \cup {0} : CreateStock(x, u, q)
    <3>1. PICK x \in Warehouses, u \in Variants, q \in Nat : CreateStock(x, u, q)
      BY <2>1, QuantitiesAssumption
    <3>2. /\ stock' = [stock EXCEPT ![x][u] = q]
          /\ base' = [base EXCEPT ![x][u] = base[x][u] + q]
          /\ stock[x][u] = 0
      BY <3>1 DEF CreateStock, Rowed
    <3>3. CASE x = w /\ u = v
      <4>1. stock'[w][v] = stock[w][v] + q /\ base'[w][v] = base[w][v] + q
        BY <2>0, <3>2, <3>3
      <4> QED
        BY <2>0, <4>1
    <3>4. CASE ~(x = w /\ u = v)
      <4>1. stock'[w][v] = stock[w][v] /\ base'[w][v] = base[w][v]
        BY <3>2, <3>4
      <4> QED
        BY <2>0, <4>1
    <3> QED
      BY <3>3, <3>4
  <2>2. CASE \E x \in Warehouses, u \in Variants, type \in MovementTypes, q \in Quantities :
               RegisterMovement(x, u, type, q) \/ RegisterMovement(x, u, type, -q)
    <3>1. PICK x \in Warehouses, u \in Variants, type \in MovementTypes, d \in Int :
            RegisterMovement(x, u, type, d)
      BY <2>2, QuantitiesAssumption
    <3>2. /\ stock' = [stock EXCEPT ![x][u] = stock[x][u] + d]
          /\ base' = [base EXCEPT ![x][u] = base[x][u] + d]
      BY <3>1 DEF RegisterMovement
    <3>3. CASE x = w /\ u = v
      <4>1. stock'[w][v] = stock[w][v] + d /\ base'[w][v] = base[w][v] + d
        BY <3>2, <3>3
      <4> QED
        BY <2>0, <4>1
    <3>4. CASE ~(x = w /\ u = v)
      <4>1. stock'[w][v] = stock[w][v] /\ base'[w][v] = base[w][v]
        BY <3>2, <3>4
      <4> QED
        BY <2>0, <4>1
    <3> QED
      BY <3>3, <3>4
  <2>3. CASE \E src, dst \in Warehouses, b \in Baskets : TransferStock(src, dst, b)
    <3>1. PICK src \in Warehouses, dst \in Warehouses, b \in Baskets : TransferStock(src, dst, b)
      BY <2>3
    <3>2. b[v] \in Int
      BY LinkedExitFacts
    <3>3. src # dst
      BY <3>1 DEF TransferStock
    <3>4. CASE w = src
      <4>1. stock'[w][v] = stock[w][v] - b[v] /\ base'[w][v] = base[w][v] - b[v]
        BY <3>1, <3>3, <3>4 DEF TransferStock, AfterExit
      <4> QED
        BY <2>0, <3>2, <4>1
    <3>5. CASE w = dst
      <4>1. stock'[w][v] = stock[w][v] + b[v] /\ base'[w][v] = base[w][v] + b[v]
        BY <3>1, <3>3, <3>5 DEF TransferStock, AfterEntry
      <4> QED
        BY <2>0, <3>2, <4>1
    <3>6. CASE w # src /\ w # dst
      BY <2>0, <3>1, <3>6 DEF TransferStock
    <3> QED
      BY <3>4, <3>5, <3>6
  <2> QED
    BY <2>1, <2>2, <2>3 DEF InventoryNext
<1>2. \A w \in Warehouses, v \in Variants : Balanced(w, v, others[w][v])'
  BY <1>1, BalancedInventory DEF StockBalances
<1> QED
  BY <1>2 DEF StockBalances

(* What a service of o leaves at stake for StockBalances.                  *)
LEMMA BalanceOrder ==
  ASSUME NEW others \in [Warehouses -> [Variants -> Int]],
         TypeOK, TypeOK', StockBalances(others), NEW o \in OrderIds,
         \A p \in OrderIds : p # o => /\ status'[p] = status[p]
                                      /\ warehouse'[p] = warehouse[p]
                                      /\ items'[p] = items[p],
         base' = base,
         \A w \in Warehouses, v \in Variants :
           stock'[w][v] + HeldBy(o, w, v)' = stock[w][v] + HeldBy(o, w, v)
  PROVE  StockBalances(others)'
<1>1. ASSUME NEW w \in Warehouses, NEW v \in Variants PROVE Balanced(w, v, others[w][v])'
  <2>1. \A p \in OrderIds : p # o => HeldBy(p, w, v)' = HeldBy(p, w, v)
    BY DEF HeldBy
  <2>2. Balanced(w, v, others[w][v]) /\ base'[w][v] = base[w][v]
    BY DEF StockBalances
  <2>3. stock'[w][v] + HeldBy(o, w, v)' = stock[w][v] + HeldBy(o, w, v)
    OBVIOUS
  <2> QED
    BY <2>1, <2>2, <2>3, BalancedStep
<1> QED
  BY <1>1 DEF StockBalances

LEMMA BalanceConfirm ==
  ASSUME NEW others \in [Warehouses -> [Variants -> Int]],
         OrderInv, TypeOK', StockBalances(others), NEW o \in OrderIds, ConfirmOrder(o)
  PROVE  StockBalances(others)'
<1>1. TypeOK /\ warehouse[o] \in Warehouses /\ items[o] \in [Variants -> Nat]
  BY LinkedExitFacts DEF OrderInv, Placed, ConfirmOrder, TypeOK
<1>2. /\ status[o] = "DRAFT"
      /\ status' = [status EXCEPT ![o] = "CONFIRMED"]
      /\ warehouse' = warehouse /\ items' = items /\ base' = base
      /\ stock' = [stock EXCEPT ![warehouse[o]] = AfterExit(warehouse[o], items[o])]
  BY DEF ConfirmOrder, SetOrderStatus
<1>3. ASSUME NEW w \in Warehouses, NEW v \in Variants
      PROVE  stock'[w][v] + HeldBy(o, w, v)' = stock[w][v] + HeldBy(o, w, v)
  <2>1. HeldBy(o, w, v) = 0
    BY <1>2 DEF HeldBy, Live
  <2>2. stock[w][v] \in Nat /\ items[o][v] \in Nat
    BY <1>1 DEF TypeOK, InventoryTypeOK
  <2>3. CASE w = warehouse[o]
    <3>1. HeldBy(o, w, v)' = items[o][v]
      BY <1>1, <1>2, <2>3 DEF HeldBy, Live, TypeOK
    <3>2. stock'[w][v] = stock[w][v] - items[o][v]
      BY <1>1, <1>2, <2>3 DEF AfterExit, TypeOK, InventoryTypeOK
    <3> QED
      BY <2>1, <2>2, <3>1, <3>2
  <2>4. CASE w # warehouse[o]
    <3>1. HeldBy(o, w, v)' = 0
      BY <1>2, <2>4 DEF HeldBy
    <3>2. stock'[w][v] = stock[w][v]
      BY <1>1, <1>2, <2>4 DEF TypeOK, InventoryTypeOK
    <3> QED
      BY <2>1, <3>1, <3>2
  <2> QED
    BY <2>3, <2>4
<1>4. \A p \in OrderIds : p # o => /\ status'[p] = status[p]
                                   /\ warehouse'[p] = warehouse[p]
                                   /\ items'[p] = items[p]
  BY <1>1, <1>2 DEF TypeOK
<1> QED
  BY <1>1, <1>2, <1>3, <1>4, BalanceOrder

LEMMA BalanceCancel ==
  ASSUME NEW others \in [Warehouses -> [Variants -> Int]],
         OrderInv, TypeOK', StockBalances(others), NEW o \in OrderIds, CancelOrder(o)
  PROVE  StockBalances(others)'
<1>1. TypeOK /\ items[o] \in [Variants -> Nat] /\ warehouse[o] \in Warehouses
  BY LinkedExitFacts DEF OrderInv, Placed, CancelOrder, TypeOK
<1>2. ToReturn(o) = items[o] /\ status[o] \in Live
  <2>1. status[o] \in Live /\ TraceOf(o)
    BY DEF CancelOrder, Live, OrderInv, Traceability
  <2>2. items[o] \in Baskets
    BY <1>1 DEF TypeOK
  <2> QED
    BY <2>1, <2>2, LinkedExitFacts DEF ToReturn, TraceOf
<1>3. /\ status' = [status EXCEPT ![o] = "CANCELLED"]
      /\ warehouse' = warehouse /\ items' = items /\ base' = base
      /\ stock' = [stock EXCEPT ![warehouse[o]] = AfterEntry(warehouse[o], items[o])]
  BY <1>2 DEF CancelOrder, SetOrderStatus
<1>4. ASSUME NEW w \in Warehouses, NEW v \in Variants
      PROVE  stock'[w][v] + HeldBy(o, w, v)' = stock[w][v] + HeldBy(o, w, v)
  <2>1. HeldBy(o, w, v)' = 0
    BY <1>1, <1>3 DEF HeldBy, Live, TypeOK
  <2>2. stock[w][v] \in Nat /\ items[o][v] \in Nat
    BY <1>1 DEF TypeOK, InventoryTypeOK
  <2>3. CASE w = warehouse[o]
    <3>1. HeldBy(o, w, v) = items[o][v]
      BY <1>2, <2>3 DEF HeldBy
    <3>2. stock'[w][v] = stock[w][v] + items[o][v]
      BY <1>1, <1>3, <2>3 DEF AfterEntry, TypeOK, InventoryTypeOK
    <3> QED
      BY <2>1, <2>2, <3>1, <3>2
  <2>4. CASE w # warehouse[o]
    <3>1. HeldBy(o, w, v) = 0
      BY <2>4 DEF HeldBy
    <3>2. stock'[w][v] = stock[w][v]
      BY <1>1, <1>3, <2>4 DEF TypeOK, InventoryTypeOK
    <3> QED
      BY <2>1, <3>1, <3>2
  <2> QED
    BY <2>3, <2>4
<1>5. \A p \in OrderIds : p # o => /\ status'[p] = status[p]
                                   /\ warehouse'[p] = warehouse[p]
                                   /\ items'[p] = items[p]
  BY <1>1, <1>3 DEF TypeOK
<1> QED
  BY <1>1, <1>3, <1>4, <1>5, BalanceOrder

(* The other services change neither stock nor what an order holds.        *)
LEMMA BalanceQuiet ==
  ASSUME NEW others \in [Warehouses -> [Variants -> Int]],
         TypeOK, TypeOK', StockBalances(others), NEW o \in OrderIds, UNCHANGED <<stock, base>>,
         \A p \in OrderIds : p # o => /\ status'[p] = status[p]
                                      /\ warehouse'[p] = warehouse[p]
                                      /\ items'[p] = items[p],
         \/ status[o] \notin Live /\ status'[o] \notin Live
         \/ /\ status[o] \in Live /\ status'[o] \in Live
            /\ UNCHANGED <<warehouse, items>>
  PROVE  StockBalances(others)'
<1>1. ASSUME NEW w \in Warehouses, NEW v \in Variants
      PROVE  stock'[w][v] + HeldBy(o, w, v)' = stock[w][v] + HeldBy(o, w, v)
  BY DEF HeldBy
<1> QED
  BY <1>1, BalanceOrder

LEMMA BalanceNext ==
  ASSUME NEW others \in [Warehouses -> [Variants -> Int]],
         OrderInv, OrderInv', Rowed, StockBalances(others), [Next]_vars
  PROVE  StockBalances(others)'
<1>0. TypeOK /\ TypeOK'
  BY DEF OrderInv
<1>1. CASE InventoryNext /\ UNCHANGED orderVars
  BY <1>0, <1>1, BalanceInventory
<1>2. ASSUME NEW o \in OrderIds, OrderNext(o) PROVE StockBalances(others)'
  <2>1. CASE \E w \in Warehouses, b \in Baskets : CreateDraftOrder(o, w, b) \/ UpdateDraftOrder(o, w, b)
    <3>1. PICK w \in Warehouses, b \in Baskets : CreateDraftOrder(o, w, b) \/ UpdateDraftOrder(o, w, b)
      BY <2>1
    <3>2. /\ UNCHANGED <<stock, base>>
          /\ \A p \in OrderIds : p # o => /\ status'[p] = status[p]
                                          /\ warehouse'[p] = warehouse[p]
                                          /\ items'[p] = items[p]
          /\ status[o] \notin Live /\ status'[o] \notin Live
      BY <1>0, <3>1 DEF CreateDraftOrder, UpdateDraftOrder, inventoryVars, TypeOK, Live
    <3> QED
      BY <1>0, <3>2, BalanceQuiet
  <2>2. CASE ConfirmOrder(o)
    BY <1>0, <2>2, BalanceConfirm
  <2>3. CASE PrepareOrder(o) \/ DeliverOrder(o) \/ CancelDraft(o)
    <3>1. UNCHANGED <<stock, base, warehouse, items>>
      BY <2>3 DEF PrepareOrder, DeliverOrder, CancelDraft, inventoryVars
    <3>2. \A p \in OrderIds : p # o => status'[p] = status[p]
      BY <1>0, <2>3 DEF PrepareOrder, DeliverOrder, CancelDraft, SetOrderStatus, TypeOK
    <3>3. \/ status[o] \notin Live /\ status'[o] \notin Live
          \/ status[o] \in Live /\ status'[o] \in Live
      BY <1>0, <2>3 DEF PrepareOrder, DeliverOrder, CancelDraft, SetOrderStatus, TypeOK, Live
    <3> QED
      BY <1>0, <3>1, <3>2, <3>3, BalanceQuiet
  <2>4. CASE CancelOrder(o)
    BY <1>0, <2>4, BalanceCancel
  <2>5. CASE \E s \in CheckoutStatuses : CheckoutMoves(o, s)
    <3>1. UNCHANGED <<stock, base, status, warehouse, items>>
      BY <2>5 DEF CheckoutMoves, inventoryVars
    <3>2. \/ status[o] \notin Live /\ status'[o] \notin Live
          \/ status[o] \in Live /\ status'[o] \in Live
      BY <3>1
    <3> QED
      BY <1>0, <3>1, <3>2, BalanceQuiet
  <2> QED
    BY <1>2, <2>1, <2>2, <2>3, <2>4, <2>5 DEF OrderNext
<1>3. CASE UNCHANGED vars
  <2>1. UNCHANGED <<stock, base, orderVars>>
    BY <1>3 DEF vars, inventoryVars
  <2>2. \A w \in Warehouses, v \in Variants : stock'[w][v] - stock[w][v] = base'[w][v] - base[w][v]
    BY <1>0, <2>1 DEF TypeOK, InventoryTypeOK
  <2>3. \A w \in Warehouses, v \in Variants : Balanced(w, v, others[w][v])'
    BY <1>0, <2>1, <2>2, BalancedInventory DEF StockBalances
  <2> QED
    BY <2>3 DEF StockBalances
<1> QED
  BY <1>1, <1>2, <1>3 DEF Next

(* Conservation is the balance when nothing else takes goods.              *)
LEMMA BalanceConserves == OrderInv /\ StockBalances(Nothing) => Conservation
<1> SUFFICES ASSUME OrderInv, StockBalances(Nothing), NEW w \in Warehouses, NEW v \in Variants
             PROVE  stock[w][v] + Cardinality(UnitsOut(w, v)) = base[w][v]
  BY DEF Conservation
<1>1. UnitsOut(w, v) = Columns(Held(w, v))
  BY UnitsAreColumns
<1> QED
  BY <1>1, FS_CardinalityType
  DEF StockBalances, Balanced, Nothing, NoItems, OrderInv, TypeOK, InventoryTypeOK

(* No interleaving of services loses goods, doubles them or moves them to  *)
(* another warehouse: stock is always what the inventory operations left   *)
(* there minus what live orders took.                                      *)
THEOREM ConservationHolds == Spec => []Conservation
<1>1. Init => OrderInv /\ Rowed /\ StockBalances(Nothing)
  BY OrderInvInit, RowedInit, BalanceInit
<1>2. OrderInv /\ Rowed /\ StockBalances(Nothing) /\ [Next]_vars
        => (OrderInv /\ Rowed /\ StockBalances(Nothing))'
  <2>1. Nothing \in [Warehouses -> [Variants -> Int]]
    BY NoItemsFacts DEF Nothing
  <2> QED
    BY <2>1, OrderInvNext, RowedNext, BalanceNext
<1> QED
  BY BalanceConserves, <1>1, <1>2, PTL DEF Spec

------------------------------------------------------------------------------
(***************************************************************************)
(* Orders implements OrderLifecycle.  The links say which goods an order   *)
(* has, and by Traceability they agree with its status.                    *)
(***************************************************************************)
Goods == [o \in OrderIds |-> GoodsOf(o)]

LEMMA GoodsFacts ==
  ASSUME OrderInv, NEW o \in OrderIds
  PROVE  /\ status[o] \in {"NONE", "DRAFT"} => GoodsOf(o) = "none"
         /\ status[o] \in Live => GoodsOf(o) = "held"
<1>1. TraceOf(o) /\ items[o] \in Baskets
  BY DEF OrderInv, Traceability, TypeOK
<1>2. \A k \in Kinds : links[o][k] = NoItems => Linked(o, k) = {}
  BY DEF Linked, NoItems
<1>3. "CONFIRMATION" \in Kinds /\ "CANCELLATION" \in Kinds
  BY DEF Kinds
<1>4. ASSUME status[o] \in Live PROVE Linked(o, "CONFIRMATION") # {}
  <2>1. links[o]["CONFIRMATION"] = LinkedExit(items[o]) /\ Listed(items[o]) # {}
    BY <1>1, <1>4 DEF TraceOf
  <2> QED
    BY <1>1, <2>1, LinkedExitFacts DEF Linked, Listed
<1> QED
  BY <1>1, <1>2, <1>3, <1>4 DEF GoodsOf, TraceOf, Live

(* The goods of an order change only with its links.                       *)
LEMMA GoodsUpdate ==
  ASSUME NEW o \in OrderIds,
         \A p \in OrderIds : p # o => links'[p] = links[p]
  PROVE  Goods' = [Goods EXCEPT ![o] = GoodsOf(o)']
<1>1. \A p \in OrderIds : p # o => GoodsOf(p)' = GoodsOf(p)
  BY DEF GoodsOf, Linked
<1> QED
  BY <1>1 DEF Goods

LEMMA LifecycleOrder ==
  ASSUME OrderInv, OrderInv', NEW o \in OrderIds, OrderNext(o)
  PROVE  Lifecycle!Next \/ UNCHANGED <<status, Goods>>
<1>0. TypeOK
  BY DEF OrderInv
<1>1. Goods[o] = GoodsOf(o)
  BY DEF Goods
<1>2. \A p \in OrderIds : p # o => links'[p] = links[p]
  BY <1>0 DEF OrderNext, CreateDraftOrder, UpdateDraftOrder, ConfirmOrder, PrepareOrder,
              DeliverOrder, CancelDraft, CancelOrder, CheckoutMoves, TypeOK
<1>3. Goods' = [Goods EXCEPT ![o] = GoodsOf(o)']
  BY <1>2, GoodsUpdate
<1>4. GoodsOf(o)' = GoodsOf(o) => Goods' = Goods
  BY <1>1, <1>3 DEF Goods
<1>5. links' = links => GoodsOf(o)' = GoodsOf(o)
  BY DEF GoodsOf, Linked
<1> USE DEF Lifecycle!Next, Lifecycle!Move
<1>6. CASE \E w \in Warehouses, b \in Baskets : CreateDraftOrder(o, w, b)
  <2>1. Lifecycle!Draft(o)
    BY <1>4, <1>5, <1>6 DEF CreateDraftOrder, Lifecycle!Draft, Goods
  <2> QED
    BY <2>1
<1>7. CASE \E w \in Warehouses, b \in Baskets : UpdateDraftOrder(o, w, b)
  BY <1>4, <1>5, <1>7 DEF UpdateDraftOrder
<1>8. CASE ConfirmOrder(o)
  <2>1. status[o] = "DRAFT" /\ status' = [status EXCEPT ![o] = "CONFIRMED"]
    BY <1>8 DEF ConfirmOrder, SetOrderStatus
  <2>2. GoodsOf(o) = "none"
    BY <2>1, GoodsFacts
  <2>3. GoodsOf(o)' = "held"
    <3>1. TraceOf(o)' /\ status'[o] \in Live /\ items'[o] \in Baskets
      BY <1>0, <2>1 DEF OrderInv, Traceability, Live, TypeOK
    <3>2. \A v \in Variants : links'[o]["CANCELLATION"][v] = 0
      BY <3>1 DEF TraceOf, NoItems
    <3>3. \E v \in Variants : links'[o]["CONFIRMATION"][v] # 0
      BY <3>1, LinkedExitFacts DEF TraceOf, Listed
    <3> QED
      BY <3>2, <3>3 DEF GoodsOf, Linked
  <2>4. Lifecycle!Take(o)
    BY <1>1, <1>3, <2>1, <2>2, <2>3 DEF Lifecycle!Take, Goods
  <2> QED
    BY <2>4
<1>9. CASE PrepareOrder(o) \/ DeliverOrder(o)
  <2>1. GoodsOf(o) = "held"
    BY <1>9, GoodsFacts DEF PrepareOrder, DeliverOrder, Live
  <2>2. Lifecycle!Progress(o)
    BY <1>1, <1>4, <1>5, <1>9, <2>1
       DEF PrepareOrder, DeliverOrder, SetOrderStatus, Lifecycle!Progress, Goods
  <2> QED
    BY <2>2
<1>10. CASE CancelDraft(o)
  <2>1. GoodsOf(o) = "none"
    BY <1>10, GoodsFacts DEF CancelDraft
  <2>2. Lifecycle!Drop(o)
    BY <1>1, <1>4, <1>5, <1>10, <2>1 DEF CancelDraft, SetOrderStatus, Lifecycle!Drop, Goods
  <2> QED
    BY <2>2
<1>11. CASE CancelOrder(o)
  <2>1. /\ status[o] \in {"CONFIRMED", "PREPARED"}
        /\ status' = [status EXCEPT ![o] = "CANCELLED"]
        /\ links' = [links EXCEPT ![o]["CANCELLATION"] = ToReturn(o)]
    BY <1>11 DEF CancelOrder, SetOrderStatus
  <2>2. GoodsOf(o) = "held"
    BY <2>1, GoodsFacts DEF Live
  <2>3. GoodsOf(o)' = "returned"
    <3>1. TraceOf(o) /\ items[o] \in Baskets /\ Listed(items[o]) # {}
      BY <1>0, <2>1 DEF OrderInv, Traceability, TraceOf, Live, TypeOK
    <3>2. ToReturn(o) = items[o]
      BY <2>1, <3>1, LinkedExitFacts DEF ToReturn, TraceOf, Live
    <3>3. links'[o]["CANCELLATION"] = items[o]
      BY <1>0, <2>1, <3>2 DEF TypeOK, Kinds
    <3> QED
      BY <3>1, <3>3 DEF GoodsOf, Linked, Listed
  <2>4. Lifecycle!GiveBack(o)
    BY <1>1, <1>3, <2>1, <2>2, <2>3 DEF Lifecycle!GiveBack, Goods
  <2> QED
    BY <2>4
<1>12. CASE \E s \in CheckoutStatuses : CheckoutMoves(o, s)
  BY <1>4, <1>5, <1>12 DEF CheckoutMoves
<1> QED
  BY <1>6, <1>7, <1>8, <1>9, <1>10, <1>11, <1>12 DEF OrderNext

LEMMA LifecycleNext ==
  OrderInv /\ OrderInv' /\ [Next]_vars => [Lifecycle!Next]_<<status, Goods>>
<1> SUFFICES ASSUME OrderInv, OrderInv', [Next]_vars
             PROVE  Lifecycle!Next \/ UNCHANGED <<status, Goods>>
  OBVIOUS
<1>1. CASE UNCHANGED orderVars
  BY <1>1 DEF orderVars, Goods, GoodsOf, Linked
<1>2. CASE \E o \in OrderIds : OrderNext(o)
  BY <1>2, LifecycleOrder
<1> QED
  BY <1>1, <1>2 DEF Next, vars

LEMMA LifecycleInit == Init => Lifecycle!Init
  BY DEF Init, Lifecycle!Init, GoodsOf, Linked, NoItems, Kinds

(* Whatever inventory, payments and other orders do, an order takes its    *)
(* goods once, gives them back at most once and never leaves DELIVERED or  *)
(* CANCELLED.                                                              *)
THEOREM ImplementsLifecycle == Spec => LifecycleSpec
<1>1. Lifecycle!lifecycleVars = <<status, Goods>>
  BY DEF Lifecycle!lifecycleVars, Goods
<1>2. OrderInv /\ OrderInv' /\ [Next]_vars => [Lifecycle!Next]_(Lifecycle!lifecycleVars)
  BY <1>1, LifecycleNext DEF Lifecycle!lifecycleVars, Goods
<1> QED
  BY OrderInvInit, OrderInvNext, LifecycleInit, <1>2, PTL DEF Spec, LifecycleSpec, Lifecycle!Spec

------------------------------------------------------------------------------
(***************************************************************************)
(* Sales.                                                                  *)
(***************************************************************************)

(* What Sale.clean checks of the columns and of the order of a sale; that  *)
(* a direct sale is paid or cancelled (it is made with its whole payment,  *)
(* and never pending); and that the warehouse fitted when it was made.     *)
SaleFits(s) ==
  Sold(s) =>
    /\ sales[s].status = "PENDING" => sales[s].paid = 0
    /\ sales[s].status = "PARTIAL" => sales[s].paid \in 1..(sales[s].total - 1)
    /\ sales[s].status = "PAID" => sales[s].paid = sales[s].total
    /\ sales[s].status = "CANCELLED" => sales[s].paid = 0
    /\ sales[s].origin = "ORDER" => /\ status[sales[s].order] = "DELIVERED"
                                    /\ sales[s].order \in OrderIds
                                    /\ sales[s].warehouse = warehouse[sales[s].order]
                                    /\ sales[s].items = items[sales[s].order]
    /\ sales[s].origin = "POS" => sales[s].order = NoOrder /\ sales[s].status \in {"PAID", "CANCELLED"}
    /\ sales[s].place \in {NoBranch, sales[s].branch}

SalesInv == OrderInv /\ SalesTypeOK /\ \A s \in SaleIds : SaleFits(s)

LEMMA SalesInvInit == SalesInit => SalesInv
<1> SUFFICES ASSUME SalesInit PROVE SalesInv
  OBVIOUS
<1>1. OrderInv
  BY OrderInvInit DEF SalesInit
<1>2. SalesTypeOK
  BY <1>1, NoItemsFacts DEF SalesInit, SalesTypeOK, OrderInv
<1>3. \A s \in SaleIds : SaleFits(s)
  BY DEF SalesInit, SaleFits, Sold
<1> QED
  BY <1>1, <1>2, <1>3 DEF SalesInv

(* A delivered order is over: nothing of it that a sale copied changes.    *)
LEMMA DeliveredStays ==
  ASSUME TypeOK, [Next]_vars, NEW o \in OrderIds, status[o] = "DELIVERED"
  PROVE  status'[o] = "DELIVERED" /\ warehouse'[o] = warehouse[o] /\ items'[o] = items[o]
<1> USE DEF TypeOK
<1>1. ASSUME NEW p \in OrderIds, OrderNext(p)
      PROVE  status'[o] = "DELIVERED" /\ warehouse'[o] = warehouse[o] /\ items'[o] = items[o]
  BY <1>1 DEF OrderNext, CreateDraftOrder, UpdateDraftOrder, ConfirmOrder, PrepareOrder,
              DeliverOrder, CancelDraft, CancelOrder, CheckoutMoves, SetOrderStatus
<1> QED
  BY <1>1 DEF Next, vars, orderVars

(* The services of orders and stock leave the sales as they are.           *)
LEMMA SalesInvOrders ==
  ASSUME SalesInv, [Next]_vars, UNCHANGED saleVars
  PROVE  SalesInv'
<1>1. OrderInv'
  BY OrderInvNext DEF SalesInv
<1>2. SalesTypeOK'
  BY <1>1 DEF SalesInv, SalesTypeOK, OrderInv, saleVars
<1>3. ASSUME NEW s \in SaleIds PROVE SaleFits(s)'
  <2>1. SaleFits(s) /\ TypeOK /\ sales' = sales
    BY DEF SalesInv, OrderInv, saleVars
  <2>2. \A o \in OrderIds : status[o] = "DELIVERED" =>
          status'[o] = "DELIVERED" /\ warehouse'[o] = warehouse[o] /\ items'[o] = items[o]
    BY <2>1, DeliveredStays
  <2> QED
    BY <2>1, <2>2 DEF SaleFits, Sold
<1> QED
  BY <1>1, <1>2, <1>3 DEF SalesInv

(* The columns a service may write, and what must hold of the sale it      *)
(* writes them to.                                                         *)
LEMMA SalesInvStep ==
  ASSUME SalesInv, OrderInv', UNCHANGED orderVars, NEW s \in SaleIds,
         NEW row \in SaleRows, sales' = [sales EXCEPT ![s] = row], SaleFits(s)',
         payments' \subseteq PaymentRows,
         \E log \in Seq(EventRows) : events' = [events EXCEPT ![s] = log],
         \/ UNCHANGED moved
         \/ \E k \in MoveKinds, d \in [Variants -> Int] : moved' = [moved EXCEPT ![s][k] = d],
         reversal' \in [SaleIds -> References \cup {NoReference}],
         nextSale' \in Nat \ {0}, branchOf' = branchOf
  PROVE  SalesInv'
<1>1. SalesTypeOK'
  <2> USE DEF SalesInv, SalesTypeOK
  <2>1. sales' \in [SaleIds -> SaleRows \cup {NoSale}]
    OBVIOUS
  <2>2. moved' \in [SaleIds -> [MoveKinds -> [Variants -> Int]]]
    <3>1. CASE UNCHANGED moved
      BY <3>1
    <3>2. CASE \E k \in MoveKinds, d \in [Variants -> Int] : moved' = [moved EXCEPT ![s][k] = d]
      <4>1. PICK k \in MoveKinds, d \in [Variants -> Int] : moved' = [moved EXCEPT ![s][k] = d]
        BY <3>2
      <4> QED
        BY <4>1
    <3> QED
      BY <3>1, <3>2
  <2>3. events' \in [SaleIds -> Seq(EventRows)]
    OBVIOUS
  <2> QED
    BY <2>1, <2>2, <2>3 DEF OrderInv
<1>2. ASSUME NEW r \in SaleIds, r # s PROVE SaleFits(r)'
  <2>1. SaleFits(r) /\ sales'[r] = sales[r] /\ UNCHANGED <<status, warehouse, items>>
    BY <1>2 DEF SalesInv, SalesTypeOK, orderVars
  <2> QED
    BY <2>1 DEF SaleFits, Sold
<1> QED
  BY <1>1, <1>2 DEF SalesInv

LEMMA Logs ==
  ASSUME NEW S, NEW log \in Seq(S), NEW x \in S, NEW y \in S
  PROVE  <<x>> \in Seq(S) /\ <<x, y>> \in Seq(S) /\ Append(log, x) \in Seq(S)
  OBVIOUS

(* Status and amount paid are the columns that services write later.       *)
Changed(row, n, st) == [row EXCEPT !.paid = n, !.status = st]
Rewrites(new, row, n, st) ==
  /\ new \in SaleRows
  /\ new.paid = n /\ new.status = st /\ new.total = row.total /\ new.key = row.key
  /\ new.origin = row.origin /\ new.order = row.order
  /\ new.branch = row.branch /\ new.place = row.place
  /\ new.warehouse = row.warehouse /\ new.items = row.items

LEMMA RowChanges ==
  ASSUME NEW row \in SaleRows, NEW n \in Nat, NEW st \in SaleStatuses
  PROVE  Rewrites(Changed(row, n, st), row, n, st)
  BY DEF SaleRows, Changed, Rewrites

LEMMA CancelledRow ==
  ASSUME NEW row \in SaleRows
  PROVE  Rewrites(Changed(row, 0, "CANCELLED"), row, 0, "CANCELLED")
<1>1. "CANCELLED" \in SaleStatuses /\ 0 \in Nat
  BY DEF SaleStatuses
<1> QED
  BY <1>1, RowChanges, Zenon

(* An event row for a status of the sale, in the log of the sale.          *)
LEMMA LogGrows ==
  ASSUME NEW log \in Seq(EventRows), NEW type \in EventTypes, NEW new \in SaleStatuses,
         NEW old \in SaleStatuses \cup {""}, NEW amount \in Nat
  PROVE  /\ Event(type, old, new, amount) \in EventRows
         /\ Append(log, Event(type, old, new, amount)) \in Seq(EventRows)
<1>1. Event(type, old, new, amount) \in EventRows
  BY DEF Event, EventRows
<1> QED
  BY <1>1, Logs

(* What a sale that exists is made of.                                     *)
LEMMA SoldFacts ==
  ASSUME SalesInv, NEW s \in SaleIds, Sold(s)
  PROVE  /\ sales[s] \in SaleRows
         /\ sales[s].status \in SaleStatuses /\ sales[s].total \in Nat /\ sales[s].paid \in Nat
         /\ sales[s].items \in Baskets /\ sales[s].warehouse \in Warehouses
         /\ events[s] \in Seq(EventRows)
  BY DEF SalesInv, SalesTypeOK, Sold, SaleRows

(* The rows that the two services create.                                  *)
OrderSale(o, key, br, t, initial) ==
  [origin |-> "ORDER", order |-> o, branch |-> br, warehouse |-> warehouse[o],
   place |-> branchOf[warehouse[o]], items |-> items[o], status |-> initial,
   total |-> t, paid |-> 0, key |-> key, number |-> nextSale]
PosSale(key, br, w, b, t) ==
  [origin |-> "POS", order |-> NoOrder, branch |-> br, warehouse |-> w,
   place |-> branchOf[w], items |-> b, status |-> "PAID",
   total |-> t, paid |-> t, key |-> key, number |-> nextSale]

LEMMA OrderSaleRow ==
  ASSUME SalesInv, NEW o \in OrderIds, NEW key \in Keys, NEW br \in Branches,
         NEW t \in Totals, NEW initial \in SaleStatuses, status[o] = "DELIVERED"
  PROVE  OrderSale(o, key, br, t, initial) \in SaleRows
<1>1. warehouse[o] \in Warehouses /\ items[o] \in Baskets /\ nextSale \in Nat \ {0}
      /\ branchOf[warehouse[o]] \in Branches \cup {NoBranch}
  BY DEF SalesInv, SalesTypeOK, OrderInv, TypeOK, Placed
<1>2. t \in Nat
  BY TotalsAssumption
<1> QED
  BY <1>1, <1>2 DEF OrderSale, SaleRows, SaleStatuses

LEMMA PosSaleRow ==
  ASSUME SalesInv, NEW key \in Keys, NEW br \in Branches, NEW w \in Warehouses,
         NEW b \in Baskets, NEW t \in Nat
  PROVE  PosSale(key, br, w, b, t) \in SaleRows
<1>1. nextSale \in Nat \ {0} /\ branchOf[w] \in Branches \cup {NoBranch}
  BY DEF SalesInv, SalesTypeOK
<1> QED
  BY <1>1 DEF PosSale, SaleRows, SaleStatuses

LEMMA SalesInvCreate ==
  ASSUME SalesInv, NEW s \in SaleIds, NEW o \in OrderIds, NEW key \in Keys, NEW br \in Branches,
         NEW t \in Totals, NEW initial \in SaleStatuses,
         CreateSale(s, o, key, br, t, initial)
  PROVE  SalesInv'
<1> DEFINE row == OrderSale(o, key, br, t, initial)
<1>1. UNCHANGED vars /\ UNCHANGED <<payments, moved, reversal, branchOf>>
      /\ nextSale' = nextSale + 1 /\ status[o] = "DELIVERED"
      /\ (initial = "PENDING" \/ (initial = "PAID" /\ t = 0))
      /\ branchOf[warehouse[o]] \in {NoBranch, br}
  BY DEF CreateSale, BranchFits
<1>2. OrderInv'
  BY <1>1, OrderInvNext DEF SalesInv
<1>3. t \in Nat
  BY TotalsAssumption
<1>4. sales' = [sales EXCEPT ![s] = row]
  BY DEF CreateSale, OrderSale
<1>5. row \in SaleRows
  BY <1>1, OrderSaleRow
<1>6. SaleFits(s)'
  <2>1. sales'[s] = row
    BY <1>4 DEF SalesInv, SalesTypeOK
  <2> QED
    BY <1>1, <2>1 DEF OrderSale, SaleFits, vars, orderVars
<1>7. events' = [events EXCEPT ![s] = <<Event("CREATED", "", initial, 0)>>]
  BY DEF CreateSale
<1>8. <<Event("CREATED", "", initial, 0)>> \in Seq(EventRows)
  <2>1. Event("CREATED", "", initial, 0) \in EventRows
    BY DEF Event, EventRows, EventTypes
  <2>2. << >> \in Seq(EventRows)
    OBVIOUS
  <2> QED
    BY <2>1, <2>2, Logs
<1>9. /\ payments' \subseteq PaymentRows /\ reversal' \in [SaleIds -> References \cup {NoReference}]
      /\ nextSale' \in Nat \ {0} /\ UNCHANGED orderVars
  BY <1>1 DEF SalesInv, SalesTypeOK, vars
<1> HIDE DEF row
<1> QED
  BY <1>1, <1>2, <1>4, <1>5, <1>6, <1>7, <1>8, <1>9, SalesInvStep

LEMMA SalesInvCreatePos ==
  ASSUME SalesInv, NEW s \in SaleIds, NEW key \in Keys, NEW br \in Branches,
         NEW w \in Warehouses, NEW b \in Baskets, NEW ref \in References, NEW t \in Totals,
         CreatePosSale(s, key, br, w, b, ref, t)
  PROVE  SalesInv'
<1> DEFINE row == PosSale(key, br, w, b, t)
           made == Event("CREATED", "", "PAID", 0)
           collected == Event("PAYMENT_RECORDED", "PAID", "PAID", t)
           log == <<made, collected>>
<1>1. UNCHANGED <<rows, base, orderVars, reversal, branchOf>> /\ nextSale' = nextSale + 1
      /\ stock' = [stock EXCEPT ![w] = AfterExit(w, b)] /\ CanExit(w, b)
      /\ branchOf[w] \in {NoBranch, br}
  BY DEF CreatePosSale, BranchFits
<1>2. OrderInv'
  <2>1. AfterExit(w, b) \in [Variants -> Nat]
    BY <1>1, LinkedExitFacts DEF CanExit, AfterExit, SalesInv, OrderInv, TypeOK, InventoryTypeOK
  <2>2. InventoryTypeOK'
    BY <1>1, <2>1 DEF SalesInv, OrderInv, TypeOK, InventoryTypeOK
  <2>3. TypeOK'
    BY <1>1, <2>2 DEF SalesInv, OrderInv, TypeOK, orderVars
  <2>4. Placed' /\ Traceability'
    BY <1>1 DEF SalesInv, orderVars, OrderInv, Placed, Traceability, TraceOf, Traceable, Linked
  <2> QED
    BY <2>3, <2>4 DEF OrderInv
<1>3. t \in Nat \ {0}
  <2>1. t > 0
    BY DEF CreatePosSale
  <2> QED
    BY <2>1, TotalsAssumption
<1>4. sales' = [sales EXCEPT ![s] = row]
  BY DEF CreatePosSale, PosSale
<1>5. row \in SaleRows
  BY <1>3, PosSaleRow
<1>6. SaleFits(s)'
  <2>1. sales'[s] = row
    BY <1>4 DEF SalesInv, SalesTypeOK
  <2> QED
    BY <1>1, <2>1 DEF SaleFits, PosSale
<1>7. events' = [events EXCEPT ![s] = log]
  BY DEF CreatePosSale
<1>8. log \in Seq(EventRows)
  <2>1. made \in EventRows /\ collected \in EventRows
    BY <1>3 DEF Event, EventRows, EventTypes, SaleStatuses
  <2> HIDE DEF made, collected
  <2>2. << >> \in Seq(EventRows)
    OBVIOUS
  <2> QED
    BY <2>1, <2>2, Logs
<1>9. payments' \subseteq PaymentRows
  <2>1. payments' = payments \cup {[sale |-> s, key |-> key, amount |-> t, reference |-> ref]}
    BY DEF CreatePosSale
  <2> QED
    BY <1>3, <2>1 DEF SalesInv, SalesTypeOK, PaymentRows
<1>10. \E k \in MoveKinds, d \in [Variants -> Int] : moved' = [moved EXCEPT ![s][k] = d]
  <2>1. moved' = [moved EXCEPT ![s]["SALE"] = LinkedExit(b)]
    BY DEF CreatePosSale
  <2> QED
    BY <2>1, LinkedExitFacts DEF MoveKinds
<1>11. reversal' \in [SaleIds -> References \cup {NoReference}] /\ nextSale' \in Nat \ {0}
  BY <1>1 DEF SalesInv, SalesTypeOK
<1> HIDE DEF row, log
<1> QED
  BY <1>1, <1>2, <1>4, <1>5, <1>6, <1>7, <1>8, <1>9, <1>10, <1>11, SalesInvStep

LEMMA SalesInvPayment ==
  ASSUME SalesInv, NEW s \in SaleIds, NEW key \in Keys, NEW a \in Nat \ {0},
         NEW ref \in References, RecordPayment(s, key, a, ref)
  PROVE  SalesInv'
<1> DEFINE paid == sales[s].paid + a
           new == IF paid = sales[s].total THEN "PAID" ELSE "PARTIAL"
           row == Changed(sales[s], paid, new)
<1>1. UNCHANGED <<vars, moved, reversal, nextSale, branchOf>> /\ Sold(s)
      /\ sales[s].status \notin {"CANCELLED", "PAID"} /\ a <= sales[s].total - sales[s].paid
  BY DEF RecordPayment, Balance
<1>2. OrderInv'
  BY <1>1, OrderInvNext DEF SalesInv
<1>3. sales' = [sales EXCEPT ![s] = row]
  BY DEF RecordPayment, SalesInv, SalesTypeOK, Changed
<1>4. /\ sales[s] \in SaleRows /\ sales[s].paid \in Nat /\ sales[s].total \in Nat
      /\ sales[s].status \in SaleStatuses /\ events[s] \in Seq(EventRows)
  BY <1>1, SoldFacts
<1>5. paid \in 1..sales[s].total /\ new \in SaleStatuses
  BY <1>1, <1>4 DEF SaleStatuses
<1>6. Rewrites(row, sales[s], paid, new) /\ row \in SaleRows
  <2>1. paid \in Nat
    BY <1>4
  <2> HIDE DEF paid, new
  <2>2. Rewrites(row, sales[s], paid, new)
    BY <1>4, <1>5, <2>1, RowChanges, Zenon
  <2> QED
    BY <2>2 DEF Rewrites
<1>7. SaleFits(s)'
  <2>1. sales'[s] = row
    BY <1>3 DEF SalesInv, SalesTypeOK
  <2>2. SaleFits(s)
    BY DEF SalesInv
  <2>3. /\ row.paid = paid /\ row.status = new /\ row.total = sales[s].total
        /\ row.origin = sales[s].origin /\ row.order = sales[s].order
        /\ row.branch = sales[s].branch /\ row.place = sales[s].place
        /\ row.warehouse = sales[s].warehouse /\ row.items = sales[s].items
    BY <1>6 DEF Rewrites
  <2>4. sales[s].origin # "POS"
    BY <1>1, <2>2 DEF SaleFits
  <2>5. new = "PARTIAL" => paid \in 1..(sales[s].total - 1)
    BY <1>4, <1>5
  <2> HIDE DEF row, paid
  <2> QED
    BY <1>1, <2>1, <2>2, <2>3, <2>4, <2>5 DEF SaleFits, vars, orderVars
<1>8. \E log \in Seq(EventRows) : events' = [events EXCEPT ![s] = log]
  <2>1. events' = [events EXCEPT ![s] = Append(events[s],
                     Event("PAYMENT_RECORDED", sales[s].status, new, a))]
    BY DEF RecordPayment
  <2> QED
    BY <1>4, <1>5, <2>1, LogGrows DEF EventTypes
<1>9. payments' \subseteq PaymentRows
  <2>1. payments' = payments \cup {[sale |-> s, key |-> key, amount |-> a, reference |-> ref]}
    BY DEF RecordPayment
  <2> QED
    BY <2>1 DEF SalesInv, SalesTypeOK, PaymentRows
<1>10. /\ reversal' \in [SaleIds -> References \cup {NoReference}]
       /\ nextSale' \in Nat \ {0} /\ UNCHANGED orderVars
  BY <1>1 DEF SalesInv, SalesTypeOK, vars
<1> HIDE DEF row
<1> QED
  BY <1>1, <1>2, <1>3, <1>6, <1>7, <1>8, <1>9, <1>10, SalesInvStep

LEMMA SalesInvCancel ==
  ASSUME SalesInv, NEW s \in SaleIds, CancelSale(s)
  PROVE  SalesInv'
<1> DEFINE row == Changed(sales[s], 0, "CANCELLED")
<1>1. UNCHANGED <<vars, payments, moved, reversal, nextSale, branchOf>> /\ Sold(s)
      /\ sales[s].status = "PENDING" /\ sales[s].paid = 0
  BY DEF CancelSale
<1>2. OrderInv'
  BY <1>1, OrderInvNext DEF SalesInv
<1>3. sales[s] \in SaleRows /\ events[s] \in Seq(EventRows)
  BY <1>1, SoldFacts
<1>4. sales' = [sales EXCEPT ![s] = row]
  <2>1. row = [sales[s] EXCEPT !.status = "CANCELLED"]
    BY <1>1, <1>3 DEF Changed, SaleRows
  <2>2. sales' = [sales EXCEPT ![s] = [sales[s] EXCEPT !.status = "CANCELLED"]]
    BY DEF CancelSale
  <2> QED
    BY <2>1, <2>2
<1>5. /\ row \in SaleRows
      /\ row.paid = 0 /\ row.status = "CANCELLED" /\ row.origin = sales[s].origin
      /\ row.branch = sales[s].branch /\ row.place = sales[s].place
      /\ row.order = sales[s].order /\ row.warehouse = sales[s].warehouse
      /\ row.items = sales[s].items
  <2>1. Rewrites(row, sales[s], 0, "CANCELLED")
    BY <1>3, CancelledRow
  <2> QED
    BY <2>1 DEF Rewrites
<1>6. SaleFits(s)'
  <2>1. sales'[s] = row
    BY <1>4 DEF SalesInv, SalesTypeOK
  <2>2. SaleFits(s)
    BY DEF SalesInv
  <2> HIDE DEF row
  <2> QED
    BY <1>1, <1>5, <2>1, <2>2 DEF SaleFits, vars, orderVars
<1>7. \E log \in Seq(EventRows) : events' = [events EXCEPT ![s] = log]
  <2>1. events' = [events EXCEPT ![s] = Append(events[s], Event("CANCELLED", "PENDING", "CANCELLED", 0))]
    BY DEF CancelSale
  <2> QED
    BY <1>3, <2>1, LogGrows DEF EventTypes, SaleStatuses
<1>8. /\ payments' \subseteq PaymentRows /\ reversal' \in [SaleIds -> References \cup {NoReference}]
      /\ nextSale' \in Nat \ {0} /\ UNCHANGED orderVars
  BY <1>1 DEF SalesInv, SalesTypeOK, vars
<1> HIDE DEF row
<1> QED
  BY <1>1, <1>2, <1>4, <1>5, <1>6, <1>7, <1>8, SalesInvStep

LEMMA SalesInvReverse ==
  ASSUME SalesInv, NEW s \in SaleIds, NEW ref \in References, ReversePosSale(s, ref)
  PROVE  SalesInv'
<1> DEFINE row == Changed(sales[s], 0, "CANCELLED")
           w == sales[s].warehouse
           b == sales[s].items
<1>1. UNCHANGED <<rows, base, orderVars, payments, nextSale, branchOf>> /\ Sold(s)
      /\ sales[s].origin = "POS" /\ sales[s].status = "PAID"
      /\ stock' = [stock EXCEPT ![w] = AfterEntry(w, b)]
  BY DEF ReversePosSale
<1>2. sales[s] \in SaleRows /\ events[s] \in Seq(EventRows) /\ w \in Warehouses /\ b \in Baskets
      /\ sales[s].total \in Nat
  BY <1>1, SoldFacts
<1>3. OrderInv'
  <2> HIDE DEF w, b
  <2>1. AfterEntry(w, b) \in [Variants -> Nat]
    BY <1>2, LinkedExitFacts DEF AfterEntry, SalesInv, OrderInv, TypeOK, InventoryTypeOK
  <2>2. InventoryTypeOK'
    BY <1>1, <1>2, <2>1 DEF SalesInv, OrderInv, TypeOK, InventoryTypeOK
  <2>3. TypeOK'
    BY <1>1, <2>2 DEF SalesInv, OrderInv, TypeOK, orderVars
  <2>4. Placed' /\ Traceability'
    BY <1>1 DEF SalesInv, orderVars, OrderInv, Placed, Traceability, TraceOf, Traceable, Linked
  <2> QED
    BY <2>3, <2>4 DEF OrderInv
<1>4. sales' = [sales EXCEPT ![s] = row]
  BY DEF ReversePosSale, Changed, SalesInv, SalesTypeOK
<1>5. /\ row \in SaleRows
      /\ row.paid = 0 /\ row.status = "CANCELLED" /\ row.origin = "POS"
      /\ row.order = sales[s].order
      /\ row.branch = sales[s].branch /\ row.place = sales[s].place
  <2>1. Rewrites(row, sales[s], 0, "CANCELLED")
    BY <1>2, CancelledRow
  <2> QED
    BY <1>1, <2>1 DEF Rewrites
<1>6. SaleFits(s)'
  <2>1. sales'[s] = row
    BY <1>4 DEF SalesInv, SalesTypeOK
  <2>2. SaleFits(s)
    BY DEF SalesInv
  <2> HIDE DEF row
  <2> QED
    BY <1>1, <1>5, <2>1, <2>2 DEF SaleFits
<1>7. \E log \in Seq(EventRows) : events' = [events EXCEPT ![s] = log]
  <2>1. events' = [events EXCEPT ![s] =
                     Append(events[s], Event("CANCELLED", "PAID", "CANCELLED", sales[s].total))]
    BY DEF ReversePosSale
  <2> QED
    BY <1>2, <2>1, LogGrows DEF EventTypes, SaleStatuses
<1>8. \E k \in MoveKinds, d \in [Variants -> Int] : moved' = [moved EXCEPT ![s][k] = d]
  <2>1. moved' = [moved EXCEPT ![s]["REVERSAL"] = b]
    BY DEF ReversePosSale
  <2>2. b \in [Variants -> Int]
    <3> HIDE DEF b
    <3> QED
      BY <1>2, LinkedExitFacts
  <2> QED
    BY <2>1, <2>2 DEF MoveKinds
<1>9. reversal' = [reversal EXCEPT ![s] = ref]
  BY DEF ReversePosSale
<1>10. /\ payments' \subseteq PaymentRows /\ reversal' \in [SaleIds -> References \cup {NoReference}]
       /\ nextSale' \in Nat \ {0}
  BY <1>1, <1>9 DEF SalesInv, SalesTypeOK
<1> HIDE DEF row, w, b
<1> QED
  BY <1>1, <1>3, <1>4, <1>5, <1>6, <1>7, <1>8, <1>10, SalesInvStep

(* A step of the sales is one of its services, or a repeated call that     *)
(* only answers.                                                           *)
Repeats(s) ==
  \/ \E o \in OrderIds, key \in Keys : CreateSaleAgain(s, o, key)
  \/ \E key \in Keys, br \in Branches, w \in Warehouses, b \in Baskets, ref \in References :
       CreatePosSaleAgain(s, key, br, w, b, ref)
  \/ Sold(s) /\ \E key \in Keys, a \in 1..sales[s].total, ref \in References :
                  RecordPaymentAgain(s, key, a, ref)

LEMMA SalesInvNext == SalesInv /\ [SalesNext]_salesVars => SalesInv'
<1> SUFFICES ASSUME SalesInv, [SalesNext]_salesVars PROVE SalesInv'
  OBVIOUS
<1>1. CASE [Next]_vars /\ UNCHANGED saleVars
  BY <1>1, SalesInvOrders
<1>2. ASSUME NEW s \in SaleIds, SaleNext(s) PROVE SalesInv'
  <2>1. CASE \E o \in OrderIds, key \in Keys, br \in Branches, t \in Totals, initial \in SaleStatuses :
               CreateSale(s, o, key, br, t, initial)
    BY <2>1, SalesInvCreate
  <2>2. CASE \E key \in Keys, br \in Branches, w \in Warehouses, b \in Baskets, ref \in References,
                t \in Totals :
               CreatePosSale(s, key, br, w, b, ref, t)
    BY <2>2, SalesInvCreatePos
  <2>3. CASE Sold(s) /\ \E key \in Keys, a \in 1..sales[s].total, ref \in References :
                            RecordPayment(s, key, a, ref)
    <3>1. sales[s].total \in Nat
      BY <2>3, SoldFacts
    <3> QED
      BY <2>3, <3>1, SalesInvPayment
  <2>4. CASE CancelSale(s)
    BY <2>4, SalesInvCancel
  <2>5. CASE \E ref \in References : ReversePosSale(s, ref)
    BY <2>5, SalesInvReverse
  <2>6. CASE Repeats(s)
    <3>1. UNCHANGED <<vars, sales, payments, moved, reversal, events, nextSale, branchOf>>
      BY <2>6 DEF Repeats, CreateSaleAgain, CreatePosSaleAgain, RecordPaymentAgain
    <3>2. OrderInv'
      BY <3>1, OrderInvNext DEF SalesInv
    <3>3. SalesTypeOK'
      BY <3>1, <3>2 DEF SalesInv, SalesTypeOK, OrderInv
    <3>4. \A r \in SaleIds : SaleFits(r)'
      BY <3>1 DEF SalesInv, SaleFits, Sold, vars, orderVars
    <3> QED
      BY <3>2, <3>3, <3>4 DEF SalesInv
  <2> QED
    BY <1>2, <2>1, <2>2, <2>3, <2>4, <2>5, <2>6 DEF SaleNext, Repeats
<1>3. ASSUME NEW w \in Warehouses, NEW br \in Branches \cup {NoBranch}, MoveWarehouse(w, br)
      PROVE  SalesInv'
  <2>1. UNCHANGED <<vars, sales, payments, moved, reversal, events, nextSale>>
        /\ branchOf' = [branchOf EXCEPT ![w] = br]
    BY <1>3 DEF MoveWarehouse
  <2>2. OrderInv'
    BY <2>1, OrderInvNext DEF SalesInv
  <2>3. SalesTypeOK'
    BY <2>1, <2>2 DEF SalesInv, SalesTypeOK, OrderInv
  <2>4. \A r \in SaleIds : SaleFits(r)'
    BY <2>1 DEF SalesInv, SaleFits, Sold, vars, orderVars
  <2> QED
    BY <2>2, <2>3, <2>4 DEF SalesInv
<1> QED
  BY <1>1, <1>2, <1>3 DEF SalesNext, salesVars

------------------------------------------------------------------------------
(***************************************************************************)
(* Keys.  What a call was told can be read off the rows for ever: the sale *)
(* with its key, or the payment with its key.  A direct sale has the one   *)
(* payment it was made with, so its rows say which reference was asked.    *)
(***************************************************************************)
Told(op, key, s, request) == [op |-> op, key |-> key, sale |-> s, request |-> request]
TellsSale(a, s) ==
  /\ Sold(s) /\ sales[s].origin = "ORDER"
  /\ a = Told("sale", sales[s].key, s, sales[s].order)
TellsPosSale(a, p) ==
  /\ Sold(p.sale) /\ sales[p.sale].origin = "POS"
  /\ a = Told("sale", sales[p.sale].key, p.sale,
              PosRequest(sales[p.sale].branch, sales[p.sale].warehouse,
                         sales[p.sale].items, p.reference))
TellsPayment(a, p) == a = Told("payment", p.key, p.sale, PaymentRequest(p.amount, p.reference))
AnswerFits(a) ==
  \/ \E s \in SaleIds : TellsSale(a, s)
  \/ \E p \in payments : TellsPosSale(a, p)
  \/ \E p \in payments : TellsPayment(a, p)

SaleKeys == \A r, s \in SaleIds : Sold(r) /\ Sold(s) /\ sales[r].key = sales[s].key => r = s
PaymentKeys ==
  /\ \A p \in payments : Sold(p.sale)
  /\ \A p, q \in payments : p.sale = q.sale /\ p.key = q.key => p = q
  /\ \A p, q \in payments : p.sale = q.sale /\ sales[p.sale].origin = "POS" => p = q
KeysInv == SaleKeys /\ PaymentKeys /\ \A a \in answers : AnswerFits(a)

LEMMA KeysName == SalesInv /\ KeysInv => KeysNameOneCall
<1> SUFFICES ASSUME SalesInv, KeysInv, NEW a \in answers, NEW b \in answers,
                    a.op = b.op, a.key = b.key, a.op = "payment" => a.sale = b.sale
             PROVE  a = b
  BY DEF KeysNameOneCall
<1>1. AnswerFits(a) /\ AnswerFits(b) /\ SaleKeys /\ PaymentKeys
  BY DEF KeysInv
<1>2. \A p \in payments : p.sale \in SaleIds
  BY DEF SalesInv, SalesTypeOK, PaymentRows
<1>3. CASE \E s \in SaleIds : TellsSale(a, s)
  <2>1. PICK s \in SaleIds : TellsSale(a, s)
    BY <1>3
  <2>2. CASE \E r \in SaleIds : TellsSale(b, r)
    BY <1>1, <2>1, <2>2 DEF TellsSale, Told, SaleKeys
  <2>3. CASE \E p \in payments : TellsPosSale(b, p)
    BY <1>1, <1>2, <2>1, <2>3 DEF TellsSale, TellsPosSale, Told, SaleKeys
  <2>4. CASE \E p \in payments : TellsPayment(b, p)
    BY <2>1, <2>4 DEF TellsSale, TellsPayment, Told
  <2> QED
    BY <1>1, <2>2, <2>3, <2>4 DEF AnswerFits
<1>4. CASE \E p \in payments : TellsPosSale(a, p)
  <2>1. PICK p \in payments : TellsPosSale(a, p)
    BY <1>4
  <2>2. CASE \E r \in SaleIds : TellsSale(b, r)
    BY <1>1, <1>2, <2>1, <2>2 DEF TellsSale, TellsPosSale, Told, SaleKeys
  <2>3. CASE \E q \in payments : TellsPosSale(b, q)
    <3>1. PICK q \in payments : TellsPosSale(b, q)
      BY <2>3
    <3>2. p.sale = q.sale
      BY <1>1, <1>2, <2>1, <3>1 DEF TellsPosSale, Told, SaleKeys
    <3>3. p = q
      BY <1>1, <2>1, <3>2 DEF TellsPosSale, PaymentKeys
    <3> QED
      BY <2>1, <3>1, <3>3 DEF TellsPosSale
  <2>4. CASE \E q \in payments : TellsPayment(b, q)
    BY <2>1, <2>4 DEF TellsPosSale, TellsPayment, Told
  <2> QED
    BY <1>1, <2>2, <2>3, <2>4 DEF AnswerFits
<1>5. CASE \E p \in payments : TellsPayment(a, p)
  <2>1. PICK p \in payments : TellsPayment(a, p)
    BY <1>5
  <2>2. CASE \E r \in SaleIds : TellsSale(b, r)
    BY <2>1, <2>2 DEF TellsSale, TellsPayment, Told
  <2>3. CASE \E q \in payments : TellsPosSale(b, q)
    BY <2>1, <2>3 DEF TellsPosSale, TellsPayment, Told
  <2>4. CASE \E q \in payments : TellsPayment(b, q)
    <3>1. PICK q \in payments : TellsPayment(b, q)
      BY <2>4
    <3>2. p.sale = q.sale /\ p.key = q.key
      BY <2>1, <3>1 DEF TellsPayment, Told
    <3>3. p = q
      BY <1>1, <3>2 DEF PaymentKeys
    <3> QED
      BY <2>1, <3>1, <3>3 DEF TellsPayment
  <2> QED
    BY <1>1, <2>2, <2>3, <2>4 DEF AnswerFits
<1> QED
  BY <1>1, <1>3, <1>4, <1>5 DEF AnswerFits

(* What no service ever changes of a sale.                                 *)
Kept(s) ==
  Sold(s) =>
    /\ Sold(s)'
    /\ sales'[s].key = sales[s].key
    /\ sales'[s].origin = sales[s].origin
    /\ sales'[s].order = sales[s].order
    /\ sales'[s].branch = sales[s].branch
    /\ sales'[s].warehouse = sales[s].warehouse
    /\ sales'[s].items = sales[s].items

LEMMA AnswersKept ==
  ASSUME SalesInv, payments \subseteq payments', \A s \in SaleIds : Kept(s),
         NEW a, AnswerFits(a)
  PROVE  AnswerFits(a)'
<1>1. \A p \in payments : p.sale \in SaleIds
  BY DEF SalesInv, SalesTypeOK, PaymentRows
<1>2. CASE \E s \in SaleIds : TellsSale(a, s)
  BY <1>2 DEF TellsSale, AnswerFits, Kept, Told
<1>3. ASSUME NEW p \in payments, TellsPosSale(a, p) PROVE AnswerFits(a)'
  <2>1. TellsPosSale(a, p)'
    BY <1>1, <1>3 DEF TellsPosSale, Kept, Told, PosRequest
  <2> QED
    BY <2>1 DEF AnswerFits
<1>4. ASSUME NEW p \in payments, TellsPayment(a, p) PROVE AnswerFits(a)'
  <2>1. TellsPayment(a, p)'
    BY <1>4 DEF TellsPayment, Told, PaymentRequest
  <2> QED
    BY <2>1 DEF AnswerFits
<1> QED
  BY <1>2, <1>3, <1>4 DEF AnswerFits

(* The answers of a step: the ones of before and perhaps one that fits.    *)
Answers == answers' = answers \/ \E a : AnswerFits(a)' /\ answers' = answers \cup {a}

LEMMA AnswersStep ==
  ASSUME SalesInv, KeysInv, payments \subseteq payments', \A s \in SaleIds : Kept(s), Answers
  PROVE  \A a \in answers' : AnswerFits(a)'
<1>1. ASSUME NEW a \in answers PROVE AnswerFits(a)'
  <2>1. AnswerFits(a)
    BY DEF KeysInv
  <2> QED
    BY <2>1, AnswersKept
<1> QED
  BY <1>1 DEF Answers

(* A step that makes no sale and takes no payment.                         *)
LEMMA KeysQuiet ==
  ASSUME SalesInv, KeysInv, UNCHANGED payments, Answers,
         \A s \in SaleIds : Kept(s) /\ (Sold(s)' => Sold(s))
  PROVE  KeysInv'
<1>1. \A p \in payments : p.sale \in SaleIds
  BY DEF SalesInv, SalesTypeOK, PaymentRows
<1>2. SaleKeys'
  BY DEF KeysInv, SaleKeys, Kept
<1>3. PaymentKeys'
  BY <1>1 DEF KeysInv, PaymentKeys, Kept
<1> QED
  BY <1>2, <1>3, AnswersStep DEF KeysInv

(* A new sale leaves the others as they are.                               *)
LEMMA NewSaleKeeps ==
  ASSUME SalesInv, NEW s \in SaleIds, NEW row \in SaleRows, ~Sold(s),
         sales' = [sales EXCEPT ![s] = row]
  PROVE  /\ sales'[s] = row /\ Sold(s)'
         /\ \A r \in SaleIds : Kept(r) /\ (r # s => sales'[r] = sales[r])
  BY NoSaleAssumption DEF SalesInv, SalesTypeOK, Sold, Kept

LEMMA NewSaleKeys ==
  ASSUME SalesInv, SaleKeys, NEW s \in SaleIds, NEW row \in SaleRows, ~Sold(s),
         sales' = [sales EXCEPT ![s] = row], SalesWith(row.key) = {}
  PROVE  SaleKeys'
<1>1. \A r \in SaleIds : Sold(r) => sales[r].key # row.key
  BY DEF SalesWith
<1> QED
  BY <1>1, NewSaleKeeps DEF SaleKeys, Sold

(* A service that writes status and amount paid keeps the rest.            *)
LEMMA ColumnsKeep ==
  ASSUME SalesInv, NEW s \in SaleIds, Sold(s), NEW n \in Nat, NEW st \in SaleStatuses,
         sales' = [sales EXCEPT ![s] = Changed(sales[s], n, st)]
  PROVE  \A r \in SaleIds : Kept(r) /\ (Sold(r)' => Sold(r))
<1>1. Rewrites(Changed(sales[s], n, st), sales[s], n, st)
  BY SoldFacts, RowChanges
<1>2. sales'[s] = Changed(sales[s], n, st) /\ \A r \in SaleIds : r # s => sales'[r] = sales[r]
  BY DEF SalesInv, SalesTypeOK
<1>3. sales'[s] # NoSale
  BY <1>1, <1>2, NoSaleAssumption DEF Rewrites
<1> QED
  BY <1>1, <1>2, <1>3 DEF Kept, Sold, Rewrites

LEMMA KeysCreate ==
  ASSUME SalesInv, KeysInv, NEW s \in SaleIds, NEW o \in OrderIds, NEW key \in Keys,
         NEW br \in Branches, NEW t \in Totals, NEW initial \in SaleStatuses,
         CreateSale(s, o, key, br, t, initial)
  PROVE  KeysInv'
<1> DEFINE row == OrderSale(o, key, br, t, initial)
<1>1. sales' = [sales EXCEPT ![s] = row] /\ status[o] = "DELIVERED"
  BY DEF CreateSale, OrderSale
<1>2. UNCHANGED payments /\ ~Sold(s) /\ SalesWith(key) = {}
      /\ answers' = answers \cup {Told("sale", key, s, o)}
  BY DEF CreateSale, Answer, Told
<1>3. row \in SaleRows /\ row.origin = "ORDER" /\ row.key = key /\ row.order = o
  <2>1. row \in SaleRows
    BY <1>1, OrderSaleRow
  <2> QED
    BY <2>1 DEF OrderSale
<1> HIDE DEF row
<1>4. /\ sales'[s] = row /\ Sold(s)'
      /\ \A r \in SaleIds : Kept(r) /\ (r # s => sales'[r] = sales[r])
  BY <1>1, <1>2, <1>3, NewSaleKeeps
<1>5. SaleKeys'
  BY <1>1, <1>2, <1>3, NewSaleKeys DEF KeysInv
<1>6. PaymentKeys'
  <2>1. \A p \in payments : p.sale \in SaleIds /\ Sold(p.sale)
    BY DEF SalesInv, SalesTypeOK, PaymentRows, KeysInv, PaymentKeys
  <2> QED
    BY <1>2, <1>4, <2>1 DEF KeysInv, PaymentKeys, Kept
<1>7. AnswerFits(Told("sale", key, s, o))'
  <2>1. TellsSale(Told("sale", key, s, o), s)'
    BY <1>3, <1>4 DEF TellsSale, Told
  <2> QED
    BY <2>1 DEF AnswerFits
<1>8. Answers
  BY <1>2, <1>7 DEF Answers
<1> QED
  BY <1>2, <1>4, <1>5, <1>6, <1>8, AnswersStep DEF KeysInv

LEMMA KeysCreatePos ==
  ASSUME SalesInv, KeysInv, NEW s \in SaleIds, NEW key \in Keys, NEW br \in Branches,
         NEW w \in Warehouses, NEW b \in Baskets, NEW ref \in References, NEW t \in Totals,
         CreatePosSale(s, key, br, w, b, ref, t)
  PROVE  KeysInv'
<1> DEFINE row == PosSale(key, br, w, b, t)
           pay == [sale |-> s, key |-> key, amount |-> t, reference |-> ref]
           said == Told("sale", key, s, PosRequest(br, w, b, ref))
<1>1. sales' = [sales EXCEPT ![s] = row] /\ payments' = payments \cup {pay}
  BY DEF CreatePosSale, PosSale
<1>2. ~Sold(s) /\ SalesWith(key) = {} /\ answers' = answers \cup {said}
  BY DEF CreatePosSale, Answer, Told
<1>3. row \in SaleRows /\ row.origin = "POS" /\ row.key = key
      /\ row.branch = br /\ row.warehouse = w /\ row.items = b
  <2>1. row \in SaleRows
    BY TotalsAssumption, PosSaleRow
  <2> QED
    BY <2>1 DEF PosSale
<1> HIDE DEF row
<1>4. /\ sales'[s] = row /\ Sold(s)'
      /\ \A r \in SaleIds : Kept(r) /\ (r # s => sales'[r] = sales[r])
  BY <1>1, <1>2, <1>3, NewSaleKeeps
<1>5. SaleKeys'
  BY <1>1, <1>2, <1>3, NewSaleKeys DEF KeysInv
<1>6. PaymentKeys'
  <2>1. \A p \in payments : p.sale \in SaleIds /\ Sold(p.sale) /\ p.sale # s
    BY <1>2 DEF SalesInv, SalesTypeOK, PaymentRows, KeysInv, PaymentKeys
  <2>2. pay.sale = s
    OBVIOUS
  <2> HIDE DEF pay
  <2> QED
    BY <1>1, <1>4, <2>1, <2>2 DEF KeysInv, PaymentKeys, Kept
<1>7. AnswerFits(said)'
  <2>1. TellsPosSale(said, pay)'
    BY <1>3, <1>4 DEF TellsPosSale, Told, PosRequest
  <2>2. pay \in payments'
    BY <1>1
  <2> QED
    BY <2>1, <2>2 DEF AnswerFits
<1>8. Answers
  <2> HIDE DEF said
  <2> QED
    BY <1>2, <1>7 DEF Answers
<1>9. payments \subseteq payments'
  BY <1>1
<1> HIDE DEF pay, said
<1> QED
  BY <1>4, <1>5, <1>6, <1>8, <1>9, AnswersStep DEF KeysInv

LEMMA KeysPayment ==
  ASSUME SalesInv, KeysInv, NEW s \in SaleIds, NEW key \in Keys, NEW a \in Nat \ {0},
         NEW ref \in References, RecordPayment(s, key, a, ref)
  PROVE  KeysInv'
<1> DEFINE pay == [sale |-> s, key |-> key, amount |-> a, reference |-> ref]
           said == Told("payment", key, s, PaymentRequest(a, ref))
<1>1. /\ payments' = payments \cup {pay} /\ Sold(s) /\ PaymentsWith(s, key) = {}
      /\ sales[s].status \notin {"CANCELLED", "PAID"} /\ answers' = answers \cup {said}
  BY DEF RecordPayment, Answer, Told
<1>2. PICK n \in Nat, st \in SaleStatuses : sales' = [sales EXCEPT ![s] = Changed(sales[s], n, st)]
  <2>1. sales[s].paid + a \in Nat
    BY <1>1, SoldFacts
  <2>2. sales' = [sales EXCEPT ![s] = Changed(sales[s], sales[s].paid + a,
              IF sales[s].paid + a = sales[s].total THEN "PAID" ELSE "PARTIAL")]
    BY DEF RecordPayment, Changed, SalesInv, SalesTypeOK
  <2> QED
    BY <2>1, <2>2 DEF SaleStatuses
<1>3. \A r \in SaleIds : Kept(r) /\ (Sold(r)' => Sold(r))
  BY <1>1, <1>2, ColumnsKeep
<1>4. SaleKeys'
  BY <1>3 DEF KeysInv, SaleKeys, Kept
<1>5. PaymentKeys'
  <2>1. \A p \in payments : p.sale \in SaleIds /\ Sold(p.sale) /\ (p.sale = s => p.key # key)
    BY <1>1 DEF SalesInv, SalesTypeOK, PaymentRows, KeysInv, PaymentKeys, PaymentsWith, PaymentsOf
  <2>2. sales[s].origin # "POS"
    BY <1>1 DEF SalesInv, SaleFits
  <2>3. pay.sale = s /\ pay.key = key
    OBVIOUS
  <2> HIDE DEF pay
  <2> QED
    BY <1>1, <1>3, <2>1, <2>2, <2>3 DEF KeysInv, PaymentKeys, Kept
<1>6. AnswerFits(said)'
  <2>1. TellsPayment(said, pay)'
    BY DEF TellsPayment, Told, PaymentRequest
  <2>2. pay \in payments'
    BY <1>1
  <2> QED
    BY <2>1, <2>2 DEF AnswerFits
<1>7. Answers
  <2> HIDE DEF said
  <2> QED
    BY <1>1, <1>6 DEF Answers
<1>8. payments \subseteq payments'
  BY <1>1
<1> HIDE DEF pay, said
<1> QED
  BY <1>3, <1>4, <1>5, <1>7, <1>8, AnswersStep DEF KeysInv

LEMMA KeysEnd ==
  ASSUME SalesInv, KeysInv, NEW s \in SaleIds,
         CancelSale(s) \/ \E ref \in References : ReversePosSale(s, ref)
  PROVE  KeysInv'
<1>1. Sold(s) /\ UNCHANGED <<payments, answers>>
  BY DEF CancelSale, ReversePosSale
<1>2. PICK n \in Nat, st \in SaleStatuses : sales' = [sales EXCEPT ![s] = Changed(sales[s], n, st)]
  <2>1. CASE CancelSale(s)
    <3>1. sales[s] \in SaleRows /\ sales[s].paid \in Nat
      BY <1>1, SoldFacts
    <3>2. sales' = [sales EXCEPT ![s] = Changed(sales[s], sales[s].paid, "CANCELLED")]
      BY <2>1, <3>1 DEF CancelSale, Changed, SaleRows, SalesInv, SalesTypeOK
    <3> QED
      BY <3>1, <3>2 DEF SaleStatuses
  <2>2. CASE \E ref \in References : ReversePosSale(s, ref)
    <3>1. sales' = [sales EXCEPT ![s] = Changed(sales[s], 0, "CANCELLED")]
      BY <2>2, ZenonT(60) DEF ReversePosSale, Changed, SalesInv, SalesTypeOK
    <3> QED
      BY <3>1 DEF SaleStatuses
  <2> QED
    BY <2>1, <2>2
<1>3. \A r \in SaleIds : Kept(r) /\ (Sold(r)' => Sold(r))
  BY <1>1, <1>2, ColumnsKeep
<1> QED
  BY <1>1, <1>3, KeysQuiet DEF Answers

(* A repeated call is told what the rows say.                              *)
LEMMA KeysRepeat ==
  ASSUME SalesInv, KeysInv, NEW s \in SaleIds, Repeats(s)
  PROVE  KeysInv'
<1>1. UNCHANGED <<sales, payments>>
  BY DEF Repeats, CreateSaleAgain, CreatePosSaleAgain, RecordPaymentAgain
<1>2. PICK a : AnswerFits(a) /\ answers' = answers \cup {a}
  <2>1. ASSUME NEW o \in OrderIds, NEW key \in Keys, CreateSaleAgain(s, o, key)
        PROVE  \E a : AnswerFits(a) /\ answers' = answers \cup {a}
    <3>1. Sold(s) /\ sales[s].key = key /\ sales[s].order = o
          /\ answers' = answers \cup {Told("sale", key, s, o)}
      BY <2>1 DEF CreateSaleAgain, SalesWith, Answer, Told
    <3>2. sales[s].origin = "ORDER"
      BY <3>1, NoOrderAssumption DEF SalesInv, SalesTypeOK, Sold, SaleRows, SaleFits
    <3>3. TellsSale(Told("sale", key, s, o), s)
      BY <3>1, <3>2 DEF TellsSale
    <3> QED
      BY <3>1, <3>3 DEF AnswerFits
  <2>2. ASSUME NEW key \in Keys, NEW br \in Branches, NEW w \in Warehouses,
               NEW b \in Baskets, NEW ref \in References,
               CreatePosSaleAgain(s, key, br, w, b, ref)
        PROVE  \E a : AnswerFits(a) /\ answers' = answers \cup {a}
    <3>1. /\ Sold(s) /\ sales[s].key = key /\ sales[s].origin = "POS"
          /\ sales[s].branch = br /\ sales[s].warehouse = w /\ sales[s].items = b
          /\ answers' = answers \cup {Told("sale", key, s, PosRequest(br, w, b, ref))}
      BY <2>2 DEF CreatePosSaleAgain, PosReplayMatches, SalesWith, Answer, Told
    <3>2. PICK p \in payments : p.sale = s /\ p.reference = ref
      BY <2>2 DEF CreatePosSaleAgain, PosReplayMatches, PaymentsOf
    <3>3. TellsPosSale(Told("sale", key, s, PosRequest(br, w, b, ref)), p)
      BY <3>1, <3>2 DEF TellsPosSale
    <3> QED
      BY <3>1, <3>3 DEF AnswerFits
  <2>3. ASSUME NEW key \in Keys, NEW n \in 1..sales[s].total, NEW ref \in References,
               RecordPaymentAgain(s, key, n, ref)
        PROVE  \E a : AnswerFits(a) /\ answers' = answers \cup {a}
    <3>1. answers' = answers \cup {Told("payment", key, s, PaymentRequest(n, ref))}
      BY <2>3 DEF RecordPaymentAgain, Answer, Told
    <3>2. PICK p \in payments : p.sale = s /\ p.key = key /\ p.amount = n /\ p.reference = ref
      BY <2>3 DEF RecordPaymentAgain, PaymentReplayMatches, PaymentsWith, PaymentsOf
    <3>3. TellsPayment(Told("payment", key, s, PaymentRequest(n, ref)), p)
      BY <3>2 DEF TellsPayment
    <3> QED
      BY <3>1, <3>3 DEF AnswerFits
  <2> QED
    BY <2>1, <2>2, <2>3 DEF Repeats
<1>3. AnswerFits(a)'
  BY <1>1, <1>2 DEF AnswerFits, TellsSale, TellsPosSale, TellsPayment, Told, Sold
<1>4. \A r \in SaleIds : Kept(r) /\ (Sold(r)' => Sold(r))
  BY <1>1 DEF Kept, Sold
<1>5. Answers
  BY <1>2, <1>3 DEF Answers
<1> QED
  BY <1>1, <1>4, <1>5, KeysQuiet

LEMMA KeysInvNext == SalesInv /\ KeysInv /\ [SalesNext]_salesVars => KeysInv'
<1> SUFFICES ASSUME SalesInv, KeysInv, [SalesNext]_salesVars PROVE KeysInv'
  OBVIOUS
<1>1. CASE UNCHANGED <<sales, payments, answers>>
  <2>1. \A r \in SaleIds : Kept(r) /\ (Sold(r)' => Sold(r))
    BY <1>1 DEF Kept, Sold
  <2> QED
    BY <1>1, <2>1, KeysQuiet DEF Answers
<1>2. ASSUME NEW s \in SaleIds, SaleNext(s) PROVE KeysInv'
  <2>1. CASE \E o \in OrderIds, key \in Keys, br \in Branches, t \in Totals, initial \in SaleStatuses :
               CreateSale(s, o, key, br, t, initial)
    BY <2>1, KeysCreate
  <2>2. CASE \E key \in Keys, br \in Branches, w \in Warehouses, b \in Baskets, ref \in References,
                t \in Totals :
               CreatePosSale(s, key, br, w, b, ref, t)
    BY <2>2, KeysCreatePos
  <2>3. CASE Sold(s) /\ \E key \in Keys, a \in 1..sales[s].total, ref \in References :
                            RecordPayment(s, key, a, ref)
    <3>1. sales[s].total \in Nat
      BY <2>3, SoldFacts
    <3> QED
      BY <2>3, <3>1, KeysPayment
  <2>4. CASE CancelSale(s) \/ \E ref \in References : ReversePosSale(s, ref)
    BY <2>4, KeysEnd
  <2>5. CASE Repeats(s)
    BY <2>5, KeysRepeat
  <2> QED
    BY <1>2, <2>1, <2>2, <2>3, <2>4, <2>5 DEF SaleNext, Repeats
<1> QED
  BY <1>1, <1>2 DEF SalesNext, salesVars, saleVars, MoveWarehouse

(***************************************************************************)
(* Two calls answered with one key asked for the same and were told the    *)
(* same sale, for any number of calls, keys, sales and orders.             *)
(***************************************************************************)
THEOREM KeysAreNames == SalesSpec => []KeysNameOneCall
<1>1. SalesInit => KeysInv
  BY DEF SalesInit, KeysInv, SaleKeys, PaymentKeys, Sold
<1> QED
  BY SalesInvInit, SalesInvNext, KeysInvNext, KeysName, <1>1, PTL DEF SalesSpec

------------------------------------------------------------------------------
(***************************************************************************)
(* Stock.  A direct sale is one more holder of goods: next to the columns  *)
(* of the orders there is one column per sale, and a step of the orders    *)
(* leaves the columns of the sales alone.                                  *)
(***************************************************************************)
Taken(w, v) == [s \in SaleIds |-> SoldFrom(s, w, v)]
TakenFrom(w, v) == Cardinality(Columns(Taken(w, v)))
SaleBalances ==
  /\ \A w \in Warehouses, v \in Variants : IsFiniteSet(Columns(Taken(w, v)))
  /\ \A w \in Warehouses, v \in Variants : Balanced(w, v, TakenFrom(w, v))

LEMMA SoldAreColumns ==
  ASSUME NEW w, NEW v
  PROVE  UnitsSold(w, v) = Columns(Taken(w, v))
<1>1. DOMAIN Taken(w, v) = SaleIds /\ \A s \in SaleIds : Taken(w, v)[s] = SoldFrom(s, w, v)
  BY DEF Taken
<1>2. \A u : u \in UnitsSold(w, v) <=> \E s \in SaleIds : u \in {s} \X (1..SoldFrom(s, w, v))
  BY DEF UnitsSold
<1>3. \A u : u \in Columns(Taken(w, v)) <=> \E s \in SaleIds : u \in {s} \X (1..Taken(w, v)[s])
  BY <1>1 DEF Columns, Column
<1>4. \A u : u \in UnitsSold(w, v) <=> u \in Columns(Taken(w, v))
  BY <1>1, <1>2, <1>3
<1> QED
  BY <1>4

LEMMA TakenType ==
  ASSUME SalesInv, NEW w, NEW v \in Variants
  PROVE  Taken(w, v) \in [SaleIds -> Nat]
<1>1. ASSUME NEW s \in SaleIds, Sold(s) PROVE sales[s].items \in [Variants -> Nat]
  BY <1>1, SoldFacts, LinkedExitFacts
<1> QED
  BY <1>1 DEF Taken, SoldFrom

LEMMA SaleBalancesInit == SalesInit => SaleBalances /\ Rowed
<1> SUFFICES ASSUME SalesInit PROVE SaleBalances /\ Rowed
  OBVIOUS
<1>1. StockBalances(Nothing) /\ Rowed
  BY BalanceInit, RowedInit DEF SalesInit
<1>2. ASSUME NEW w \in Warehouses, NEW v \in Variants
      PROVE  IsFiniteSet(Columns(Taken(w, v))) /\ Balanced(w, v, TakenFrom(w, v))
  <2>1. UnitsSold(w, v) = {}
    BY DEF SalesInit, UnitsSold, SoldFrom, Sold
  <2>2. Columns(Taken(w, v)) = {}
    BY <2>1, SoldAreColumns
  <2>3. IsFiniteSet(Columns(Taken(w, v))) /\ TakenFrom(w, v) = 0
    BY <2>2, FS_EmptySet DEF TakenFrom
  <2>4. Nothing[w][v] = 0
    BY DEF Nothing, NoItems
  <2> QED
    BY <1>1, <2>3, <2>4 DEF StockBalances
<1> QED
  BY <1>1, <1>2 DEF SaleBalances

(* Orders and inventory.                                                   *)
LEMMA SaleBalancesOrders ==
  ASSUME SalesInv, OrderInv', Rowed, SaleBalances, [Next]_vars, UNCHANGED sales
  PROVE  SaleBalances' /\ Rowed'
<1>1. PICK others : others = [w \in Warehouses |-> [v \in Variants |-> TakenFrom(w, v)]]
  OBVIOUS
<1>2. others \in [Warehouses -> [Variants -> Int]]
  <2>1. \A w \in Warehouses, v \in Variants : TakenFrom(w, v) \in Int
    BY FS_CardinalityType DEF SaleBalances, TakenFrom
  <2> QED
    BY <1>1, <2>1
<1>3. StockBalances(others)
  BY <1>1 DEF SaleBalances, StockBalances
<1>4. OrderInv
  BY DEF SalesInv
<1>5. StockBalances(others)'
  BY <1>2, <1>3, <1>4, BalanceNext
<1>6. \A w \in Warehouses, v \in Variants : Taken(w, v)' = Taken(w, v)
  BY DEF Taken, SoldFrom, Sold
<1>7. ASSUME NEW w \in Warehouses, NEW v \in Variants
      PROVE  IsFiniteSet(Columns(Taken(w, v)))' /\ Balanced(w, v, TakenFrom(w, v))'
  <2>1. Columns(Taken(w, v))' = Columns(Taken(w, v))
    BY <1>6 DEF Columns
  <2>2. TakenFrom(w, v)' = others[w][v] /\ IsFiniteSet(Columns(Taken(w, v)))'
    BY <1>1, <2>1 DEF TakenFrom, SaleBalances
  <2>3. Balanced(w, v, others[w][v])'
    BY <1>5 DEF StockBalances
  <2> QED
    BY <2>2, <2>3 DEF Balanced
<1>8. Rowed'
  BY <1>4, RowedNext
<1> QED
  BY <1>7, <1>8 DEF SaleBalances

(* A service of the sale s, which no order takes part in.                  *)
LEMMA SaleBalancesStep ==
  ASSUME SalesInv, SalesInv', SaleBalances, NEW s \in SaleIds, UNCHANGED <<orderVars, base>>,
         \A r \in SaleIds : r # s => sales'[r] = sales[r],
         \A w \in Warehouses, v \in Variants :
           stock'[w][v] + SoldFrom(s, w, v)' = stock[w][v] + SoldFrom(s, w, v)
  PROVE  SaleBalances'
<1> SUFFICES ASSUME NEW w \in Warehouses, NEW v \in Variants
             PROVE  IsFiniteSet(Columns(Taken(w, v)))' /\ Balanced(w, v, TakenFrom(w, v))'
  BY DEF SaleBalances
<1>1. PICK h : h = Taken(w, v)
  OBVIOUS
<1>2. PICK g : g = Taken(w, v)'
  OBVIOUS
<1>3. h \in [SaleIds -> Nat] /\ g \in [SaleIds -> Nat]
  <2>1. Taken(w, v)' \in [SaleIds -> Nat]
    <3>1. \A r \in SaleIds : Sold(r)' => sales'[r].items \in Baskets
      BY DEF SalesInv, SalesTypeOK, Sold, SaleRows
    <3>2. \A r \in SaleIds : Sold(r)' => sales'[r].items \in [Variants -> Nat]
      BY <3>1, LinkedExitFacts
    <3> QED
      BY <3>2 DEF Taken, SoldFrom, Sold
  <2> QED
    BY <1>1, <1>2, <2>1, TakenType
<1>4. h[s] = SoldFrom(s, w, v) /\ g[s] = SoldFrom(s, w, v)' /\ g = [h EXCEPT ![s] = g[s]]
  <2>1. \A r \in SaleIds : h[r] = SoldFrom(r, w, v) /\ g[r] = SoldFrom(r, w, v)'
    BY <1>1, <1>2 DEF Taken
  <2>2. \A r \in SaleIds : r # s => SoldFrom(r, w, v)' = SoldFrom(r, w, v)
    BY DEF SoldFrom, Sold
  <2> QED
    BY <1>3, <2>1, <2>2
<1>5. IsFiniteSet(Columns(h)) /\ TakenFrom(w, v) = Cardinality(Columns(h))
  BY <1>1 DEF SaleBalances, TakenFrom
<1>6. IsFiniteSet(Columns(g)) /\ Cardinality(Columns(g)) = Cardinality(Columns(h)) - h[s] + g[s]
  <2>1. PICK n : n = g[s]
    OBVIOUS
  <2>2. h \in [SaleIds -> Nat] /\ n \in Nat /\ IsFiniteSet(Columns(h))
    BY <1>3, <1>5, <2>1
  <2>3. /\ IsFiniteSet(Columns([h EXCEPT ![s] = n]))
        /\ Cardinality(Columns([h EXCEPT ![s] = n])) = Cardinality(Columns(h)) - h[s] + n
    BY <2>2, ColumnsUpdate, ZenonT(60)
  <2> QED
    BY <1>4, <2>1, <2>3
<1>7. Columns(Taken(w, v))' = Columns(g)
  BY <1>2 DEF Columns
<1>8. TakenFrom(w, v)' = Cardinality(Columns(g))
  BY <1>7 DEF TakenFrom
<1>9. Columns(Held(w, v))' = Columns(Held(w, v))
  BY DEF Columns, Held, HeldBy, orderVars
<1>10. stock'[w][v] + g[s] = stock[w][v] + h[s]
  BY <1>4
<1>11. stock[w][v] + Cardinality(Columns(Held(w, v))) + Cardinality(Columns(h)) = base[w][v]
       /\ IsFiniteSet(Columns(Held(w, v)))
  BY <1>5 DEF SaleBalances, Balanced
<1>12. stock'[w][v] + Cardinality(Columns(Held(w, v))) + Cardinality(Columns(g)) = base[w][v]
  <2>1. stock[w][v] \in Int /\ stock'[w][v] \in Int
    BY DEF SalesInv, OrderInv, TypeOK, InventoryTypeOK
  <2>2. h[s] \in Int /\ g[s] \in Int
    BY <1>3
  <2>3. Cardinality(Columns(Held(w, v))) \in Int /\ Cardinality(Columns(h)) \in Int
    BY <1>5, <1>11, FS_CardinalityType
  <2> QED
    BY <1>6, <1>10, <1>11, <2>1, <2>2, <2>3
<1>13. Balanced(w, v, TakenFrom(w, v))'
         <=> /\ IsFiniteSet(Columns(Held(w, v))')
             /\ stock'[w][v] + Cardinality(Columns(Held(w, v))') + TakenFrom(w, v)' = base'[w][v]
  BY DEF Balanced
<1> QED
  BY <1>6, <1>7, <1>8, <1>9, <1>11, <1>12, <1>13

LEMMA SaleBalancesCreatePos ==
  ASSUME SalesInv, SalesInv', SaleBalances, Rowed, NEW s \in SaleIds, NEW key \in Keys,
         NEW br \in Branches, NEW w \in Warehouses, NEW b \in Baskets,
         NEW ref \in References, NEW t \in Totals,
         CreatePosSale(s, key, br, w, b, ref, t)
  PROVE  SaleBalances' /\ Rowed'
<1> DEFINE row == PosSale(key, br, w, b, t)
<1>1. /\ sales' = [sales EXCEPT ![s] = row] /\ ~Sold(s) /\ CanExit(w, b)
      /\ stock' = [stock EXCEPT ![w] = AfterExit(w, b)]
      /\ UNCHANGED <<rows, base, orderVars>>
  BY DEF CreatePosSale, PosSale
<1>2. row \in SaleRows /\ row.origin = "POS" /\ row.status = "PAID" /\ row.warehouse = w /\ row.items = b
  <2>1. row \in SaleRows
    BY TotalsAssumption, PosSaleRow
  <2> QED
    BY <2>1 DEF PosSale
<1> HIDE DEF row
<1>3. /\ sales'[s] = row /\ Sold(s)'
      /\ \A r \in SaleIds : r # s => sales'[r] = sales[r]
  BY <1>1, <1>2, NewSaleKeeps
<1>4. \A v \in Variants : b[v] \in Nat
  BY LinkedExitFacts
<1>5. ASSUME NEW x \in Warehouses, NEW v \in Variants
      PROVE  /\ stock'[x][v] + SoldFrom(s, x, v)' = stock[x][v] + SoldFrom(s, x, v)
             /\ stock'[x][v] <= stock[x][v]
  <2>1. SoldFrom(s, x, v) = 0
    BY <1>1 DEF SoldFrom
  <2>2. SoldFrom(s, x, v)' = IF x = w THEN b[v] ELSE 0
    BY <1>2, <1>3 DEF SoldFrom
  <2>3. stock[x][v] \in Nat /\ stock'[x][v] = IF x = w THEN stock[x][v] - b[v] ELSE stock[x][v]
    BY <1>1 DEF AfterExit, SalesInv, OrderInv, TypeOK, InventoryTypeOK
  <2> QED
    BY <1>4, <2>1, <2>2, <2>3
<1>6. SaleBalances'
  <2>1. \A x \in Warehouses, v \in Variants :
          stock'[x][v] + SoldFrom(s, x, v)' = stock[x][v] + SoldFrom(s, x, v)
    BY <1>5
  <2> QED
    BY <1>1, <1>3, <2>1, SaleBalancesStep
<1>7. Rowed'
  <2>1. \A x \in Warehouses, v \in Variants :
          stock[x][v] \in Nat /\ stock'[x][v] \in Nat /\ stock'[x][v] <= stock[x][v]
    BY <1>5 DEF SalesInv, OrderInv, TypeOK, InventoryTypeOK
  <2> QED
    BY <1>1, <2>1 DEF Rowed
<1> QED
  BY <1>6, <1>7

LEMMA SaleBalancesReverse ==
  ASSUME SalesInv, SalesInv', SaleBalances, Rowed, NEW s \in SaleIds, NEW ref \in References,
         ReversePosSale(s, ref)
  PROVE  SaleBalances' /\ Rowed'
<1>1. PICK w \in Warehouses, b \in Baskets : w = sales[s].warehouse /\ b = sales[s].items
  BY SoldFacts DEF ReversePosSale
<1>2. /\ Sold(s) /\ sales[s].origin = "POS" /\ sales[s].status = "PAID"
      /\ stock' = [stock EXCEPT ![w] = AfterEntry(w, b)]
      /\ {w} \X Listed(b) \subseteq rows
      /\ UNCHANGED <<rows, base, orderVars>>
  BY <1>1 DEF ReversePosSale
<1>3. /\ sales'[s].status = "CANCELLED"
      /\ \A r \in SaleIds : r # s => sales'[r] = sales[r]
  <2>1. sales' = [sales EXCEPT ![s] = Changed(sales[s], 0, "CANCELLED")]
    BY ZenonT(60) DEF ReversePosSale, Changed, SalesInv, SalesTypeOK
  <2>2. Rewrites(Changed(sales[s], 0, "CANCELLED"), sales[s], 0, "CANCELLED")
    BY <1>2, SoldFacts, CancelledRow
  <2> QED
    BY <2>1, <2>2 DEF Rewrites, SalesInv, SalesTypeOK
<1>4. \A v \in Variants : b[v] \in Nat
  BY LinkedExitFacts
<1>5. \A x \in Warehouses, v \in Variants :
        /\ stock[x][v] \in Nat
        /\ stock'[x][v] = IF x = w THEN stock[x][v] + b[v] ELSE stock[x][v]
  BY <1>2 DEF AfterEntry, SalesInv, OrderInv, TypeOK, InventoryTypeOK
<1>6. ASSUME NEW x \in Warehouses, NEW v \in Variants
      PROVE  stock'[x][v] + SoldFrom(s, x, v)' = stock[x][v] + SoldFrom(s, x, v)
  <2>1. SoldFrom(s, x, v) = IF x = w THEN b[v] ELSE 0
    BY <1>1, <1>2 DEF SoldFrom
  <2>2. SoldFrom(s, x, v)' = 0
    BY <1>3 DEF SoldFrom
  <2> QED
    BY <1>4, <1>5, <2>1, <2>2
<1>7. SaleBalances'
  BY <1>2, <1>3, <1>6, SaleBalancesStep
<1>8. Rowed'
  BY <1>2, <1>4, <1>5 DEF Rowed, Listed
<1> QED
  BY <1>7, <1>8

(* The other services of a sale move nothing.                              *)
LEMMA SaleBalancesQuiet ==
  ASSUME SalesInv, SalesInv', SaleBalances, Rowed, NEW s \in SaleIds, UNCHANGED vars,
         \A r \in SaleIds : r # s => sales'[r] = sales[r],
         \A w \in Warehouses, v \in Variants : SoldFrom(s, w, v)' = SoldFrom(s, w, v)
  PROVE  SaleBalances' /\ Rowed'
<1>1. UNCHANGED <<orderVars, base, stock, rows>>
  BY DEF vars, inventoryVars
<1>2. \A w \in Warehouses, v \in Variants :
        stock'[w][v] + SoldFrom(s, w, v)' = stock[w][v] + SoldFrom(s, w, v)
  BY <1>1
<1> QED
  BY <1>1, <1>2, SaleBalancesStep DEF Rowed

LEMMA SaleBalancesNext ==
  SalesInv /\ SalesInv' /\ SaleBalances /\ Rowed /\ [SalesNext]_salesVars => SaleBalances' /\ Rowed'
<1> SUFFICES ASSUME SalesInv, SalesInv', SaleBalances, Rowed, [SalesNext]_salesVars
             PROVE  SaleBalances' /\ Rowed'
  OBVIOUS
<1>1. CASE [Next]_vars /\ UNCHANGED sales
  BY <1>1, SaleBalancesOrders DEF SalesInv
<1>2. ASSUME NEW s \in SaleIds, SaleNext(s) PROVE SaleBalances' /\ Rowed'
  <2>1. CASE \E o \in OrderIds, key \in Keys, br \in Branches, t \in Totals, initial \in SaleStatuses :
               CreateSale(s, o, key, br, t, initial)
    <3>1. PICK o \in OrderIds, key \in Keys, br \in Branches, t \in Totals, initial \in SaleStatuses :
          CreateSale(s, o, key, br, t, initial)
      BY <2>1
    <3>2. /\ sales' = [sales EXCEPT ![s] = OrderSale(o, key, br, t, initial)]
          /\ ~Sold(s) /\ UNCHANGED vars /\ status[o] = "DELIVERED"
      BY <3>1 DEF CreateSale, OrderSale
    <3>3. sales'[s].origin = "ORDER" /\ \A r \in SaleIds : r # s => sales'[r] = sales[r]
      BY <3>2 DEF OrderSale, SalesInv, SalesTypeOK
    <3>4. \A w \in Warehouses, v \in Variants : SoldFrom(s, w, v)' = SoldFrom(s, w, v)
      BY <3>2, <3>3 DEF SoldFrom
    <3> QED
      BY <3>2, <3>3, <3>4, SaleBalancesQuiet
  <2>2. CASE \E key \in Keys, br \in Branches, w \in Warehouses, b \in Baskets, ref \in References,
                t \in Totals :
               CreatePosSale(s, key, br, w, b, ref, t)
    BY <2>2, SaleBalancesCreatePos
  <2>3. CASE Sold(s) /\ \E key \in Keys, a \in 1..sales[s].total, ref \in References :
                            RecordPayment(s, key, a, ref)
    <3>1. PICK key \in Keys, a \in 1..sales[s].total, ref \in References :
            RecordPayment(s, key, a, ref)
      BY <2>3
    <3>2. /\ UNCHANGED vars /\ sales[s].status \notin {"CANCELLED", "PAID"}
          /\ \A r \in SaleIds : r # s => sales'[r] = sales[r]
      BY <3>1 DEF RecordPayment, SalesInv, SalesTypeOK
    <3>3. sales[s].origin # "POS" /\ Kept(s)
      <4>1. SaleFits(s) /\ sales[s].total \in Nat /\ sales[s].paid \in Nat
        BY <2>3, SoldFacts DEF SalesInv
      <4>2. PICK n \in Nat, st \in SaleStatuses : sales' = [sales EXCEPT ![s] = Changed(sales[s], n, st)]
        <5>1. sales[s].paid + a \in Nat
          BY <4>1
        <5>2. sales' = [sales EXCEPT ![s] = Changed(sales[s], sales[s].paid + a,
                    IF sales[s].paid + a = sales[s].total THEN "PAID" ELSE "PARTIAL")]
          BY <3>1 DEF RecordPayment, Changed, SalesInv, SalesTypeOK
        <5> QED
          BY <5>1, <5>2 DEF SaleStatuses
      <4> QED
        BY <2>3, <3>2, <4>1, <4>2, ColumnsKeep DEF SaleFits
    <3>4. \A w \in Warehouses, v \in Variants : SoldFrom(s, w, v)' = SoldFrom(s, w, v)
      BY <2>3, <3>3 DEF SoldFrom, Kept
    <3> QED
      BY <3>2, <3>4, SaleBalancesQuiet
  <2>4. CASE CancelSale(s)
    <3>1. /\ UNCHANGED vars /\ sales[s].status = "PENDING"
          /\ \A r \in SaleIds : r # s => sales'[r] = sales[r]
      BY <2>4 DEF CancelSale, SalesInv, SalesTypeOK
    <3>2. sales'[s].status = "CANCELLED"
      <4>1. sales[s] \in SaleRows
        BY <2>4, SoldFacts DEF CancelSale
      <4> QED
        BY <2>4, <4>1 DEF CancelSale, SalesInv, SalesTypeOK, SaleRows
    <3>3. \A w \in Warehouses, v \in Variants : SoldFrom(s, w, v)' = SoldFrom(s, w, v)
      BY <3>1, <3>2 DEF SoldFrom
    <3> QED
      BY <3>1, <3>3, SaleBalancesQuiet
  <2>5. CASE \E ref \in References : ReversePosSale(s, ref)
    BY <2>5, SaleBalancesReverse
  <2>6. CASE Repeats(s)
    <3>1. UNCHANGED <<vars, sales>>
      BY <2>6 DEF Repeats, CreateSaleAgain, CreatePosSaleAgain, RecordPaymentAgain
    <3> QED
      BY <3>1, SaleBalancesQuiet DEF SoldFrom, Sold
  <2> QED
    BY <1>2, <2>1, <2>2, <2>3, <2>4, <2>5, <2>6 DEF SaleNext, Repeats
<1> QED
  BY <1>1, <1>2 DEF SalesNext, salesVars, saleVars, MoveWarehouse

(***************************************************************************)
(* Stock is explained by orders and sales together, for any number of      *)
(* them: no direct sale, reversal, order or movement loses goods, doubles  *)
(* them or returns them to another warehouse.                              *)
(***************************************************************************)
THEOREM StockStaysExplained == SalesSpec => []StockIsExplained
<1>1. SalesInv /\ SaleBalances => StockIsExplained
  <2> SUFFICES ASSUME SaleBalances, NEW w \in Warehouses, NEW v \in Variants
               PROVE  stock[w][v] + Cardinality(UnitsOut(w, v)) + Cardinality(UnitsSold(w, v)) = base[w][v]
    BY DEF StockIsExplained
  <2>1. UnitsOut(w, v) = Columns(Held(w, v)) /\ UnitsSold(w, v) = Columns(Taken(w, v))
    BY UnitsAreColumns, SoldAreColumns
  <2> QED
    BY <2>1 DEF SaleBalances, Balanced, TakenFrom
<1> QED
  BY <1>1, SalesInvInit, SalesInvNext, SaleBalancesInit, SaleBalancesNext, PTL DEF SalesSpec

------------------------------------------------------------------------------
(***************************************************************************)
(* Events and money.  Next to what EventsTellTheSale says, an event of     *)
(* cancellation is there only when the sale is cancelled; until then the   *)
(* column of the amount paid is the sum of the payment rows, and after it  *)
(* these rows are the whole price of a direct sale, and none of another.   *)
(***************************************************************************)
Opening(e) == e.type = "CREATED" /\ e.old = ""
Chained(log) ==
  /\ Len(log) # 0 /\ Opening(log[1])
  /\ \A i \in 2..Len(log) : log[i].old = log[i - 1].new /\ log[i].type # "CREATED"
Closed(log, amount) ==
  \A i \in DOMAIN log : log[i].type = "CANCELLED" => i = Len(log) /\ log[i].amount = amount
Closing(log) == \E i \in DOMAIN log : log[i].type = "CANCELLED"

MoneyFits(s) ==
  /\ IsFiniteSet(UnitsOf(Amounts(s)))
  /\ Sold(s) => /\ IsFiniteSet(UnitsOf(Collecting(events[s])))
                /\ Collected(events[s]) = Received(s)
                /\ IF sales[s].status # "CANCELLED" THEN sales[s].paid = Received(s)
                   ELSE Received(s) = IF sales[s].origin = "POS" THEN sales[s].total ELSE 0
LogFits(s) ==
  Sold(s) =>
    /\ Chained(events[s])
    /\ events[s][Len(events[s])].new = sales[s].status
    /\ Closed(events[s], Received(s))
    /\ Closing(events[s]) => sales[s].status = "CANCELLED"
LogInv == \A s \in SaleIds : MoneyFits(s) /\ LogFits(s)

(* What the links and the reversal say of a sale: a direct sale has its    *)
(* exits, and its entries once it is reversed; no other sale has any.      *)
GoodsFit(s) ==
  /\ ~Sold(s) \/ sales[s].origin = "ORDER" =>
       /\ reversal[s] = NoReference
       /\ moved[s]["SALE"] = NoItems /\ moved[s]["REVERSAL"] = NoItems
  /\ Sold(s) /\ sales[s].origin = "POS" =>
       /\ Listed(sales[s].items) # {} /\ moved[s]["SALE"] = LinkedExit(sales[s].items)
       /\ \/ /\ reversal[s] = NoReference /\ sales[s].status = "PAID"
             /\ moved[s]["REVERSAL"] = NoItems
          \/ /\ reversal[s] # NoReference /\ sales[s].status = "CANCELLED"
             /\ moved[s]["REVERSAL"] = sales[s].items
BookInv == \A s \in SaleIds : GoodsFit(s)

LEMMA SumOfNothing ==
  ASSUME NEW f, DOMAIN f = {}
  PROVE  IsFiniteSet(UnitsOf(f)) /\ SumOf(f) = 0
<1>1. UnitsOf(f) = {}
  BY DEF UnitsOf
<1> QED
  BY <1>1, FS_EmptySet DEF SumOf

(* One more value adds its column to the sum.                              *)
LEMMA SumGrows ==
  ASSUME NEW f, NEW g, NEW x, NEW n \in Nat,
         x \notin DOMAIN f, DOMAIN g = DOMAIN f \cup {x},
         \A y \in DOMAIN f : g[y] = f[y], g[x] = n, IsFiniteSet(UnitsOf(f))
  PROVE  IsFiniteSet(UnitsOf(g)) /\ SumOf(g) = SumOf(f) + n
<1>1. \A u : u \in UnitsOf(f) <=> \E y \in DOMAIN f : u \in Column(y, f[y])
  BY DEF UnitsOf, Column
<1>2. \A u : u \in UnitsOf(g) <=> \E y \in DOMAIN g : u \in Column(y, g[y])
  BY DEF UnitsOf, Column
<1>3. UnitsOf(g) = UnitsOf(f) \cup Column(x, n)
  <2>0. \A y : y \in DOMAIN g <=> y \in DOMAIN f \/ y = x
    OBVIOUS
  <2>1. ASSUME NEW u, u \in UnitsOf(g) PROVE u \in UnitsOf(f) \cup Column(x, n)
    <3>1. PICK y \in DOMAIN g : u \in Column(y, g[y])
      BY <1>2, <2>1
    <3>2. CASE y = x
      BY <3>1, <3>2
    <3>3. CASE y \in DOMAIN f
      <4>1. u \in Column(y, f[y])
        BY <3>1, <3>3
      <4> QED
        BY <1>1, <3>3, <4>1
    <3> QED
      BY <2>0, <3>2, <3>3
  <2>2. ASSUME NEW u, u \in UnitsOf(f) PROVE u \in UnitsOf(g)
    <3>1. PICK y \in DOMAIN f : u \in Column(y, f[y])
      BY <1>1, <2>2
    <3>2. y \in DOMAIN g /\ u \in Column(y, g[y])
      BY <2>0, <3>1
    <3> QED
      BY <1>2, <3>2
  <2>3. ASSUME NEW u, u \in Column(x, n) PROVE u \in UnitsOf(g)
    <3>1. x \in DOMAIN g /\ u \in Column(x, g[x])
      BY <2>0, <2>3
    <3> QED
      BY <1>2, <3>1
  <2> QED
    BY <2>1, <2>2, <2>3
<1>4. UnitsOf(f) \cap Column(x, n) = {}
  <2>1. \A y, k, u : u \in Column(y, k) => u[1] = y
    BY DEF Column
  <2>2. ASSUME NEW u, u \in UnitsOf(f), u \in Column(x, n) PROVE FALSE
    <3>1. PICK y \in DOMAIN f : u \in Column(y, f[y])
      BY <1>1, <2>2
    <3>2. u[1] = y /\ u[1] = x
      BY <2>1, <2>2, <3>1
    <3> QED
      BY <3>1, <3>2
  <2> QED
    BY <2>2
<1>5. IsFiniteSet(Column(x, n)) /\ Cardinality(Column(x, n)) = n
  BY ColumnSize
<1>6. PICK U, C : U = UnitsOf(f) /\ C = Column(x, n)
  OBVIOUS
<1>7. /\ IsFiniteSet(U) /\ IsFiniteSet(C) /\ U \cap C = {}
      /\ Cardinality(U) = SumOf(f) /\ Cardinality(C) = n
  BY <1>4, <1>5, <1>6 DEF SumOf
<1>8. IsFiniteSet(U \cup C) /\ Cardinality(U \cup C) = Cardinality(U) + Cardinality(C)
  BY <1>7, DisjointUnion
<1>9. UnitsOf(g) = U \cup C /\ SumOf(g) = Cardinality(U \cup C)
  BY <1>3, <1>6 DEF SumOf
<1> QED
  BY <1>7, <1>8, <1>9

LEMMA SumType ==
  ASSUME NEW f, IsFiniteSet(UnitsOf(f))
  PROVE  SumOf(f) \in Nat
  BY FS_CardinalityType DEF SumOf

(* An event at the end of a log.                                           *)
LEMMA AppendFacts ==
  ASSUME NEW log \in Seq(EventRows), NEW e \in EventRows
  PROVE  /\ Append(log, e) \in Seq(EventRows) /\ Len(log) \in Nat
         /\ Len(Append(log, e)) = Len(log) + 1
         /\ DOMAIN log = 1..Len(log)
         /\ DOMAIN Append(log, e) = DOMAIN log \cup {Len(log) + 1}
         /\ Len(log) + 1 \notin DOMAIN log
         /\ \A i \in DOMAIN log : Append(log, e)[i] = log[i]
         /\ Append(log, e)[Len(log) + 1] = e
  OBVIOUS

LEMMA ChainGrows ==
  ASSUME NEW log \in Seq(EventRows), NEW e \in EventRows, Chained(log),
         e.type # "CREATED", e.old = log[Len(log)].new
  PROVE  Chained(Append(log, e)) /\ Append(log, e)[Len(Append(log, e))] = e
<1> DEFINE more == Append(log, e)
<1>0. Len(log) \in Nat \ {0}
  BY AppendFacts DEF Chained
<1>1. /\ Len(log) \in Nat \ {0} /\ Len(more) = Len(log) + 1
      /\ \A i \in 1..Len(log) : more[i] = log[i]
      /\ more[Len(log) + 1] = e /\ more \in Seq(EventRows)
  BY <1>0, AppendFacts
<1> HIDE DEF more
<1>2. Len(more) # 0 /\ more[1] = log[1]
  BY <1>1
<1>3. ASSUME NEW i \in 2..Len(more)
      PROVE  more[i].old = more[i - 1].new /\ more[i].type # "CREATED"
  <2>1. CASE i \in 2..Len(log)
    <3>1. more[i] = log[i] /\ more[i - 1] = log[i - 1]
      BY <1>1, <2>1
    <3> QED
      BY <2>1, <3>1 DEF Chained
  <2>2. CASE i = Len(log) + 1
    BY <1>1, <2>2
  <2> QED
    BY <1>1, <2>1, <2>2
<1>4. Chained(more) /\ more[Len(more)] = e
  BY <1>1, <1>2, <1>3 DEF Chained
<1> QED
  BY <1>4 DEF more

LEMMA CollectingQuiet ==
  ASSUME NEW log \in Seq(EventRows), NEW e \in EventRows, e.type # "PAYMENT_RECORDED"
  PROVE  Collecting(Append(log, e)) = Collecting(log)
<1>1. Collections(Append(log, e)) = Collections(log)
  BY AppendFacts DEF Collections
<1>2. \A i \in Collections(log) : Append(log, e)[i] = log[i]
  BY AppendFacts DEF Collections
<1> QED
  BY <1>1, <1>2 DEF Collecting

LEMMA CollectingGrows ==
  ASSUME NEW log \in Seq(EventRows), NEW e \in EventRows, e.type = "PAYMENT_RECORDED",
         IsFiniteSet(UnitsOf(Collecting(log)))
  PROVE  /\ IsFiniteSet(UnitsOf(Collecting(Append(log, e))))
         /\ Collected(Append(log, e)) = Collected(log) + e.amount
<1> DEFINE x == Len(log) + 1
           S == Collections(log)
           f == Collecting(log)
           g == Collecting(Append(log, e))
<1>1. Collections(Append(log, e)) = S \cup {x} /\ x \notin S
  BY AppendFacts DEF Collections
<1>2. DOMAIN f = S /\ DOMAIN g = S \cup {x}
  BY <1>1 DEF Collecting
<1>3. \A i \in S : g[i] = f[i]
  BY <1>1, AppendFacts DEF Collecting, Collections
<1>4. g[x] = e.amount /\ e.amount \in Nat
  <2>1. Append(log, e)[x] = e /\ x \in Collections(Append(log, e))
    BY <1>1, AppendFacts
  <2>2. e.amount \in Nat
    BY DEF EventRows
  <2> QED
    BY <2>1, <2>2 DEF Collecting
<1>5. IsFiniteSet(UnitsOf(f))
  OBVIOUS
<1>6. PICK n \in Nat : n = e.amount
  BY <1>4
<1> HIDE DEF f, g, x, S
<1>7. IsFiniteSet(UnitsOf(g)) /\ SumOf(g) = SumOf(f) + n
  <2>1. /\ x \notin DOMAIN f /\ DOMAIN g = DOMAIN f \cup {x}
        /\ \A i \in DOMAIN f : g[i] = f[i]
        /\ g[x] = n
    BY <1>1, <1>2, <1>3, <1>4, <1>6
  <2> QED
    BY <1>5, <2>1, SumGrows
<1>8. Collected(log) = SumOf(f) /\ Collected(Append(log, e)) = SumOf(g)
  BY DEF f, g, Collected
<1>9. Collected(Append(log, e)) = Collected(log) + e.amount
  BY <1>6, <1>7, <1>8
<1> QED
  BY <1>7, <1>9 DEF g

(* A sale that a step leaves alone.                                        *)
LEMMA LogKept ==
  ASSUME NEW s \in SaleIds, MoneyFits(s), LogFits(s),
         sales'[s] = sales[s], events'[s] = events[s], PaymentsOf(s)' = PaymentsOf(s)
  PROVE  MoneyFits(s)' /\ LogFits(s)'
<1>1. Amounts(s)' = Amounts(s) /\ Received(s)' = Received(s) /\ (Sold(s)' <=> Sold(s))
  BY DEF Amounts, Received, SumOf, UnitsOf, Sold
<1>2. UnitsOf(Amounts(s))' = UnitsOf(Amounts(s))
  BY <1>1 DEF UnitsOf
<1>3. /\ UnitsOf(Collecting(events[s]))' = UnitsOf(Collecting(events[s]))
      /\ Collected(events[s])' = Collected(events[s])
  BY DEF UnitsOf, Collecting, Collections, Collected, SumOf
<1>4. MoneyFits(s)'
  BY <1>1, <1>2, <1>3 DEF MoneyFits
<1>5. LogFits(s)'
  BY <1>1 DEF LogFits, Chained, Closed, Closing
<1> QED
  BY <1>4, <1>5

LEMMA Singleton ==
  ASSUME NEW S, NEW x \in S
  PROVE  <<x>> \in Seq(S) /\ Len(<<x>>) = 1 /\ <<x>>[1] = x /\ DOMAIN <<x>> = 1..1
  OBVIOUS

LEMMA Pair ==
  ASSUME NEW S, NEW x \in S, NEW y \in S
  PROVE  Append(<<x>>, y) = <<x, y>>
<1>1. /\ Append(<<x>>, y) \in Seq(S) /\ Len(Append(<<x>>, y)) = 2
      /\ Append(<<x>>, y)[1] = x /\ Append(<<x>>, y)[2] = y
  OBVIOUS
<1>2. <<x, y>> \in Seq(S) /\ Len(<<x, y>>) = 2 /\ <<x, y>>[1] = x /\ <<x, y>>[2] = y
  OBVIOUS
<1>3. \A q, r \in Seq(S) : Len(q) = 2 /\ Len(r) = 2 /\ q[1] = r[1] /\ q[2] = r[2] => q = r
  OBVIOUS
<1> QED
  BY <1>1, <1>2, <1>3

(* The first event of a sale, and an event that closes it.                 *)
LEMMA FirstEvent ==
  ASSUME NEW e \in EventRows, e.type = "CREATED", Opening(e)
  PROVE  /\ <<e>> \in Seq(EventRows) /\ Len(<<e>>) = 1 /\ <<e>>[1] = e
         /\ Chained(<<e>>) /\ ~Closing(<<e>>)
         /\ IsFiniteSet(UnitsOf(Collecting(<<e>>))) /\ Collected(<<e>>) = 0
<1>1. PICK log : log = <<e>>
  OBVIOUS
<1>2. log \in Seq(EventRows) /\ Len(log) = 1 /\ log[1] = e /\ DOMAIN log = 1..1
  BY <1>1, Singleton
<1>4. Collections(log) = {} /\ ~Closing(log)
  BY <1>2 DEF Collections, Closing
<1>5. DOMAIN Collecting(log) = {}
  BY <1>4 DEF Collecting
<1>6. IsFiniteSet(UnitsOf(Collecting(log))) /\ Collected(log) = 0
  BY <1>5, SumOfNothing DEF Collected
<1>7. Chained(log)
  BY <1>2 DEF Chained
<1> QED
  BY <1>1, <1>2, <1>4, <1>6, <1>7

LEMMA CloseGrows ==
  ASSUME NEW log \in Seq(EventRows), NEW e \in EventRows, ~Closing(log)
  PROVE  /\ e.type = "CANCELLED" => Closed(Append(log, e), e.amount)
         /\ e.type # "CANCELLED" => ~Closing(Append(log, e))
  BY AppendFacts DEF Closing, Closed

LEMMA OpenLog ==
  ASSUME NEW log, ~Closing(log), NEW n PROVE Closed(log, n)
  BY DEF Closing, Closed

(* A new row of payments.                                                  *)
LEMMA ReceivedGrows ==
  ASSUME NEW s \in SaleIds, NEW pay \in PaymentRows, pay \notin payments, pay.sale = s,
         payments' = payments \cup {pay}, IsFiniteSet(UnitsOf(Amounts(s)))
  PROVE  IsFiniteSet(UnitsOf(Amounts(s)))' /\ Received(s)' = Received(s) + pay.amount
<1>1. PICK f, g : f = Amounts(s) /\ g = Amounts(s)'
  OBVIOUS
<1>2. PICK n \in Nat : n = pay.amount
  BY DEF PaymentRows
<1>3. PaymentsOf(s)' = PaymentsOf(s) \cup {pay} /\ pay \notin PaymentsOf(s)
  BY DEF PaymentsOf
<1>4. /\ pay \notin DOMAIN f /\ DOMAIN g = DOMAIN f \cup {pay}
      /\ \A p \in DOMAIN f : g[p] = f[p]
      /\ g[pay] = n
  BY <1>1, <1>2, <1>3 DEF Amounts
<1>5. IsFiniteSet(UnitsOf(f))
  BY <1>1
<1>6. IsFiniteSet(UnitsOf(g)) /\ SumOf(g) = SumOf(f) + n
  BY <1>4, <1>5, SumGrows
<1>7. Received(s) = SumOf(f) /\ Received(s)' = SumOf(g) /\ UnitsOf(Amounts(s))' = UnitsOf(g)
  BY <1>1 DEF Received, SumOf, UnitsOf
<1> QED
  BY <1>2, <1>6, <1>7

(* Rows of other sales that a service of s leaves alone.                   *)
LEMMA OthersAside ==
  ASSUME SalesInv, NEW s \in SaleIds, SaleNext(s), NEW r \in SaleIds, r # s
  PROVE  /\ sales'[r] = sales[r] /\ events'[r] = events[r] /\ PaymentsOf(r)' = PaymentsOf(r)
         /\ moved'[r] = moved[r] /\ reversal'[r] = reversal[r]
<1> USE DEF SalesInv, SalesTypeOK, PaymentsOf
<1>1. CASE \E o \in OrderIds, key \in Keys, br \in Branches, t \in Totals, initial \in SaleStatuses :
             CreateSale(s, o, key, br, t, initial)
  <2>1. PICK o \in OrderIds, key \in Keys, br \in Branches, t \in Totals, initial \in SaleStatuses :
          CreateSale(s, o, key, br, t, initial)
    BY <1>1
  <2>2. /\ sales' = [sales EXCEPT ![s] = OrderSale(o, key, br, t, initial)]
        /\ events' = [events EXCEPT ![s] = <<Event("CREATED", "", initial, 0)>>]
        /\ UNCHANGED <<payments, moved, reversal>>
    BY <2>1 DEF CreateSale, OrderSale
  <2> QED
    BY <2>2
<1>2. CASE \E key \in Keys, br \in Branches, w \in Warehouses, b \in Baskets, ref \in References,
                t \in Totals :
             CreatePosSale(s, key, br, w, b, ref, t)
  <2>1. PICK key \in Keys, br \in Branches, w \in Warehouses, b \in Baskets, ref \in References,
                 t \in Totals :
          CreatePosSale(s, key, br, w, b, ref, t)
    BY <1>2
  <2>2. payments' = payments \cup {[sale |-> s, key |-> key, amount |-> t, reference |-> ref]}
    BY <2>1 DEF CreatePosSale
  <2>3. PaymentsOf(r)' = PaymentsOf(r)
    BY <2>2
  <2> QED
    BY <2>1, <2>3 DEF CreatePosSale
<1>3. CASE \E key \in Keys, a \in 1..sales[s].total, ref \in References : RecordPayment(s, key, a, ref)
  <2>1. PICK key \in Keys, a \in 1..sales[s].total, ref \in References : RecordPayment(s, key, a, ref)
    BY <1>3
  <2>2. payments' = payments \cup {[sale |-> s, key |-> key, amount |-> a, reference |-> ref]}
    BY <2>1 DEF RecordPayment
  <2>3. PaymentsOf(r)' = PaymentsOf(r)
    BY <2>2
  <2> QED
    BY <2>1, <2>3 DEF RecordPayment
<1>4. CASE CancelSale(s)
  BY <1>4 DEF CancelSale
<1>5. CASE \E ref \in References : ReversePosSale(s, ref)
  BY <1>5 DEF ReversePosSale
<1>6. CASE Repeats(s)
  BY <1>6 DEF Repeats, CreateSaleAgain, CreatePosSaleAgain, RecordPaymentAgain
<1> QED
  BY <1>1, <1>2, <1>3, <1>4, <1>5, <1>6 DEF SaleNext, Repeats

(* The events that the services write.                                     *)
LEMMA CreatedEvent ==
  ASSUME NEW st \in SaleStatuses
  PROVE  \E e \in EventRows : /\ e = Event("CREATED", "", st, 0)
                              /\ e.type = "CREATED" /\ Opening(e) /\ e.new = st
<1> DEFINE e == Event("CREATED", "", st, 0)
<1>1. e \in EventRows
  BY DEF Event, EventRows, EventTypes
<1>2. e.type = "CREATED" /\ e.new = st
  BY DEF Event
<1>3. e.old = ""
  BY Zenon DEF Event
<1> QED
  BY <1>1, <1>2, <1>3, Zenon DEF Opening

LEMMA LaterEvent ==
  ASSUME NEW type \in {"PAYMENT_RECORDED", "CANCELLED"}, NEW old \in SaleStatuses,
         NEW st \in SaleStatuses, NEW n \in Nat
  PROVE  \E e \in EventRows : /\ e = Event(type, old, st, n)
                              /\ e.type = type /\ e.old = old /\ e.new = st /\ e.amount = n
<1> DEFINE e == Event(type, old, st, n)
<1>1. e \in EventRows
  BY DEF Event, EventRows, EventTypes
<1>2. e.type = type /\ e.old = old /\ e.new = st /\ e.amount = n
  BY DEF Event
<1> QED
  BY <1>1, <1>2, Zenon

LEMMA NewPayment ==
  ASSUME NEW s \in SaleIds, NEW key \in Keys, NEW n \in Nat \ {0}, NEW ref \in References
  PROVE  \E pay \in PaymentRows :
           /\ pay = [sale |-> s, key |-> key, amount |-> n, reference |-> ref]
           /\ pay.sale = s /\ pay.key = key /\ pay.amount = n
<1> DEFINE pay == [sale |-> s, key |-> key, amount |-> n, reference |-> ref]
<1>1. pay \in PaymentRows /\ pay.sale = s /\ pay.key = key /\ pay.amount = n
  BY DEF PaymentRows
<1> QED
  BY <1>1, Zenon

(* What a new event and the payment it names leave of a sale s, whose row  *)
(* becomes one with the given status and amount paid.                      *)
LEMMA LogCreated ==
  ASSUME SalesInv, NEW s \in SaleIds, NEW log, NEW row, MoneyFits(s), PaymentsOf(s) = {},
         UNCHANGED payments, sales'[s] = row, row # NoSale, row.paid = 0, row.status # "CANCELLED", events'[s] = log,
         Chained(log), log[Len(log)].new = row.status, ~Closing(log),
         IsFiniteSet(UnitsOf(Collecting(log))), Collected(log) = 0
  PROVE  MoneyFits(s)' /\ LogFits(s)'
<1>1. Received(s)' = 0 /\ IsFiniteSet(UnitsOf(Amounts(s)))'
  <2>1. PaymentsOf(s)' = {}
    BY DEF PaymentsOf
  <2>2. PICK f : f = Amounts(s)'
    OBVIOUS
  <2>3. DOMAIN f = {}
    BY <2>1, <2>2 DEF Amounts
  <2>4. IsFiniteSet(UnitsOf(f)) /\ SumOf(f) = 0
    BY <2>3, SumOfNothing
  <2>5. Received(s)' = SumOf(f) /\ UnitsOf(Amounts(s))' = UnitsOf(f)
    BY <2>2 DEF Received, SumOf, UnitsOf
  <2> QED
    BY <2>4, <2>5
<1>2. Collected(log)' = Collected(log) /\ UnitsOf(Collecting(log))' = UnitsOf(Collecting(log))
  OBVIOUS
<1>3. MoneyFits(s)'
  BY <1>1 DEF MoneyFits
<1>4. LogFits(s)'
  BY OpenLog DEF LogFits
<1> QED
  BY <1>3, <1>4

LEMMA NoSaleNoPayments ==
  ASSUME KeysInv, NEW s \in SaleIds, ~Sold(s)
  PROVE  PaymentsOf(s) = {}
  BY DEF KeysInv, PaymentKeys, PaymentsOf

LEMMA LogCreate ==
  ASSUME SalesInv, KeysInv, NEW s \in SaleIds, NEW o \in OrderIds, NEW key \in Keys,
         NEW br \in Branches, NEW t \in Totals, NEW initial \in SaleStatuses,
         CreateSale(s, o, key, br, t, initial), MoneyFits(s)
  PROVE  MoneyFits(s)' /\ LogFits(s)'
<1>1. initial # "CANCELLED"
  BY DEF CreateSale
<1>2. PICK e \in EventRows : /\ e = Event("CREATED", "", initial, 0)
                             /\ e.type = "CREATED" /\ Opening(e) /\ e.new = initial
  BY CreatedEvent
<1>3. events'[s] = <<e>>
  <2>1. events' = [events EXCEPT ![s] = <<Event("CREATED", "", initial, 0)>>]
    BY DEF CreateSale
  <2> QED
    BY <1>2, <2>1 DEF SalesInv, SalesTypeOK
<1>4. PICK log : log = <<e>>
  OBVIOUS
<1>5. /\ Len(log) = 1 /\ log[1] = e /\ Chained(log) /\ ~Closing(log)
      /\ IsFiniteSet(UnitsOf(Collecting(log))) /\ Collected(log) = 0
  BY <1>2, <1>4, FirstEvent
<1>6. PICK row \in SaleRows : row = OrderSale(o, key, br, t, initial) /\ row.status = initial /\ row.paid = 0
  <2>1. OrderSale(o, key, br, t, initial) \in SaleRows
    BY OrderSaleRow DEF CreateSale
  <2> QED
    BY <2>1 DEF OrderSale
<1>7. sales'[s] = row /\ UNCHANGED payments /\ ~Sold(s)
  BY <1>6 DEF CreateSale, OrderSale, SalesInv, SalesTypeOK
<1>8. PaymentsOf(s) = {}
  BY <1>7, NoSaleNoPayments
<1> QED
  BY <1>1, <1>2, <1>3, <1>4, <1>5, <1>6, <1>7, <1>8, LogCreated, NoSaleAssumption

LEMMA LogCreatePos ==
  ASSUME SalesInv, KeysInv, NEW s \in SaleIds, NEW key \in Keys, NEW br \in Branches,
         NEW w \in Warehouses, NEW b \in Baskets, NEW ref \in References, NEW t \in Totals,
         CreatePosSale(s, key, br, w, b, ref, t), MoneyFits(s)
  PROVE  MoneyFits(s)' /\ LogFits(s)'
<1>1. t \in Nat \ {0} /\ "PAID" \in SaleStatuses
  <2>1. t > 0
    BY DEF CreatePosSale
  <2> QED
    BY <2>1, TotalsAssumption DEF SaleStatuses
<1>2. PICK e \in EventRows : e = Event("CREATED", "", "PAID", 0) /\ e.type = "CREATED" /\ Opening(e) /\ e.new = "PAID"
  BY <1>1, CreatedEvent
<1>3. PICK f \in EventRows : /\ f = Event("PAYMENT_RECORDED", "PAID", "PAID", t)
                             /\ f.type = "PAYMENT_RECORDED" /\ f.old = "PAID" /\ f.new = "PAID" /\ f.amount = t
  BY <1>1, LaterEvent
<1>4. PICK log, more : log = <<e>> /\ more = Append(log, f) /\ more = <<e, f>>
  BY Pair
<1>5. events'[s] = more
  <2>1. events' = [events EXCEPT ![s] = <<Event("CREATED", "", "PAID", 0),
                                          Event("PAYMENT_RECORDED", "PAID", "PAID", t)>>]
    BY DEF CreatePosSale
  <2> QED
    BY <1>2, <1>3, <1>4, <2>1 DEF SalesInv, SalesTypeOK
<1>6. /\ log \in Seq(EventRows) /\ Len(log) = 1 /\ log[1] = e /\ Chained(log) /\ ~Closing(log)
      /\ IsFiniteSet(UnitsOf(Collecting(log))) /\ Collected(log) = 0
  BY <1>2, <1>4, FirstEvent
<1>7. Chained(more) /\ more[Len(more)] = f
  <2>1. f.type # "CREATED" /\ f.old = log[Len(log)].new
    BY <1>2, <1>3, <1>6
  <2> QED
    BY <1>4, <1>6, <2>1, ChainGrows
<1>8. ~Closing(more) /\ IsFiniteSet(UnitsOf(Collecting(more))) /\ Collected(more) = t
  <2>1. ~Closing(more)
    BY <1>3, <1>4, <1>6, CloseGrows
  <2>2. IsFiniteSet(UnitsOf(Collecting(more))) /\ Collected(more) = Collected(log) + f.amount
    BY <1>3, <1>4, <1>6, CollectingGrows
  <2> QED
    BY <1>1, <1>3, <1>6, <2>1, <2>2
<1>9. PICK row \in SaleRows : row = PosSale(key, br, w, b, t) /\ row.status = "PAID" /\ row.paid = t
  <2>1. PosSale(key, br, w, b, t) \in SaleRows
    BY <1>1, PosSaleRow
  <2> QED
    BY <2>1 DEF PosSale
<1>10. sales'[s] = row /\ ~Sold(s) /\ Sold(s)'
  BY <1>9, NoSaleAssumption DEF CreatePosSale, PosSale, SalesInv, SalesTypeOK, Sold
<1>11. IsFiniteSet(UnitsOf(Amounts(s)))' /\ Received(s)' = t
  <2>1. PICK pay \in PaymentRows :
          /\ pay = [sale |-> s, key |-> key, amount |-> t, reference |-> ref]
          /\ pay.sale = s /\ pay.key = key /\ pay.amount = t
    BY <1>1, NewPayment
  <2>2. payments' = payments \cup {pay}
    BY <2>1 DEF CreatePosSale
  <2>3. PaymentsOf(s) = {}
    BY <1>10, NoSaleNoPayments
  <2>4. pay \notin payments
    BY <2>1, <2>3 DEF PaymentsOf
  <2>5. Received(s) = 0
    <3>1. DOMAIN Amounts(s) = {}
      BY <2>3 DEF Amounts
    <3> QED
      BY <3>1, SumOfNothing DEF Received
  <2>6. IsFiniteSet(UnitsOf(Amounts(s)))' /\ Received(s)' = Received(s) + pay.amount
    BY <2>1, <2>2, <2>4, ReceivedGrows DEF MoneyFits
  <2> QED
    BY <1>1, <2>1, <2>5, <2>6
<1>12. MoneyFits(s)'
  <2>1. UnitsOf(Collecting(events[s]))' = UnitsOf(Collecting(more)) /\ Collected(events[s])' = t
    BY <1>5, <1>8
  <2> QED
    BY <1>8, <1>9, <1>10, <1>11, <2>1 DEF MoneyFits
<1>13. LogFits(s)'
  <2>1. Closed(more, t)
    BY <1>8, OpenLog
  <2> QED
    BY <1>3, <1>5, <1>7, <1>8, <1>9, <1>10, <1>11, <2>1 DEF LogFits
<1> QED
  BY <1>12, <1>13

(* The log of a sale that is not cancelled.                                *)
LEMMA OpenSaleLog ==
  ASSUME SalesInv, NEW s \in SaleIds, LogFits(s), Sold(s), sales[s].status # "CANCELLED"
  PROVE  /\ events[s] \in Seq(EventRows) /\ Chained(events[s]) /\ ~Closing(events[s])
         /\ events[s][Len(events[s])].new = sales[s].status
  BY SoldFacts DEF LogFits

LEMMA LogPayment ==
  ASSUME SalesInv, KeysInv, NEW s \in SaleIds, NEW key \in Keys, NEW a \in Nat \ {0},
         NEW ref \in References, RecordPayment(s, key, a, ref), MoneyFits(s), LogFits(s)
  PROVE  MoneyFits(s)' /\ LogFits(s)'
<1>1. Sold(s) /\ PaymentsWith(s, key) = {} /\ sales[s].status \notin {"CANCELLED", "PAID"}
  BY DEF RecordPayment
<1>2. PICK old \in SaleStatuses, n \in Nat : old = sales[s].status /\ n = sales[s].paid
  BY <1>1, SoldFacts
<1>3. PICK new \in SaleStatuses : /\ new = IF n + a = sales[s].total THEN "PAID" ELSE "PARTIAL"
                                  /\ new # "CANCELLED"
  BY DEF SaleStatuses
<1>4. PICK e \in EventRows : /\ e = Event("PAYMENT_RECORDED", old, new, a)
                             /\ e.type = "PAYMENT_RECORDED" /\ e.old = old /\ e.new = new /\ e.amount = a
  BY LaterEvent
<1>5. events' = [events EXCEPT ![s] = Append(events[s], e)]
  <2>1. events' = [events EXCEPT ![s] = Append(events[s],
                     Event("PAYMENT_RECORDED", sales[s].status,
                           IF sales[s].paid + a = sales[s].total THEN "PAID" ELSE "PARTIAL", a))]
    BY DEF RecordPayment
  <2> QED
    BY <1>2, <1>3, <1>4, <2>1
<1>6a. PICK log, more : log = events[s] /\ more = Append(log, e)
  OBVIOUS
<1>6. /\ log \in Seq(EventRows) /\ more \in Seq(EventRows)
      /\ events'[s] = more
      /\ Chained(more) /\ more[Len(more)] = e /\ ~Closing(more)
  <2>1. /\ log \in Seq(EventRows) /\ Chained(log) /\ ~Closing(log) /\ e.old = log[Len(log)].new
        /\ e \in EventRows
    BY <1>1, <1>2, <1>4, <1>6a, OpenSaleLog
  <2>2. Chained(more) /\ more[Len(more)] = e
    BY <1>4, <1>6a, <2>1, ChainGrows
  <2>3. ~Closing(more)
    BY <1>4, <1>6a, <2>1, CloseGrows
  <2>4. events'[s] = more /\ more \in Seq(EventRows)
    BY <1>5, <1>6a, <2>1, AppendFacts DEF SalesInv, SalesTypeOK
  <2> QED
    BY <2>1, <2>2, <2>3, <2>4
<1>7. /\ Collected(log) = Received(s) /\ n = Received(s)
      /\ IsFiniteSet(UnitsOf(Collecting(log)))
  BY <1>1, <1>2, <1>6a DEF MoneyFits
<1>8. IsFiniteSet(UnitsOf(Collecting(more))) /\ Collected(more) = Collected(log) + a
  BY <1>4, <1>6, <1>6a, <1>7, CollectingGrows
<1>9. IsFiniteSet(UnitsOf(Amounts(s)))' /\ Received(s)' = Received(s) + a
  <2>1. PICK pay \in PaymentRows :
          /\ pay = [sale |-> s, key |-> key, amount |-> a, reference |-> ref]
          /\ pay.sale = s /\ pay.key = key /\ pay.amount = a
    BY NewPayment
  <2>2. payments' = payments \cup {pay}
    BY <2>1 DEF RecordPayment
  <2>3. pay \notin payments
    BY <1>1, <2>1 DEF PaymentsWith, PaymentsOf
  <2> QED
    BY <2>1, <2>2, <2>3, ReceivedGrows DEF MoneyFits
<1>10. Sold(s)' /\ sales'[s].status = new /\ sales'[s].paid = n + a
  <2>1. sales' = [sales EXCEPT ![s] = Changed(sales[s], n + a, new)]
    BY <1>2, <1>3 DEF RecordPayment, Changed, SalesInv, SalesTypeOK
  <2>2. PICK row : row = Changed(sales[s], n + a, new)
    OBVIOUS
  <2>3. Rewrites(row, sales[s], n + a, new)
    <3>1. sales[s] \in SaleRows /\ n + a \in Nat
      BY <1>1, SoldFacts
    <3> QED
      BY <2>2, <3>1, RowChanges, Zenon
  <2>4. sales'[s] = row
    BY <2>1, <2>2 DEF SalesInv, SalesTypeOK
  <2> QED
    BY <2>3, <2>4, NoSaleAssumption DEF Rewrites, Sold
<1>11. MoneyFits(s)'
  <2>1. UnitsOf(Collecting(events[s]))' = UnitsOf(Collecting(more))
        /\ Collected(events[s])' = Collected(more)
    BY <1>6
  <2> QED
    BY <1>3, <1>7, <1>8, <1>9, <1>10, <2>1 DEF MoneyFits
<1>12. LogFits(s)'
  <2>1. ~Closing(more)
    BY <1>4, <1>6
  <2> QED
    BY <1>4, <1>6, <1>10, <2>1, OpenLog DEF LogFits
<1> QED
  BY <1>11, <1>12

(* A sale ends: its money is what it was, and the event says how much.     *)
LEMMA LogEnds ==
  ASSUME SalesInv, NEW s \in SaleIds, MoneyFits(s), LogFits(s), Sold(s),
         NEW old \in SaleStatuses, old = sales[s].status, old # "CANCELLED",
         sales[s].paid = IF sales[s].origin = "POS" THEN sales[s].total ELSE 0,
         UNCHANGED payments, sales' = [sales EXCEPT ![s] = Changed(sales[s], 0, "CANCELLED")],
         events' = [events EXCEPT ![s] = Append(events[s], Event("CANCELLED", old, "CANCELLED", sales[s].paid))]
  PROVE  MoneyFits(s)' /\ LogFits(s)'
<1>1. PICK n \in Nat : n = sales[s].paid
  BY SoldFacts
<1>2. PICK e \in EventRows : /\ e = Event("CANCELLED", old, "CANCELLED", n)
                             /\ e.type = "CANCELLED" /\ e.old = old /\ e.new = "CANCELLED" /\ e.amount = n
  BY LaterEvent DEF SaleStatuses
<1>3. events' = [events EXCEPT ![s] = Append(events[s], e)]
  BY <1>1, <1>2
<1>4a. PICK log, more : log = events[s] /\ more = Append(log, e)
  OBVIOUS
<1>4. /\ log \in Seq(EventRows) /\ more \in Seq(EventRows)
      /\ events'[s] = more
      /\ Chained(more) /\ more[Len(more)] = e /\ Closed(more, n)
  <2>1. /\ log \in Seq(EventRows) /\ Chained(log) /\ ~Closing(log) /\ e.old = log[Len(log)].new
        /\ e \in EventRows
    BY <1>2, <1>4a, OpenSaleLog
  <2>2. Chained(more) /\ more[Len(more)] = e
    BY <1>2, <1>4a, <2>1, ChainGrows
  <2>3. Closed(more, n)
    BY <1>2, <1>4a, <2>1, CloseGrows
  <2>4. events'[s] = more /\ more \in Seq(EventRows)
    BY <1>3, <1>4a, <2>1, AppendFacts DEF SalesInv, SalesTypeOK
  <2> QED
    BY <2>1, <2>2, <2>3, <2>4
<1>5. Collecting(more) = Collecting(log)
  BY <1>2, <1>4, <1>4a, CollectingQuiet
<1>6. /\ Sold(s)' /\ sales'[s].status = "CANCELLED"
      /\ sales'[s].origin = sales[s].origin /\ sales'[s].total = sales[s].total
  <2>1. Rewrites(Changed(sales[s], 0, "CANCELLED"), sales[s], 0, "CANCELLED")
    BY SoldFacts, CancelledRow
  <2>2. sales'[s] = Changed(sales[s], 0, "CANCELLED")
    BY DEF SalesInv, SalesTypeOK
  <2> QED
    BY <2>1, <2>2, NoSaleAssumption DEF Rewrites, Sold
<1>7. Received(s)' = Received(s) /\ Received(s) = n
      /\ UnitsOf(Amounts(s))' = UnitsOf(Amounts(s))
  <2>1. Amounts(s)' = Amounts(s)
    BY DEF Amounts, PaymentsOf
  <2> QED
    BY <1>1, <2>1 DEF MoneyFits, Received, SumOf, UnitsOf
<1>8. MoneyFits(s)'
  <2>1. UnitsOf(Collecting(events[s]))' = UnitsOf(Collecting(log))
        /\ Collected(events[s])' = Collected(log)
    BY <1>4, <1>5 DEF Collected
  <2>2. UnitsOf(Collecting(log)) = UnitsOf(Collecting(events[s])) /\ Collected(log) = Received(s)
    BY <1>4a DEF MoneyFits
  <2> QED
    BY <1>1, <1>6, <1>7, <2>1, <2>2 DEF MoneyFits
<1>9. LogFits(s)'
  <2>1. Closed(more, n)
    BY <1>2, <1>4
  <2> QED
    BY <1>2, <1>4, <1>6, <1>7, <2>1 DEF LogFits
<1> QED
  BY <1>8, <1>9

LEMMA LogCancel ==
  ASSUME SalesInv, NEW s \in SaleIds, CancelSale(s), MoneyFits(s), LogFits(s)
  PROVE  MoneyFits(s)' /\ LogFits(s)'
<1>1. Sold(s) /\ UNCHANGED payments /\ sales[s].status = "PENDING" /\ sales[s].paid = 0
  BY DEF CancelSale
<1>2. sales' = [sales EXCEPT ![s] = Changed(sales[s], 0, "CANCELLED")]
  <2>1. sales[s] \in SaleRows
    BY <1>1, SoldFacts
  <2>2. Changed(sales[s], 0, "CANCELLED") = [sales[s] EXCEPT !.status = "CANCELLED"]
    BY <1>1, <2>1 DEF Changed, SaleRows
  <2>3. sales' = [sales EXCEPT ![s] = [sales[s] EXCEPT !.status = "CANCELLED"]]
    BY DEF CancelSale
  <2> QED
    BY <2>2, <2>3
<1>3. events' = [events EXCEPT ![s] =
                   Append(events[s], Event("CANCELLED", "PENDING", "CANCELLED", sales[s].paid))]
  BY <1>1 DEF CancelSale
<1>4. "PENDING" \in SaleStatuses
  BY DEF SaleStatuses
<1>5. sales[s].origin # "POS"
  BY <1>1 DEF SalesInv, SaleFits
<1> QED
  BY <1>1, <1>2, <1>3, <1>4, <1>5, LogEnds

LEMMA LogReverse ==
  ASSUME SalesInv, NEW s \in SaleIds, NEW ref \in References, ReversePosSale(s, ref),
         MoneyFits(s), LogFits(s)
  PROVE  MoneyFits(s)' /\ LogFits(s)'
<1>1. Sold(s) /\ UNCHANGED payments /\ sales[s].origin = "POS" /\ sales[s].status = "PAID" /\ sales[s].paid = sales[s].total
  BY DEF ReversePosSale
<1>2. sales' = [sales EXCEPT ![s] = Changed(sales[s], 0, "CANCELLED")]
  BY ZenonT(60) DEF ReversePosSale, Changed, SalesInv, SalesTypeOK
<1>3. events' = [events EXCEPT ![s] =
                   Append(events[s], Event("CANCELLED", "PAID", "CANCELLED", sales[s].paid))]
  BY <1>1 DEF ReversePosSale
<1>4. "PAID" \in SaleStatuses
  BY DEF SaleStatuses
<1> QED
  BY <1>1, <1>2, <1>3, <1>4, LogEnds

LEMMA LogInvInit == SalesInit => LogInv
<1> SUFFICES ASSUME SalesInit, NEW s \in SaleIds PROVE MoneyFits(s) /\ LogFits(s)
  BY DEF LogInv
<1>1. ~Sold(s) /\ PaymentsOf(s) = {}
  BY DEF SalesInit, Sold, PaymentsOf
<1>2. DOMAIN Amounts(s) = {}
  BY <1>1 DEF Amounts
<1>3. IsFiniteSet(UnitsOf(Amounts(s)))
  BY <1>2, SumOfNothing
<1> QED
  BY <1>1, <1>3 DEF MoneyFits, LogFits

LEMMA LogInvNext == SalesInv /\ KeysInv /\ LogInv /\ [SalesNext]_salesVars => LogInv'
<1> SUFFICES ASSUME SalesInv, KeysInv, LogInv, [SalesNext]_salesVars, NEW r \in SaleIds
             PROVE  MoneyFits(r)' /\ LogFits(r)'
  BY DEF LogInv
<1>0. \A s \in SaleIds : MoneyFits(s) /\ LogFits(s)
  BY DEF LogInv
<1>1. CASE UNCHANGED <<sales, events, payments>>
  BY <1>0, <1>1, LogKept DEF PaymentsOf
<1>2. ASSUME NEW s \in SaleIds, SaleNext(s) PROVE MoneyFits(r)' /\ LogFits(r)'
  <2>1. CASE r # s
    BY <1>0, <1>2, <2>1, OthersAside, LogKept
  <2>2. ASSUME MoneyFits(s)' /\ LogFits(s)' PROVE MoneyFits(r)' /\ LogFits(r)'
    BY <2>1, <2>2
  <2>3. CASE \E o \in OrderIds, key \in Keys, br \in Branches, t \in Totals, initial \in SaleStatuses :
               CreateSale(s, o, key, br, t, initial)
    BY <1>0, <2>2, <2>3, LogCreate
  <2>4. CASE \E key \in Keys, br \in Branches, w \in Warehouses, b \in Baskets, ref \in References,
                t \in Totals :
               CreatePosSale(s, key, br, w, b, ref, t)
    BY <1>0, <2>2, <2>4, LogCreatePos
  <2>5. CASE Sold(s) /\ \E key \in Keys, a \in 1..sales[s].total, ref \in References :
                            RecordPayment(s, key, a, ref)
    <3>1. sales[s].total \in Nat
      BY <2>5, SoldFacts
    <3> QED
      BY <1>0, <2>2, <2>5, <3>1, LogPayment
  <2>6. CASE CancelSale(s)
    BY <1>0, <2>2, <2>6, LogCancel
  <2>7. CASE \E ref \in References : ReversePosSale(s, ref)
    BY <1>0, <2>2, <2>7, LogReverse
  <2>8. CASE Repeats(s)
    BY <1>1, <2>8 DEF Repeats, CreateSaleAgain, CreatePosSaleAgain, RecordPaymentAgain
  <2> QED
    BY <1>2, <2>3, <2>4, <2>5, <2>6, <2>7, <2>8 DEF SaleNext, Repeats
<1> QED
  BY <1>1, <1>2 DEF SalesNext, salesVars, saleVars, MoveWarehouse

LEMMA LogTells == SalesInv /\ LogInv => EventsTellTheSale
<1> SUFFICES ASSUME SalesInv, LogInv, NEW s \in SaleIds, Sold(s), NEW log, log = events[s]
             PROVE  /\ log[1].type = "CREATED" /\ log[1].old = ""
                    /\ \A i \in 2..Len(log) : log[i].old = log[i - 1].new /\ log[i].type # "CREATED"
                    /\ log[Len(log)].new = sales[s].status
                    /\ Collected(log) = Received(s)
                    /\ \A i \in 1..Len(log) : log[i].type = "CANCELLED" =>
                         i = Len(log) /\ log[i].amount = Received(s)
  BY Zenon DEF EventsTellTheSale
<1>1. MoneyFits(s) /\ LogFits(s) /\ log \in Seq(EventRows)
  BY SoldFacts DEF LogInv
<1>2. /\ Opening(log[1])
      /\ \A i \in 2..Len(log) : log[i].old = log[i - 1].new /\ log[i].type # "CREATED"
      /\ log[Len(log)].new = sales[s].status
      /\ Collected(log) = Received(s)
  BY <1>1 DEF MoneyFits, LogFits, Chained
<1>3. \A i \in 1..Len(log) : log[i].type = "CANCELLED" => i = Len(log) /\ log[i].amount = Received(s)
  <2>1. Closed(log, Received(s)) /\ DOMAIN log = 1..Len(log)
    BY <1>1 DEF LogFits
  <2> QED
    BY <2>1 DEF Closed
<1> QED
  BY <1>2, <1>3, Zenon DEF Opening

(***************************************************************************)
(* The audit trail of every sale tells its story, for any number of sales, *)
(* payments and totals: no service writes a status, a payment or a         *)
(* cancellation that the events do not chain, sum up and close with.       *)
(***************************************************************************)
THEOREM EventsAlwaysTell == SalesSpec => []EventsTellTheSale
<1>1. SalesInit => KeysInv
  BY DEF SalesInit, KeysInv, SaleKeys, PaymentKeys, Sold
<1> QED
  BY SalesInvInit, SalesInvNext, KeysInvNext, LogInvInit, LogInvNext, LogTells, <1>1, PTL DEF SalesSpec

------------------------------------------------------------------------------
(***************************************************************************)
(* Sales implements SaleBook.  Goods are read off the links and money off  *)
(* the payment rows; GoodsFit and MoneyFits say that they agree with the   *)
(* columns of the sale that the services test.                             *)
(***************************************************************************)
PriceOf(s) == IF Sold(s) THEN sales[s].total ELSE 0
Books == [s \in SaleIds |-> BookOf(s)]
Priced == [s \in SaleIds |-> PriceOf(s)]
Takings == [s \in SaleIds |-> Received(s)]
Wares == [s \in SaleIds |-> GoodsSold(s)]

(* What the book says of each kind of sale.                                *)
BookSays(s) ==
  /\ ~Sold(s) => BookOf(s) = "none" /\ GoodsSold(s) = "none"
  /\ Sold(s) /\ sales[s].origin = "ORDER" =>
       /\ reversal[s] = NoReference /\ GoodsSold(s) = "none"
       /\ sales[s].status \in {"PENDING", "PARTIAL"} => BookOf(s) = "open"
       /\ sales[s].status = "PAID" => BookOf(s) = "settled"
       /\ sales[s].status = "CANCELLED" => BookOf(s) = "void"
  /\ Sold(s) /\ sales[s].origin = "POS" =>
       \/ /\ sales[s].status = "PAID" /\ BookOf(s) = "settled" /\ GoodsSold(s) = "out"
       \/ /\ sales[s].status = "CANCELLED" /\ BookOf(s) = "refunded" /\ GoodsSold(s) = "back"

LEMMA BookFacts ==
  ASSUME NEW s \in SaleIds
  PROVE  SalesInv /\ GoodsFit(s) => BookSays(s)
<1> SUFFICES ASSUME SalesInv, GoodsFit(s) PROVE BookSays(s)
  OBVIOUS
<1> USE DEF BookSays
<1>1. \A k \in MoveKinds : moved[s][k] = NoItems => MovedBy(s, k) = {}
  BY DEF MovedBy, NoItems
<1>2. "SALE" \in MoveKinds /\ "REVERSAL" \in MoveKinds
  BY DEF MoveKinds
<1>3. CASE ~Sold(s)
  BY <1>1, <1>2, <1>3 DEF GoodsFit, BookOf, GoodsSold
<1>4. CASE Sold(s) /\ sales[s].origin = "ORDER"
  BY <1>1, <1>2, <1>4 DEF GoodsFit, BookOf, GoodsSold, Reversed
<1>5. CASE Sold(s) /\ sales[s].origin = "POS"
  <2>1. sales[s].items \in Baskets
    BY <1>5, SoldFacts
  <2>2. moved[s]["SALE"] = LinkedExit(sales[s].items) => MovedBy(s, "SALE") # {}
    BY <1>5, <2>1, LinkedExitFacts DEF GoodsFit, MovedBy, Listed
  <2>3. moved[s]["REVERSAL"] = sales[s].items => MovedBy(s, "REVERSAL") # {}
    BY <1>5, <2>1, LinkedExitFacts DEF GoodsFit, MovedBy, Listed
  <2> QED
    BY <1>1, <1>2, <1>5, <2>2, <2>3 DEF GoodsFit, BookOf, GoodsSold, Reversed
<1>6. Sold(s) => sales[s].origin \in {"ORDER", "POS"}
  BY SoldFacts DEF SaleRows
<1> QED
  BY <1>3, <1>4, <1>5, <1>6

LEMMA BookFactsNext ==
  ASSUME NEW s \in SaleIds
  PROVE  SalesInv' /\ GoodsFit(s)' => BookSays(s)'
<1>1. SalesInv /\ GoodsFit(s) => BookSays(s)
  BY BookFacts
<1> QED
  BY <1>1, PTL

LEMMA GoodsKept ==
  ASSUME NEW s \in SaleIds, GoodsFit(s), sales'[s] = sales[s], moved'[s] = moved[s], reversal'[s] = reversal[s]
  PROVE  GoodsFit(s)'
  BY DEF GoodsFit, Sold

(* Where the goods stay, the row of a sale of an order may change.         *)
LEMMA GoodsOfOrderKept ==
  ASSUME NEW s \in SaleIds, GoodsFit(s), UNCHANGED <<moved, reversal>>,
         ~Sold(s) \/ sales[s].origin = "ORDER", sales'[s].origin = "ORDER"
  PROVE  GoodsFit(s)'
  BY DEF GoodsFit, Sold

LEMMA BookCreate ==
  ASSUME SalesInv, SalesInv', NEW s \in SaleIds, NEW o \in OrderIds, NEW key \in Keys,
         NEW br \in Branches, NEW t \in Totals, NEW initial \in SaleStatuses,
         CreateSale(s, o, key, br, t, initial), GoodsFit(s)
  PROVE  /\ GoodsFit(s)' /\ Sold(s)' /\ sales'[s].origin = "ORDER"
         /\ sales'[s].total = t /\ sales'[s].status = initial
<1>0. /\ sales' = [sales EXCEPT ![s] = OrderSale(o, key, br, t, initial)]
      /\ ~Sold(s) /\ UNCHANGED <<moved, reversal>> /\ status[o] = "DELIVERED"
  <2>1. sales' = [sales EXCEPT ![s] = OrderSale(o, key, br, t, initial)]
    BY Zenon DEF CreateSale, OrderSale
  <2> QED
    BY <2>1, Zenon DEF CreateSale
<1>1. PICK row : row = OrderSale(o, key, br, t, initial)
  OBVIOUS
<1>2. /\ row \in SaleRows /\ row.origin = "ORDER" /\ row.total = t
      /\ row.status = initial
  <2>1. OrderSale(o, key, br, t, initial) \in SaleRows
    BY <1>0, OrderSaleRow
  <2> QED
    BY <1>1, <2>1 DEF OrderSale
<1>3. sales'[s] = row /\ Sold(s)'
  BY <1>0, <1>1, <1>2, NewSaleKeeps
<1> QED
  BY <1>0, <1>2, <1>3, GoodsOfOrderKept

LEMMA BookCreatePos ==
  ASSUME SalesInv, SalesInv', NEW s \in SaleIds, NEW key \in Keys, NEW br \in Branches,
         NEW w \in Warehouses, NEW b \in Baskets, NEW ref \in References, NEW t \in Totals,
         CreatePosSale(s, key, br, w, b, ref, t), GoodsFit(s)
  PROVE  /\ GoodsFit(s)' /\ Sold(s)' /\ sales'[s].origin = "POS"
         /\ sales'[s].total = t /\ sales'[s].status = "PAID" /\ sales'[s].paid = t
<1>1. t \in Nat
  BY TotalsAssumption
<1>0. PICK row : row = PosSale(key, br, w, b, t)
  OBVIOUS
<1>2. /\ row \in SaleRows /\ row.origin = "POS" /\ row.total = t
      /\ row.status = "PAID" /\ row.paid = t /\ row.items = b
  <2>1. PosSale(key, br, w, b, t) \in SaleRows
    BY <1>1, PosSaleRow
  <2> QED
    BY <1>0, <2>1 DEF PosSale
<1>3. /\ sales' = [sales EXCEPT ![s] = row] /\ ~Sold(s) /\ UNCHANGED reversal /\ Listed(b) # {}
      /\ moved' = [moved EXCEPT ![s]["SALE"] = LinkedExit(b)]
  <2>1. sales' = [sales EXCEPT ![s] = PosSale(key, br, w, b, t)]
    BY Zenon DEF CreatePosSale, PosSale
  <2>2. /\ ~Sold(s) /\ UNCHANGED reversal /\ Listed(b) # {}
        /\ moved' = [moved EXCEPT ![s]["SALE"] = LinkedExit(b)]
    BY Zenon DEF CreatePosSale
  <2> QED
    BY <1>0, <2>1, <2>2
<1>4. sales'[s] = row /\ Sold(s)'
  BY <1>2, <1>3, NewSaleKeeps
<1>5. /\ moved[s]["REVERSAL"] = NoItems /\ reversal[s] = NoReference
      /\ moved \in [SaleIds -> [MoveKinds -> [Variants -> Int]]]
  BY <1>3 DEF GoodsFit, SalesInv, SalesTypeOK
<1>6. moved'[s]["SALE"] = LinkedExit(b) /\ moved'[s]["REVERSAL"] = NoItems
  BY <1>3, <1>5 DEF MoveKinds
<1>7. GoodsFit(s)'
  <2>1. Listed(b)' = Listed(b) /\ LinkedExit(b)' = LinkedExit(b)
    BY DEF Listed, LinkedExit
  <2> QED
    BY <1>2, <1>3, <1>4, <1>5, <1>6, <2>1 DEF GoodsFit
<1> QED
  BY <1>2, <1>4, <1>7

LEMMA BookPayment ==
  ASSUME SalesInv, SalesInv', NEW s \in SaleIds, NEW key \in Keys, NEW a \in Nat \ {0},
         NEW ref \in References, RecordPayment(s, key, a, ref), GoodsFit(s)
  PROVE  /\ GoodsFit(s)' /\ sales[s].origin = "ORDER" /\ Sold(s)' /\ sales'[s].origin = "ORDER"
         /\ sales'[s].total = sales[s].total /\ sales'[s].paid = sales[s].paid + a
         /\ sales'[s].status = IF sales[s].paid + a = sales[s].total THEN "PAID" ELSE "PARTIAL"
<1>1. Sold(s) /\ sales[s].status \notin {"CANCELLED", "PAID"} /\ UNCHANGED <<moved, reversal>>
  BY DEF RecordPayment
<1>2. sales[s].origin = "ORDER"
  <2>1. sales[s].origin \in {"ORDER", "POS"} /\ SaleFits(s)
    BY <1>1, SoldFacts DEF SaleRows, SalesInv
  <2> QED
    BY <1>1, <2>1 DEF SaleFits
<1>3. PICK n \in Nat, st \in SaleStatuses :
        /\ n = sales[s].paid + a
        /\ st = IF sales[s].paid + a = sales[s].total THEN "PAID" ELSE "PARTIAL"
  <2>1. sales[s].paid + a \in Nat
    BY <1>1, SoldFacts
  <2> QED
    BY <2>1 DEF SaleStatuses
<1>4. Rewrites(sales'[s], sales[s], n, st)
  <2>1. sales' = [sales EXCEPT ![s] = Changed(sales[s], n, st)]
    BY <1>3 DEF RecordPayment, Changed, SalesInv, SalesTypeOK
  <2>2. sales'[s] = Changed(sales[s], n, st)
    BY <2>1 DEF SalesInv, SalesTypeOK
  <2>3. sales[s] \in SaleRows
    BY <1>1, SoldFacts
  <2> QED
    BY <2>2, <2>3, RowChanges
<1>5. /\ Sold(s)' /\ sales'[s].origin = "ORDER" /\ sales'[s].total = sales[s].total
      /\ sales'[s].paid = n /\ sales'[s].status = st
  BY <1>2, <1>4, NoSaleAssumption DEF Rewrites, Sold
<1> QED
  BY <1>1, <1>2, <1>3, <1>5, GoodsOfOrderKept

LEMMA BookCancel ==
  ASSUME SalesInv, SalesInv', NEW s \in SaleIds, CancelSale(s), GoodsFit(s)
  PROVE  /\ GoodsFit(s)' /\ sales[s].origin = "ORDER" /\ Sold(s)' /\ sales'[s].origin = "ORDER"
         /\ sales'[s].total = sales[s].total /\ sales'[s].status = "CANCELLED"
<1>1. Sold(s) /\ sales[s].status = "PENDING" /\ sales[s].paid = 0 /\ UNCHANGED <<moved, reversal>>
  BY DEF CancelSale
<1>2. sales[s].origin = "ORDER"
  <2>1. sales[s].origin \in {"ORDER", "POS"} /\ SaleFits(s)
    BY <1>1, SoldFacts DEF SaleRows, SalesInv
  <2> QED
    BY <1>1, <2>1 DEF SaleFits
<1>3. Rewrites(sales'[s], sales[s], 0, "CANCELLED")
  <2>1. sales[s] \in SaleRows
    BY <1>1, SoldFacts
  <2>2. Changed(sales[s], 0, "CANCELLED") = [sales[s] EXCEPT !.status = "CANCELLED"]
    BY <1>1, <2>1 DEF Changed, SaleRows
  <2>3. sales'[s] = Changed(sales[s], 0, "CANCELLED")
    BY <2>2 DEF CancelSale, SalesInv, SalesTypeOK
  <2> QED
    BY <2>1, <2>3, CancelledRow
<1>4. /\ Sold(s)' /\ sales'[s].origin = "ORDER" /\ sales'[s].total = sales[s].total
      /\ sales'[s].status = "CANCELLED"
  BY <1>2, <1>3, NoSaleAssumption DEF Rewrites, Sold
<1> QED
  BY <1>1, <1>2, <1>4, GoodsOfOrderKept

LEMMA BookReverse ==
  ASSUME SalesInv, SalesInv', NEW s \in SaleIds, NEW ref \in References,
         ReversePosSale(s, ref), GoodsFit(s)
  PROVE  /\ GoodsFit(s)' /\ sales[s].origin = "POS" /\ sales[s].status = "PAID"
         /\ Sold(s)' /\ sales'[s].origin = "POS" /\ sales'[s].total = sales[s].total
         /\ sales'[s].status = "CANCELLED"
<1>1. /\ Sold(s) /\ sales[s].status = "PAID" /\ sales[s].origin = "POS"
      /\ moved' = [moved EXCEPT ![s]["REVERSAL"] = sales[s].items]
      /\ reversal' = [reversal EXCEPT ![s] = ref]
  BY DEF ReversePosSale
<1>2. Rewrites(sales'[s], sales[s], 0, "CANCELLED")
  <2>1. sales[s] \in SaleRows
    BY <1>1, SoldFacts
  <2>2. sales' = [sales EXCEPT ![s] = Changed(sales[s], 0, "CANCELLED")]
    BY ZenonT(60) DEF ReversePosSale, Changed, SalesInv, SalesTypeOK
  <2>3. sales'[s] = Changed(sales[s], 0, "CANCELLED")
    BY <2>2 DEF SalesInv, SalesTypeOK
  <2> QED
    BY <2>1, <2>3, CancelledRow
<1>3. /\ Sold(s)' /\ sales'[s].origin = "POS" /\ sales'[s].total = sales[s].total
      /\ sales'[s].status = "CANCELLED" /\ sales'[s].items = sales[s].items
  BY <1>1, <1>2, NoSaleAssumption DEF Rewrites, Sold
<1>4. /\ moved'[s]["SALE"] = moved[s]["SALE"] /\ moved'[s]["REVERSAL"] = sales[s].items
      /\ reversal'[s] = ref
  BY <1>1 DEF SalesInv, SalesTypeOK, MoveKinds
<1>5. GoodsFit(s)'
  <2>1. PICK b : b = sales[s].items
    OBVIOUS
  <2>2. Listed(b) # {} /\ moved[s]["SALE"] = LinkedExit(b)
    BY <1>1, <2>1 DEF GoodsFit
  <2>3. sales'[s].items = b /\ Listed(b)' = Listed(b) /\ LinkedExit(b)' = LinkedExit(b)
    BY <1>3, <2>1 DEF Listed, LinkedExit
  <2>4. reversal'[s] # NoReference
    BY <1>4, NoReferenceAssumption
  <2> QED
    BY <1>3, <1>4, <2>1, <2>2, <2>3, <2>4 DEF GoodsFit
<1> QED
  BY <1>1, <1>3, <1>5

(* A step of the sale s writes the entries of s and no other.              *)
LEMMA BookUpdates ==
  ASSUME SalesInv, NEW s \in SaleIds, SaleNext(s)
  PROVE  /\ Books' = [Books EXCEPT ![s] = BookOf(s)']
         /\ Priced' = [Priced EXCEPT ![s] = PriceOf(s)']
         /\ Takings' = [Takings EXCEPT ![s] = Received(s)']
         /\ Wares' = [Wares EXCEPT ![s] = GoodsSold(s)']
<1>1. ASSUME NEW r \in SaleIds, r # s
      PROVE  /\ BookOf(r)' = BookOf(r) /\ PriceOf(r)' = PriceOf(r)
             /\ Received(r)' = Received(r) /\ GoodsSold(r)' = GoodsSold(r)
  <2>1. /\ sales'[r] = sales[r] /\ PaymentsOf(r)' = PaymentsOf(r)
        /\ moved'[r] = moved[r] /\ reversal'[r] = reversal[r]
    BY <1>1, OthersAside
  <2>2. BookOf(r)' = BookOf(r) /\ PriceOf(r)' = PriceOf(r)
    BY <2>1 DEF BookOf, PriceOf, Sold, Reversed
  <2>3. Received(r)' = Received(r)
    <3>1. Amounts(r)' = Amounts(r)
      BY <2>1 DEF Amounts
    <3> QED
      BY <3>1 DEF Received, SumOf, UnitsOf
  <2>4. GoodsSold(r)' = GoodsSold(r)
    BY <2>1 DEF GoodsSold, MovedBy
  <2> QED
    BY <2>2, <2>3, <2>4
<1> QED
  BY <1>1 DEF Books, Priced, Takings, Wares

BookViews == <<Books, Priced, Takings, Wares>>

LEMMA BookSale ==
  ASSUME SalesInv, SalesInv', LogInv, LogInv', NEW s \in SaleIds, SaleNext(s), GoodsFit(s)
  PROVE  GoodsFit(s)' /\ (Book!Next \/ UNCHANGED BookViews)
<1>1. /\ Books' = [Books EXCEPT ![s] = BookOf(s)']
      /\ Priced' = [Priced EXCEPT ![s] = PriceOf(s)']
      /\ Takings' = [Takings EXCEPT ![s] = Received(s)']
      /\ Wares' = [Wares EXCEPT ![s] = GoodsSold(s)']
  BY BookUpdates
<1>2. /\ Books[s] = BookOf(s) /\ Priced[s] = PriceOf(s)
      /\ Takings[s] = Received(s) /\ Wares[s] = GoodsSold(s)
  BY DEF Books, Priced, Takings, Wares
<1>3. /\ PriceOf(s)' = PriceOf(s) => Priced' = Priced
      /\ Received(s)' = Received(s) => Takings' = Takings
      /\ GoodsSold(s)' = GoodsSold(s) => Wares' = Wares
  BY <1>1, <1>2 DEF Priced, Takings, Wares
<1>4. UNCHANGED payments => Received(s)' = Received(s)
  BY DEF Received, SumOf, UnitsOf, Amounts, PaymentsOf
<1>5. /\ Sold(s) /\ sales[s].status # "CANCELLED" => sales[s].paid = Received(s)
      /\ Sold(s)' /\ sales'[s].status # "CANCELLED" => sales'[s].paid = Received(s)'
  BY DEF LogInv, MoneyFits
<1>6. SaleFits(s) /\ SaleFits(s)'
  BY DEF SalesInv
<1>7. GoodsFit(s)' => BookSays(s)'
  BY BookFactsNext
<1>8. CASE \E o \in OrderIds, key \in Keys, br \in Branches, t \in Totals, initial \in SaleStatuses :
             CreateSale(s, o, key, br, t, initial)
  <2>1. PICK o \in OrderIds, key \in Keys, br \in Branches, t \in Totals, initial \in SaleStatuses :
          CreateSale(s, o, key, br, t, initial)
    BY <1>8
  <2>2. /\ GoodsFit(s)' /\ Sold(s)' /\ sales'[s].origin = "ORDER"
        /\ sales'[s].total = t /\ sales'[s].status = initial
    BY <2>1, BookCreate
  <2>3. /\ ~Sold(s) /\ UNCHANGED payments
        /\ initial = "PENDING" \/ (initial = "PAID" /\ t = 0)
    BY <2>1, Zenon DEF CreateSale
  <2>4. BookOf(s) = "none" /\ GoodsSold(s) = "none"
    BY <2>3, BookFacts DEF BookSays
  <2>5. /\ BookOf(s)' \in {"open", "settled"} /\ (BookOf(s)' = "settled" => t = 0)
        /\ GoodsSold(s)' = "none" /\ PriceOf(s)' = t
    BY <1>7, <2>2, <2>3 DEF BookSays, PriceOf
  <2>6. Book!Open(s, t)
    BY <1>1, <1>2, <1>3, <1>4, <2>3, <2>4, <2>5 DEF Book!Open, Books, Priced, PriceOf, Takings, Wares
  <2> QED
    BY <2>2, <2>6 DEF Book!Next
<1>9. CASE \E key \in Keys, br \in Branches, w \in Warehouses, b \in Baskets, ref \in References,
                t \in Totals :
             CreatePosSale(s, key, br, w, b, ref, t)
  <2>1. PICK key \in Keys, br \in Branches, w \in Warehouses, b \in Baskets, ref \in References,
                 t \in Totals :
          CreatePosSale(s, key, br, w, b, ref, t)
    BY <1>9
  <2>2. /\ GoodsFit(s)' /\ Sold(s)' /\ sales'[s].origin = "POS"
        /\ sales'[s].total = t /\ sales'[s].status = "PAID" /\ sales'[s].paid = t
    BY <2>1, BookCreatePos
  <2>3. BookOf(s) = "none"
    <3>1. ~Sold(s)
      BY <2>1, Zenon DEF CreatePosSale
    <3> QED
      BY <3>1, BookFacts DEF BookSays
  <2>4. BookOf(s)' = "settled" /\ GoodsSold(s)' = "out" /\ PriceOf(s)' = t /\ Received(s)' = t
    BY <1>5, <1>7, <2>2 DEF BookSays, PriceOf
  <2>5. Book!SellDirectly(s, t)
    BY <1>1, <1>2, <2>3, <2>4 DEF Book!SellDirectly, Books, Priced, PriceOf, Takings, Wares
  <2> QED
    BY <2>2, <2>5 DEF Book!Next
<1>10. CASE Sold(s) /\ \E key \in Keys, a \in 1..sales[s].total, ref \in References :
                            RecordPayment(s, key, a, ref)
  <2>1. PICK key \in Keys, a \in 1..sales[s].total, ref \in References : RecordPayment(s, key, a, ref)
    BY <1>10
  <2>2. PICK n \in Nat, total \in Nat : n = sales[s].paid /\ total = sales[s].total
    BY <1>10, SoldFacts
  <2>3. a \in Nat \ {0} /\ a <= total - n /\ sales[s].status \in {"PENDING", "PARTIAL"}
    <3>1. sales[s].status \notin {"CANCELLED", "PAID"} /\ a <= total - n
      BY <2>1, <2>2 DEF RecordPayment, Balance
    <3>2. sales[s].status \in SaleStatuses
      BY <1>10, SoldFacts
    <3> QED
      BY <2>2, <3>1, <3>2 DEF SaleStatuses
  <2>4. /\ GoodsFit(s)' /\ sales[s].origin = "ORDER" /\ Sold(s)' /\ sales'[s].origin = "ORDER"
        /\ sales'[s].total = total /\ sales'[s].paid = n + a
        /\ sales'[s].status = IF n + a = total THEN "PAID" ELSE "PARTIAL"
    BY <2>1, <2>2, <2>3, BookPayment
  <2>5. BookOf(s) = "open" /\ GoodsSold(s) = "none" /\ PriceOf(s) = total /\ Received(s) = n
    BY <1>5, <1>10, <2>2, <2>3, <2>4, BookFacts DEF BookSays, PriceOf
  <2>6. /\ BookOf(s)' = IF n + a = total THEN "settled" ELSE "open"
        /\ GoodsSold(s)' = "none" /\ PriceOf(s)' = total /\ Received(s)' = n + a
    BY <1>5, <1>7, <2>4 DEF BookSays, PriceOf
  <2>7. Book!Collect(s, a) /\ a \in 1..Priced[s]
    <3>1. Priced' = Priced /\ Wares' = Wares
      BY <1>3, <2>5, <2>6
    <3>2. n + a <= total /\ a \in 1..total
      BY <2>2, <2>3
    <3> QED
      BY <1>1, <1>2, <2>5, <2>6, <3>1, <3>2 DEF Book!Collect, Books, Priced, PriceOf, Takings, Wares
  <2> QED
    BY <2>4, <2>7 DEF Book!Next, Priced, PriceOf
<1>11. CASE CancelSale(s)
  <2>1. Sold(s) /\ sales[s].status = "PENDING" /\ sales[s].paid = 0 /\ UNCHANGED payments
    BY <1>11 DEF CancelSale
  <2>2. /\ GoodsFit(s)' /\ sales[s].origin = "ORDER" /\ Sold(s)' /\ sales'[s].origin = "ORDER"
        /\ sales'[s].total = sales[s].total /\ sales'[s].status = "CANCELLED"
    BY <1>11, BookCancel
  <2>3. BookOf(s) = "open" /\ GoodsSold(s) = "none" /\ Received(s) = 0
    BY <1>5, <2>1, <2>2, BookFacts DEF BookSays
  <2>4. BookOf(s)' = "void" /\ GoodsSold(s)' = "none" /\ PriceOf(s)' = PriceOf(s)
    BY <1>7, <2>1, <2>2 DEF BookSays, PriceOf
  <2>5. Book!Void(s)
    BY <1>1, <1>2, <1>3, <1>4, <2>1, <2>3, <2>4 DEF Book!Void, Books, Priced, PriceOf, Takings, Wares
  <2> QED
    BY <2>2, <2>5 DEF Book!Next
<1>12. CASE \E ref \in References : ReversePosSale(s, ref)
  <2>1. PICK ref \in References : ReversePosSale(s, ref)
    BY <1>12
  <2>2. Sold(s) /\ UNCHANGED payments
    BY <2>1 DEF ReversePosSale
  <2>3. /\ GoodsFit(s)' /\ sales[s].origin = "POS" /\ sales[s].status = "PAID"
        /\ Sold(s)' /\ sales'[s].origin = "POS" /\ sales'[s].total = sales[s].total
        /\ sales'[s].status = "CANCELLED"
    BY <2>1, BookReverse
  <2>4. BookOf(s) = "settled" /\ GoodsSold(s) = "out"
    BY <2>2, <2>3, BookFacts DEF BookSays
  <2>5. BookOf(s)' = "refunded" /\ GoodsSold(s)' = "back" /\ PriceOf(s)' = PriceOf(s)
    BY <1>7, <2>2, <2>3 DEF BookSays, PriceOf
  <2>6. Book!Refund(s)
    BY <1>1, <1>2, <1>3, <1>4, <2>2, <2>4, <2>5 DEF Book!Refund, Books, Priced, PriceOf, Takings, Wares
  <2> QED
    BY <2>3, <2>6 DEF Book!Next
<1>13. CASE Repeats(s)
  <2>1. UNCHANGED <<sales, payments, moved, reversal>>
    BY <1>13 DEF Repeats, CreateSaleAgain, CreatePosSaleAgain, RecordPaymentAgain
  <2>2. GoodsFit(s)'
    BY <2>1, GoodsKept
  <2>3. BookOf(s)' = BookOf(s) /\ PriceOf(s)' = PriceOf(s) /\ GoodsSold(s)' = GoodsSold(s)
    BY <2>1 DEF BookOf, PriceOf, GoodsSold, MovedBy, Sold, Reversed
  <2>4. UNCHANGED BookViews
    BY <1>1, <1>2, <1>3, <1>4, <2>1, <2>3 DEF BookViews, Books
  <2> QED
    BY <2>2, <2>4
<1> QED
  BY <1>8, <1>9, <1>10, <1>11, <1>12, <1>13 DEF SaleNext, Repeats

LEMMA BookStep ==
  SalesInv /\ SalesInv' /\ LogInv /\ LogInv' /\ BookInv /\ [SalesNext]_salesVars
    => BookInv' /\ [Book!Next]_(Book!vars)
<1> SUFFICES ASSUME SalesInv, SalesInv', LogInv, LogInv', BookInv, [SalesNext]_salesVars
             PROVE  BookInv' /\ [Book!Next]_(Book!vars)
  OBVIOUS
<1>0. Book!vars = BookViews
  BY DEF Book!vars, BookViews, Books, Priced, PriceOf, Takings, Wares
<1>00. UNCHANGED BookViews => UNCHANGED Book!vars
  BY DEF Book!vars, BookViews, Books, Priced, PriceOf, Takings, Wares
<1>1. CASE UNCHANGED <<sales, payments, moved, reversal>>
  <2>1. BookInv'
    BY <1>1, GoodsKept DEF BookInv
  <2>2. UNCHANGED BookViews
    BY <1>1 DEF BookViews, Books, Priced, PriceOf, Takings, Wares, BookOf, GoodsSold, MovedBy,
                Sold, Reversed, Received, SumOf, UnitsOf, Amounts, PaymentsOf
  <2> QED
    BY <1>00, <2>1, <2>2
<1>2. ASSUME NEW s \in SaleIds, SaleNext(s) PROVE BookInv' /\ [Book!Next]_(Book!vars)
  <2>1. GoodsFit(s)' /\ (Book!Next \/ UNCHANGED BookViews)
    BY <1>2, BookSale DEF BookInv
  <2>2. ASSUME NEW r \in SaleIds, r # s PROVE GoodsFit(r)'
    BY <1>2, <2>2, OthersAside, GoodsKept DEF BookInv
  <2>3. BookInv'
    BY <2>1, <2>2 DEF BookInv
  <2> QED
    BY <1>00, <2>1, <2>3
<1> QED
  BY <1>1, <1>2 DEF SalesNext, salesVars, saleVars, MoveWarehouse

LEMMA BookStart == SalesInit => BookInv /\ Book!Init
<1> SUFFICES ASSUME SalesInit PROVE BookInv /\ Book!Init
  OBVIOUS
<1>1. ASSUME NEW s \in SaleIds
      PROVE  /\ GoodsFit(s) /\ BookOf(s) = "none" /\ PriceOf(s) = 0
             /\ Received(s) = 0 /\ GoodsSold(s) = "none"
  <2>1. GoodsFit(s) /\ ~Sold(s)
    BY DEF SalesInit, GoodsFit, Sold, MoveKinds
  <2>2. DOMAIN Amounts(s) = {}
    BY DEF SalesInit, Amounts, PaymentsOf
  <2>3. Received(s) = 0
    BY <2>2, SumOfNothing DEF Received
  <2> QED
    BY <2>1, <2>3, SalesInvInit, BookFacts DEF BookSays, PriceOf
<1>2. BookInv
  BY <1>1 DEF BookInv
<1>3. Book!Init
  BY <1>1 DEF Book!Init, PriceOf
<1> QED
  BY <1>2, <1>3

(***************************************************************************)
(* Sales implements SaleBook, for any number of sales and totals: money    *)
(* comes in up to the price, a sale that took money is never voided, and a *)
(* refund gives everything back once, with the goods.                      *)
(***************************************************************************)
THEOREM ImplementsBook == SalesSpec => BookSpec
<1>1. SalesInit => KeysInv
  BY DEF SalesInit, KeysInv, SaleKeys, PaymentKeys, Sold
<1> QED
  BY SalesInvInit, SalesInvNext, KeysInvNext, LogInvInit, LogInvNext, BookStart, BookStep, <1>1,
     PTL DEF SalesSpec, BookSpec, Book!Spec

(***************************************************************************)
(* For any number of sales, payments, orders and warehouses, whatever is   *)
(* called and wherever warehouses are moved: the row of every sale agrees  *)
(* with its payment rows, its reversal and its order, so that Sale.clean   *)
(* can refuse a later save only for a warehouse moved since the sale.      *)
(***************************************************************************)
LEMMA RowsArePaidFor == SalesInv /\ LogInv /\ BookInv => SalesStayValid
<1> SUFFICES ASSUME SalesInv, LogInv, BookInv, NEW s \in SaleIds, Sold(s)
             PROVE  /\ RowIsPaidFor(s)
                    /\ sales[s].origin = "ORDER" =>
                         /\ status[sales[s].order] = "DELIVERED"
                         /\ sales[s].warehouse = warehouse[sales[s].order]
                         /\ sales[s].items = items[sales[s].order]
                    /\ sales[s].origin = "POS" => sales[s].order = NoOrder
                    /\ MaySave(s) \/ branchOf[sales[s].warehouse] # sales[s].place
  BY Zenon DEF SalesStayValid, SalesInv
<1>1. MoneyFits(s) /\ GoodsFit(s) /\ SaleFits(s)
  BY DEF LogInv, BookInv, SalesInv
<1>2. sales[s].origin \in {"ORDER", "POS"}
  BY SoldFacts DEF SaleRows
<1>3. RowIsPaidFor(s)
  BY <1>1, <1>2 DEF RowIsPaidFor, MoneyFits, GoodsFit, SaleFits, Reversed
<1>4. MaySave(s) \/ branchOf[sales[s].warehouse] # sales[s].place
  BY <1>1 DEF SaleFits, MaySave, BranchFits
<1> QED
  BY <1>1, <1>3, <1>4 DEF SaleFits

THEOREM SalesStaySound == SalesSpec => []SalesStayValid
<1>1. SalesInit => KeysInv
  BY DEF SalesInit, KeysInv, SaleKeys, PaymentKeys, Sold
<1> QED
  BY SalesInvInit, SalesInvNext, KeysInvNext, LogInvInit, LogInvNext, BookStart, BookStep,
     RowsArePaidFor, <1>1, PTL DEF SalesSpec

------------------------------------------------------------------------------
(***************************************************************************)
(* The portal.  A call decides on what it reads without a lock, so what it *)
(* decided must still hold when it commits.  Of an open call this is: its  *)
(* user is registered and its basket lists something; the customer it      *)
(* found is the one of its user's account; or its user has no account, and *)
(* the customer it adopts has none either and is adopted by no other call. *)
(***************************************************************************)
HasAccount(u) == account[u] # NoAccount
AccountFits(u) ==
  HasAccount(u) =>
    /\ u \in registered
    /\ account[u].customer \in Customers
    /\ account[u].status # "NONE"
    /\ Exists(account[u].customer)
    /\ \A x \in Users : x # u => account[x].customer # account[u].customer
Adopts(p) == Open(p) /\ call[p].adopts
CallFits(p) ==
  Open(p) =>
    /\ call[p].user \in registered
    /\ Listed(call[p].basket) # {}
    /\ ~call[p].adopts => account[call[p].user].customer = call[p].customer
    /\ call[p].adopts =>
         /\ ~HasAccount(call[p].user)
         /\ \A x \in Users : account[x].customer # call[p].customer
         /\ \A q \in Calls : q # p /\ Adopts(q) =>
              call[q].user # call[p].user /\ call[q].customer # call[p].customer
RequestFits(r) ==
  /\ HasAccount(r.user)
  /\ owner[r.order] = account[r.user].customer
  /\ status[r.order] \in Live \cup {"CANCELLED"}
  /\ items[r.order] = r.basket
OneRequest ==
  \A r, s \in requests : (r.user = s.user /\ r.key = s.key) \/ r.order = s.order => r = s
Accounted ==
  /\ \A u \in Users : AccountFits(u)
  /\ \A p \in Calls : CallFits(p)
  /\ \A r \in requests : RequestFits(r)
  /\ OneRequest
PortalInv == PortalTypeOK /\ OrderInv /\ Rowed /\ Accounted

(***************************************************************************)
(* PlaceOrder creates an order that is confirmed at once.                  *)
(***************************************************************************)
LEMMA PlaceOrderWrites ==
  ASSUME TypeOK, NEW o \in OrderIds, NEW w \in Warehouses, NEW b \in Baskets, PlaceOrder(o, w, b)
  PROVE  /\ status[o] = "NONE" /\ CanExit(w, b)
         /\ status' = [status EXCEPT ![o] = "CONFIRMED"]
         /\ warehouse' = [warehouse EXCEPT ![o] = w]
         /\ items' = [items EXCEPT ![o] = b]
         /\ links' = [links EXCEPT ![o]["CONFIRMATION"] = LinkedExit(b)]
         /\ stock' = [stock EXCEPT ![w] = AfterExit(w, b)]
         /\ rows' = rows /\ base' = base /\ checkout' = checkout
         /\ number' \in [OrderIds -> Nat] /\ nextNumber' \in Nat \ {0}
         /\ outbox' \subseteq Notices
<1>1. SetOrderStatus(o, "CONFIRMED")
  BY DEF PlaceOrder
<1>2. outbox' \subseteq Notices
  BY <1>1, NoticesTyped DEF TypeOK, Statuses
<1> QED
  BY <1>1, <1>2 DEF PlaceOrder, SetOrderStatus, TypeOK

LEMMA PlaceOrderInv ==
  ASSUME OrderInv, NEW o \in OrderIds, NEW w \in Warehouses, NEW b \in Baskets,
         Listed(b) # {}, PlaceOrder(o, w, b)
  PROVE  OrderInv'
<1>0. TypeOK
  BY DEF OrderInv
<1>1. /\ status[o] = "NONE" /\ CanExit(w, b)
      /\ status' = [status EXCEPT ![o] = "CONFIRMED"]
      /\ warehouse' = [warehouse EXCEPT ![o] = w]
      /\ items' = [items EXCEPT ![o] = b]
      /\ links' = [links EXCEPT ![o]["CONFIRMATION"] = LinkedExit(b)]
      /\ stock' = [stock EXCEPT ![w] = AfterExit(w, b)]
      /\ rows' = rows /\ base' = base /\ checkout' = checkout
      /\ number' \in [OrderIds -> Nat] /\ nextNumber' \in Nat \ {0}
      /\ outbox' \subseteq Notices
  BY <1>0, PlaceOrderWrites
<1>2. b \in [Variants -> Nat] /\ LinkedExit(b) \in [Variants -> Int]
  BY LinkedExitFacts
<1>3. status'[o] = "CONFIRMED" /\ warehouse'[o] = w /\ items'[o] = b
  BY <1>0, <1>1 DEF TypeOK
<1>4. TraceOf(o)'
  <2>1. links[o]["CANCELLATION"] = NoItems
    BY <1>1 DEF OrderInv, Traceability, TraceOf
  <2>2. links'[o]["CONFIRMATION"] = LinkedExit(b) /\ links'[o]["CANCELLATION"] = NoItems
    BY <1>0, <1>1, <2>1 DEF TypeOK, Kinds
  <2>3. Linked(o, "CONFIRMATION")' = Listed(b)
    BY <2>2, LinkedExitFacts DEF Linked, Listed
  <2>4. Traceable(o)'
    BY <1>3, <2>3 DEF Traceable, Listed
  <2> QED
    BY <1>3, <2>2, <2>4 DEF TraceOf, Live, Listed
<1>5. InventoryTypeOK'
  <2>1. AfterExit(w, b) \in [Variants -> Nat]
    BY <1>0, <1>1, <1>2 DEF CanExit, AfterExit, TypeOK, InventoryTypeOK
  <2> QED
    BY <1>0, <1>1, <2>1 DEF TypeOK, InventoryTypeOK
<1>6. \E s \in Statuses : status' = [status EXCEPT ![o] = s]
  BY <1>1 DEF Statuses
<1>7. \E k \in Kinds, d \in [Variants -> Int] : links' = [links EXCEPT ![o][k] = d]
  BY <1>1, <1>2 DEF Kinds
<1>8. outbox' \subseteq Notices /\ checkout' \in [OrderIds -> CheckoutStatuses \cup {"NONE"}]
  BY <1>0, <1>1 DEF TypeOK, Statuses
<1> QED
  BY <1>1, <1>3, <1>4, <1>5, <1>6, <1>7, <1>8, OrderInvStep

LEMMA PlaceOrderRowed ==
  ASSUME TypeOK, Rowed, NEW o \in OrderIds, NEW w \in Warehouses, NEW b \in Baskets,
         PlaceOrder(o, w, b)
  PROVE  Rowed'
<1>1. rows' = rows /\ CanExit(w, b) /\ stock' = [stock EXCEPT ![w] = AfterExit(w, b)]
  BY PlaceOrderWrites
<1>2. b \in [Variants -> Nat]
  BY LinkedExitFacts
<1> QED
  BY <1>1, <1>2 DEF Rowed, AfterExit, CanExit, TypeOK, InventoryTypeOK

LEMMA PlaceOrderBalance ==
  ASSUME NEW others \in [Warehouses -> [Variants -> Int]],
         TypeOK, TypeOK', StockBalances(others),
         NEW o \in OrderIds, NEW w \in Warehouses, NEW b \in Baskets, PlaceOrder(o, w, b)
  PROVE  StockBalances(others)'
<1>1. /\ status[o] = "NONE"
      /\ status' = [status EXCEPT ![o] = "CONFIRMED"]
      /\ warehouse' = [warehouse EXCEPT ![o] = w]
      /\ items' = [items EXCEPT ![o] = b]
      /\ stock' = [stock EXCEPT ![w] = AfterExit(w, b)]
      /\ base' = base
  BY PlaceOrderWrites
<1>2. b \in [Variants -> Nat]
  BY LinkedExitFacts
<1>3. status'[o] = "CONFIRMED" /\ warehouse'[o] = w /\ items'[o] = b
  BY <1>1 DEF TypeOK
<1>4. ASSUME NEW x \in Warehouses, NEW v \in Variants
      PROVE  stock'[x][v] + HeldBy(o, x, v)' = stock[x][v] + HeldBy(o, x, v)
  <2>1. HeldBy(o, x, v) = 0
    BY <1>1 DEF HeldBy, Live
  <2>2. stock[x][v] \in Nat /\ b[v] \in Nat
    BY <1>2 DEF TypeOK, InventoryTypeOK
  <2>3. CASE x = w
    <3>1. HeldBy(o, x, v)' = b[v]
      BY <1>3, <2>3 DEF HeldBy, Live
    <3>2. stock'[x][v] = stock[x][v] - b[v]
      BY <1>1, <2>3 DEF AfterExit, TypeOK, InventoryTypeOK
    <3> QED
      BY <2>1, <2>2, <3>1, <3>2
  <2>4. CASE x # w
    <3>1. HeldBy(o, x, v)' = 0
      BY <1>3, <2>4 DEF HeldBy
    <3>2. stock'[x][v] = stock[x][v]
      BY <1>1, <2>4 DEF TypeOK, InventoryTypeOK
    <3> QED
      BY <2>1, <3>1, <3>2
  <2> QED
    BY <2>3, <2>4
<1>5. \A p \in OrderIds : p # o => /\ status'[p] = status[p]
                                   /\ warehouse'[p] = warehouse[p]
                                   /\ items'[p] = items[p]
  BY <1>1 DEF TypeOK
<1> QED
  BY <1>1, <1>4, <1>5, BalanceOrder

LEMMA OpenCallFacts ==
  ASSUME PortalTypeOK, NEW p \in Calls, Open(p)
  PROVE  /\ call[p] \in OpenCalls
         /\ call[p].user \in Users /\ call[p].key \in RequestKeys
         /\ call[p].basket \in Baskets /\ call[p].customer \in Customers
         /\ call[p].adopts \in BOOLEAN /\ call[p].warehouse \in Warehouses
<1>1. call[p] \in OpenCalls
  BY DEF PortalTypeOK, Open
<1> QED
  BY <1>1 DEF OpenCalls

(* To the orders, a step of the portal is one of theirs, or places one.    *)
LEMMA PortalMoves ==
  ASSUME PortalTypeOK, \A p \in Calls : CallFits(p), PortalNext
  PROVE  \/ [Next]_vars
         \/ \E o \in OrderIds, w \in Warehouses, b \in Baskets :
              Listed(b) # {} /\ PlaceOrder(o, w, b)
<1>1. CASE StockMoves
  BY <1>1 DEF StockMoves, Next
<1>2. CASE \/ \E u \in Users : Register(u)
           \/ \E u \in Users, c \in Customers : RegisterAtCompany(u, c) \/ CreateCustomer(c, u)
           \/ \E c \in Customers, u \in Users, new \in {"ACTIVE", "INACTIVE"} : UpdateCustomer(c, u, new)
           \/ \E u \in Users, new \in {"ACTIVE", "INACTIVE"} : UpdateAccount(u, new)
           \/ \E p \in Calls, u \in Users, k \in RequestKeys, b \in Baskets : PlaceStarts(p, u, k, b)
           \/ \E p \in Calls : PlaceRollsBack(p)
  <2>1. UNCHANGED vars
    BY <1>2 DEF Register, RegisterAtCompany, CreateCustomer, UpdateCustomer, UpdateAccount,
                PlaceStarts, PlaceRollsBack
  <2> QED
    BY <2>1
<1>3. CASE \E p \in Calls, o \in OrderIds : PlaceEnds(p, o)
  <2>1. PICK p \in Calls, o \in OrderIds : PlaceEnds(p, o)
    BY <1>3
  <2>2. Open(p) /\ PlaceOrder(o, call[p].warehouse, call[p].basket)
    BY <2>1 DEF PlaceEnds
  <2>3. call[p].warehouse \in Warehouses /\ call[p].basket \in Baskets /\ Listed(call[p].basket) # {}
    BY <2>2, OpenCallFacts DEF CallFits
  <2> QED
    BY <2>1, <2>2, <2>3
<1>4. CASE \E o \in OrderIds, w \in Warehouses, b \in Baskets, c \in Customers :
             StaffCreatesOrder(o, w, b, c)
  <2>1. PICK o \in OrderIds, w \in Warehouses, b \in Baskets : CreateDraftOrder(o, w, b)
    BY <1>4 DEF StaffCreatesOrder
  <2>2. OrderNext(o)
    BY <2>1 DEF OrderNext
  <2> QED
    BY <2>2 DEF Next
<1>5. CASE \E o \in OrderIds : StaffMovesOrder(o)
  <2>1. PICK o \in OrderIds : ConfirmOrder(o) \/ CancelDraft(o) \/ CancelOrder(o)
    BY <1>5 DEF StaffMovesOrder
  <2>2. OrderNext(o)
    BY <2>1 DEF OrderNext
  <2> QED
    BY <2>2 DEF Next
<1> QED
  BY <1>1, <1>2, <1>3, <1>4, <1>5 DEF PortalNext

LEMMA PortalOrders ==
  ASSUME PortalTypeOK, OrderInv, Rowed, StockBalances(Nothing),
         \A p \in Calls : CallFits(p), [PortalNext]_allVars
  PROVE  OrderInv' /\ Rowed' /\ StockBalances(Nothing)'
<1>1. Nothing \in [Warehouses -> [Variants -> Int]] /\ TypeOK
  BY NoItemsFacts DEF Nothing, OrderInv
<1>2. CASE [Next]_vars
  BY <1>1, <1>2, OrderInvNext, RowedNext, BalanceNext
<1>3. CASE \E o \in OrderIds, w \in Warehouses, b \in Baskets :
             Listed(b) # {} /\ PlaceOrder(o, w, b)
  <2>1. PICK o \in OrderIds, w \in Warehouses, b \in Baskets :
          Listed(b) # {} /\ PlaceOrder(o, w, b)
    BY <1>3
  <2>2. OrderInv' /\ Rowed'
    BY <1>1, <2>1, PlaceOrderInv, PlaceOrderRowed
  <2>3. TypeOK'
    BY <2>2 DEF OrderInv
  <2> QED
    BY <1>1, <2>1, <2>2, <2>3, PlaceOrderBalance
<1>4. UNCHANGED allVars => UNCHANGED vars
  BY DEF allVars
<1> QED
  BY <1>2, <1>3, <1>4, PortalMoves

------------------------------------------------------------------------------
(* An account that exists has the customer it was made for.                *)
LEMMA AccountTypes ==
  ASSUME PortalTypeOK, NEW u \in Users, AccountFits(u), HasActiveAccount(u)
  PROVE  account[u].customer \in Customers
<1>1. account[u] # NoAccount
  BY DEF HasActiveAccount, NoAccount
<1> QED
  BY <1>1 DEF AccountFits, HasAccount

(* Each action keeps every variable of the portal in its type.             *)
LEMMA PortalTypesNext ==
  ASSUME PortalTypeOK, Accounted, TypeOK', [PortalNext]_allVars
  PROVE  PortalTypeOK'
<1> USE DEF PortalTypeOK
<1>1. CASE UNCHANGED portalVars
  BY <1>1 DEF portalVars
<1>2. CASE \E u \in Users : Register(u)
  BY <1>2 DEF Register
<1>3. ASSUME NEW u \in Users, NEW c \in Customers, RegisterAtCompany(u, c) \/ CreateCustomer(c, u)
      PROVE  PortalTypeOK'
  <2>1. customer' \in [Customers -> [email : Users \cup {NoUser}, status : Activity]]
    BY <1>3 DEF RegisterAtCompany, CreateCustomer, NewCustomer, Activity
  <2>2. account' \in [Users -> [customer : Customers \cup {NoCustomer}, status : Activity]]
    BY <1>3 DEF RegisterAtCompany, CreateCustomer, NewAccount, Activity
  <2>3. registered' \subseteq Users /\ UNCHANGED <<owner, requests, call>>
    BY <1>3 DEF RegisterAtCompany, CreateCustomer
  <2> QED
    BY <2>1, <2>2, <2>3
<1>4. CASE \/ \E c \in Customers, u \in Users, new \in {"ACTIVE", "INACTIVE"} : UpdateCustomer(c, u, new)
           \/ \E u \in Users, new \in {"ACTIVE", "INACTIVE"} : UpdateAccount(u, new)
  <2>1. CASE \E c \in Customers, u \in Users, new \in {"ACTIVE", "INACTIVE"} : UpdateCustomer(c, u, new)
    BY <2>1 DEF UpdateCustomer, Activity
  <2>2. CASE \E u \in Users, new \in {"ACTIVE", "INACTIVE"} : UpdateAccount(u, new)
    BY <2>2 DEF UpdateAccount, Activity
  <2> QED
    BY <1>4, <2>1, <2>2
<1>5. ASSUME NEW p \in Calls, NEW u \in Users, NEW k \in RequestKeys, NEW b \in Baskets,
             PlaceStarts(p, u, k, b)
      PROVE  PortalTypeOK'
  <2>1. PICK w \in Warehouses, c \in Customers, adopts \in BOOLEAN :
          call' = [call EXCEPT ![p] = [user |-> u, key |-> k, basket |-> b, customer |-> c,
                                       adopts |-> adopts, warehouse |-> w]]
    <3>1. HasActiveAccount(u) => account[u].customer \in Customers
      BY AccountTypes DEF Accounted
    <3>2. AdoptedBy(u) \subseteq Customers
      BY DEF AdoptedBy, Adoptable
    <3> QED
      BY <1>5, <3>1, <3>2 DEF PlaceStarts
  <2>2. [user |-> u, key |-> k, basket |-> b, customer |-> c,
         adopts |-> adopts, warehouse |-> w] \in OpenCalls
    BY <2>1 DEF OpenCalls
  <2>3. call' \in [Calls -> OpenCalls \cup {NoCall}]
    BY <2>1, <2>2
  <2>4. UNCHANGED <<registered, customer, account, owner, requests>>
    BY <1>5 DEF PlaceStarts
  <2> QED
    BY <2>3, <2>4
<1>6. ASSUME NEW p \in Calls, NEW o \in OrderIds, PlaceEnds(p, o)
      PROVE  PortalTypeOK'
  <2>1. /\ call[p].user \in Users /\ call[p].key \in RequestKeys
        /\ call[p].basket \in Baskets /\ call[p].customer \in Customers
    BY <1>6, OpenCallFacts DEF PlaceEnds
  <2>2. owner' \in [OrderIds -> Customers \cup {NoCustomer}]
    BY <1>6, <2>1 DEF PlaceEnds
  <2>3. requests' \subseteq Requests
    BY <1>6, <2>1 DEF PlaceEnds, Requests
  <2>4. account' \in [Users -> [customer : Customers \cup {NoCustomer}, status : Activity]]
    BY <1>6, <2>1 DEF PlaceEnds, NewAccount, Activity
  <2>5. customer' \in [Customers -> [email : Users \cup {NoUser}, status : Activity]]
    BY <1>6, <2>1 DEF PlaceEnds, NewCustomer, Activity
  <2>6. call' \in [Calls -> OpenCalls \cup {NoCall}] /\ registered' = registered
    BY <1>6 DEF PlaceEnds
  <2> QED
    BY <2>2, <2>3, <2>4, <2>5, <2>6
<1>7. CASE \E p \in Calls : PlaceRollsBack(p)
  BY <1>7 DEF PlaceRollsBack
<1>8. CASE \E o \in OrderIds, w \in Warehouses, b \in Baskets, c \in Customers :
             StaffCreatesOrder(o, w, b, c)
  BY <1>8 DEF StaffCreatesOrder
<1> HIDE DEF PortalTypeOK
<1>9. CASE StockMoves \/ (\E o \in OrderIds : StaffMovesOrder(o)) \/ UNCHANGED allVars
  <2>1. UNCHANGED portalVars
    BY <1>9 DEF StockMoves, StaffMovesOrder, allVars
  <2> QED
    BY <1>1, <2>1
<1> QED
  BY <1>2, <1>3, <1>4, <1>5, <1>6, <1>7, <1>8, <1>9 DEF PortalNext

------------------------------------------------------------------------------
(* A user whose account names a customer has an account, and an account    *)
(* never names a customer that does not exist.                             *)
LEMMA AccountFacts ==
  ASSUME PortalTypeOK, Accounted, NEW u \in Users
  PROVE  /\ account[u].customer \in Customers => HasAccount(u)
         /\ ~HasAccount(u) => account[u].customer \notin Customers
         /\ \A c \in Customers : ~Exists(c) => account[u].customer # c
<1>1. account[u].customer \in Customers <=> HasAccount(u)
  <2>1. CASE HasAccount(u)
    BY <2>1 DEF Accounted, AccountFits
  <2>2. CASE ~HasAccount(u)
    BY <2>2, NoCustomerAssumption DEF HasAccount, NoAccount
  <2> QED
    BY <2>1, <2>2
<1>2. HasAccount(u) => Exists(account[u].customer)
  BY DEF Accounted, AccountFits
<1> QED
  BY <1>1, <1>2

(* A request stays with its order as long as its account and its order do. *)
LEMMA RequestStays ==
  ASSUME NEW r, RequestFits(r),
         HasAccount(r.user)', account'[r.user].customer = account[r.user].customer,
         owner'[r.order] = owner[r.order], items'[r.order] = items[r.order],
         status'[r.order] \in Live \cup {"CANCELLED"}
  PROVE  RequestFits(r)'
  BY DEF RequestFits, Live

(* Steps that create no account and start no call.                         *)
LEMMA AccountsQuiet ==
  ASSUME PortalTypeOK, Accounted,
         registered \subseteq registered',
         \A c \in Customers : Exists(c) => Exists(c)',
         \A u \in Users : /\ account'[u].customer = account[u].customer
                          /\ HasAccount(u)' <=> HasAccount(u)
                          /\ HasAccount(u) => account'[u].status # "NONE",
         \A p \in Calls : Open(p)' => Open(p) /\ call'[p] = call[p],
         requests' = requests,
         \A r \in requests : /\ owner'[r.order] = owner[r.order]
                             /\ items'[r.order] = items[r.order]
                             /\ status'[r.order] \in Live \cup {"CANCELLED"}
  PROVE  Accounted'
<1>1. ASSUME NEW u \in Users PROVE AccountFits(u)'
  BY DEF Accounted, AccountFits
<1>2. ASSUME NEW p \in Calls PROVE CallFits(p)'
  <2> SUFFICES ASSUME Open(p)' PROVE CallFits(p)'
    BY DEF CallFits
  <2>1. Open(p) /\ call'[p] = call[p] /\ CallFits(p)
    BY DEF Accounted
  <2>2. call[p].user \in Users
    BY <2>1, OpenCallFacts
  <2>3. \A q \in Calls : Adopts(q)' => Adopts(q) /\ call'[q] = call[q]
    BY DEF Adopts
  <2> QED
    BY <2>1, <2>2, <2>3 DEF CallFits
<1>3. ASSUME NEW r \in requests PROVE RequestFits(r)'
  <2>1. RequestFits(r) /\ r.user \in Users
    BY DEF Accounted, PortalTypeOK, Requests
  <2>2. HasAccount(r.user)' /\ account'[r.user].customer = account[r.user].customer
    BY <2>1 DEF RequestFits
  <2> QED
    BY <2>1, <2>2, RequestStays
<1>4. OneRequest'
  BY DEF Accounted, OneRequest
<1> QED
  BY <1>1, <1>2, <1>3, <1>4 DEF Accounted

(* A new account for a user who has none, with a customer that no account  *)
(* and no open call has.                                                   *)
LEMMA AccountMade ==
  ASSUME PortalTypeOK, Accounted, NEW u \in Users, NEW c \in Customers,
         NewAccount(u, c), ~HasAccount(u),
         registered \subseteq registered', u \in registered',
         \A d \in Customers : Exists(d) => Exists(d)', Exists(c)',
         \A x \in Users : account[x].customer # c,
         \A p \in Calls : Open(p)' => /\ Open(p) /\ call'[p] = call[p]
                                      /\ call[p].user # u
                                      /\ call[p].adopts => call[p].customer # c
  PROVE  /\ \A x \in Users : AccountFits(x)'
         /\ \A p \in Calls : CallFits(p)'
         /\ \A x \in Users : HasAccount(x) => x # u /\ account'[x] = account[x] /\ HasAccount(x)'
         /\ HasAccount(u)' /\ account'[u].customer = c
<1>1. /\ account'[u] = [customer |-> c, status |-> "ACTIVE"]
      /\ \A x \in Users : x # u => account'[x] = account[x]
  BY DEF NewAccount, PortalTypeOK
<1>2. HasAccount(u)' /\ account'[u].customer = c /\ account'[u].status = "ACTIVE"
  BY <1>1, NoCustomerAssumption DEF HasAccount, NoAccount
<1>3. \A x \in Users : x # u => account'[x] = account[x] /\ (HasAccount(x)' <=> HasAccount(x))
  BY <1>1 DEF HasAccount, NoAccount
<1>4. ASSUME NEW x \in Users PROVE AccountFits(x)'
  <2>1. CASE x = u
    BY <1>2, <1>3, <2>1 DEF AccountFits
  <2>2. CASE x # u
    <3>1. AccountFits(x)
      BY DEF Accounted
    <3>2. \A y \in Users : y # x => account'[y].customer # account'[x].customer \/ ~HasAccount(x)
      BY <1>2, <1>3, <2>2, <3>1 DEF AccountFits
    <3> QED
      BY <1>3, <2>2, <3>1, <3>2 DEF AccountFits
  <2> QED
    BY <2>1, <2>2
<1>5. ASSUME NEW p \in Calls PROVE CallFits(p)'
  <2> SUFFICES ASSUME Open(p)' PROVE CallFits(p)'
    BY DEF CallFits
  <2>1. Open(p) /\ call'[p] = call[p] /\ CallFits(p) /\ call[p].user # u
        /\ (call[p].adopts => call[p].customer # c)
    BY DEF Accounted
  <2>2. call[p].user \in Users
    BY <2>1, OpenCallFacts
  <2>3. \A q \in Calls : Adopts(q)' => Adopts(q) /\ call'[q] = call[q]
    BY DEF Adopts
  <2> QED
    BY <1>2, <1>3, <2>1, <2>2, <2>3 DEF CallFits
<1> QED
  BY <1>2, <1>3, <1>4, <1>5

(* Customers, accounts and stock may move while orders stand still.        *)
LEMMA QuietAccounts ==
  ASSUME PortalTypeOK, Accounted, UNCHANGED <<status, items, owner, requests>>,
         \/ \E u \in Users : Register(u)
         \/ \E u \in Users, c \in Customers : CreateCustomer(c, u)
         \/ \E c \in Customers, u \in Users, new \in {"ACTIVE", "INACTIVE"} : UpdateCustomer(c, u, new)
         \/ \E u \in Users, new \in {"ACTIVE", "INACTIVE"} : UpdateAccount(u, new)
         \/ \E p \in Calls : PlaceRollsBack(p)
         \/ UNCHANGED portalVars
  PROVE  Accounted'
<1>1. registered \subseteq registered'
  BY DEF Register, CreateCustomer, UpdateCustomer, UpdateAccount, PlaceRollsBack, portalVars
<1>2. \A c \in Customers : Exists(c) => Exists(c)'
  <2>1. CASE UNCHANGED customer
    BY <2>1 DEF Exists
  <2>2. CASE \E u \in Users, c \in Customers : CreateCustomer(c, u)
    BY <2>2 DEF CreateCustomer, NewCustomer, Exists, PortalTypeOK
  <2>3. CASE \E c \in Customers, u \in Users, new \in {"ACTIVE", "INACTIVE"} : UpdateCustomer(c, u, new)
    BY <2>3 DEF UpdateCustomer, Exists, PortalTypeOK
  <2> QED
    BY <2>1, <2>2, <2>3 DEF Register, UpdateAccount, PlaceRollsBack, portalVars
<1>3. \A u \in Users : /\ account'[u].customer = account[u].customer
                       /\ HasAccount(u)' <=> HasAccount(u)
                       /\ HasAccount(u) => account'[u].status # "NONE"
  <2>1. CASE UNCHANGED account
    BY <2>1 DEF HasAccount, NoAccount, Accounted, AccountFits
  <2>2. CASE \E u \in Users, new \in {"ACTIVE", "INACTIVE"} : UpdateAccount(u, new)
    <3>1. PICK u \in Users, new \in {"ACTIVE", "INACTIVE"} : UpdateAccount(u, new)
      BY <2>2
    <3>2. HasAccount(u) /\ account' = [account EXCEPT ![u].status = new]
      BY <3>1 DEF UpdateAccount, HasAccount
    <3>3. account'[u].customer = account[u].customer /\ account'[u].status = new
      BY <3>2 DEF PortalTypeOK
    <3>4. HasAccount(u)' /\ account'[u].status # "NONE"
      BY <3>1, <3>3 DEF HasAccount, NoAccount
    <3>5. \A x \in Users : x # u => account'[x] = account[x]
      BY <3>2 DEF PortalTypeOK
    <3>6. \A x \in Users : HasAccount(x) => account[x].status # "NONE"
      BY DEF Accounted, AccountFits
    <3> QED
      BY <3>2, <3>3, <3>4, <3>5, <3>6 DEF HasAccount, NoAccount
  <2> QED
    BY <2>1, <2>2 DEF Register, CreateCustomer, UpdateCustomer, PlaceRollsBack, portalVars
<1>4. \A p \in Calls : Open(p)' => Open(p) /\ call'[p] = call[p]
  <2>1. CASE UNCHANGED call
    BY <2>1 DEF Open
  <2>2. CASE \E p \in Calls : PlaceRollsBack(p)
    BY <2>2 DEF PlaceRollsBack, Open, PortalTypeOK
  <2> QED
    BY <2>1, <2>2 DEF Register, CreateCustomer, UpdateCustomer, UpdateAccount, portalVars
<1>5. \A r \in requests : status[r.order] \in Live \cup {"CANCELLED"}
  BY DEF Accounted, RequestFits
<1> QED
  BY <1>1, <1>2, <1>3, <1>4, <1>5, AccountsQuiet

(* Staff move orders, of the portal or not, while accounts stand still.    *)
LEMMA QuietOrders ==
  ASSUME PortalTypeOK, Accounted, NEW o \in OrderIds,
         \/ \E w \in Warehouses, b \in Baskets, c \in Customers : StaffCreatesOrder(o, w, b, c)
         \/ StaffMovesOrder(o)
  PROVE  Accounted'
<1>1. UNCHANGED <<registered, customer, account, requests, call>>
  BY DEF StaffCreatesOrder, StaffMovesOrder, portalVars
<1>2. \A r \in requests : r.order \in OrderIds /\ status[r.order] \in Live \cup {"CANCELLED"}
  BY DEF Accounted, RequestFits, PortalTypeOK, Requests
<1>3. \A r \in requests : /\ owner'[r.order] = owner[r.order]
                          /\ items'[r.order] = items[r.order]
                          /\ status'[r.order] \in Live \cup {"CANCELLED"}
  <2>1. CASE \E w \in Warehouses, b \in Baskets, c \in Customers : StaffCreatesOrder(o, w, b, c)
    <3>1. PICK w \in Warehouses, b \in Baskets, c \in Customers :
            /\ status[o] = "NONE"
            /\ owner' = [owner EXCEPT ![o] = c]
            /\ items' = [items EXCEPT ![o] = b]
            /\ status' = [status EXCEPT ![o] = "DRAFT"]
      BY <2>1 DEF StaffCreatesOrder, CreateDraftOrder
    <3>2. \A r \in requests : r.order # o
      BY <1>2, <3>1 DEF Live
    <3> QED
      BY <1>2, <3>1, <3>2 DEF PortalTypeOK, TypeOK
  <2>2. CASE StaffMovesOrder(o)
    <3>1. owner' = owner /\ items' = items
      BY <2>2 DEF StaffMovesOrder, portalVars, ConfirmOrder, CancelDraft, CancelOrder
    <3>2. \E s \in Live \cup {"CANCELLED"} : status' = [status EXCEPT ![o] = s]
      BY <2>2 DEF StaffMovesOrder, ConfirmOrder, CancelDraft, CancelOrder, SetOrderStatus, Live
    <3> QED
      BY <1>2, <3>1, <3>2 DEF PortalTypeOK, TypeOK
  <2> QED
    BY <2>1, <2>2
<1>4. \A u \in Users : HasAccount(u) => account[u].status # "NONE"
  BY DEF Accounted, AccountFits
<1> QED
  BY <1>1, <1>3, <1>4, AccountsQuiet DEF Exists, HasAccount, NoAccount, Open

(* A user that registers at a company is new, and so is the customer.      *)
LEMMA RegisterAccounted ==
  ASSUME PortalTypeOK, Accounted, NEW u \in Users, NEW c \in Customers, RegisterAtCompany(u, c)
  PROVE  Accounted'
<1>1. /\ u \notin registered /\ Unused(c) /\ registered' = registered \cup {u}
      /\ NewCustomer(c, u) /\ NewAccount(u, c)
      /\ UNCHANGED <<status, items, owner, requests, call>>
  BY DEF RegisterAtCompany, vars, orderVars
<1>2. ~HasAccount(u) /\ \A x \in Users : account[x].customer # c
  BY <1>1, AccountFacts DEF Accounted, AccountFits, Unused
<1>3. (\A d \in Customers : Exists(d) => Exists(d)') /\ Exists(c)'
  BY <1>1 DEF NewCustomer, Exists, PortalTypeOK
<1>4. \A p \in Calls : Open(p)' => /\ Open(p) /\ call'[p] = call[p]
                                   /\ call[p].user # u
                                   /\ call[p].adopts => call[p].customer # c
  BY <1>1 DEF Accounted, CallFits, Unused, Claimed, Open
<1>5. /\ \A x \in Users : AccountFits(x)'
      /\ \A p \in Calls : CallFits(p)'
      /\ \A x \in Users : HasAccount(x) => account'[x] = account[x] /\ HasAccount(x)'
  BY <1>1, <1>2, <1>3, <1>4, AccountMade
<1>6. ASSUME NEW r \in requests PROVE RequestFits(r)'
  <2>1. RequestFits(r) /\ r.user \in Users
    BY DEF Accounted, PortalTypeOK, Requests
  <2> QED
    BY <1>1, <1>5, <2>1 DEF RequestFits
<1>7. OneRequest'
  BY <1>1 DEF Accounted, OneRequest
<1> QED
  BY <1>1, <1>5, <1>6, <1>7 DEF Accounted

(* What a call decides fits what is there, and what other calls decided.   *)
LEMMA StartAccounted ==
  ASSUME PortalTypeOK, Accounted, NEW p \in Calls, NEW u \in Users, NEW k \in RequestKeys,
         NEW b \in Baskets, PlaceStarts(p, u, k, b)
  PROVE  Accounted'
<1>1. /\ ~Open(p) /\ u \in registered /\ Listed(b) # {}
      /\ UNCHANGED <<registered, customer, account, owner, requests, status, items>>
  BY DEF PlaceStarts, vars, orderVars
<1>2. PICK w \in Warehouses, c \in Customers, adopts \in BOOLEAN :
        /\ call' = [call EXCEPT ![p] = [user |-> u, key |-> k, basket |-> b, customer |-> c,
                                        adopts |-> adopts, warehouse |-> w]]
        /\ ~adopts => account[u].customer = c
        /\ adopts => account[u] = NoAccount /\ ~Adopting(u) /\ c \in AdoptedBy(u) /\ ~Claimed(c)
  <2>1. HasActiveAccount(u) => account[u].customer \in Customers
    BY AccountTypes DEF Accounted
  <2>2. AdoptedBy(u) \subseteq Customers
    BY DEF AdoptedBy, Adoptable
  <2> QED
    BY <2>1, <2>2 DEF PlaceStarts
<1>3. /\ call'[p].user = u /\ call'[p].basket = b /\ call'[p].customer = c
      /\ call'[p].adopts = adopts
      /\ \A q \in Calls : q # p => call'[q] = call[q]
  BY <1>2 DEF PortalTypeOK
<1>4. \A q \in Calls : q # p => (Open(q)' <=> Open(q)) /\ (Adopts(q)' <=> Adopts(q))
  BY <1>3 DEF Open, Adopts
<1>5. adopts => /\ ~HasAccount(u)
                /\ \A x \in Users : account[x].customer # c
                /\ \A q \in Calls : Adopts(q) => call[q].user # u /\ call[q].customer # c
  <2> SUFFICES ASSUME adopts PROVE /\ ~HasAccount(u)
                                   /\ \A x \in Users : account[x].customer # c
                                   /\ \A q \in Calls : Adopts(q) =>
                                        call[q].user # u /\ call[q].customer # c
    OBVIOUS
  <2>1. account[u] = NoAccount /\ ~Adopting(u) /\ c \in AdoptedBy(u) /\ ~Claimed(c)
    BY <1>2
  <2>2. c \in Adoptable(u) \/ ~Exists(c)
    BY <2>1 DEF AdoptedBy, Unused
  <2>3. \A x \in Users : account[x].customer # c
    BY <1>2, <2>2, AccountFacts DEF Adoptable
  <2> QED
    BY <2>1, <2>3 DEF HasAccount, Adopting, Claimed, Adopts
<1>6. ASSUME NEW q \in Calls PROVE CallFits(q)'
  <2>1. CASE q = p
    <3>1. account' = account /\ registered' = registered
      BY <1>1
    <3>2. adopts => /\ ~HasAccount(u)'
                    /\ \A x \in Users : account'[x].customer # c
                    /\ \A y \in Calls : y # p /\ Adopts(y)' => call'[y].user # u /\ call'[y].customer # c
      BY <1>3, <1>4, <1>5, <3>1 DEF HasAccount, NoAccount
    <3>3. u \in registered' /\ (~adopts => account'[u].customer = c)
      BY <1>1, <1>2, <3>1
    <3>4. CallFits(p)'
      BY <1>1, <1>3, <3>2, <3>3 DEF CallFits, Listed
    <3> QED
      BY <2>1, <3>4
  <2>2. CASE q # p
    <3>1. CallFits(q)
      BY DEF Accounted
    <3>2. Adopts(p)' /\ Adopts(q) => call[q].user # u /\ call[q].customer # c
      BY <1>3, <1>5 DEF Adopts
    <3> QED
      BY <1>1, <1>3, <1>4, <2>2, <3>1, <3>2 DEF CallFits, HasAccount, NoAccount, Adopts
  <2> QED
    BY <2>1, <2>2
<1>7. \A x \in Users : AccountFits(x)'
  BY <1>1 DEF Accounted, AccountFits, HasAccount, NoAccount, Exists
<1>8. (\A r \in requests : RequestFits(r)') /\ OneRequest'
  BY <1>1 DEF Accounted, RequestFits, HasAccount, NoAccount, OneRequest
<1> QED
  BY <1>1, <1>6, <1>7, <1>8 DEF Accounted

(* What a call decided still holds when it commits: its account, and no    *)
(* request or order of another call is touched.                            *)
LEMMA EndAccounted ==
  ASSUME PortalTypeOK, Accounted, NEW p \in Calls, NEW o \in OrderIds, PlaceEnds(p, o)
  PROVE  Accounted'
<1>0. PICK e \in OpenCalls : e = call[p] /\ Open(p)
  BY OpenCallFacts DEF PlaceEnds
<1> DEFINE u == e.user
           c == e.customer
           new == [user |-> u, key |-> e.key, basket |-> e.basket, order |-> o]
<1>1. /\ Open(p) /\ ~Known(u, e.key)
      /\ PlaceOrder(o, e.warehouse, e.basket)
      /\ owner' = [owner EXCEPT ![o] = c]
      /\ requests' = requests \cup {new}
      /\ call' = [call EXCEPT ![p] = NoCall]
      /\ registered' = registered
      /\ e.adopts => /\ NewAccount(u, c)
                           /\ IF Exists(c) THEN UNCHANGED customer ELSE NewCustomer(c, u)
      /\ ~e.adopts => UNCHANGED <<account, customer>>
  BY <1>0 DEF PlaceEnds, Stabilized
<1>2. /\ u \in Users /\ c \in Customers /\ CallFits(p)
      /\ e.warehouse \in Warehouses /\ e.basket \in Baskets
  BY <1>0, OpenCallFacts DEF Accounted
<1>3. /\ status[o] = "NONE" /\ status'[o] = "CONFIRMED" /\ items'[o] = e.basket /\ owner'[o] = c
      /\ \A x \in OrderIds : x # o => /\ status'[x] = status[x] /\ items'[x] = items[x]
                                      /\ owner'[x] = owner[x]
  BY <1>1, <1>2, PlaceOrderWrites DEF PortalTypeOK, TypeOK
<1>4. \A r \in requests : /\ r.order \in OrderIds /\ r.order # o
                          /\ r.user \in Users /\ RequestFits(r)
  BY <1>3 DEF Accounted, RequestFits, PortalTypeOK, Requests, Live
<1>5. \A q \in Calls : Open(q)' => q # p /\ Open(q) /\ call'[q] = call[q]
  BY <1>1 DEF Open, PortalTypeOK
<1>6. /\ \A x \in Users : AccountFits(x)'
      /\ \A q \in Calls : CallFits(q)'
      /\ \A x \in Users : HasAccount(x) => account'[x] = account[x] /\ HasAccount(x)'
      /\ HasAccount(u)' /\ account'[u].customer = c
  <2>1. CASE e.adopts
    <3>1. /\ ~HasAccount(u) /\ u \in registered
          /\ \A x \in Users : account[x].customer # c
          /\ \A q \in Calls : q # p /\ Adopts(q) => call[q].user # u /\ call[q].customer # c
      BY <1>0, <1>2, <2>1 DEF CallFits
    <3>2. (\A d \in Customers : Exists(d) => Exists(d)') /\ Exists(c)'
      <4>1. CASE Exists(c)
        BY <1>1, <2>1, <4>1 DEF Exists
      <4>2. CASE ~Exists(c)
        <5>1. customer' = [customer EXCEPT ![c] = [email |-> u, status |-> "ACTIVE"]]
          BY <1>1, <2>1, <4>2 DEF NewCustomer
        <5> QED
          BY <1>2, <5>1 DEF Exists, PortalTypeOK
      <4> QED
        BY <4>1, <4>2
    <3>3. \A q \in Calls : Open(q)' => /\ Open(q) /\ call'[q] = call[q]
                                       /\ call[q].user # u
                                       /\ call[q].adopts => call[q].customer # c
      <4> SUFFICES ASSUME NEW q \in Calls, Open(q)'
                   PROVE  /\ Open(q) /\ call'[q] = call[q]
                          /\ call[q].user # u
                          /\ call[q].adopts => call[q].customer # c
        OBVIOUS
      <4>1. q # p /\ Open(q) /\ call'[q] = call[q]
        BY <1>5
      <4>2. call[q].user \in Users /\ call[q].customer \in Customers
        BY <4>1, OpenCallFacts
      <4>3. ~call[q].adopts => HasAccount(call[q].user)
        BY <4>1, <4>2, AccountFacts DEF Accounted, CallFits
      <4> QED
        BY <3>1, <4>1, <4>3 DEF Adopts
    <3> HIDE DEF u, c
    <3> QED
      BY <1>1, <1>2, <2>1, <3>1, <3>2, <3>3, AccountMade
  <2>2. CASE ~e.adopts
    <3>1. account' = account /\ customer' = customer /\ registered' = registered
      BY <1>1, <2>2
    <3>2. account[u].customer = c /\ HasAccount(u)
      BY <1>0, <1>2, <2>2, AccountFacts DEF CallFits
    <3>3. \A x \in Users : AccountFits(x)'
      BY <3>1 DEF Accounted, AccountFits, HasAccount, NoAccount, Exists
    <3>4. \A q \in Calls : CallFits(q)'
      BY <1>5, <3>1 DEF Accounted, CallFits, HasAccount, NoAccount, Adopts
    <3>5. \A x \in Users : account'[x] = account[x] /\ (HasAccount(x)' <=> HasAccount(x))
      BY <3>1 DEF HasAccount, NoAccount
    <3> HIDE DEF u, c
    <3> QED
      BY <1>2, <3>2, <3>3, <3>4, <3>5
  <2> QED
    BY <2>1, <2>2
<1>7. ASSUME NEW r \in requests PROVE RequestFits(r)'
  <2>1. /\ HasAccount(r.user)' /\ account'[r.user].customer = account[r.user].customer
        /\ RequestFits(r)
    BY <1>4, <1>6 DEF RequestFits
  <2>2. /\ owner'[r.order] = owner[r.order] /\ items'[r.order] = items[r.order]
        /\ status'[r.order] \in Live \cup {"CANCELLED"}
    BY <1>3, <1>4 DEF RequestFits
  <2> QED
    BY <2>1, <2>2, RequestStays
<1>8. RequestFits(new)'
  <2>1. new.user = u /\ new.order = o /\ new.basket = e.basket
    OBVIOUS
  <2> HIDE DEF new, u, c
  <2> QED
    BY <1>3, <1>6, <2>1 DEF RequestFits, Live
<1>9. OneRequest'
  <2> SUFFICES ASSUME NEW r \in requests', NEW s \in requests',
                      (r.user = s.user /\ r.key = s.key) \/ r.order = s.order
               PROVE  r = s
    BY DEF OneRequest
  <2>1. new.user = u /\ new.order = o /\ new.key = e.key
    OBVIOUS
  <2>2. \A x \in requests : ~(x.user = new.user /\ x.key = new.key) /\ x.order # new.order
    BY <1>1, <1>4, <2>1 DEF Known
  <2>3. r \in requests /\ s \in requests => r = s
    BY DEF Accounted, OneRequest
  <2> HIDE DEF new
  <2> QED
    BY <1>1, <2>2, <2>3
<1> QED
  BY <1>1, <1>6, <1>7, <1>8, <1>9 DEF Accounted

LEMMA AccountedNext ==
  ASSUME PortalTypeOK, Accounted, [PortalNext]_allVars
  PROVE  Accounted'
<1>1. CASE \/ \E u \in Users : Register(u)
           \/ \E u \in Users, c \in Customers : CreateCustomer(c, u)
           \/ \E c \in Customers, u \in Users, new \in {"ACTIVE", "INACTIVE"} : UpdateCustomer(c, u, new)
           \/ \E u \in Users, new \in {"ACTIVE", "INACTIVE"} : UpdateAccount(u, new)
           \/ \E p \in Calls : PlaceRollsBack(p)
           \/ StockMoves
           \/ UNCHANGED allVars
  <2>1. UNCHANGED <<status, items, owner, requests>>
    BY <1>1 DEF Register, CreateCustomer, UpdateCustomer, UpdateAccount, PlaceRollsBack, StockMoves,
                allVars, vars, orderVars, portalVars
  <2>2. StockMoves \/ UNCHANGED allVars => UNCHANGED portalVars
    BY DEF StockMoves, allVars
  <2> QED
    BY <1>1, <2>1, <2>2, QuietAccounts
<1>2. ASSUME NEW u \in Users, NEW c \in Customers, RegisterAtCompany(u, c) PROVE Accounted'
  BY <1>2, RegisterAccounted
<1>3. ASSUME NEW p \in Calls, NEW u \in Users, NEW k \in RequestKeys, NEW b \in Baskets,
             PlaceStarts(p, u, k, b)
      PROVE  Accounted'
  BY <1>3, StartAccounted
<1>4. ASSUME NEW p \in Calls, NEW o \in OrderIds, PlaceEnds(p, o) PROVE Accounted'
  BY <1>4, EndAccounted
<1>5. ASSUME NEW o \in OrderIds,
             \/ \E w \in Warehouses, b \in Baskets, c \in Customers : StaffCreatesOrder(o, w, b, c)
             \/ StaffMovesOrder(o)
      PROVE  Accounted'
  BY <1>5, QuietOrders
<1> QED
  BY <1>1, <1>2, <1>3, <1>4, <1>5 DEF PortalNext

LEMMA PortalInvInit == PortalInit => PortalInv /\ StockBalances(Nothing)
<1> SUFFICES ASSUME PortalInit PROVE PortalInv /\ StockBalances(Nothing)
  OBVIOUS
<1>1. OrderInv /\ Rowed /\ StockBalances(Nothing)
  BY OrderInvInit, RowedInit, BalanceInit DEF PortalInit
<1>2. PortalTypeOK
  BY <1>1 DEF PortalInit, PortalTypeOK, OrderInv, Activity, NoAccount
<1>3. Accounted
  BY DEF PortalInit, Accounted, AccountFits, HasAccount, CallFits, Open, OneRequest
<1> QED
  BY <1>1, <1>2, <1>3 DEF PortalInv

LEMMA PortalInvNext ==
  PortalInv /\ StockBalances(Nothing) /\ [PortalNext]_allVars
    => (PortalInv /\ StockBalances(Nothing))'
<1> SUFFICES ASSUME PortalInv, StockBalances(Nothing), [PortalNext]_allVars
             PROVE  (PortalInv /\ StockBalances(Nothing))'
  OBVIOUS
<1>1. PortalTypeOK /\ OrderInv /\ Rowed /\ Accounted /\ \A p \in Calls : CallFits(p)
  BY DEF PortalInv, Accounted
<1>2. OrderInv' /\ Rowed' /\ StockBalances(Nothing)'
  BY <1>1, PortalOrders
<1>3. PortalTypeOK'
  BY <1>1, <1>2, PortalTypesNext DEF OrderInv
<1>4. Accounted'
  BY <1>1, AccountedNext
<1> QED
  BY <1>2, <1>3, <1>4 DEF PortalInv

(* Portal orders whose warehouse was chosen from stock read without a lock *)
(* never oversell a row, lose goods or double them, whatever staff and     *)
(* other calls do meanwhile; and every variable keeps its type.            *)
THEOREM PortalStockHolds == PortalSpec => []PortalStockIsSound
<1>1. PortalInv /\ StockBalances(Nothing) => PortalStockIsSound
  BY BalanceConserves DEF PortalInv, OrderInv, PortalStockIsSound
<1> QED
  BY <1>1, PortalInvInit, PortalInvNext, PTL DEF PortalSpec

(* create_portal_order: calls that repeat a key, also at the same time,    *)
(* leave one order, with the goods that the call asked for.                *)
THEOREM OneOrderPerKeyHolds == PortalSpec => []OneOrderPerKey
<1>1. PortalInv => OneOrderPerKey
  BY DEF PortalInv, Accounted, OneRequest, RequestFits, OneOrderPerKey
<1> QED
  BY <1>1, PortalInvInit, PortalInvNext, PTL DEF PortalSpec

(* order_history_view shows a user no order that another user placed: an   *)
(* order stays with the customer of the account that placed it, and two    *)
(* calls that adopt a customer at the same time never share one.           *)
THEOREM PortalOrdersStayPrivate == PortalSpec => []OrdersStayPrivate
<1>1. PortalInv => OrdersStayPrivate
  <2> SUFFICES ASSUME PortalInv, NEW r \in requests
               PROVE  /\ owner[r.order] = account[r.user].customer
                      /\ \A u \in Users \ {r.user} : r.order \notin Visible(u)
    BY DEF OrdersStayPrivate
  <2>1. RequestFits(r) /\ r.user \in Users
    BY DEF PortalInv, Accounted, PortalTypeOK, Requests
  <2>2. ASSUME NEW u \in Users \ {r.user} PROVE r.order \notin Visible(u)
    <3> SUFFICES ASSUME account[u].status = "ACTIVE", owner[r.order] = account[u].customer
                 PROVE  FALSE
      BY DEF Visible
    <3>1. HasAccount(u)
      BY DEF HasAccount, NoAccount
    <3> QED
      BY <2>1, <3>1 DEF PortalInv, Accounted, AccountFits, RequestFits
  <2> QED
    BY <2>1, <2>2 DEF RequestFits
<1> QED
  BY <1>1, PortalInvInit, PortalInvNext, PTL DEF PortalSpec
==============================================================================
