-------------------------------- MODULE Sales --------------------------------
(***************************************************************************)
(* The sales of one company (sales/services.py) on top of its orders and   *)
(* its stock: sales of delivered orders, direct sales at the point of sale *)
(* (POS), payments, cancellations and reversals.                           *)
(*                                                                         *)
(* Each service is one transaction under the lock of the company (new      *)
(* sales) or of the sale, so it is one action.  Calls carry an idempotency *)
(* key; "answers" keeps what every successful call was told, repeated      *)
(* calls included.  Amounts are naturals; a reference stands for all that  *)
(* a call says beyond branch, goods and amounts: reference, payment method *)
(* and customer.                                                           *)
(*                                                                         *)
(* A warehouse belongs to a branch or to the whole company, and a PATCH    *)
(* may move it at any time; Sale.clean looks at where it is now whenever a *)
(* sale is saved.                                                          *)
(***************************************************************************)
EXTENDS Orders, Sequences

CONSTANTS
  SaleIds,      \* sales that may be made
  Keys,         \* idempotency keys
  References,   \* what else a call says
  Totals,       \* totals a sale may have
  Branches,     \* branches of the company
  NoBranch,     \* the branch of a warehouse of the whole company
  NoSale, NoOrder, NoReference

ASSUME TotalsAssumption == Totals \subseteq Nat
ASSUME NoReferenceAssumption == NoReference \notin References
ASSUME NoOrderAssumption == NoOrder \notin OrderIds

VARIABLES
  sales,        \* sales[s]: the Sale and its SaleItem rows, or NoSale
  payments,     \* the Payment rows
  moved,        \* moved[s][kind][v]: delta of the linked movement, 0 if none
  reversal,     \* reversal[s]: SaleReversal.reference, or NoReference
  events,       \* events[s]: the SaleEvent rows, oldest first
  nextSale,     \* SaleNumberSequence.next_number
  branchOf,     \* branchOf[w]: Warehouse.branch, or NoBranch
  answers       \* history: what calls with a key were told

saleVars == <<sales, payments, moved, reversal, events, nextSale, branchOf, answers>>
salesVars == <<vars, saleVars>>

SaleStatuses == {"PENDING", "PARTIAL", "PAID", "CANCELLED"}
MoveKinds == {"SALE", "REVERSAL"}
EventTypes == {"CREATED", "PAYMENT_RECORDED", "CANCELLED"}

(* place is history: the branch that the warehouse had at the sale.        *)
SaleRows == [origin : {"ORDER", "POS"}, order : OrderIds \cup {NoOrder},
             branch : Branches, warehouse : Warehouses, place : Branches \cup {NoBranch},
             items : Baskets, status : SaleStatuses,
             total : Nat, paid : Nat, key : Keys, number : Nat \ {0}]
PaymentRows == [sale : SaleIds, key : Keys, amount : Nat \ {0}, reference : References]
EventRows == [type : EventTypes, old : SaleStatuses \cup {""}, new : SaleStatuses, amount : Nat]

ASSUME NoSaleAssumption == NoSale \notin SaleRows

Sold(s) == sales[s] # NoSale

SalesTypeOK ==
  /\ TypeOK
  /\ sales \in [SaleIds -> SaleRows \cup {NoSale}]
  /\ payments \subseteq PaymentRows
  /\ moved \in [SaleIds -> [MoveKinds -> [Variants -> Int]]]
  /\ reversal \in [SaleIds -> References \cup {NoReference}]
  /\ events \in [SaleIds -> Seq(EventRows)]
  /\ nextSale \in Nat \ {0}
  /\ branchOf \in [Warehouses -> Branches \cup {NoBranch}]

SalesInit ==
  /\ Init
  /\ sales = [s \in SaleIds |-> NoSale]
  /\ payments = {}
  /\ moved = [s \in SaleIds |-> [k \in MoveKinds |-> NoItems]]
  /\ reversal = [s \in SaleIds |-> NoReference]
  /\ events = [s \in SaleIds |-> << >>]
  /\ nextSale = 1
  /\ branchOf \in [Warehouses -> Branches \cup {NoBranch}]
  /\ answers = {}

------------------------------------------------------------------------------
Event(type, old, new, amount) == [type |-> type, old |-> old, new |-> new, amount |-> amount]

(* What a call with a key was told: the sale it made or found.             *)
Answer(op, key, s, request) ==
  answers' = answers \cup {[op |-> op, key |-> key, sale |-> s, request |-> request]}

(* Keys are unique per company for sales, per sale for payments.           *)
SalesWith(key) == {s \in SaleIds : Sold(s) /\ sales[s].key = key}
PaymentsOf(s) == {p \in payments : p.sale = s}
PaymentsWith(s, key) == {p \in PaymentsOf(s) : p.key = key}

(* What Sale.clean asks of other rows whenever a sale is saved.            *)
BranchFits(w, br) == branchOf[w] \in {NoBranch, br}
MaySave(s) ==
  LET x == sales[s] IN
    /\ BranchFits(x.warehouse, x.branch)
    /\ x.origin = "ORDER" => status[x.order] = "DELIVERED" /\ warehouse[x.order] = x.warehouse

(* warehouse_detail_view, and the maintainers' of the same row.            *)
MoveWarehouse(w, br) ==
  /\ branchOf' = [branchOf EXCEPT ![w] = br]
  /\ UNCHANGED <<vars, sales, payments, moved, reversal, events, nextSale, answers>>

(* create_sale: the sale of a delivered order, in its branch, once per     *)
(* order.  It is paid when the exact total is zero: t, to the cent, may be *)
(* zero for a sale that is not.                                            *)
CreateSale(s, o, key, br, t, initial) ==
  /\ ~Sold(s)
  /\ SalesWith(key) = {}
  /\ status[o] = "DELIVERED"
  /\ \A r \in SaleIds : Sold(r) => sales[r].order # o
  /\ BranchFits(warehouse[o], br)
  /\ initial = "PENDING" \/ (initial = "PAID" /\ t = 0)
  /\ sales' = [sales EXCEPT ![s] =
       [origin |-> "ORDER", order |-> o, branch |-> br, warehouse |-> warehouse[o],
        place |-> branchOf[warehouse[o]], items |-> items[o], status |-> initial,
        total |-> t, paid |-> 0, key |-> key, number |-> nextSale]]
  /\ events' = [events EXCEPT ![s] = <<Event("CREATED", "", initial, 0)>>]
  /\ nextSale' = nextSale + 1
  /\ Answer("sale", key, s, o)
  /\ UNCHANGED <<vars, payments, moved, reversal, branchOf>>

CreateSaleAgain(s, o, key) ==
  /\ s \in SalesWith(key)
  /\ sales[s].order = o
  /\ Answer("sale", key, s, o)
  /\ UNCHANGED <<vars, sales, payments, moved, reversal, events, nextSale, branchOf>>

(* create_pos_sale: goods leave and the whole price comes in, or nothing.  *)
PosRequest(br, w, b, ref) == [branch |-> br, warehouse |-> w, items |-> b, reference |-> ref]

CreatePosSale(s, key, br, w, b, ref, t) ==
  /\ ~Sold(s)
  /\ SalesWith(key) = {}
  /\ Listed(b) # {}
  /\ BranchFits(w, br)
  /\ t > 0
  /\ CanExit(w, b)
  /\ sales' = [sales EXCEPT ![s] =
       [origin |-> "POS", order |-> NoOrder, branch |-> br, warehouse |-> w,
        place |-> branchOf[w], items |-> b, status |-> "PAID",
        total |-> t, paid |-> t, key |-> key, number |-> nextSale]]
  /\ nextSale' = nextSale + 1
  /\ stock' = [stock EXCEPT ![w] = AfterExit(w, b)]
  /\ moved' = [moved EXCEPT ![s]["SALE"] = LinkedExit(b)]
  /\ payments' = payments \cup {[sale |-> s, key |-> key, amount |-> t, reference |-> ref]}
  /\ events' = [events EXCEPT ![s] = <<Event("CREATED", "", "PAID", 0),
                                      Event("PAYMENT_RECORDED", "PAID", "PAID", t)>>]
  /\ Answer("sale", key, s, PosRequest(br, w, b, ref))
  /\ UNCHANGED <<rows, base, orderVars, reversal, branchOf>>

(* Mutant of PosReplayMatches: only the goods are compared.                *)
PosReplayMatchesGoods(s, br, w, b, ref) ==
  /\ sales[s].origin = "POS"
  /\ sales[s].warehouse = w
  /\ sales[s].items = b

(* _pos_replay_request_matches: a retry must repeat the sale's own data.   *)
PosReplayMatches(s, br, w, b, ref) ==
  /\ sales[s].origin = "POS"
  /\ sales[s].branch = br
  /\ sales[s].warehouse = w
  /\ sales[s].items = b
  /\ \E p \in PaymentsOf(s) : p.reference = ref /\ p.amount = sales[s].total

CreatePosSaleAgain(s, key, br, w, b, ref) ==
  /\ s \in SalesWith(key)
  /\ PosReplayMatches(s, br, w, b, ref)
  /\ Answer("sale", key, s, PosRequest(br, w, b, ref))
  /\ UNCHANGED <<vars, sales, payments, moved, reversal, events, nextSale, branchOf>>

(* Mutants of RecordPayment: the balance is not looked at; the previous    *)
(* status of the event is read after it was changed.                       *)
RecordPaymentBeyondBalance(s, key, a, ref) ==
  /\ Sold(s)
  /\ PaymentsWith(s, key) = {}
  /\ sales[s].status \notin {"CANCELLED", "PAID"}
  /\ sales' = [sales EXCEPT ![s].paid = @ + a,
                            ![s].status = IF sales[s].paid + a >= sales[s].total THEN "PAID" ELSE "PARTIAL"]
  /\ payments' = payments \cup {[sale |-> s, key |-> key, amount |-> a, reference |-> ref]}
  /\ UNCHANGED <<vars, moved, reversal, events, nextSale, branchOf, answers>>

RecordPaymentLateStatus(s, key, a, ref) ==
  /\ Sold(s)
  /\ PaymentsWith(s, key) = {}
  /\ sales[s].status \notin {"CANCELLED", "PAID"}
  /\ sales[s].paid + a <= sales[s].total
  /\ LET new == IF sales[s].paid + a = sales[s].total THEN "PAID" ELSE "PARTIAL" IN
       /\ sales' = [sales EXCEPT ![s].paid = @ + a, ![s].status = new]
       /\ events' = [events EXCEPT ![s] = Append(@, Event("PAYMENT_RECORDED", new, new, a))]
  /\ payments' = payments \cup {[sale |-> s, key |-> key, amount |-> a, reference |-> ref]}
  /\ UNCHANGED <<vars, moved, reversal, nextSale, branchOf, answers>>

(* record_payment                                                          *)
PaymentRequest(a, ref) == [amount |-> a, reference |-> ref]
Balance(s) == IF sales[s].status = "CANCELLED" THEN 0 ELSE sales[s].total - sales[s].paid

RecordPayment(s, key, a, ref) ==
  /\ Sold(s)
  /\ PaymentsWith(s, key) = {}
  /\ sales[s].status \notin {"CANCELLED", "PAID"}
  /\ a <= Balance(s)
  /\ MaySave(s)
  /\ LET paid == sales[s].paid + a
         new == IF paid = sales[s].total THEN "PAID" ELSE "PARTIAL" IN
       /\ sales' = [sales EXCEPT ![s].paid = paid, ![s].status = new]
       /\ events' = [events EXCEPT ![s] =
            Append(@, Event("PAYMENT_RECORDED", sales[s].status, new, a))]
  /\ payments' = payments \cup {[sale |-> s, key |-> key, amount |-> a, reference |-> ref]}
  /\ Answer("payment", key, s, PaymentRequest(a, ref))
  /\ UNCHANGED <<vars, moved, reversal, nextSale, branchOf>>

PaymentReplayMatches(s, key, a, ref) ==
  \E p \in PaymentsWith(s, key) : p.amount = a /\ p.reference = ref

RecordPaymentAgain(s, key, a, ref) ==
  /\ Sold(s)
  /\ PaymentReplayMatches(s, key, a, ref)
  /\ Answer("payment", key, s, PaymentRequest(a, ref))
  /\ UNCHANGED <<vars, sales, payments, moved, reversal, events, nextSale, branchOf>>

(* Mutant of CancelSale: payments already received are not looked at.      *)
CancelPaidSale(s) ==
  /\ Sold(s)
  /\ sales[s].status \in {"PENDING", "PARTIAL"}
  /\ sales' = [sales EXCEPT ![s].status = "CANCELLED"]
  /\ UNCHANGED <<vars, payments, moved, reversal, events, nextSale, branchOf, answers>>

(* cancel_sale: only a pending sale without payments; again is no change.  *)
CancelSale(s) ==
  /\ Sold(s)
  /\ sales[s].status = "PENDING"
  /\ sales[s].paid = 0
  /\ MaySave(s)
  /\ sales' = [sales EXCEPT ![s].status = "CANCELLED"]
  /\ events' = [events EXCEPT ![s] = Append(@, Event("CANCELLED", "PENDING", "CANCELLED", 0))]
  /\ UNCHANGED <<vars, payments, moved, reversal, nextSale, branchOf, answers>>

(* reverse_pos_sale: the goods go back to the warehouse they left and the  *)
(* money to the customer; a repeated call with its reference is no change. *)
MovedBy(s, kind) == {v \in Variants : moved[s][kind][v] # 0}

(* Mutant of ReversePosSale: an earlier reversal is not looked for, and a  *)
(* cancelled sale passes.                                                  *)
ReversePosSaleTwice(s, ref) ==
  /\ Sold(s)
  /\ sales[s].origin = "POS"
  /\ CanEnter(sales[s].warehouse, sales[s].items)
  /\ stock' = [stock EXCEPT ![sales[s].warehouse] = AfterEntry(sales[s].warehouse, sales[s].items)]
  /\ moved' = [moved EXCEPT ![s]["REVERSAL"] = sales[s].items]
  /\ reversal' = [reversal EXCEPT ![s] = ref]
  /\ sales' = [sales EXCEPT ![s].status = "CANCELLED", ![s].paid = 0]
  /\ UNCHANGED <<rows, base, orderVars, payments, events, nextSale, branchOf, answers>>

ReversePosSale(s, ref) ==
  /\ Sold(s)
  /\ reversal[s] = NoReference
  /\ sales[s].origin = "POS"
  /\ sales[s].status = "PAID"
  /\ sales[s].paid = sales[s].total
  /\ Listed(sales[s].items) # {}
  /\ moved[s]["SALE"] = LinkedExit(sales[s].items)
  /\ {sales[s].warehouse} \X Listed(sales[s].items) \subseteq rows
  /\ CanEnter(sales[s].warehouse, sales[s].items)
  /\ MaySave(s)
  /\ stock' = [stock EXCEPT ![sales[s].warehouse] = AfterEntry(sales[s].warehouse, sales[s].items)]
  /\ moved' = [moved EXCEPT ![s]["REVERSAL"] = sales[s].items]
  /\ reversal' = [reversal EXCEPT ![s] = ref]
  /\ sales' = [sales EXCEPT ![s].status = "CANCELLED", ![s].paid = 0]
  /\ events' = [events EXCEPT ![s] = Append(@, Event("CANCELLED", "PAID", "CANCELLED", sales[s].total))]
  /\ UNCHANGED <<rows, base, orderVars, payments, nextSale, branchOf, answers>>

SaleNext(s) ==
  \/ \E o \in OrderIds, key \in Keys, br \in Branches, t \in Totals, initial \in SaleStatuses :
       CreateSale(s, o, key, br, t, initial)
  \/ \E o \in OrderIds, key \in Keys : CreateSaleAgain(s, o, key)
  \/ \E key \in Keys, br \in Branches, w \in Warehouses, b \in Baskets, ref \in References :
       \/ \E t \in Totals : CreatePosSale(s, key, br, w, b, ref, t)
       \/ CreatePosSaleAgain(s, key, br, w, b, ref)
  \/ /\ Sold(s)
     /\ \E key \in Keys, a \in 1..sales[s].total, ref \in References :
          RecordPayment(s, key, a, ref) \/ RecordPaymentAgain(s, key, a, ref)
  \/ CancelSale(s)
  \/ \E ref \in References : ReversePosSale(s, ref)

SalesNext ==
  \/ Next /\ UNCHANGED saleVars
  \/ \E s \in SaleIds : SaleNext(s)
  \/ \E w \in Warehouses, br \in Branches \cup {NoBranch} : MoveWarehouse(w, br)

SalesSpec == SalesInit /\ [][SalesNext]_salesVars

------------------------------------------------------------------------------
(* The sum of the values of f: one element per unit of each of them.       *)
UnitsOf(f) == UNION {{x} \X (1..f[x]) : x \in DOMAIN f}
SumOf(f) == Cardinality(UnitsOf(f))

(* What was paid for a sale, by its rows and by the events of its log.     *)
Amounts(s) == [p \in PaymentsOf(s) |-> p.amount]
Collections(log) == {i \in DOMAIN log : log[i].type = "PAYMENT_RECORDED"}
Collecting(log) == [i \in Collections(log) |-> log[i].amount]
Received(s) == SumOf(Amounts(s))
Collected(log) == SumOf(Collecting(log))
Reversed(s) == reversal[s] # NoReference

(***************************************************************************)
(* Stock is explained by orders and sales together: what the inventory     *)
(* operations alone would leave in a row is what lies there, plus what     *)
(* live orders took, plus what standing direct sales took.  A sale of an   *)
(* order takes nothing (its goods left with the order); a reversal returns *)
(* the goods once, wherever stock and orders moved meanwhile.              *)
(***************************************************************************)
SoldFrom(s, w, v) ==
  IF Sold(s) /\ sales[s].origin = "POS" /\ sales[s].status = "PAID" /\ sales[s].warehouse = w
  THEN sales[s].items[v] ELSE 0
UnitsSold(w, v) == UNION {{s} \X (1..SoldFrom(s, w, v)) : s \in SaleIds}

StockIsExplained ==
  \A w \in Warehouses, v \in Variants :
    stock[w][v] + Cardinality(UnitsOut(w, v)) + Cardinality(UnitsSold(w, v)) = base[w][v]

(***************************************************************************)
(* A sale's row agrees with the rows about it.  While it stands, the       *)
(* amount paid is what its payments add up to, and the status is the one   *)
(* for that amount; a sale that is cancelled kept no money: none came in,  *)
(* or it is a direct sale whose reversal gives all of it back.  The order  *)
(* of a sale is, and stays, delivered, with the sale's goods.  So the only *)
(* check of Sale.clean that can refuse a later payment, cancellation or    *)
(* reversal is that of the warehouse's branch, and only for a warehouse    *)
(* moved since the sale.  And every variable keeps its type.               *)
(***************************************************************************)
RowIsPaidFor(s) ==
  LET x == sales[s] IN
    /\ x.status \in {"PENDING", "PARTIAL", "PAID"} => x.paid = Received(s) /\ ~Reversed(s)
    /\ x.status = "PENDING" => x.paid = 0
    /\ x.status = "PARTIAL" => x.paid \in 1..(x.total - 1)
    /\ x.status = "PAID" => x.paid = x.total
    /\ x.status = "CANCELLED" => /\ x.paid = 0
                                 /\ Received(s) = IF Reversed(s) THEN x.total ELSE 0
    /\ Reversed(s) <=> x.origin = "POS" /\ x.status = "CANCELLED"

SalesStayValid ==
  /\ SalesTypeOK
  /\ \A s \in SaleIds : Sold(s) =>
    LET x == sales[s] IN
      /\ RowIsPaidFor(s)
      /\ x.origin = "ORDER" => /\ status[x.order] = "DELIVERED"
                               /\ x.warehouse = warehouse[x.order]
                               /\ x.items = items[x.order]
      /\ x.origin = "POS" => x.order = NoOrder
      /\ MaySave(s) \/ branchOf[x.warehouse] # x.place

(***************************************************************************)
(* The audit trail tells the sale's story: the events of a sale chain      *)
(* without a gap from CREATED to its present status, the payments they     *)
(* name are the payment rows, and a cancellation is the last event, for    *)
(* the amount that was collected.                                          *)
(***************************************************************************)
EventsTellTheSale ==
  \A s \in SaleIds : Sold(s) =>
    LET log == events[s] IN
      /\ log[1].type = "CREATED" /\ log[1].old = ""
      /\ \A i \in 2..Len(log) : log[i].old = log[i - 1].new /\ log[i].type # "CREATED"
      /\ log[Len(log)].new = sales[s].status
      /\ Collected(log) = Received(s)
      /\ \A i \in 1..Len(log) : log[i].type = "CANCELLED" =>
           i = Len(log) /\ log[i].amount = Received(s)

(***************************************************************************)
(* An idempotency key names one call: two calls that were answered with    *)
(* the same key (of one sale, for payments) asked for the same thing and   *)
(* were told the same sale, whatever happened to that sale in between.     *)
(***************************************************************************)
KeysNameOneCall ==
  \A a, b \in answers :
    a.op = b.op /\ a.key = b.key /\ (a.op = "payment" => a.sale = b.sale) => a = b

(***************************************************************************)
(* The component implements its promise.  Money received is the sum of the *)
(* payment rows, and goods are read off the movement links, not off the    *)
(* columns of the sale that the services test.                             *)
(***************************************************************************)
BookOf(s) ==
  IF ~Sold(s) THEN "none"
  ELSE IF Reversed(s) THEN "refunded"
  ELSE CASE sales[s].status \in {"PENDING", "PARTIAL"} -> "open"
         [] sales[s].status = "PAID" -> "settled"
         [] sales[s].status = "CANCELLED" -> "void"
GoodsSold(s) ==
  IF MovedBy(s, "REVERSAL") # {} THEN "back" ELSE IF MovedBy(s, "SALE") # {} THEN "out" ELSE "none"

Book == INSTANCE SaleBook WITH
  Prices <- Totals,
  book <- [s \in SaleIds |-> BookOf(s)],
  price <- [s \in SaleIds |-> IF Sold(s) THEN sales[s].total ELSE 0],
  received <- [s \in SaleIds |-> Received(s)],
  goods <- [s \in SaleIds |-> GoodsSold(s)]
BookSpec == Book!Spec
==============================================================================
