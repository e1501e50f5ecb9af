-------------------------------- MODULE Portal --------------------------------
(***************************************************************************)
(* Orders that customers place themselves (portal/services.py), over the   *)
(* orders and the stock of module Orders.                                  *)
(*                                                                         *)
(* create_portal_order is one transaction, but most of what it decides by  *)
(* is read without a lock: the account, the request of the key, and the    *)
(* stock that its warehouse is chosen from.  So a call is two steps: it    *)
(* decides (PlaceStarts), and later, under the company's lock and those of *)
(* the stock rows, drafts and confirms the order and commits (PlaceEnds);  *)
(* or it comes to nothing (PlaceRollsBack).                                *)
(*                                                                         *)
(* Checkouts are left to module Checkout: no order here has one.           *)
(***************************************************************************)
EXTENDS Orders

CONSTANTS
  Users,        \* users of the portal; a user has one e-mail address
  Customers,    \* customers the company may have
  RequestKeys,  \* idempotency keys
  Calls,        \* concurrent calls of create_portal_order
  NoUser, NoCustomer, NoCall

VARIABLES
  registered,   \* users that exist
  customer,     \* customer[c]: whose e-mail the Customer has and its status
  account,      \* account[u]: the CustomerPortalAccount of u
  owner,        \* owner[o]: Order.customer
  requests,     \* the PortalOrderRequest rows
  call          \* call[p]: what an open call has decided; or NoCall

portalVars == <<registered, customer, account, owner, requests, call>>
allVars == <<vars, portalVars>>

Activity == {"NONE", "ACTIVE", "INACTIVE"}
OpenCalls == [user : Users, key : RequestKeys, basket : Baskets, customer : Customers,
              adopts : BOOLEAN, warehouse : Warehouses]
Requests == [user : Users, key : RequestKeys, basket : Baskets, order : OrderIds]

ASSUME NoCallAssumption == NoCall \notin OpenCalls
ASSUME NoCustomerAssumption == NoCustomer \notin Customers

PortalTypeOK ==
  /\ TypeOK
  /\ registered \subseteq Users
  /\ customer \in [Customers -> [email : Users \cup {NoUser}, status : Activity]]
  /\ account \in [Users -> [customer : Customers \cup {NoCustomer}, status : Activity]]
  /\ owner \in [OrderIds -> Customers \cup {NoCustomer}]
  /\ requests \subseteq Requests
  /\ call \in [Calls -> OpenCalls \cup {NoCall}]

NoAccount == [customer |-> NoCustomer, status |-> "NONE"]

PortalInit ==
  /\ Init
  /\ registered = {}
  /\ customer = [c \in Customers |-> [email |-> NoUser, status |-> "NONE"]]
  /\ account = [u \in Users |-> NoAccount]
  /\ owner = [o \in OrderIds |-> NoCustomer]
  /\ requests = {}
  /\ call = [p \in Calls |-> NoCall]

------------------------------------------------------------------------------
(* Customers and accounts.  register_portal_customer: an e-mail address    *)
(* registers once, as a visitor of one company or of none.                 *)
Exists(c) == customer[c].status # "NONE"
Open(p) == call[p] # NoCall
Claimed(c) == \E p \in Calls : Open(p) /\ call[p].adopts /\ call[p].customer = c
Unused(c) == ~Exists(c) /\ ~Claimed(c)   \* an open call may be creating it
NewCustomer(c, u) == customer' = [customer EXCEPT ![c] = [email |-> u, status |-> "ACTIVE"]]
NewAccount(u, c) == account' = [account EXCEPT ![u] = [customer |-> c, status |-> "ACTIVE"]]

Register(u) ==
  /\ u \notin registered
  /\ registered' = registered \cup {u}
  /\ UNCHANGED <<vars, customer, account, owner, requests, call>>

RegisterAtCompany(u, c) ==
  /\ u \notin registered /\ Unused(c)
  /\ registered' = registered \cup {u}
  /\ NewCustomer(c, u)
  /\ NewAccount(u, c)
  /\ UNCHANGED <<vars, owner, requests, call>>

(* Staff create customers, with any e-mail, and edit or deactivate them;   *)
(* operators suspend accounts and restore them.                            *)
CreateCustomer(c, u) ==
  /\ Unused(c)
  /\ NewCustomer(c, u)
  /\ UNCHANGED <<vars, registered, account, owner, requests, call>>

UpdateCustomer(c, u, new) ==
  /\ Exists(c)
  /\ customer' = [customer EXCEPT ![c] = [email |-> u, status |-> new]]
  /\ UNCHANGED <<vars, registered, account, owner, requests, call>>

UpdateAccount(u, new) ==
  /\ account[u] # NoAccount
  /\ account' = [account EXCEPT ![u].status = new]
  /\ UNCHANGED <<vars, registered, customer, owner, requests, call>>

(* get_active_portal_account                                               *)
HasActiveAccount(u) ==
  /\ account[u].status = "ACTIVE"
  /\ customer[account[u].customer].status = "ACTIVE"

(* Mutant of Adoptable: accounts are not looked at.                        *)
AdoptableTwice(u) == {c \in Customers : customer[c] = [email |-> u, status |-> "ACTIVE"]}

(* ensure_portal_account_for_order: a customer with the user's e-mail that *)
(* has no account, or a new one.  An account that another open call is     *)
(* about to create makes this call wait on its unique keys.                *)
Adoptable(u) ==
  {c \in Customers : /\ customer[c] = [email |-> u, status |-> "ACTIVE"]
                     /\ \A x \in Users : account[x].customer # c}
Adopting(u) == \E p \in Calls : Open(p) /\ call[p].adopts /\ call[p].user = u

AdoptedBy(u) ==
  IF Adoptable(u) # {} THEN Adoptable(u) ELSE {c \in Customers : Unused(c)}

(***************************************************************************)
(* create_portal_order.                                                    *)
(***************************************************************************)
(* The request of a known key: it is answered with its order when the rest *)
(* of the call is the same, and refused otherwise; either is no step.      *)
Known(u, k) == \E r \in requests : r.user = u /\ r.key = k

(* select_warehouse_with_stock: one warehouse has the whole basket.        *)
PlaceStarts(p, u, k, b) ==
  /\ ~Open(p)
  /\ u \in registered
  /\ Listed(b) # {}
  /\ ~Known(u, k)
  /\ \E w \in {w \in Warehouses : CanExit(w, b)} :
       LET Decide(c, adopts) ==
             call' = [call EXCEPT ![p] = [user |-> u, key |-> k, basket |-> b, customer |-> c,
                                          adopts |-> adopts, warehouse |-> w]]
       IN  \/ HasActiveAccount(u) /\ Decide(account[u].customer, FALSE)
           \/ /\ account[u] = NoAccount /\ ~Adopting(u)
              /\ \E c \in AdoptedBy(u) : ~Claimed(c) /\ Decide(c, TRUE)
  /\ UNCHANGED <<vars, registered, customer, account, owner, requests>>

(* Mutant of PlaceOrder: the stock read before is trusted.                 *)
PlaceOrderUnchecked(o, w, b) ==
  /\ status[o] = "NONE"
  /\ warehouse' = [warehouse EXCEPT ![o] = w]
  /\ items' = [items EXCEPT ![o] = b]
  /\ number' = [number EXCEPT ![o] = nextNumber]
  /\ nextNumber' = nextNumber + 1
  /\ stock' = [stock EXCEPT ![w] = AfterExit(w, b)]
  /\ links' = [links EXCEPT ![o]["CONFIRMATION"] = LinkedExit(b)]
  /\ SetOrderStatus(o, "CONFIRMED")
  /\ UNCHANGED <<rows, base, checkout>>

(* create_draft_order and confirm_order in the one transaction.            *)
PlaceOrder(o, w, b) ==
  /\ status[o] = "NONE"
  /\ CanExit(w, b)
  /\ warehouse' = [warehouse EXCEPT ![o] = w]
  /\ items' = [items EXCEPT ![o] = b]
  /\ number' = [number EXCEPT ![o] = nextNumber]
  /\ nextNumber' = nextNumber + 1
  /\ stock' = [stock EXCEPT ![w] = AfterExit(w, b)]
  /\ links' = [links EXCEPT ![o]["CONFIRMATION"] = LinkedExit(b)]
  /\ SetOrderStatus(o, "CONFIRMED")
  /\ UNCHANGED <<rows, base, checkout>>

(* PortalOrderRequest is unique by user, company and key: of two calls     *)
(* that found no request, the second to get here fails.                    *)
(* Mutant of Stabilized: no such key.                                      *)
StabilizedAnyway(u, k) == TRUE
Stabilized(u, k) == ~Known(u, k)

PlaceEnds(p, o) ==
  LET c == call[p] IN
    /\ Open(p)
    /\ Stabilized(c.user, c.key)
    /\ PlaceOrder(o, c.warehouse, c.basket)
    /\ owner' = [owner EXCEPT ![o] = c.customer]
    /\ requests' = requests \cup {[user |-> c.user, key |-> c.key, basket |-> c.basket, order |-> o]}
    /\ IF c.adopts
       THEN /\ NewAccount(c.user, c.customer)
            /\ IF Exists(c.customer) THEN UNCHANGED customer ELSE NewCustomer(c.customer, c.user)
       ELSE UNCHANGED <<account, customer>>
    /\ call' = [call EXCEPT ![p] = NoCall]
    /\ UNCHANGED registered

PlaceRollsBack(p) ==
  /\ Open(p)
  /\ call' = [call EXCEPT ![p] = NoCall]
  /\ UNCHANGED <<vars, registered, customer, account, owner, requests>>

(* Staff work on orders meanwhile, those of the portal included: the       *)
(* operations that move goods.                                             *)
StaffCreatesOrder(o, w, b, c) ==
  /\ Exists(c)
  /\ CreateDraftOrder(o, w, b)
  /\ owner' = [owner EXCEPT ![o] = c]
  /\ UNCHANGED <<registered, customer, account, requests, call>>

StaffMovesOrder(o) ==
  /\ ConfirmOrder(o) \/ CancelDraft(o) \/ CancelOrder(o)
  /\ UNCHANGED portalVars

StockMoves == InventoryNext /\ UNCHANGED <<orderVars, portalVars>>

PortalNext ==
  \/ StockMoves
  \/ \E u \in Users : Register(u)
  \/ \E u \in Users, c \in Customers : RegisterAtCompany(u, c) \/ CreateCustomer(c, u)
  \/ \E c \in Customers, u \in Users, new \in {"ACTIVE", "INACTIVE"} : UpdateCustomer(c, u, new)
  \/ \E u \in Users, new \in {"ACTIVE", "INACTIVE"} : UpdateAccount(u, new)
  \/ \E p \in Calls, u \in Users, k \in RequestKeys, b \in Baskets : PlaceStarts(p, u, k, b)
  \/ \E p \in Calls, o \in OrderIds : PlaceEnds(p, o)
  \/ \E p \in Calls : PlaceRollsBack(p)
  \/ \E o \in OrderIds, w \in Warehouses, b \in Baskets, c \in Customers : StaffCreatesOrder(o, w, b, c)
  \/ \E o \in OrderIds : StaffMovesOrder(o)

PortalSpec == PortalInit /\ [][PortalNext]_allVars

------------------------------------------------------------------------------
(***************************************************************************)
(* The goods of portal orders are in the books like those of any order:    *)
(* what was chosen from stock read without a lock never oversells a row,   *)
(* and a portal order that is cancelled gives back what it took.  And      *)
(* every variable keeps its type.                                          *)
(***************************************************************************)
PortalStockIsSound == PortalTypeOK /\ Conservation /\ Traceability

(***************************************************************************)
(* A key makes one order: calls that repeat it, also at the same time,     *)
(* leave one order with the goods asked for, and nothing of the others.    *)
(***************************************************************************)
OneOrderPerKey ==
  /\ \A r, s \in requests : (r.user = s.user /\ r.key = s.key) \/ r.order = s.order => r = s
  /\ \A r \in requests : /\ status[r.order] \in Live \cup {"CANCELLED"}
                         /\ items[r.order] = r.basket

(***************************************************************************)
(* An order of the portal belongs to the customer of the account of the    *)
(* user who placed it, and no customer is shared by two accounts: nobody   *)
(* finds the order of another user in order_history_view.                  *)
(***************************************************************************)
Visible(u) == {o \in OrderIds : /\ account[u].status = "ACTIVE"
                                /\ owner[o] = account[u].customer}
OrdersStayPrivate ==
  \A r \in requests :
    /\ owner[r.order] = account[r.user].customer
    /\ \A u \in Users \ {r.user} : r.order \notin Visible(u)
==============================================================================
