------------------------------- MODULE Checkout -------------------------------
(***************************************************************************)
(* The Mercado Pago checkout of one order (external_payments), with what   *)
(* it touches: the order's status, its sale and the payment provider.      *)
(*                                                                         *)
(* The services that write run in transactions that lock the checkout and, *)
(* when they read it, the order: each transaction is one action.  What     *)
(* lies between transactions is not protected: the portal's view reads the *)
(* order before, and every call to the provider is made outside them.      *)
(* There the steps of requests, resolvers, webhook deliveries and staff    *)
(* interleave, and any of them may crash.                                  *)
(***************************************************************************)
EXTENDS Naturals, FiniteSets

CONSTANTS
  Requests,      \* concurrent calls of create_preference_view
  Resolvers,     \* concurrent calls of resolve_preference_view
  Workers,       \* concurrent calls of webhook_view and refresh_payment_view
  Notifications, \* webhook notifications; each may be delivered many times
  Payments,      \* payments of the preference at the provider
  PayOf,         \* PayOf[n]: the payment that notification n is about
  Mismatched,    \* payments of another amount or currency
  Total,         \* the order's total, in units that staff may collect
  HasAddress,    \* the customer or the user of his portal account has an e-mail
  None           \* no payment, no notification

ASSUME PayOfAssumption == PayOf \in [Notifications -> Payments]
ASSUME TotalAssumption == Total \in Nat \ {0}
ASSUME HasAddressAssumption == HasAddress \in BOOLEAN
ASSUME NoneAssumption == None \notin Payments \cup Notifications

VARIABLES
  order,         \* Order.status, from CONFIRMED on
  checkout,      \* MercadoPagoCheckout.status, or "NONE"
  pref,          \* its preference_id is known, so the customer may pay
  last,          \* its last_payment_id
  linked,        \* its sale is set
  remote,        \* remote[p]: MercadoPagoRemotePayment.status, or "none"
  notices,       \* <<p, status>>: payment notices enqueued for the customer
  sale,          \* Sale.status of the order's sale, or "NONE"
  cash,          \* units of the sale collected by staff
  recorded,      \* payments entered in the sale by reconcile_delivered_order
  receipt,       \* receipt[n]: MercadoPagoWebhookReceipt.result, or "NONE"
  received,      \* received[n]: WEBHOOK_RECEIVED events of n
  made,          \* the provider has a preference of this checkout
  pay,           \* pay[p]: the payment's status at the provider, or "none"
  request,       \* request[r]: "idle", "checked" or "calling"
  resolver,      \* resolver[x]: "idle" or "searching"
  worker         \* worker[d]: what a webhook or a refresh call is doing

orderPart == <<order, sale, cash>>
checkoutPart == <<checkout, pref, last, linked, remote, notices, recorded>>
hookPart == <<receipt, received>>
providerPart == <<made, pay>>
callPart == <<request, resolver, worker>>
vars == <<orderPart, checkoutPart, hookPart, providerPart, callPart>>

Raw == {"pending", "approved", "rejected", "cancelled", "refunded"}
CheckoutStatuses == {"CREATING", "READY", "PENDING", "APPROVED", "REJECTED",
                     "CANCELLED", "REFUNDED", "UNCERTAIN"}
Terminal == {"PROCESSED", "REJECTED"}
Idle == [pc |-> "idle", note |-> None, pay |-> None, seen |-> "none"]
Jobs == [pc : {"idle", "fetch", "apply", "conflict", "error", "refresh"},
         note : Notifications \cup {None}, pay : Payments \cup {None}, seen : Raw \cup {"none"}]

TypeOK ==
  /\ order \in {"CONFIRMED", "PREPARED", "DELIVERED", "CANCELLED"}
  /\ checkout \in CheckoutStatuses \cup {"NONE"}
  /\ pref \in BOOLEAN /\ linked \in BOOLEAN /\ made \in BOOLEAN
  /\ last \in Payments \cup {None}
  /\ remote \in [Payments -> Raw \cup {"none"}]
  /\ notices \subseteq Payments \X CheckoutStatuses
  /\ sale \in {"NONE", "PENDING", "PARTIAL", "PAID", "CANCELLED"}
  /\ cash \in 0..Total
  /\ recorded \subseteq Payments
  /\ receipt \in [Notifications -> Terminal \cup {"NONE", "", "PROVIDER_ERROR"}]
  /\ received \in [Notifications -> Nat]
  /\ pay \in [Payments -> Raw \cup {"none"}]
  /\ request \in [Requests -> {"idle", "checked", "calling"}]
  /\ resolver \in [Resolvers -> {"idle", "searching"}]
  /\ worker \in [Workers -> Jobs]

Init ==
  /\ order = "CONFIRMED" /\ sale = "NONE" /\ cash = 0
  /\ checkout = "NONE" /\ pref = FALSE /\ last = None /\ linked = FALSE
  /\ remote = [p \in Payments |-> "none"]
  /\ notices = {} /\ recorded = {}
  /\ receipt = [n \in Notifications |-> "NONE"]
  /\ received = [n \in Notifications |-> 0]
  /\ made = FALSE /\ pay = [p \in Payments |-> "none"]
  /\ request = [r \in Requests |-> "idle"]
  /\ resolver = [x \in Resolvers |-> "idle"]
  /\ worker = [d \in Workers |-> Idle]

------------------------------------------------------------------------------
(* The sale: staff collects cash, external_payments enters remote payments. *)
PaidWith(c, rec) == c + Total * Cardinality(rec)
Paid == PaidWith(cash, recorded)
SaleStatus(amount) ==
  CASE amount = 0 -> "PENDING" [] amount = Total -> "PAID" [] OTHER -> "PARTIAL"

(***************************************************************************)
(* reconcile_delivered_order, for a delivered order and a checkout that is *)
(* approved by payment p: create the sale when there is none, enter the    *)
(* payment when nothing was paid, and tie the sale to the checkout.        *)
(* "conflict" stands for MercadoPagoConflictError (other payments were     *)
(* taken, or the company has no active ONLINE method, which is a free      *)
(* choice here), "error" for the SaleTransitionError of record_payment.    *)
(***************************************************************************)
ReconcileOutcomes ==
  IF sale = "CANCELLED" THEN {"error", "conflict"}
  ELSE IF Paid = 0 THEN {"done", "conflict"}
  ELSE IF Paid = Total THEN {"done"} ELSE {"conflict"}

(* Mutant of Reconciled: the payment is entered in a sale already paid.    *)
ReconciledTwice(p) ==
  /\ recorded' = recorded \cup {p}
  /\ sale' = "PAID"
  /\ linked' = TRUE

Reconciled(p) ==
  /\ recorded' = IF Paid = 0 THEN recorded \cup {p} ELSE recorded
  /\ sale' = "PAID"
  /\ linked' = TRUE

(***************************************************************************)
(* Orders.  Preparing, delivering and cancelling lock the order's row;     *)
(* the whole of deliver_order, reconcile included, is one transaction.     *)
(***************************************************************************)
PrepareOrder ==
  /\ order = "CONFIRMED"
  /\ order' = "PREPARED"
  /\ UNCHANGED <<sale, cash, checkoutPart, hookPart, providerPart, callPart>>

DeliverOrder ==
  /\ order = "PREPARED"
  /\ checkout \in {"NONE", "APPROVED"}
  /\ order' = "DELIVERED"
  /\ IF checkout = "APPROVED" /\ remote[last] = "approved" /\ last \notin Mismatched
     THEN "done" \in ReconcileOutcomes /\ Reconciled(last)
     ELSE UNCHANGED <<sale, recorded, linked>>
  /\ UNCHANGED <<cash, checkout, pref, last, remote, notices, hookPart, providerPart, callPart>>

(* The same while a resolver holds an old copy of the checkout: it was      *)
(* APPROVED when deliver_order looked, and is READY again when              *)
(* reconcile_delivered_order looks, so no sale is made.                     *)
DeliverWhileResolved(x) ==
  /\ order = "PREPARED"
  /\ checkout = "APPROVED"
  /\ resolver[x] = "searching"
  /\ order' = "DELIVERED"
  /\ checkout' = "READY"
  /\ pref' = TRUE
  /\ resolver' = [resolver EXCEPT ![x] = "idle"]
  /\ UNCHANGED <<sale, cash, last, linked, remote, notices, recorded, hookPart, providerPart,
                 request, worker>>

CancelOrder ==
  /\ order \in {"CONFIRMED", "PREPARED"}
  /\ checkout # "APPROVED"
  /\ order' = "CANCELLED"
  /\ UNCHANGED <<sale, cash, checkoutPart, hookPart, providerPart, callPart>>

(* create_sale, record_payment and cancel_sale as staff calls them.         *)
StaffSells ==
  /\ order = "DELIVERED" /\ sale = "NONE"
  /\ sale' = "PENDING"
  /\ UNCHANGED <<order, cash, checkoutPart, hookPart, providerPart, callPart>>

StaffCollects(q) ==
  /\ sale \in {"PENDING", "PARTIAL"}
  /\ Paid + q <= Total
  /\ cash' = cash + q
  /\ sale' = SaleStatus(Paid + q)
  /\ UNCHANGED <<order, checkoutPart, hookPart, providerPart, callPart>>

StaffCancelsSale ==
  /\ sale = "PENDING" /\ Paid = 0
  /\ sale' = "CANCELLED"
  /\ UNCHANGED <<order, cash, checkoutPart, hookPart, providerPart, callPart>>

------------------------------------------------------------------------------
(* create_preference_view loads the order; create_or_get_checkout then      *)
(* trusts that copy of its status.                                          *)
RequestChecks(r) ==
  /\ request[r] = "idle"
  /\ order \in {"CONFIRMED", "PREPARED"}
  /\ Paid = 0
  /\ request' = [request EXCEPT ![r] = "checked"]
  /\ UNCHANGED <<orderPart, checkoutPart, hookPart, providerPart, resolver, worker>>

(* Its first transaction: a new checkout, or a new try after a rejection;   *)
(* in any other case the call returns the checkout it found, or fails.      *)
RequestOpens(r) ==
  /\ request[r] = "checked"
  /\ IF checkout = "NONE" \/ (checkout = "REJECTED" /\ ~pref)
     THEN /\ checkout' = "CREATING"
          /\ request' = [request EXCEPT ![r] = "calling"]
     ELSE /\ request' = [request EXCEPT ![r] = "idle"]
          /\ UNCHANGED checkout
  /\ UNCHANGED <<orderPart, pref, last, linked, remote, notices, recorded,
                 hookPart, providerPart, resolver, worker>>

(* The provider's answer.  Each outcome saves the status it names over      *)
(* whatever the row holds by then.                                          *)
RequestEnds(r, new, known, created) ==
  /\ request[r] = "calling"
  /\ checkout' = new
  /\ pref' = (pref \/ known)
  /\ made' = (made \/ created)
  /\ request' = [request EXCEPT ![r] = "idle"]
  /\ UNCHANGED <<orderPart, last, linked, remote, notices, recorded, hookPart, pay,
                 resolver, worker>>

PreferenceReady(r) == RequestEnds(r, "READY", TRUE, TRUE)
(* A timeout, a 5xx or an answer without the links.                         *)
PreferenceUncertain(r) == \E created \in BOOLEAN : RequestEnds(r, "UNCERTAIN", FALSE, created)
(* A 4xx, or any answer that is not JSON: MercadoPagoProviderError.         *)
PreferenceRefused(r) == \E created \in BOOLEAN : RequestEnds(r, "REJECTED", FALSE, created)

RequestCrashes(r) ==
  /\ request[r] # "idle"
  /\ request' = [request EXCEPT ![r] = "idle"]
  /\ made' \in {made, made \/ request[r] = "calling"}
  /\ UNCHANGED <<orderPart, checkoutPart, hookPart, pay, resolver, worker>>

(* resolve_uncertain_preference: reads the checkout without a lock, asks    *)
(* the provider, and saves READY.                                           *)
ResolveStarts(x) ==
  /\ resolver[x] = "idle"
  /\ checkout = "UNCERTAIN"
  /\ resolver' = [resolver EXCEPT ![x] = "searching"]
  /\ UNCHANGED <<orderPart, checkoutPart, hookPart, providerPart, request, worker>>

ResolveEnds(x) ==
  /\ resolver[x] = "searching"
  /\ made
  /\ checkout' = "READY"
  /\ pref' = TRUE
  /\ resolver' = [resolver EXCEPT ![x] = "idle"]
  /\ UNCHANGED <<orderPart, last, linked, remote, notices, recorded, hookPart, providerPart,
                 request, worker>>

(* Nothing found, a network error or a crash: nothing is written.           *)
ResolveFails(x) ==
  /\ resolver[x] = "searching"
  /\ resolver' = [resolver EXCEPT ![x] = "idle"]
  /\ UNCHANGED <<orderPart, checkoutPart, hookPart, providerPart, request, worker>>

------------------------------------------------------------------------------
(* The provider: a customer who has the link pays, once or several times.  *)
PaymentMoves(p, s) ==
  /\ \/ pay[p] = "none" /\ pref /\ s \in {"pending", "approved", "rejected"}
     \/ pay[p] = "pending" /\ s \in {"approved", "rejected", "cancelled"}
     \/ pay[p] = "approved" /\ s = "refunded"
  /\ pay' = [pay EXCEPT ![p] = s]
  /\ UNCHANGED <<orderPart, checkoutPart, hookPart, made, callPart>>

(* _map_status: what a provider status means for the checkout.             *)
Mapped(s) ==
  CASE s = "approved" -> "APPROVED" [] s = "rejected" -> "REJECTED"
    [] s = "cancelled" -> "CANCELLED" [] s = "refunded" -> "REFUNDED"
    [] OTHER -> "PENDING"

AlreadyApplied(p, s) ==
  /\ remote[p] = s
  /\ last = p
  /\ checkout = Mapped(s)
  /\ ~(checkout = "APPROVED" /\ order = "DELIVERED" /\ ~linked)

(* reconcile_delivered_order has work to do for payload <<p, s>>.           *)
MustReconcile(p, s) == p \notin Mismatched /\ s = "approved" /\ order = "DELIVERED"

(* Mutant of ApplyPayload: the amount is not compared.                     *)
ApplyPayloadUnchecked(p, s) ==
  /\ remote' = [remote EXCEPT ![p] = s]
  /\ last' = p
  /\ checkout' = Mapped(s)
  /\ notices' = IF AlreadyApplied(p, s) \/ ~HasAddress THEN notices
                ELSE notices \cup {<<p, Mapped(s)>>}
  /\ IF MustReconcile(p, s)
     THEN "done" \in ReconcileOutcomes /\ Reconciled(p)
     ELSE UNCHANGED <<sale, recorded, linked>>
  /\ UNCHANGED <<order, cash, pref>>

(***************************************************************************)
(* apply_payment_payload: the payload that arrives last wins, whatever     *)
(* payment it is about and however old it is.                              *)
(***************************************************************************)
ApplyPayload(p, s) ==
  /\ remote' = [remote EXCEPT ![p] = s]
  /\ last' = p
  /\ checkout' = IF p \in Mismatched THEN "UNCERTAIN" ELSE Mapped(s)
  /\ notices' = IF p \in Mismatched \/ AlreadyApplied(p, s) \/ ~HasAddress THEN notices
                ELSE notices \cup {<<p, Mapped(s)>>}
  /\ IF MustReconcile(p, s)
     THEN "done" \in ReconcileOutcomes /\ Reconciled(p)
     ELSE UNCHANGED <<sale, recorded, linked>>
  /\ UNCHANGED <<order, cash, pref>>

(* Mutant of HookReceives: a provider error is taken for an answer.        *)
HookReceivesOnce(d, n) ==
  /\ worker[d].pc = "idle"
  /\ pay[PayOf[n]] # "none"
  /\ receipt[n] \in {"NONE", ""}
  /\ receipt' = [receipt EXCEPT ![n] = ""]
  /\ worker' = [worker EXCEPT ![d] = [Idle EXCEPT !.pc = "fetch", !.note = n, !.pay = PayOf[n]]]
  /\ UNCHANGED <<orderPart, checkoutPart, received, providerPart, request, resolver>>

(* webhook_view: the receipt is created, and an answered one is not         *)
(* processed again.                                                         *)
HookReceives(d, n) ==
  /\ worker[d].pc = "idle"
  /\ pay[PayOf[n]] # "none"
  /\ receipt[n] \notin Terminal
  /\ receipt' = [receipt EXCEPT ![n] = IF @ = "NONE" THEN "" ELSE @]
  /\ worker' = [worker EXCEPT ![d] = [Idle EXCEPT !.pc = "fetch", !.note = n, !.pay = PayOf[n]]]
  /\ UNCHANGED <<orderPart, checkoutPart, received, providerPart, request, resolver>>

HookFetches(d) ==
  /\ worker[d].pc = "fetch"
  /\ worker' = [worker EXCEPT ![d].pc = "apply", ![d].seen = pay[worker[d].pay]]
  /\ UNCHANGED <<orderPart, checkoutPart, hookPart, providerPart, request, resolver>>

HookFetchFails(d) ==
  /\ worker[d].pc = "fetch"
  /\ worker' = [worker EXCEPT ![d].pc = "error"]
  /\ UNCHANGED <<orderPart, checkoutPart, hookPart, providerPart, request, resolver>>

(* Mutant of HookApplies: the receipt is not looked at again.              *)
HookAppliesBlindly(d) ==
  LET n == worker[d].note
  IN  /\ worker[d].pc = "apply"
      /\ ApplyPayload(worker[d].pay, worker[d].seen)
      /\ received' = [received EXCEPT ![n] = @ + 1]
      /\ receipt' = [receipt EXCEPT ![n] = "PROCESSED"]
      /\ worker' = [worker EXCEPT ![d] = Idle]
      /\ UNCHANGED <<providerPart, request, resolver>>

(* The transaction of the webhook, which looks at the receipt again.        *)
HookApplies(d) ==
  LET n == worker[d].note
  IN  /\ worker[d].pc = "apply"
      /\ receipt[n] \notin Terminal
      /\ ApplyPayload(worker[d].pay, worker[d].seen)
      /\ received' = [received EXCEPT ![n] = @ + 1]
      /\ receipt' = [receipt EXCEPT ![n] = "PROCESSED"]
      /\ worker' = [worker EXCEPT ![d] = Idle]
      /\ UNCHANGED <<providerPart, request, resolver>>

HookFindsAnswer(d) ==
  /\ worker[d].pc = "apply"
  /\ receipt[worker[d].note] \in Terminal
  /\ worker' = [worker EXCEPT ![d] = Idle]
  /\ UNCHANGED <<orderPart, checkoutPart, hookPart, providerPart, request, resolver>>

(* The transaction fails: a conflict is noted in the receipt afterwards,    *)
(* any other exception is a 500 and leaves the receipt as it was.           *)
HookRollsBack(d) ==
  /\ worker[d].pc = "apply"
  /\ receipt[worker[d].note] \notin Terminal
  /\ MustReconcile(worker[d].pay, worker[d].seen)
  /\ \/ "conflict" \in ReconcileOutcomes /\ worker' = [worker EXCEPT ![d].pc = "conflict"]
     \/ "error" \in ReconcileOutcomes /\ worker' = [worker EXCEPT ![d] = Idle]
  /\ UNCHANGED <<orderPart, checkoutPart, hookPart, providerPart, request, resolver>>

(* Mutant of HookAnswersError: the error overwrites another's answer.      *)
HookOverwritesAnswer(d) ==
  /\ worker[d].pc \in {"conflict", "error"}
  /\ receipt' = [receipt EXCEPT ![worker[d].note] =
                   IF worker[d].pc = "conflict" THEN "REJECTED" ELSE "PROVIDER_ERROR"]
  /\ worker' = [worker EXCEPT ![d] = Idle]
  /\ UNCHANGED <<orderPart, checkoutPart, received, providerPart, request, resolver>>

(* The handlers of MercadoPagoConflictError and MercadoPagoProviderError.   *)
HookAnswersError(d) ==
  LET n == worker[d].note
      result == IF worker[d].pc = "conflict" THEN "REJECTED" ELSE "PROVIDER_ERROR"
  IN  /\ worker[d].pc \in {"conflict", "error"}
      /\ receipt' = [receipt EXCEPT ![n] = IF @ \in Terminal THEN @ ELSE result]
      /\ worker' = [worker EXCEPT ![d] = Idle]
      /\ UNCHANGED <<orderPart, checkoutPart, received, providerPart, request, resolver>>

(* refresh_checkout_payment: asks for a payment, then applies the answer.   *)
RefreshFetches(d, p) ==
  /\ worker[d].pc = "idle"
  /\ checkout # "NONE" /\ pay[p] # "none"
  /\ worker' = [worker EXCEPT ![d] = [Idle EXCEPT !.pc = "refresh", !.pay = p, !.seen = pay[p]]]
  /\ UNCHANGED <<orderPart, checkoutPart, hookPart, providerPart, request, resolver>>

RefreshApplies(d) ==
  /\ worker[d].pc = "refresh"
  /\ ApplyPayload(worker[d].pay, worker[d].seen)
  /\ worker' = [worker EXCEPT ![d] = Idle]
  /\ UNCHANGED <<hookPart, providerPart, request, resolver>>

(* A crash, or an exception that rolls a refresh back.                      *)
WorkerCrashes(d) ==
  /\ worker[d].pc # "idle"
  /\ worker' = [worker EXCEPT ![d] = Idle]
  /\ UNCHANGED <<orderPart, checkoutPart, hookPart, providerPart, request, resolver>>

------------------------------------------------------------------------------
OrderNext ==
  \/ PrepareOrder \/ DeliverOrder \/ CancelOrder
  \/ StaffSells \/ (\E q \in 1..Total : StaffCollects(q)) \/ StaffCancelsSale
RequestNext(r) ==
  \/ RequestChecks(r) \/ RequestOpens(r) \/ RequestCrashes(r)
  \/ PreferenceReady(r) \/ PreferenceUncertain(r) \/ PreferenceRefused(r)
ResolverNext(x) ==
  ResolveStarts(x) \/ ResolveEnds(x) \/ ResolveFails(x) \/ DeliverWhileResolved(x)
WorkerNext(d) ==
  \/ \E n \in Notifications : HookReceives(d, n)
  \/ HookFetches(d) \/ HookFetchFails(d) \/ HookApplies(d) \/ HookFindsAnswer(d)
  \/ HookRollsBack(d) \/ HookAnswersError(d)
  \/ (\E p \in Payments : RefreshFetches(d, p)) \/ RefreshApplies(d) \/ WorkerCrashes(d)

Next ==
  \/ OrderNext
  \/ \E r \in Requests : RequestNext(r)
  \/ \E x \in Resolvers : ResolverNext(x)
  \/ \E p \in Payments, s \in Raw : PaymentMoves(p, s)
  \/ \E d \in Workers : WorkerNext(d)

Spec == Init /\ [][Next]_vars

(***************************************************************************)
(* What the provider and the hosts owe: a call that started ends, one way  *)
(* or another; a notification is delivered again until it is answered for  *)
(* good (the provider's retries); and a delivery that is tried for ever    *)
(* does not crash or miss the provider every single time.                  *)
(***************************************************************************)
About(d, n) == worker[d].note = n
Delivery(n) ==
  /\ SF_vars(\E d \in Workers : HookReceives(d, n))
  /\ SF_vars(\E d \in Workers : About(d, n) /\ HookFetches(d))
  /\ SF_vars(\E d \in Workers : About(d, n) /\ (HookApplies(d) \/ HookRollsBack(d)))
  /\ SF_vars(\E d \in Workers : About(d, n) /\ worker[d].pc = "conflict" /\ HookAnswersError(d))
Fairness ==
  /\ \A d \in Workers : WF_vars(WorkerNext(d))
  /\ \A n \in Notifications : Delivery(n)
FairSpec == Spec /\ Fairness

------------------------------------------------------------------------------
(***************************************************************************)
(* The sale's books agree whoever collects: staff and remote payments      *)
(* never add up to more than the total, the sale's status is what the sum  *)
(* says, a remote payment enters at most once however often it is notified *)
(* or refreshed, and a sale tied to the checkout is paid.                  *)
(***************************************************************************)
BooksAgree ==
  /\ Paid <= Total
  /\ sale \in {"PENDING", "PARTIAL", "PAID"} => sale = SaleStatus(Paid)
  /\ sale \in {"NONE", "CANCELLED"} => Paid = 0
  /\ linked => sale = "PAID"

(***************************************************************************)
(* An approved checkout is never just a label: the payment applied last is *)
(* approved, for the right amount, and was announced to the customer, if   *)
(* he has an address; and if the order is delivered, its sale is paid and  *)
(* tied to the checkout.                                                   *)
(* Neither the order of delivery and approval nor a failure in between can *)
(* leave a delivered, paid order without its sale.                         *)
(***************************************************************************)
ApprovalIsBacked ==
  checkout = "APPROVED" =>
    /\ last # None /\ remote[last] = "approved" /\ last \notin Mismatched
    /\ HasAddress => <<last, "APPROVED">> \in notices
    /\ order = "DELIVERED" => linked /\ sale = "PAID"

(***************************************************************************)
(* Concurrent and repeated deliveries of one notification have the effect  *)
(* of one: it is applied exactly once if its receipt says PROCESSED, and   *)
(* not at all before, or when it was rejected.  And the types hold.        *)
(***************************************************************************)
AppliedOnce ==
  /\ TypeOK
  /\ \A n \in Notifications : received[n] = IF receipt[n] = "PROCESSED" THEN 1 ELSE 0

(* The answer given to a notification is never taken back.                  *)
AnswersAreFinal ==
  [][\A n \in Notifications : receipt[n] \in Terminal => receipt'[n] = receipt[n]]_vars

(***************************************************************************)
(* "los errores de consulta y los intentos interrumpidos deben poder       *)
(* procesarse de nuevo" (views.py): every notification that arrived is     *)
(* answered for good in the end, crashes and provider errors included,     *)
(* unless staff cancelled the sale it would pay.                           *)
(***************************************************************************)
EveryNotificationSettles ==
  \A n \in Notifications :
    receipt[n] \in {"", "PROVIDER_ERROR"} ~> (receipt[n] \in Terminal \/ sale = "CANCELLED")
==============================================================================
