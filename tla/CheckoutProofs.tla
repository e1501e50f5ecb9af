---------------------------- MODULE CheckoutProofs ----------------------------
(***************************************************************************)
(* Proofs about module Checkout, for any number of calls, notifications    *)
(* and payments and any total.                                             *)
(***************************************************************************)
EXTENDS Checkout, FiniteSetTheorems, TLAPS

(* What a call of a worker is about.                                       *)
JobFits(w) ==
  /\ w.pc \in {"fetch", "apply", "conflict", "error"} => w.note \in Notifications
  /\ w.pc \in {"fetch", "apply", "refresh"} => w.pay \in Payments
JobsFit == \A d \in Workers : JobFits(worker[d])

(* At most one payment is entered, and then nothing is collected.          *)
OneEntry == recorded = {} \/ ((\E p \in Payments : recorded = {p}) /\ cash = 0)

(* A notification was applied once if its receipt says so.                 *)
Answered == \A n \in Notifications : received[n] = IF receipt[n] = "PROCESSED" THEN 1 ELSE 0

(***************************************************************************)
(* The two properties of the sale are inductive together with OneEntry:    *)
(* reconcile enters a payment only when nothing was paid, and an approved, *)
(* delivered order cannot lose its paid sale.                              *)
(***************************************************************************)
CheckoutInv == TypeOK /\ JobsFit /\ OneEntry /\ BooksAgree /\ ApprovalIsBacked /\ Answered

LEMMA PaidValue ==
  ASSUME NEW c \in Nat
  PROVE  PaidWith(c, {}) = c /\ \A p : PaidWith(c, {p}) = c + Total
<1>1. Cardinality({}) = 0 /\ \A p : Cardinality({p}) = 1
  BY FS_EmptySet, FS_Singleton
<1>2. PaidWith(c, {}) = c
  BY <1>1, TotalAssumption DEF PaidWith
<1>3. ASSUME NEW p PROVE PaidWith(c, {p}) = c + Total
  <2>1. Cardinality({p}) = 1
    BY <1>1
  <2> QED
    BY <2>1, TotalAssumption DEF PaidWith
<1> QED
  BY <1>2, <1>3

LEMMA StatusOfSum ==
  /\ SaleStatus(0) = "PENDING" /\ SaleStatus(Total) = "PAID"
  /\ \A c \in Nat : SaleStatus(c) \in {"PENDING", "PARTIAL", "PAID"}
  BY TotalAssumption DEF SaleStatus

LEMMA PaidTyped ==
  ASSUME TypeOK, OneEntry
  PROVE  /\ Paid \in Nat
         /\ Paid = 0 => recorded = {} /\ cash = 0
         /\ recorded # {} => Paid = Total
         /\ recorded = {} => Paid = cash
<1>1. cash \in Nat
  <2>1. cash \in 0..Total
    BY DEF TypeOK
  <2> QED
    BY <2>1, TotalAssumption
<1>2. CASE recorded = {}
  BY <1>1, <1>2, PaidValue DEF Paid
<1>3. CASE recorded # {}
  <2>1. PICK p \in Payments : recorded = {p} /\ cash = 0
    BY <1>3 DEF OneEntry
  <2>2. Paid = Total
    BY <1>1, <2>1, PaidValue, TotalAssumption DEF Paid
  <2> QED
    BY <1>3, <2>2, TotalAssumption
<1> QED
  BY <1>2, <1>3

LEMMA MappedTyped == \A s : Mapped(s) \in CheckoutStatuses /\ (Mapped(s) = "APPROVED" <=> s = "approved")
  BY DEF Mapped, CheckoutStatuses

LEMMA CheckoutInvInit == Init => CheckoutInv
<1> SUFFICES ASSUME Init PROVE CheckoutInv
  OBVIOUS
<1>1. TypeOK
  <2>1. Idle \in Jobs
    BY DEF Idle, Jobs
  <2>2. 0 \in 0..Total
    BY TotalAssumption
  <2> QED
    BY <2>1, <2>2 DEF Init, TypeOK
<1>2. JobsFit
  BY DEF Init, JobsFit, JobFits, Idle
<1>3. OneEntry /\ BooksAgree
  BY PaidValue, TotalAssumption DEF Init, OneEntry, BooksAgree, Paid
<1>4. ApprovalIsBacked /\ Answered
  BY DEF Init, ApprovalIsBacked, Answered
<1> QED
  BY <1>1, <1>2, <1>3, <1>4 DEF CheckoutInv

------------------------------------------------------------------------------
(* Each part of the invariant is about some of the variables.              *)
Books == OneEntry /\ BooksAgree
booksPart == <<sale, cash, recorded, linked>>

LEMMA BooksKept ==
  ASSUME Books, UNCHANGED booksPart
  PROVE  Books'
  BY DEF Books, OneEntry, BooksAgree, Paid, booksPart

LEMMA ApprovalKept ==
  ASSUME ApprovalIsBacked, UNCHANGED <<last, remote, notices, linked, sale>>,
         checkout' = "APPROVED" => checkout = "APPROVED" /\ (order' = "DELIVERED" => order = "DELIVERED")
  PROVE  ApprovalIsBacked'
  BY DEF ApprovalIsBacked

LEMMA AnsweredKept ==
  ASSUME Answered, UNCHANGED hookPart
  PROVE  Answered'
  BY DEF Answered, hookPart

LEMMA ReconciledBooks ==
  ASSUME TypeOK, Books, NEW p \in Payments, "done" \in ReconcileOutcomes, Reconciled(p), UNCHANGED cash
  PROVE  /\ Books' /\ linked' = TRUE /\ sale' = "PAID"
         /\ recorded' \subseteq Payments
<1>1. Paid \in Nat /\ (Paid = 0 => recorded = {} /\ cash = 0)
  BY PaidTyped DEF Books
<1>2. Paid = 0 \/ Paid = Total
  BY DEF ReconcileOutcomes
<1>3. linked' = TRUE /\ sale' = "PAID" /\ recorded' = IF Paid = 0 THEN recorded \cup {p} ELSE recorded
  BY DEF Reconciled
<1>4. CASE Paid = 0
  <2>1. recorded' = {p} /\ cash' = 0
    BY <1>1, <1>3, <1>4
  <2>2. Paid' = Total
    BY <2>1, PaidValue, TotalAssumption DEF Paid
  <2> QED
    BY <1>3, <2>1, <2>2, StatusOfSum, TotalAssumption DEF Books, OneEntry, BooksAgree
<1>5. CASE Paid # 0
  <2>1. recorded' = recorded
    BY <1>3, <1>5
  <2>2. Paid' = Total
    BY <1>2, <1>5, <2>1 DEF Paid
  <2>3. OneEntry'
    BY <2>1 DEF Books, OneEntry
  <2>4. recorded \subseteq Payments
    BY DEF TypeOK
  <2> QED
    BY <1>3, <2>1, <2>2, <2>3, <2>4, StatusOfSum, TotalAssumption DEF Books, BooksAgree
<1> QED
  BY <1>4, <1>5

(* apply_payment_payload, in whichever call.                               *)
LEMMA Applies ==
  ASSUME TypeOK, Books, ApprovalIsBacked, NEW p \in Payments, NEW s \in Raw \cup {"none"}, ApplyPayload(p, s)
  PROVE  /\ Books' /\ ApprovalIsBacked'
         /\ UNCHANGED <<order, cash, pref>> /\ last' \in Payments
         /\ remote' \in [Payments -> Raw \cup {"none"}]
         /\ checkout' \in CheckoutStatuses
         /\ notices' \subseteq Payments \X CheckoutStatuses
         /\ sale' \in {"NONE", "PENDING", "PARTIAL", "PAID", "CANCELLED"}
         /\ recorded' \subseteq Payments /\ linked' \in BOOLEAN
<1>1. /\ remote' = [remote EXCEPT ![p] = s] /\ last' = p
      /\ checkout' = IF p \in Mismatched THEN "UNCERTAIN" ELSE Mapped(s)
      /\ notices' = IF p \in Mismatched \/ AlreadyApplied(p, s) \/ ~HasAddress THEN notices
                    ELSE notices \cup {<<p, Mapped(s)>>}
      /\ UNCHANGED <<order, cash, pref>>
  BY DEF ApplyPayload
<1>2. PICK m \in CheckoutStatuses : m = Mapped(s) /\ (m = "APPROVED" <=> s = "approved")
  BY MappedTyped
<1>4. /\ Books' /\ recorded' \subseteq Payments /\ linked' \in BOOLEAN
      /\ sale' \in {"NONE", "PENDING", "PARTIAL", "PAID", "CANCELLED"}
      /\ MustReconcile(p, s) => linked' = TRUE /\ sale' = "PAID"
  <2>1. CASE MustReconcile(p, s)
    <3>1. "done" \in ReconcileOutcomes /\ Reconciled(p)
      BY <2>1 DEF ApplyPayload
    <3> QED
      BY <1>1, <3>1, ReconciledBooks
  <2>2. CASE ~MustReconcile(p, s)
    <3>1. UNCHANGED <<sale, recorded, linked>>
      BY <2>2 DEF ApplyPayload
    <3> QED
      BY <1>1, <2>2, <3>1, BooksKept DEF booksPart, TypeOK
  <2> QED
    BY <2>1, <2>2
<1>5. /\ remote' \in [Payments -> Raw \cup {"none"}] /\ remote'[p] = s
      /\ checkout' \in CheckoutStatuses
  <2>1. remote' \in [Payments -> Raw \cup {"none"}] /\ remote'[p] = s
    BY <1>1 DEF TypeOK
  <2>2. "UNCERTAIN" \in CheckoutStatuses
    BY DEF CheckoutStatuses
  <2> QED
    BY <1>1, <1>2, <2>1, <2>2
<1>6. notices' \subseteq Payments \X CheckoutStatuses
  <2>1. <<p, m>> \in Payments \X CheckoutStatuses /\ notices \subseteq Payments \X CheckoutStatuses
    BY DEF TypeOK
  <2> QED
    BY <1>1, <1>2, <2>1
<1>7. ApprovalIsBacked'
  <2> SUFFICES ASSUME checkout' = "APPROVED"
               PROVE  /\ last' # None /\ remote'[p] = "approved" /\ p \notin Mismatched
                      /\ HasAddress => <<p, "APPROVED">> \in notices'
                      /\ order' = "DELIVERED" => linked' /\ sale' = "PAID"
    BY <1>1 DEF ApprovalIsBacked
  <2>1. p \notin Mismatched /\ m = "APPROVED" /\ s = "approved"
    BY <1>1, <1>2
  <2>2. AlreadyApplied(p, s) /\ HasAddress => <<p, "APPROVED">> \in notices
    BY <1>2, <2>1 DEF AlreadyApplied, ApprovalIsBacked
  <2>3. HasAddress => <<p, "APPROVED">> \in notices'
    BY <1>1, <1>2, <2>1, <2>2
  <2>4. order' = "DELIVERED" => MustReconcile(p, s)
    BY <1>1, <2>1 DEF MustReconcile
  <2> QED
    BY <1>1, <1>4, <1>5, <2>1, <2>3, <2>4, NoneAssumption
<1> QED
  BY <1>1, <1>4, <1>5, <1>6, <1>7

LEMMA CallsKept ==
  ASSUME CheckoutInv, UNCHANGED <<orderPart, checkoutPart, hookPart>>, TypeOK', JobsFit'
  PROVE  CheckoutInv'
<1>1. UNCHANGED <<booksPart, order, checkout, last, remote, notices>>
  BY DEF orderPart, checkoutPart, booksPart
<1>2. Books'
  BY <1>1, BooksKept DEF CheckoutInv, Books
<1>3. ApprovalIsBacked'
  BY <1>1, ApprovalKept DEF CheckoutInv, booksPart
<1> QED
  BY <1>2, <1>3, AnsweredKept DEF CheckoutInv, Books

------------------------------------------------------------------------------
(* Orders and staff.                                                       *)
LEMMA CheckoutInvOrder ==
  ASSUME CheckoutInv, PrepareOrder \/ CancelOrder
  PROVE  CheckoutInv'
<1>1. /\ UNCHANGED <<sale, cash, checkoutPart, hookPart, providerPart, callPart>>
      /\ order' \in {"PREPARED", "CANCELLED"}
  BY DEF PrepareOrder, CancelOrder
<1>2. UNCHANGED <<booksPart, checkout, pref, last, remote, notices>>
  BY <1>1 DEF checkoutPart, booksPart
<1>3. TypeOK' /\ JobsFit'
  BY <1>1 DEF CheckoutInv, TypeOK, JobsFit, checkoutPart, hookPart, providerPart, callPart
<1>4. ApprovalIsBacked'
  BY <1>1, <1>2, ApprovalKept DEF CheckoutInv, booksPart
<1> QED
  BY <1>1, <1>2, <1>3, <1>4, BooksKept, AnsweredKept DEF CheckoutInv, Books

LEMMA CheckoutInvDeliverOrder ==
  ASSUME CheckoutInv, DeliverOrder
  PROVE  CheckoutInv'
<1>1. /\ checkout \in {"NONE", "APPROVED"} /\ order' = "DELIVERED"
      /\ UNCHANGED <<cash, checkout, pref, last, remote, notices, hookPart, providerPart, callPart>>
  BY DEF DeliverOrder
<1>2. CASE checkout = "NONE"
  <2>1. UNCHANGED <<sale, recorded, linked>>
    BY <1>2 DEF DeliverOrder
  <2>2. TypeOK' /\ JobsFit'
    BY <1>1, <2>1 DEF CheckoutInv, TypeOK, JobsFit, hookPart, providerPart, callPart
  <2>3. Books'
    BY <1>1, <2>1, BooksKept DEF CheckoutInv, Books, booksPart
  <2>4. ApprovalIsBacked'
    BY <1>1, <1>2 DEF ApprovalIsBacked
  <2> QED
    BY <1>1, <2>2, <2>3, <2>4, AnsweredKept DEF CheckoutInv, Books
<1>3. CASE checkout = "APPROVED"
  <2>1. /\ last # None /\ remote[last] = "approved" /\ last \notin Mismatched
        /\ HasAddress => <<last, "APPROVED">> \in notices
    BY <1>3 DEF CheckoutInv, ApprovalIsBacked
  <2>2. last \in Payments
    BY <2>1 DEF CheckoutInv, TypeOK
  <2>3. "done" \in ReconcileOutcomes /\ Reconciled(last)
    BY <1>3, <2>1 DEF DeliverOrder
  <2>4. Books' /\ linked' = TRUE /\ sale' = "PAID" /\ recorded' \subseteq Payments
    BY <1>1, <2>2, <2>3, ReconciledBooks DEF CheckoutInv, Books
  <2>5. TypeOK' /\ JobsFit'
    BY <1>1, <2>4 DEF CheckoutInv, TypeOK, JobsFit, hookPart, providerPart, callPart
  <2>6. ApprovalIsBacked'
    BY <1>1, <2>1, <2>4 DEF ApprovalIsBacked
  <2> QED
    BY <1>1, <2>4, <2>5, <2>6, AnsweredKept DEF CheckoutInv, Books
<1> QED
  BY <1>1, <1>2, <1>3

LEMMA CheckoutInvStaff ==
  ASSUME CheckoutInv, StaffSells \/ (\E q \in 1..Total : StaffCollects(q)) \/ StaffCancelsSale
  PROVE  CheckoutInv'
<1>1. /\ UNCHANGED <<order, checkoutPart, hookPart, providerPart, callPart>>
      /\ sale \in {"NONE", "PENDING", "PARTIAL"} /\ (sale = "NONE" => order = "DELIVERED")
  BY DEF StaffSells, StaffCollects, StaffCancelsSale
<1>2. UNCHANGED <<checkout, pref, last, remote, notices, linked, recorded>>
  BY <1>1 DEF checkoutPart
<1>3. /\ Paid \in Nat /\ (recorded # {} => Paid = Total) /\ (recorded = {} => Paid = cash)
      /\ Paid <= Total /\ (sale \in {"PENDING", "PARTIAL"} => sale = SaleStatus(Paid))
      /\ (sale = "NONE" => Paid = 0) /\ ~linked
  BY <1>1, PaidTyped DEF CheckoutInv, BooksAgree
<1>4. recorded = {} /\ Paid = cash
  BY <1>1, <1>3, StatusOfSum, TotalAssumption
<1>5. /\ cash' \in 0..Total /\ sale' \in {"PENDING", "PARTIAL", "PAID", "CANCELLED"}
      /\ (sale' \in {"PENDING", "PARTIAL", "PAID"} => sale' = SaleStatus(cash'))
      /\ (sale' = "CANCELLED" => cash' = 0)
  <2>1. CASE StaffSells
    BY <1>1, <1>3, <1>4, <2>1, StatusOfSum, TotalAssumption DEF StaffSells
  <2>2. CASE \E q \in 1..Total : StaffCollects(q)
    <3>1. PICK q \in 1..Total : StaffCollects(q)
      BY <2>2
    <3>2. cash' = cash + q /\ cash' <= Total /\ sale' = SaleStatus(cash') /\ cash' \in Nat
      BY <1>3, <1>4, <3>1, TotalAssumption DEF StaffCollects
    <3> QED
      BY <3>2, StatusOfSum, TotalAssumption
  <2>3. CASE StaffCancelsSale
    <3>1. sale' = "CANCELLED" /\ cash' = cash /\ Paid = 0
      BY <2>3 DEF StaffCancelsSale
    <3> QED
      BY <1>4, <3>1, TotalAssumption
  <2> QED
    BY <2>1, <2>2, <2>3
<1>6. Books'
  <2>1. cash' \in Nat /\ cash' <= Total /\ recorded' = {} /\ ~linked'
    BY <1>2, <1>3, <1>4, <1>5, TotalAssumption
  <2>2. Paid' = cash'
    BY <2>1, PaidValue DEF Paid
  <2> QED
    BY <1>5, <2>1, <2>2 DEF Books, OneEntry, BooksAgree
<1>7. TypeOK' /\ JobsFit'
  BY <1>1, <1>2, <1>5, ZenonT(60) DEF CheckoutInv, TypeOK, JobsFit, hookPart, providerPart, callPart
<1>8. ApprovalIsBacked'
  BY <1>1, <1>2 DEF CheckoutInv, ApprovalIsBacked
<1> QED
  BY <1>1, <1>6, <1>7, <1>8, AnsweredKept DEF CheckoutInv, Books

(* The provider and the requests that open or resolve a preference.        *)
LEMMA CheckoutInvStatus ==
  ASSUME CheckoutInv, UNCHANGED <<sale, cash, last, linked, remote, notices, recorded, hookPart, pay, worker>>,
         order' \in {"CONFIRMED", "PREPARED", "DELIVERED", "CANCELLED"},
         checkout' \in CheckoutStatuses \cup {"NONE"}, checkout' = "APPROVED" => UNCHANGED <<checkout, order>>,
         pref' \in BOOLEAN, made' \in BOOLEAN,
         request' \in [Requests -> {"idle", "checked", "calling"}],
         resolver' \in [Resolvers -> {"idle", "searching"}]
  PROVE  CheckoutInv'
<1>1. TypeOK' /\ JobsFit'
  BY DEF CheckoutInv, TypeOK, JobsFit, hookPart
<1>2. Books'
  BY BooksKept DEF CheckoutInv, Books, booksPart
<1>3. ApprovalIsBacked'
  BY ApprovalKept DEF CheckoutInv
<1> QED
  BY <1>1, <1>2, <1>3, AnsweredKept DEF CheckoutInv, Books

LEMMA CheckoutInvRequest ==
  ASSUME CheckoutInv, NEW r \in Requests, RequestNext(r)
  PROVE  CheckoutInv'
<1> USE DEF CheckoutInv, TypeOK, orderPart, checkoutPart, hookPart, providerPart
<1>1. CASE RequestChecks(r)
  BY <1>1, CheckoutInvStatus DEF RequestChecks
<1>2. CASE RequestOpens(r)
  BY <1>2, CheckoutInvStatus, ZenonT(60) DEF RequestOpens, CheckoutStatuses
<1>3. CASE RequestCrashes(r)
  BY <1>3, CheckoutInvStatus DEF RequestCrashes
<1>4. CASE PreferenceReady(r) \/ PreferenceUncertain(r) \/ PreferenceRefused(r)
  <2>1. PICK new \in {"READY", "UNCERTAIN", "REJECTED"}, known \in BOOLEAN, created \in BOOLEAN :
          RequestEnds(r, new, known, created)
    BY <1>4 DEF PreferenceReady, PreferenceUncertain, PreferenceRefused
  <2> QED
    BY <2>1, CheckoutInvStatus DEF RequestEnds, CheckoutStatuses
<1> QED
  BY <1>1, <1>2, <1>3, <1>4 DEF RequestNext

LEMMA CheckoutInvResolver ==
  ASSUME CheckoutInv, NEW x \in Resolvers, ResolverNext(x)
  PROVE  CheckoutInv'
<1> USE DEF CheckoutInv, TypeOK, orderPart, checkoutPart, hookPart, providerPart
<1>1. CASE ResolveStarts(x)
  BY <1>1, CheckoutInvStatus DEF ResolveStarts
<1>2. CASE ResolveEnds(x)
  BY <1>2, CheckoutInvStatus DEF ResolveEnds, CheckoutStatuses
<1>3. CASE ResolveFails(x)
  BY <1>3, CheckoutInvStatus DEF ResolveFails
<1>4. CASE DeliverWhileResolved(x)
  BY <1>4, CheckoutInvStatus DEF DeliverWhileResolved, CheckoutStatuses
<1> QED
  BY <1>1, <1>2, <1>3, <1>4 DEF ResolverNext

LEMMA CheckoutInvPayment ==
  ASSUME CheckoutInv, NEW p \in Payments, NEW s \in Raw, PaymentMoves(p, s)
  PROVE  CheckoutInv'
<1>1. UNCHANGED <<orderPart, checkoutPart, hookPart, made, callPart>> /\ pay' = [pay EXCEPT ![p] = s]
  BY DEF PaymentMoves
<1>2. TypeOK' /\ JobsFit'
  BY <1>1, ZenonT(60) DEF CheckoutInv, TypeOK, JobsFit, orderPart, checkoutPart, hookPart, callPart
<1> QED
  BY <1>1, <1>2, CallsKept

------------------------------------------------------------------------------
(* Webhook deliveries and refreshes.                                       *)
LEMMA WorkerMoves ==
  ASSUME CheckoutInv, NEW d \in Workers, NEW w \in Jobs, JobFits(w), worker' = [worker EXCEPT ![d] = w]
  PROVE  worker' \in [Workers -> Jobs] /\ JobsFit'
  BY DEF CheckoutInv, TypeOK, JobsFit

LEMMA IdleFits == Idle \in Jobs /\ JobFits(Idle)
  BY DEF Idle, Jobs, JobFits

(* Steps that write nothing but what the call itself knows.                *)
LEMMA CheckoutInvCall ==
  ASSUME CheckoutInv, NEW d \in Workers, NEW w \in Jobs, JobFits(w), worker' = [worker EXCEPT ![d] = w],
         UNCHANGED <<orderPart, checkoutPart, hookPart, providerPart, request, resolver>>
  PROVE  CheckoutInv'
<1>1. worker' \in [Workers -> Jobs] /\ JobsFit'
  BY WorkerMoves
<1>2. TypeOK'
  BY <1>1, ZenonT(60) DEF CheckoutInv, TypeOK, orderPart, checkoutPart, hookPart, providerPart
<1> QED
  BY <1>1, <1>2, CallsKept

(* Steps that write a receipt.                                             *)
LEMMA CheckoutInvReceipt ==
  ASSUME CheckoutInv, NEW d \in Workers, NEW w \in Jobs, JobFits(w), worker' = [worker EXCEPT ![d] = w],
         NEW n \in Notifications, receipt[n] \notin Terminal,
         NEW result \in {"", "PROVIDER_ERROR", "REJECTED"}, receipt' = [receipt EXCEPT ![n] = result],
         UNCHANGED <<orderPart, checkoutPart, received, providerPart, request, resolver>>
  PROVE  CheckoutInv'
<1>1. worker' \in [Workers -> Jobs] /\ JobsFit'
  BY WorkerMoves
<1>2. receipt' \in [Notifications -> Terminal \cup {"NONE", "", "PROVIDER_ERROR"}]
  BY DEF CheckoutInv, TypeOK, Terminal
<1>3. TypeOK'
  BY <1>1, <1>2, ZenonT(60) DEF CheckoutInv, TypeOK, orderPart, checkoutPart, providerPart
<1>4. Answered'
  BY DEF CheckoutInv, TypeOK, Answered, Terminal
<1>5. UNCHANGED <<booksPart, order, checkout, last, remote, notices>>
  BY DEF orderPart, checkoutPart, booksPart
<1>6. Books'
  BY <1>5, BooksKept DEF CheckoutInv, Books
<1>7. ApprovalIsBacked'
  BY <1>5, ApprovalKept DEF CheckoutInv, booksPart
<1> QED
  BY <1>1, <1>3, <1>4, <1>6, <1>7 DEF CheckoutInv, Books

LEMMA HooksTyped ==
  ASSUME CheckoutInv
  PROVE  /\ receipt \in [Notifications -> Terminal \cup {"NONE", "", "PROVIDER_ERROR"}]
         /\ received \in [Notifications -> Nat]
  BY DEF CheckoutInv, TypeOK

(* Steps that apply a payload.                                             *)
LEMMA CheckoutInvApplies ==
  ASSUME CheckoutInv, NEW d \in Workers, worker[d].pc \in {"apply", "refresh"},
         ApplyPayload(worker[d].pay, worker[d].seen), worker' = [worker EXCEPT ![d] = Idle],
         UNCHANGED <<providerPart, request, resolver>>,
         receipt' \in [Notifications -> Terminal \cup {"NONE", "", "PROVIDER_ERROR"}],
         received' \in [Notifications -> Nat], Answered'
  PROVE  CheckoutInv'
<1>1. worker[d] \in Jobs /\ JobFits(worker[d])
  BY DEF CheckoutInv, TypeOK, JobsFit
<1>2. worker[d].pay \in Payments /\ worker[d].seen \in Raw \cup {"none"}
  BY <1>1 DEF Jobs, JobFits
<1>3. worker' \in [Workers -> Jobs] /\ JobsFit'
  BY IdleFits, WorkerMoves
<1>4. /\ Books' /\ ApprovalIsBacked'
      /\ UNCHANGED <<order, cash, pref>> /\ last' \in Payments
      /\ remote' \in [Payments -> Raw \cup {"none"}]
      /\ checkout' \in CheckoutStatuses
      /\ notices' \subseteq Payments \X CheckoutStatuses
      /\ sale' \in {"NONE", "PENDING", "PARTIAL", "PAID", "CANCELLED"}
      /\ recorded' \subseteq Payments /\ linked' \in BOOLEAN
  BY <1>2, Applies DEF CheckoutInv, Books
<1>5. TypeOK'
  BY <1>3, <1>4 DEF CheckoutInv, TypeOK, providerPart
<1> QED
  BY <1>3, <1>4, <1>5 DEF CheckoutInv, Books

LEMMA CheckoutInvWorker ==
  ASSUME CheckoutInv, NEW d \in Workers, WorkerNext(d)
  PROVE  CheckoutInv'
<1>1. worker[d] \in Jobs /\ JobFits(worker[d])
  BY DEF CheckoutInv, TypeOK, JobsFit
<1>2. PICK job \in Jobs : job = worker[d] /\ JobFits(job)
  BY <1>1
<1>3. CASE \E n \in Notifications : HookReceives(d, n)
  <2>1. PICK n \in Notifications : HookReceives(d, n)
    BY <1>3
  <2>2. PICK w : w = [Idle EXCEPT !.pc = "fetch", !.note = n, !.pay = PayOf[n]]
    OBVIOUS
  <2>3. w \in Jobs /\ JobFits(w)
    BY <2>2, PayOfAssumption DEF Idle, Jobs, JobFits
  <2>4. /\ receipt[n] \notin Terminal /\ worker' = [worker EXCEPT ![d] = w]
        /\ UNCHANGED <<orderPart, checkoutPart, received, providerPart, request, resolver>>
    BY <2>1, <2>2 DEF HookReceives
  <2>5. PICK result \in {"", "PROVIDER_ERROR"} : receipt' = [receipt EXCEPT ![n] = result]
    BY <2>1, <2>4, ZenonT(60) DEF HookReceives, CheckoutInv, TypeOK, Terminal
  <2> QED
    BY <2>3, <2>4, <2>5, CheckoutInvReceipt
<1>4. CASE HookFetches(d)
  <2>1. worker[d].pc = "fetch" /\ worker[d].pay \in Payments /\ worker[d].note \in Notifications
    BY <1>1, <1>4 DEF HookFetches, JobFits
  <2>2. PICK s \in Raw \cup {"none"} : s = pay[worker[d].pay]
    BY <2>1 DEF CheckoutInv, TypeOK
  <2>3. PICK w : w = [job EXCEPT !.pc = "apply", !.seen = s]
    OBVIOUS
  <2>4. w \in Jobs /\ JobFits(w)
    BY <1>2, <2>1, <2>3 DEF Jobs, JobFits
  <2>5. worker' = [worker EXCEPT ![d] = w]
    BY <1>2, <1>4, <2>2, <2>3 DEF HookFetches, CheckoutInv, TypeOK
  <2> QED
    BY <1>4, <2>4, <2>5, CheckoutInvCall DEF HookFetches
<1>5. CASE HookFetchFails(d)
  <2>1. PICK w : w = [job EXCEPT !.pc = "error"]
    OBVIOUS
  <2>2. w \in Jobs /\ JobFits(w)
    BY <1>2, <1>5, <2>1 DEF HookFetchFails, Jobs, JobFits
  <2>3. worker' = [worker EXCEPT ![d] = w]
    BY <1>2, <1>5, <2>1, Zenon DEF HookFetchFails
  <2> QED
    BY <1>5, <2>2, <2>3, CheckoutInvCall DEF HookFetchFails
<1>6. CASE HookApplies(d)
  <2>1. PICK n \in Notifications : n = worker[d].note
    BY <1>1, <1>6 DEF HookApplies, JobFits
  <2>2. /\ worker[d].pc = "apply" /\ receipt[n] \notin Terminal
        /\ ApplyPayload(worker[d].pay, worker[d].seen)
        /\ received' = [received EXCEPT ![n] = @ + 1]
        /\ receipt' = [receipt EXCEPT ![n] = "PROCESSED"]
        /\ worker' = [worker EXCEPT ![d] = Idle] /\ UNCHANGED <<providerPart, request, resolver>>
    BY <1>6, <2>1 DEF HookApplies
  <2>3. /\ receipt' \in [Notifications -> Terminal \cup {"NONE", "", "PROVIDER_ERROR"}]
        /\ received' \in [Notifications -> Nat]
    <3>1. "PROCESSED" \in Terminal
      BY DEF Terminal
    <3>2. received \in [Notifications -> Nat]
      BY HooksTyped
    <3>3. received' \in [Notifications -> Nat]
      BY <2>2, <3>2
    <3>4. receipt' \in [Notifications -> Terminal \cup {"NONE", "", "PROVIDER_ERROR"}]
      BY <2>2, <3>1, HooksTyped
    <3> QED
      BY <3>3, <3>4
  <2>4. \A m \in Notifications : /\ receipt'[m] = IF m = n THEN "PROCESSED" ELSE receipt[m]
                                 /\ received'[m] = IF m = n THEN received[m] + 1 ELSE received[m]
    BY <2>2 DEF CheckoutInv, TypeOK
  <2>5. received[n] = 0
    BY <2>2 DEF CheckoutInv, Answered, Terminal
  <2>6. Answered'
    BY <2>4, <2>5 DEF CheckoutInv, Answered
  <2> QED
    BY <2>2, <2>3, <2>6, CheckoutInvApplies
<1>7. CASE RefreshApplies(d)
  <2>1. UNCHANGED <<receipt, received>>
    BY <1>7 DEF RefreshApplies, hookPart
  <2> QED
    BY <1>7, <2>1, CheckoutInvApplies DEF RefreshApplies, CheckoutInv, TypeOK, Answered
<1>8. CASE HookFindsAnswer(d) \/ WorkerCrashes(d)
  BY <1>8, IdleFits, CheckoutInvCall DEF HookFindsAnswer, WorkerCrashes
<1>9. CASE HookRollsBack(d)
  <2>1. PICK w : w = [job EXCEPT !.pc = "conflict"]
    OBVIOUS
  <2>2. w \in Jobs /\ JobFits(w)
    BY <1>2, <1>9, <2>1 DEF HookRollsBack, Jobs, JobFits
  <2>3. \/ worker' = [worker EXCEPT ![d] = w]
        \/ worker' = [worker EXCEPT ![d] = Idle]
    BY <1>2, <1>9, <2>1, Zenon DEF HookRollsBack
  <2>4. UNCHANGED <<orderPart, checkoutPart, hookPart, providerPart, request, resolver>>
    BY <1>9 DEF HookRollsBack
  <2> QED
    BY <2>2, <2>3, <2>4, IdleFits, CheckoutInvCall
<1>10. CASE HookAnswersError(d)
  <2>1. PICK n \in Notifications : n = worker[d].note
    BY <1>1, <1>10 DEF HookAnswersError, JobFits
  <2>2. /\ worker' = [worker EXCEPT ![d] = Idle]
        /\ UNCHANGED <<orderPart, checkoutPart, received, providerPart, request, resolver>>
    BY <1>10 DEF HookAnswersError
  <2>3. PICK result \in {"REJECTED", "PROVIDER_ERROR"} :
          receipt' = [receipt EXCEPT ![n] = IF @ \in Terminal THEN @ ELSE result]
    <3>1. PICK result : result = IF worker[d].pc = "conflict" THEN "REJECTED" ELSE "PROVIDER_ERROR"
      OBVIOUS
    <3>2. receipt' = [receipt EXCEPT ![n] = IF @ \in Terminal THEN @ ELSE result]
      BY <1>10, <2>1, <3>1, Zenon DEF HookAnswersError
    <3>3. result \in {"REJECTED", "PROVIDER_ERROR"}
      BY <3>1
    <3> QED
      BY <3>2, <3>3
  <2>4. CASE receipt[n] \in Terminal
    <3>1. receipt' = receipt
      BY <2>3, <2>4 DEF CheckoutInv, TypeOK
    <3> QED
      BY <2>2, <3>1, IdleFits, CheckoutInvCall DEF hookPart
  <2>5. CASE receipt[n] \notin Terminal
    BY <2>2, <2>3, <2>5, IdleFits, CheckoutInvReceipt
  <2> QED
    BY <2>4, <2>5
<1>11. CASE \E p \in Payments : RefreshFetches(d, p)
  <2>1. PICK p \in Payments : RefreshFetches(d, p)
    BY <1>11
  <2>2. PICK s \in Raw \cup {"none"} : s = pay[p]
    BY DEF CheckoutInv, TypeOK
  <2>3. PICK w : w = [Idle EXCEPT !.pc = "refresh", !.pay = p, !.seen = s]
    OBVIOUS
  <2>4. w \in Jobs /\ JobFits(w)
    BY <2>3 DEF Idle, Jobs, JobFits
  <2>5. worker' = [worker EXCEPT ![d] = w]
    BY <2>1, <2>2, <2>3 DEF RefreshFetches
  <2> QED
    BY <2>1, <2>4, <2>5, CheckoutInvCall DEF RefreshFetches
<1> QED
  BY <1>3, <1>4, <1>5, <1>6, <1>7, <1>8, <1>9, <1>10, <1>11 DEF WorkerNext

LEMMA CheckoutInvNext == CheckoutInv /\ [Next]_vars => CheckoutInv'
<1> SUFFICES ASSUME CheckoutInv, [Next]_vars
             PROVE  CheckoutInv'
  OBVIOUS
<1>1. CASE UNCHANGED vars
  <2>1. TypeOK' /\ JobsFit'
    BY <1>1, ZenonT(60) DEF vars, orderPart, checkoutPart, hookPart, providerPart, callPart, CheckoutInv, TypeOK, JobsFit
  <2> QED
    BY <1>1, <2>1, CallsKept DEF vars
<1>2. CASE OrderNext
  BY <1>2, CheckoutInvOrder, CheckoutInvDeliverOrder, CheckoutInvStaff DEF OrderNext
<1>3. CASE \E r \in Requests : RequestNext(r)
  BY <1>3, CheckoutInvRequest
<1>4. CASE \E x \in Resolvers : ResolverNext(x)
  BY <1>4, CheckoutInvResolver
<1>5. CASE \E p \in Payments, s \in Raw : PaymentMoves(p, s)
  BY <1>5, CheckoutInvPayment
<1>6. CASE \E d \in Workers : WorkerNext(d)
  BY <1>6, CheckoutInvWorker
<1> QED
  BY <1>1, <1>2, <1>3, <1>4, <1>5, <1>6 DEF Next

LEMMA CheckoutInvariant == Spec => []CheckoutInv
  BY CheckoutInvInit, CheckoutInvNext, PTL DEF Spec

(* Staff, deliveries, notifications and refreshes never enter more than    *)
(* the total in the sale of an order, and its status is what the sum says  *)
(* (reconcile_delivered_order, record_payment).                            *)
THEOREM BooksStayAgreed == Spec => []BooksAgree
<1>1. CheckoutInv => BooksAgree
  BY DEF CheckoutInv
<1> QED
  BY <1>1, CheckoutInvariant, PTL

(* Whatever calls interleave or crash, an approved checkout has its        *)
(* approved payment, its notice and, once the order is delivered, its paid *)
(* sale (apply_payment_payload, deliver_order).                            *)
THEOREM ApprovalStaysBacked == Spec => []ApprovalIsBacked
<1>1. CheckoutInv => ApprovalIsBacked
  BY DEF CheckoutInv
<1> QED
  BY <1>1, CheckoutInvariant, PTL

(* A notification is applied exactly once if its receipt says PROCESSED,   *)
(* and not at all otherwise (webhook_view); and the types hold.            *)
THEOREM NotificationsApplyOnce == Spec => []AppliedOnce
<1>1. CheckoutInv => AppliedOnce
  BY DEF CheckoutInv, AppliedOnce, Answered
<1> QED
  BY <1>1, CheckoutInvariant, PTL

(* The answer given to a notification is never taken back (webhook_view).  *)
THEOREM AnswersStayFinal == Spec => AnswersAreFinal
<1> DEFINE Stays == \A n \in Notifications : receipt[n] \in Terminal => receipt'[n] = receipt[n]
<1>1. CheckoutInv /\ [Next]_vars => [Stays]_vars
  <2> SUFFICES ASSUME CheckoutInv, Next
               PROVE  Stays
    OBVIOUS
  <2>1. CASE UNCHANGED hookPart
    BY <2>1 DEF hookPart
  <2>2. CASE \E d \in Workers, n \in Notifications : HookReceives(d, n)
    BY <2>2 DEF HookReceives, CheckoutInv, TypeOK
  <2>3. CASE \E d \in Workers : HookApplies(d)
    BY <2>3 DEF HookApplies, CheckoutInv, TypeOK
  <2>4. CASE \E d \in Workers : HookAnswersError(d)
    BY <2>4, ZenonT(60) DEF HookAnswersError, CheckoutInv, TypeOK
  <2>5. ASSUME NEW d \in Workers, WorkerNext(d)
        PROVE  UNCHANGED hookPart \/ (\E n \in Notifications : HookReceives(d, n))
                 \/ HookApplies(d) \/ HookAnswersError(d)
    BY <2>5 DEF WorkerNext, HookFetches, HookFetchFails, HookFindsAnswer, HookRollsBack,
                RefreshFetches, RefreshApplies, WorkerCrashes
  <2>6. (\A d \in Workers : ~WorkerNext(d)) => UNCHANGED hookPart
    BY DEF Next, OrderNext, PrepareOrder, DeliverOrder, CancelOrder, StaffSells, StaffCollects,
           StaffCancelsSale, RequestNext, RequestChecks, RequestOpens, RequestCrashes, PreferenceReady,
           PreferenceUncertain, PreferenceRefused, RequestEnds, ResolverNext, ResolveStarts, ResolveEnds,
           ResolveFails, DeliverWhileResolved, PaymentMoves
  <2> QED
    BY <2>1, <2>2, <2>3, <2>4, <2>5, <2>6
<1> QED
  BY <1>1, CheckoutInvInit, CheckoutInvNext, PTL DEF Spec, AnswersAreFinal
===============================================================================
