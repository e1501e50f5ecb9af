# TuPymeGestiona: TLA+ models, checks and proofs

TuPymeGestiona lets small companies run their stock, orders, sales, payments and
electronic invoices, and sell through a portal. This directory holds TLA+ models of
its backend (`src/backend`, Django over MySQL), the TLC configurations that check
them and the proofs that TLAPS checks. `PROJECT.json` lists components, runs,
mutants, hazards, findings, theorems and, for every definition, the lines it models.

The business services run in one `transaction.atomic` block each and take row locks with
`select_for_update`; the database runs at READ COMMITTED (Django's default for MySQL). A
transaction whose reads are all under its locks is therefore **one action**. What happens
between transactions, reads made before one or without a lock (also in the views that save
catalog rows, users and roles), calls to other systems and mail are where steps interleave,
and get actions of their own.

## Inventory of the system

| Component | State it keeps | Operations | Interacts with | What is hard | What makes it correct |
|---|---|---|---|---|---|
| inventory | stock rows, movements, transfers | initial row, manual movement, transfer, `apply_inventory_movement` | orders, sales, portal | rows shared by all, all-or-nothing, lock order | stock never negative, every change explained |
| orders | orders, items, movement links, number sequence | draft, edit, confirm, prepare, deliver, cancel | inventory, external_payments, outbox | partial failure, cancellation from links | goods taken once, given back at most once |
| external_payments | checkouts, remote payments, webhook receipts | create and resolve a preference, refresh, webhook, reconcile | orders, sales, provider | stale reads, duplicates, reordering, crashes | the books agree; an approval is backed; a notification counts once |
| transactional_notifications | outbox rows and attempts | enqueue, process a batch, give up stale sends | every business transaction, SMTP | overlapping workers, crashes, uncertain sends | one sender, explained copies, every mail settles |
| sales | sales, payments, reversals, number sequence | sale of an order, POS sale, payment, cancel, reverse | orders, inventory, payments, tax | idempotency keys, reversal of stock | total = paid + balance, stock returns once |
| electronic_tax | documents, references, folios, idempotency records | create, validate, discard, notes, issue, refresh | sales, the tax authority (SII) | versions, folio use, uncertain sends, chains of notes | a folio is used once; one active base document per sale |
| electronic_tax operations | status tasks, alerts | scan, run tasks | electronic_tax, SII | claim and retry without locks around the work | one live task per document; a task ends |
| electronic_tax exchange, RIDE | exchanges, stored envelopes and pages | send to receiver, download, ingest answer | electronic_tax, mail | mail inside a transaction, keys shared by documents | the record is what was mailed; a repeated call sends nothing |
| portal | portal accounts, order requests | register, order | customers, orders, inventory | warehouse chosen from unlocked stock, repeated requests, customers matched by e-mail | a key makes one order; orders stay private |
| administration | company configuration, payment methods; users, roles and branches through organizations | ensure defaults, edit, add and revoke | organizations, sales, external_payments | decided on rows read without locks, written later | nobody locks himself out, one default per company |
| organizations | companies, branches, warehouses, memberships, roles, assignments | edit, authorize | every view | scope of a permission, revocation against open requests | no access beyond company and branch; who is revoked stays out |
| maintainers | rows of every company, challenges, global audit | edit, deactivate, hard delete | everything | order of deletion, audit | a deletion is all or nothing and audited |
| accounts | users, password reset | log in, reset | outbox | | |
| catalog | categories, brands, products, variants, suppliers | edit, toggle | orders, inventory | whole rows saved after unlocked reads | the category tree, unique codes |
| customers | customers | edit | orders, portal | | |
| dashboard, reports, frontend, database scripts, commands | none of their own | read, render, seed | | | |

## Plan

Built, in this order; each component's proofs are in the module named in brackets:

1. `Inventory`, `OrderLifecycle`, `Orders`: the core [`OrdersProofs`].
2. `Checkout`: payments [`CheckoutProofs`].
3. `Outbox`: notifications [`OutboxProofs`].
4. `Sales`, `SaleBook`: sales with idempotency keys, POS sales and reversals, over
   `Orders` [`OrdersProofs`].
5. `TaxDocuments`, `FolioBook`: documents, folios and references [`TaxDocumentsProofs`].
6. `StatusTasks`: scans, claims and retries of the tax operations [`StatusTasksProofs`].
7. `Exchange`: delivery to receivers and their answers [`ExchangeProofs`].
8. `Portal`: the customers' own orders, over `Orders` [`OrdersProofs`].
9. `Access`: memberships, roles, branches [`AccessProofs`].
10. `Catalog`: rows of the catalog and directories, their edits and deletion [`CatalogProofs`].

Every safety invariant and action property that a run checks is stated by a theorem. Left,
most useful first: `Orders` with its row locks, refining `Orders`; several checkouts that
compete for one payment id; permanent deletion of companies, branches and roles; defaults
of payment methods and order-status configuration.

## The modules

### Inventory, Orders, OrderLifecycle

`Inventory` has the stock rows (`rows`, `stock`) of one company; quantities are the
thousandths of `DecimalField(14, 3)`, so naturals, bounded by `MaxStock`. A request's
items are a *basket*, one quantity per variant: orders refuse a repeated variant, and
for a transfer only the sum of a repeated one matters. `base` is a history variable:
what a row would hold had no order touched it.

`Orders` adds, per order, the status, warehouse, items, the movements linked to its
items by kind, its number, the status of its Mercado Pago checkout, and the notices it
enqueued. One action per service of `orders/services.py`: `CreateDraftOrder`,
`UpdateDraftOrder`, `ConfirmOrder`, `PrepareOrder`, `DeliverOrder`, `CancelDraft` and
`CancelOrder` (both of `cancel_order`). A raised exception rolls back, so it is no
step. `_set_order_status` enqueues its notices in the same step (`NoticesTo`): one for the
customer and one for the seller, none for a party without an e-mail and one for both if
they share it. `Addresses` are the addresses that the parties of an order may have; staff
edits them at any time, so each status change meets any of them. The checkout status
moves freely here (`CheckoutMoves`), because `Checkout` models what moves it; every
value `Checkout` can reach is allowed.

`OrderLifecycle` is the promise: goods are taken once, on confirmation, and given back
at most once. `Orders` refines it with `goods <- GoodsOf`, read off the movement
links, not off the status, so the refinement says that links and status agree.

### Checkout

One order, its checkout, its sale and the provider. Concurrent calls are sets of
processes: `Requests` (`create_preference_view`: the order is read, then a
transaction, then the provider, then a save), `Resolvers`
(`resolve_uncertain_preference`), and `Workers` (`webhook_view` and
`refresh_payment_view`: receipt, provider, transaction, error handlers). Any of them
may crash between steps. `PaymentMoves` is the provider: a payment's status as
`get_payment` reports it. The services lock the order's row together with the
checkout's (`select_related` under `select_for_update` locks the joined rows), which
is why `ApplyPayload` reads the order's status in its step. `HasAddress` says whether the
customer or the portal account's user has an e-mail: without one, an applied payload
enqueues no notice. `deliver_order` reads the
checkout twice, the first time without a lock: `DeliverWhileResolved` is the case in
which a resolver saves its old copy in between.

### Outbox

Rows with their status, attempts, attempt log, retry instant and start of sending;
workers with the list and the `now` of their batch and the send in progress.
`StartBatch`, `Claim`, the three outcomes of a send (`SendSucceeds`, `SendFails`,
`SendBreaks`), `Crash` and `MarkStale`, with `Tick` for time. Instants are kept as
ages and waits relative to the present and cut off where the code no longer tells
them apart, so the model is finite with time unbounded.

### Sales, SaleBook

`Sales` extends `Orders`: the same stock rows and orders, plus the sales, payments,
movement links, reversals, events and the sale number sequence. One action per service
of `sales/services.py`, each a transaction under the company's or the sale's lock:
`CreateSale`, `CreatePosSale`, `RecordPayment`, `CancelSale`, `ReversePosSale`, and the
repeated call with a known key as an action of its own (`CreateSaleAgain`,
`CreatePosSaleAgain`, `RecordPaymentAgain`) that answers and changes nothing. `answers`
is a history of what calls with a key were told. A call is goods, amount and a
*reference* that stands for the rest it says (reference, payment method, customer); the
sale's branch is kept, because `Sale.clean` compares it with the warehouse's, which staff
may move (`MoveWarehouse`). Every service that saves a sale therefore asks `MaySave`; a sale
whose warehouse was moved to another branch is stuck, and `place`, a history of the branch
the warehouse had at the sale, tells those apart. `create_sale` adds up unrounded totals of
items, and the columns have two decimals, so a total of less than half a cent gives a
PENDING sale of 0.00: `CreateSale` allows both statuses for a total of 0. `Order.clean` has
the same check of the branch; it only refuses more, and is left out of `Orders`.

`SaleBook` is the promise: money comes in up to the price, a sale that took money is
never voided, a refund returns all of it, once, with the goods. In the refinement,
money received is the sum of the payment rows and goods are read off the movement
links, while the services test the columns of the sale. A sum is written as the size of a
set, one element per unit of each amount (`SumOf`), because the prover knows about the
sizes of sets and cannot unfold a recursion.

### TaxDocuments, FolioBook

The documents of one company, the folio authorizations, and what the SII received.
`issue_document` calls the SII *inside* its transaction: `IssueStarts` takes the locks
of the document and of the authorization (`flight`), `SiiReceives` is the arrival of
the envelope, and `IssueSucceeds`, `IssueIsUncertain` or `IssueRollsBack` end the
transaction, so nothing it wrote is seen earlier and what it sent is not taken back.
The other services are one action each. The sale of a document has as much state as
the documents look at, moved by the actions `RecordPayment`, `CancelSale` and
`ReversePosSale`. Versions and idempotency records are left out: a call they stop, or
answer again, is no step. The amounts, lines, XML and signatures are data.

`FolioBook` is the promise: the numbers of each authorized range are granted in order,
to one document each, none skipped and none taken back.

### StatusTasks

The two commands that follow documents without an answer. A scan is one transaction of
several steps, because it takes the lock of one alert row after the other: `ScanStarts`
reads the stale documents, `ScanTreats` writes the alert and looks for a live task,
`ScanCommits` makes alerts and tasks visible and closes the alerts that no longer apply,
`ScanRollsBack` is a crash or the end of a deadlock. A run lists the due tasks
(`RunStarts`), claims one under its lock (`Claims`, `Skips`), reads its document without
one (`FindsOpen`, `FindsSettled`), asks (`GetsAnswer`, `GetsError`) and writes the task
(`Succeeds`, `GivesUp`, `Reschedules`), each in a transaction of its own, and may die in
between (`RunDies`). Users refresh the same documents. Versions are kept as what the
check of a version tells: whether the document changed since the run read it.

### Exchange

Delivery of accepted documents to their receivers (`deliver_to_receiver`) mails *inside*
its transaction, so a call is several steps: `DeliverStarts` locks the document, replays a
known key and makes or takes the envelope and the page (RIDE); `MailGoesOut`;
`DeliverEnds` or `DeliverIsUncertain` commit; `DeliverRollsBack` is every other end, also
that of the process. The idempotency keys belong to the company, so calls for two
documents, which hold different locks, may meet on one key only at their commits. The RIDE
is rendered from the tax profile as it is when it is first needed, by a delivery or by
`DownloadRide`, and stored; `ProfileMoves` is the profile edited by hand.
`IngestResponse` is `ingest_receiver_response`; what a receiver says (`said`) is a history.

### Portal

`Portal` extends `Orders` with portal users, customers, accounts and the rows of
`PortalOrderRequest`. `create_portal_order` is one transaction, but it reads the account,
the key's request and the stock it chooses a warehouse from without a lock, so it is two
steps: `PlaceStarts` decides, `PlaceEnds` drafts and confirms the order under the locks and
commits, `PlaceRollsBack` is everything else (the stock has gone, the key was taken).
Customers, found by the user's e-mail, are created and edited by staff meanwhile; a call
that adopts one (`ensure_portal_account_for_order`) is kept apart from another one by the
unique keys of the account. The keys of requests are `RequestKeys`; `NoCall` and `NoCustomer`
stand for no open call and no customer, and are assumed to be neither.

### Access

Companies, memberships, branches, roles and assignments, and the questions of
`organizations/authorization.py` (`HasPermission`, `BranchScope`, `Administers`).
`user_detail_view` and `role_detail_view` look at who asks and at the rows in no
transaction and write later, so a request is decided (`UpdateUser`, `UpdateRole`, and
`MaintainsUser`, `MaintainsRole` of the maintainers, who are asked for less; `AddUser`,
`CreateUser`, `RevokeAccess`, `ChangeMembershipState`) and then written or `Fails`, with
other writes in between; `alone` remembers whether there were any.

No transaction locks the membership first, so those that touch one are taken apart where
they look and where they lock:

| Transaction | Steps |
|---|---|
| `user_detail_view` with `replace_membership_access` | `BeginsUser` (status, roles read, branches deleted), `ReplacesUser` (branches inserted, assignments deleted), `CommitsUser` (assignments inserted) |
| `user_revoke_access_view` | `BeginsRevoke` (assignments deleted), `RevokesBranches` (branches deleted), `CommitsRevoke` (status LEFT) |
| `change_state` of a membership | decided, `CommitsState` |
| `role_detail_view` | decided, `CommitsRole` |
| `branch_list_create_view` | `CreateBranch`, `FindsCreator` (an unlocked read), `AttachesCreator` |

What a transaction has written is in its request (`gone`, `lost`, `rows`) until it commits.
It holds back others as InnoDB's row locks do (`MayDeleteBranches`, `MayDeleteRoles`,
`MayInsert`, `MayWriteMember`): a deleted or inserted row is locked, an inserted one shares a
lock on its membership's row, and a written status has that row for itself. At READ COMMITTED
a statement that waited acts on what was committed, and there are no locks on gaps; the
deletions are single statements (no signal or cascade hangs on these rows). Two statements
are merged where nothing of another transaction can tell them apart. A deadlock is a step
that does not happen, or `Fails`. The other requests, among them the two ways to make a
company, are one step each.

`revoked` is a history: who was revoked and has not been let in by name since. So is `torn`:
a membership that was given access between the two deletions of a revocation, and not all
anew since. For those the code does leave an assignment at a branch that the membership has
lost, and `ScopeIsAttached` says that only they have it.

### Catalog

One row per category, brand, supplier, product, variant, customer and warehouse, with the
rows it refers to, its code and its status. A request that edits a row runs in no
transaction: it loads the row, validates (`Clean`) and writes the whole row back, so it
`Opens` and later `Saves`, or is `Refused` by a constraint of the database. What each
serializer lets in is one operator each (`CategoryUpdate`, `VariantWrite`, ...). Status
switches write one column (`SavesStatus`). Permanent deletion takes a challenge and its
execution, which looks again at everything that refers to the row, and writes an audit
event. `Category.clean` walks from the parent up; what it meets, `Ancestors`, is defined
without the walk, as what is in every set of categories that holds the parent and the parents
of its members. The database that the runs and proofs start with (`Seed`) refers to rows that
are there, has unique codes, and parents that are categories. `OtherRowsRefer` stands for the stock, orders and sales that come to refer to a row.

## What the runs show

| Run | Instance | Shows |
|---|---|---|
| MCOrders | 2 orders, 2 warehouses, 1 variant, quantities 1..2, `MaxStock` 2; the customer of one order has the seller's address or another, the parties of the other have none; deadlock checked | `TypeOK`, `Conservation`, `Traceability`, `NoticesFollowStatus`, refinement of `OrderLifecycle` |
| MCPortal | 2 users, customers, calls, keys and orders, one unit in one warehouse; deadlock checked | `PortalStockIsSound`, `OneOrderPerKey`, `OrdersStayPrivate` |
| MCSales | 1 order, 2 sales, 1 stock row of one unit, totals 0 and 2, 2 keys, 2 references, 2 branches; deadlock checked | `StockIsExplained`, `SalesStayValid`, `EventsTellTheSale`, `KeysNameOneCall`, refinement of `SaleBook` |
| MCCheckoutHooks | 1 payment, 2 workers, staff collecting up to 2 units, fairness | `AppliedOnce`, `AnswersAreFinal`, `EveryNotificationSettles` |
| MCCheckoutPayments | 2 payments, one of another amount, 1 worker, 1 resolver | `BooksAgree`, `ApprovalIsBacked` |
| MCOutbox | 2 mails, 2 workers, 3 attempts, fairness | `AttemptsAreLogged`, `CopiesAreExplained`, `FinalStatuses`, `EveryMailSettles` |
| MCTaxDocuments | 3 documents of one sale, from an order or POS; 5 ranges of folios, some overlapping | `OneActiveInvoice`, `CancellationsAreBacked`, `FoliosAccountedFor`, refinement of `FolioBook` |
| MCTaxFolioReuse | 2 invoices, 1 folio | a finding, below |
| MCExchange | 2 documents, 2 calls, 2 keys, 2 profiles, up to 2 mails; deadlock checked | `ExchangeIsTrue`, `VerdictsAreBacked`, `AnsweredCallsSendNothing`, `RecordedContentStays` |
| MCStatusTasks | 1 document, 2 live tasks at most, 2 scans, 2 runs, 2 attempts, fairness | `OneLiveTask`, `OneRunPerTask`, `SettledStays`, `TasksEnd`, `AlertsClose` |
| MCCatalog | 12 rows of 7 tables, 2 codes, 1 request, 1 challenge, 2 writes; deadlock checked | `DeletionsAreExplained`, `LoneEditsKeepOrder` |
| MCAccess | 2 users, companies and branches, 3 roles, 2 open requests, 2 writes; an administrator and a member, with or without a branch and a role | `ScopeIsAttached`, `RevokedStayOut`, `NobodyLocksHimselfOut` |

The bounds: two orders suffice for any interference between orders, since every action
touches one order and the rows of at most two warehouses; `MaxStock` 2 makes both ends of
the quantity's range reachable. That an order of several items is taken all or not at all
needs two variants: this is proved, for every set of them, and not run. Two workers are
enough for any race on one row, because a row's lock admits one at a time and a worker's
stale knowledge is compared with the row only. Two payments are needed for one to hide the
other. Three attempts reach the retry, the delay's cap and the last failure. Two sales are
the least for a key, a number or a stock row to be shared, and the order next to them is
the third claimant of the row; a total of 2 allows a partial payment, a total of 0 a sale
that is paid from the start. Three documents allow the chain of invoice, credit note and
debit note, two notes of one invoice, or an invoice made after another was discarded or
cancelled; two of them share each authorization with two folios. One document is enough for
two scans and two runs to compete for it; two would add the deadlock of scans that close
each other's alerts, which ends in a rollback, and that is a step here anyway. In `Exchange`
two calls, two documents and two keys give both kinds of meeting: one key for two documents
and two keys for one; two mails are one that counts and one that was rolled back, in either
order. In `Portal` one unit is the least that two calls can fight over, and two users with
two customers the least that can be confused. In `Catalog`, one open request meets the
switches, references and deletions of the others, which are steps of their own, and of two
writes one is the request's; the categories' statuses stand for those of every table
(`Tracked`). In `Access`, two requests are the least that can interleave, and two writes let both
commit; the runs start with a member, so that one revocation and one edit are enough for an
assignment without its branch, and the requests name two of the statuses (`Named`). These
two bounds, `MaxWrites`, cut behaviours off; the proofs about both hold for every value of
it, and for any number of requests at once.

`CHECK_DEADLOCK FALSE` in `Checkout`, `Outbox`, `TaxDocuments`, `StatusTasks`: there, an
order that is finished and answered, a queue that is settled, or documents that are all
answered may leave nothing to do; and in `Access`, whose behaviours stop at the bound.

### Findings

* **MCTaxFolioReuse**: the constraint `uniq_dte_company_type_folio` holds in the database,
  not at the SII: an issue that fails after the upload ("SII acepto upload pero no
  devolvio TRACKID", an HTTP error, a crash) frees the folio of a document that the SII
  may hold, and the next issue sends it with another document.

Observed while modelling, without a run of their own.

Payments and mail:

* "Solo se puede iniciar el pago de un pedido confirmado o en preparación" is tested on a
  copy of the order read before the transaction (`external_payments/services.py:113`): a
  checkout may start for a delivered order.
* "El pedido tiene un pago Mercado Pago aprobado; requiere devolución antes de anular"
  (`orders/services.py:252`) looks at the checkout's status, which a later payload of
  another payment overwrites (`external_payments/services.py:327`): the order is cancelled
  with an approved payment on record.
* "Un rechazo explícito (4xx) no creó una preferencia remota"
  (`external_payments/services.py:136`) does not cover a 2xx answer that is not JSON,
  which is filed as a rejection too.
* A crash while a preference is created leaves the checkout in `CREATING`; no call
  retries it, and the order can be cancelled but not delivered.
* A row's `sending_started_at` is the start of its batch
  (`transactional_notifications/services.py:300`), so a send that has just begun may be
  given up as "El proceso terminó sin confirmar…"; its outcome is then not recorded.

Tax documents:

* "Una venta CANCELLED no es elegible para facturacion" (`electronic_tax/services.py:459`)
  is tested when the invoice is drafted; a sale cancelled afterwards still gets its
  invoice sent.
* "La anulacion total exige paid_amount = 0" (`electronic_tax/services.py:776`) is tested
  when the note is drafted; a payment may come before its acceptance cancels the invoice.
* An accepted debit note that cancels a credit note does not put the invoice that the
  note had cancelled back in force.
* A rejected invoice stays the active one of its sale: it cannot be discarded, and no
  other can be made.
* The reservation of a document sent with `SEND_UNCERTAIN` stays `RESERVED` also after
  the SII has accepted it.
* A run of the status checks that dies leaves its task in `RUNNING`; no run claims it
  again and no scan makes another, so the document is followed by hand from then on.
* A mere acknowledgement of reception that is ingested after a verdict replaces it, and so
  does a later verdict: `VerdictsAreBacked` says which document a verdict is about, not which
  of several is the last. Of the signature of an answer, only that there is one is looked at.
* A delivery that dies, or loses its key to another document's, after its mail was taken
  leaves a mail outside that no row knows, and the next delivery builds another envelope.

Portal, catalog and access:

* A portal order whose stock went between the choice of the warehouse and the lock is
  refused, although another warehouse may have the stock.
* Two overlapping requests may save one SKU twice: no constraint of the database backs the
  rule. Two overlapping moves may tie two categories into a cycle, after which neither
  passes `Category.clean`, so not even their status can be switched.
* A whole-row save puts back a status that was switched since the row was loaded, and
  inserts again a row that was permanently deleted.
* The maintainers' edit of a role skips the rule that permissions of the whole company are
  not for assignments at a branch, and that of the last administrator.
* Two administrators who remove each other at the same time leave a company with none, and
  `company_detail` lets one deactivate his own company.
* An edit that overlaps a revocation writes assignments of a member who has `LEFT`; they
  give no access (`RevokedStayOut`), but would count again if he were let in by status.
* If the edit commits between the two deletions of the revocation, its assignments stay and
  its branches go: an assignment at a branch of which the member has no `MembershipBranch`,
  which `RoleAssignment.clean` would refuse (`organizations/models.py:404`). Such
  memberships are the ones in `torn`; the next edit that replaces all of the access mends it.
* "Una membresía desvinculada no puede reactivarse desde esta pantalla"
  (`maintainers/lifecycle.py:412`) is tested on a row read without a lock: a reactivation
  that was decided before a revocation, and saved after it, lets the member in.
* `NobodyLocksHimselfOut` is about one request at a time. That every company keeps an
  administrator, whoever writes in what order, is nowhere looked after.

Sales:

* A warehouse may be moved to another branch at any time (`organizations/serializers.py:140`);
  a sale of its old branch can then be neither paid, cancelled nor reversed, since
  `Sale.clean` refuses each save, until it is moved back.
* A sale of an order of less than half a cent is PENDING with a stored total of 0.00: no
  payment fits its balance, and it can only be cancelled.

## Fairness

`Checkout!Fairness`: a call that started ends (weak fairness of each worker; the host
runs the request to its end or kills it), the provider delivers a notification again
until it is answered (strong fairness of its deliveries), and repeated deliveries do
not all fail at the same point (strong fairness of the answer, of the application and
of recording a conflict). Payments, staff and customers owe nothing.
`Outbox!Fairness`: time passes; the scheduler keeps running the processing command
and the recovery command; a send in progress ends or its worker dies; a worker does not
die every time just before it claims a row.
`StatusTasks!Fairness`: time passes; both commands are run again and again; a scan or a
run that started goes on or dies; an alert is not locked, nor a task claimed too late,
every time it is looked at. Nothing makes a document stale or its answer final.
`Exchange`, `Portal`, `Catalog` and `Access` promise no progress: nothing in the code retries
a call for its user.

## What is proved

Each module of proofs EXTENDS the module it is about and proves its theorems for every
value of the constants that satisfies the ASSUMEs beside their declarations: quantities,
totals, attempts and durations are naturals of the right sign, and the values that stand
for "none" are not among the values they are told apart from. Hardly any of the properties
is inductive alone; each module states the invariant that is, and why.

* **OrdersProofs**. `OrderInv == TypeOK /\ Placed /\ Traceability`: that a cancelled
  order's movements undo each other needs that items and warehouse no longer change after
  confirmation. Theorems `TypeCorrect`, `TraceabilityHolds`, `ConservationHolds`,
  `NoticesHold`, `OrderNumbersAreUnique`, and `ImplementsLifecycle` (the links determine
  `GoodsOf` in each status). For `Conservation`, `Rowed` (stock without a row is zero) and
  `Balance` are carried along: each action changes the units of one order by exactly the
  basket that enters or leaves. No finiteness of orders or variants is assumed.
* **OrdersProofs, sales**. `SalesInv` adds to `OrderInv`, for each sale, what `Sale.clean`
  checks, that a sale of an order has that order's items and warehouse, that its columns say
  what its payment rows and its reversal do (`RowIsPaidFor`), and that it may be saved again
  unless its warehouse was moved to another branch (the run shows that this does happen).
  Theorems
  `SalesStaySound`, `KeysAreNames` (with `KeysInv`: each answer given is of a row that says
  the same call) and `StockStaysExplained` (the balance of orders and sales).
* **OrdersProofs, events and money**. `EventsTellTheSale` compares three records of one
  thing, the paid column, the payment rows and the event log. `LogInv` relates them: until a
  sale is cancelled its column is the sum of its rows, an event of cancellation is there only
  if it is, and all rows and events are finite, so that one more of them adds its amount to
  the sum. Theorem `EventsAlwaysTell`. The same sums carry `ImplementsBook`: by `SalesInv` and
  `LogInv` each service is one step of `SaleBook` or none, and the repeated calls are none.
* **OrdersProofs, the portal**. A call decides on what it read without a lock, so `PortalInv`
  says what of it still holds when it commits (`CallFits`): the customer it found is that of
  its user's account, or the one it adopts belongs to nobody and to no other call. An account
  never loses its customer, and a placed request names its user's (`AccountFits`,
  `RequestFits`). Theorems `PortalStockHolds` (the chosen warehouse may be the wrong one, the
  lock decides; uses the balance of `ConservationHolds` and that stock lies in rows),
  `OneOrderPerKeyHolds`, `PortalOrdersStayPrivate`.
* **CheckoutProofs**. `CheckoutInv` is the books, the backing of an approval, what calls
  in progress hold (`JobsFit`), and `OneEntry`: a payment is entered only when nothing was
  paid. Theorems `BooksStayAgreed`, `ApprovalStaysBacked`, `NotificationsApplyOnce`,
  `AnswersStayFinal`.
* **OutboxProofs**. `OutboxInv`: the last transaction of a worker overwrites the status
  without looking, so it must be known who sends what (`SendersHold`, `OneSender`), and
  that a batch's clock (`BatchesInTime`) keeps a mail from being given up in the list of a
  live worker and claimed again. Theorems `AttemptsStayLogged`, `FinalStatusesStay`,
  `CopiesStayExplained`; assumed: a send ends sooner than it counts as stale
  (`OutboxAssumption`), as the settings have it.
* **TaxDocumentsProofs**. `TaxInv`: what rows, authorizations, folios and unfinished
  issues have to do with each other, and that what a note refers to was accepted; which
  documents are in force depends on what notes may still cancel. Theorems
  `OneInvoicePerSale`, `CancellationsStayBacked`, `NoFolioIsLost`, `KeepsFolioBook`
  (refinement of `FolioBook`).
* **StatusTasksProofs**. `StatusInv`: a document that is to get a task has no live one, and
  its alert is locked by the scan that makes the task. Theorems `TasksStaySingle`,
  `RunsStayApart`, `SettledForGood`.
* **ExchangeProofs**. `ExchangeInv`: what an open call holds is what is stored, and mailed
  if it says so, and its key is not recorded for its document. Theorems
  `ExchangeTellsTheTruth` (assuming that the keys are a finite set, because attempts are
  compared with a cardinality), `RepeatedCallsAreSilent`, `ContentIsKept`, `VerdictsHold`.
* **AccessProofs**. `AccessInv`: open requests are about rows of their company and have
  deleted and made rows of their own membership only (`CallsFit`); two transactions on one
  membership have no branch in common that either deleted or inserted, because the rows'
  locks keep them apart (`MembersApart`); what a transaction leaves of the assignments is at
  none of the branches it takes away, unless the membership is torn (`MembersLeft`);
  assignments at a branch are of roles of its company and of members of that branch or torn
  (`GrantsStand`); and who was revoked is no active member. Theorems `ScopeHolds`,
  `RevokedHaveNothing`, and `AdministratorsStay`, with `AloneGranted`: what was granted when
  a request was decided is still so when it commits, if nothing was written in between.
* **CatalogProofs**. `CatalogInv`: parents are categories, a request writes at most one row of
  each table, and a request that is still alone finds what it found when it opened, so that
  `clean` would pass again. Theorems `DeletionsStayExplained` (a row that is referred to is
  not deleted, and a challenge is used once) and `LoneEditsAreSafe`: by
  `Category.clean` the ancestors of the new parent do not hold the moved category, and a move
  leaves them closed under parents; joined to the old ancestors of any other category they
  are a closed set without it, so no cycle passes through either. No finiteness of rows is assumed.

## Only model-checked

* Liveness (`EveryNotificationSettles`, `EveryMailSettles`, `TasksEnd`, `AlertsClose`),
  which is out of the prover's reach.
* That `MaxStock`, `MaxWrites` and the like are large enough is no question for the proofs, which
  hold for every value of them; that the interesting cases do happen is what the runs show.

## Not modelled, and why

* Dashboard, reports, listings and options: they only read. The layout of documents and
  mails, and the frontend: no state that the server relies on. Database scripts, demo data
  and commands that seed: one-shot.
* Payment methods, order-status labels and settings: each one row that no other rule reads.
* Login, logout and password reset: Django's.
* Permanent deletion of companies, branches and roles (the same procedure as in `Catalog`,
  over other rows), and several checkouts that compete for one payment id.
* Alerts about folios, certificates and exchanges: recomputed by each scan from what it reads.
* Within the modelled components: in the business modules, who may call an operation (that is
  `Access`); the text of mails; prices (only a total matters); versions and request hashes,
  where they only refuse or repeat a call; and deadlocks among row locks, which the database
  breaks by rolling one transaction back, that is, by no step.
