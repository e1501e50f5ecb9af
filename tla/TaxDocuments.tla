----------------------------- MODULE TaxDocuments -----------------------------
(***************************************************************************)
(* The electronic tax documents (DTE) of one company                       *)
(* (electronic_tax/services.py): invoices of sales, the credit and debit   *)
(* notes that refer to them, the folios they use, and what reaches the tax *)
(* authority (SII).                                                        *)
(*                                                                         *)
(* Every service is one transaction under the document's lock.  All but    *)
(* issue_document are one action.  issue_document calls the SII inside its *)
(* transaction, so it is several: it holds the locks of its document and   *)
(* of a folio authorization, and what it wrote becomes visible only when   *)
(* it commits, while what it sent cannot be taken back when it does not.   *)
(*                                                                         *)
(* A call names the version of the document it saw and an idempotency key. *)
(* A call with an old version is refused and a repeated one is answered    *)
(* from its record, so either is no step, and neither is kept here.        *)
(***************************************************************************)
EXTENDS Integers, FiniteSets

CONSTANTS
  DocIds,       \* documents that may be made
  Sales,        \* sales of the company
  Ranges,       \* [type, first, last]: folios the SII may authorize (CAF)
  NoDoc, NoCaf

ASSUME RangesAssumption ==
  Ranges \subseteq [type : {"INVOICE", "EXEMPT_INVOICE", "CREDIT_NOTE", "DEBIT_NOTE"},
                    first : Nat \ {0}, last : Nat \ {0}]

VARIABLES
  doc,          \* doc[d]: the ElectronicTaxDocument and its reference, or NoDoc
  reservation,  \* reservation[d]: FolioReservation.status, or "NONE"
  caf,          \* caf[c]: the FolioAuthorization of range c, or NoCaf
  flight,       \* flight[d]: the authorization whose lock an unfinished
                \*   issue_document of d holds, or NoCaf
  sent,         \* <<type, folio, d>>: what reached the SII
  sale          \* sale[s]: "UNPAID", "PAID" (paid_amount # 0), "CANCELLED",
                \*   or "PAID_AT_POS", as sales of the point of sale begin

vars == <<doc, reservation, caf, flight, sent, sale>>

(* FOLIO_RESERVED and SIGNED are seen only inside issue_document, and no   *)
(* code sets VOIDED_PRE_SUBMISSION, VOIDED or DISABLED.                    *)
BaseTypes == {"INVOICE", "EXEMPT_INVOICE"}
Types == BaseTypes \cup {"CREDIT_NOTE", "DEBIT_NOTE"}
Accepted == {"ACCEPTED", "ACCEPTED_WITH_REPAIR"}
States == Accepted \cup {"DRAFT", "READY", "SUBMITTED", "PROCESSING", "REJECTED",
                         "SEND_UNCERTAIN", "CANCELLED_BY_REFERENCE", "DISCARDED"}
CancelReasons == {"CANCEL_DOCUMENT", "CANCEL_DEBIT_NOTE", "CANCEL_CREDIT_NOTE"}
Reasons == CancelReasons \cup {"CORRECT_TEXT"}

Folios == UNION {c.first..c.last : c \in Ranges}
IssuedTypes == {c.type : c \in Ranges}

Documents == [sale : Sales, type : Types, state : States, base : BOOLEAN,
              folio : Folios \cup {0}, caf : Ranges \cup {NoCaf},
              source : DocIds \cup {NoDoc}, reason : Reasons \cup {""}]
Authorizations == [next : Nat, status : {"ACTIVE", "EXHAUSTED"}]
ASSUME NoDocAssumption == NoDoc \notin Documents /\ NoDoc \notin DocIds
ASSUME NoCafAssumption == NoCaf \notin Authorizations /\ NoCaf \notin Ranges

Exists(d) == doc[d] # NoDoc
Locked(d) == flight[d] # NoCaf
Imported(c) == caf[c] # NoCaf

TypeOK ==
  /\ doc \in [DocIds -> Documents \cup {NoDoc}]
  /\ reservation \in [DocIds -> {"NONE", "RESERVED", "CONSUMED"}]
  /\ caf \in [Ranges -> Authorizations \cup {NoCaf}]
  /\ flight \in [DocIds -> Ranges \cup {NoCaf}]
  /\ sent \subseteq Types \X Folios \X DocIds
  /\ sale \in [Sales -> {"UNPAID", "PAID", "PAID_AT_POS", "CANCELLED"}]

Init ==
  /\ doc = [d \in DocIds |-> NoDoc]
  /\ reservation = [d \in DocIds |-> "NONE"]
  /\ caf = [c \in Ranges |-> NoCaf]
  /\ flight = [d \in DocIds |-> NoCaf]
  /\ sent = {}
  /\ sale \in [Sales -> {"UNPAID", "PAID_AT_POS"}]

------------------------------------------------------------------------------
(* The sale of a document, as record_payment, cancel_sale and              *)
(* reverse_pos_sale move it; module Sales models them.                     *)
MoveSale(s, new) ==
  /\ sale' = [sale EXCEPT ![s] = new]
  /\ UNCHANGED <<doc, reservation, caf, flight, sent>>

RecordPayment(s) == sale[s] = "UNPAID" /\ MoveSale(s, "PAID")
CancelSale(s) == sale[s] = "UNPAID" /\ MoveSale(s, "CANCELLED")
ReversePosSale(s) == sale[s] = "PAID_AT_POS" /\ MoveSale(s, "CANCELLED")
Unpaid(s) == sale[s] \in {"UNPAID", "CANCELLED"}

(* import_caf: a range of folios that overlaps no other of its type.  The  *)
(* test takes no lock, but the ranges the SII signs for a type are equal   *)
(* or disjoint, and equal ones are unique in the database.                 *)
Overlaps(c, x) == c.type = x.type /\ c.first <= x.last /\ x.first <= c.last

ImportCaf(c) ==
  /\ c.first <= c.last
  /\ \A x \in Ranges : Imported(x) => ~Overlaps(c, x)
  /\ caf' = [caf EXCEPT ![c] = [next |-> c.first, status |-> "ACTIVE"]]
  /\ UNCHANGED <<doc, reservation, flight, sent, sale>>

(* create_base_document: the one active invoice of a sale.                 *)
NewDocument(d, s, type, source, reason) ==
  /\ doc' = [doc EXCEPT ![d] =
       [sale |-> s, type |-> type, state |-> "DRAFT", base |-> type \in BaseTypes,
        folio |-> 0, caf |-> NoCaf, source |-> source, reason |-> reason]]
  /\ UNCHANGED <<reservation, caf, flight, sent, sale>>

CreateBaseDocument(d, s, type) ==
  /\ ~Exists(d)
  /\ sale[s] # "CANCELLED"
  /\ ~\E x \in DocIds : Exists(x) /\ doc[x].sale = s /\ doc[x].base
  /\ NewDocument(d, s, type, NoDoc, "")

ValidateDocument(d) ==
  /\ Exists(d) /\ ~Locked(d)
  /\ doc[d].state = "DRAFT"
  /\ doc' = [doc EXCEPT ![d].state = "READY"]
  /\ UNCHANGED <<reservation, caf, flight, sent, sale>>

(* Mutant of DiscardDocument: the invoice stays the active base.           *)
DiscardDocumentInPlace(d) ==
  /\ Exists(d) /\ ~Locked(d)
  /\ doc[d].state \in {"DRAFT", "READY"}
  /\ doc' = [doc EXCEPT ![d].state = "DISCARDED"]
  /\ UNCHANGED <<reservation, caf, flight, sent, sale>>

DiscardDocument(d) ==
  /\ Exists(d) /\ ~Locked(d)
  /\ doc[d].state \in {"DRAFT", "READY"}
  /\ doc' = [doc EXCEPT ![d].state = "DISCARDED", ![d].base = FALSE]
  /\ UNCHANGED <<reservation, caf, flight, sent, sale>>

(* create_credit_note, create_debit_note: the note copies its source; an   *)
(* invoice is cancelled only when nothing is paid for its sale.            *)
MayCredit(x, reason) ==
  \/ reason = "CANCEL_DOCUMENT" /\ doc[x].type \in BaseTypes /\ Unpaid(doc[x].sale)
  \/ reason = "CORRECT_TEXT" /\ doc[x].type \in BaseTypes
  \/ reason = "CANCEL_DEBIT_NOTE" /\ doc[x].type = "DEBIT_NOTE"

CreateCreditNote(d, x, reason) ==
  /\ ~Exists(d) /\ Exists(x)
  /\ doc[x].state \in Accepted
  /\ MayCredit(x, reason)
  /\ NewDocument(d, doc[x].sale, "CREDIT_NOTE", x, reason)

CreateDebitNote(d, x) ==
  /\ ~Exists(d) /\ Exists(x)
  /\ doc[x].state \in Accepted
  /\ doc[x].type = "CREDIT_NOTE"
  /\ NewDocument(d, doc[x].sale, "DEBIT_NOTE", x, "CANCEL_CREDIT_NOTE")

(***************************************************************************)
(* issue_document: reserve_folio takes the next number of the active       *)
(* authorization with the lowest range and keeps its lock; the document is *)
(* signed and submitted; then everything commits (IssueSucceeds, or        *)
(* IssueIsUncertain when the connection broke), or nothing does            *)
(* (IssueRollsBack: an HTTP error, an answer that cannot be read, no       *)
(* TRACKID, a crash).                                                      *)
(***************************************************************************)
Usable(c, type) ==
  Imported(c) /\ c.type = type /\ caf[c].status = "ACTIVE" /\ caf[c].next <= c.last
Lowest(c, type) ==
  Usable(c, type) /\ \A x \in Ranges : Usable(x, type) => c.first <= x.first
CafLocked(c) == \E x \in DocIds : flight[x] = c

IssueStarts(d) ==
  /\ Exists(d) /\ ~Locked(d)
  /\ doc[d].state = "READY"
  /\ \E c \in Ranges :
       /\ Lowest(c, doc[d].type)
       /\ ~CafLocked(c)
       /\ flight' = [flight EXCEPT ![d] = c]
  /\ UNCHANGED <<doc, reservation, caf, sent, sale>>

(* The folio the document was signed with.                                 *)
SignedFolio(d) == IF Locked(d) THEN caf[flight[d]].next ELSE doc[d].folio

(* The envelope arrives, maybe long after the connection broke.            *)
SiiReceives(d) ==
  /\ Exists(d)
  /\ Locked(d) \/ reservation[d] = "RESERVED"
  /\ sent' = sent \cup {<<doc[d].type, SignedFolio(d), d>>}
  /\ UNCHANGED <<doc, reservation, caf, flight, sale>>

(* Mutant of Commit: the next number stays where it was.                   *)
CommitSameNumber(d, state, used) ==
  LET c == flight[d] IN
    /\ doc' = [doc EXCEPT ![d].state = state, ![d].folio = caf[c].next, ![d].caf = c]
    /\ reservation' = [reservation EXCEPT ![d] = used]
    /\ flight' = [flight EXCEPT ![d] = NoCaf]
    /\ UNCHANGED <<caf, sent, sale>>

Commit(d, state, used) ==
  LET c == flight[d] IN
    /\ doc' = [doc EXCEPT ![d].state = state, ![d].folio = caf[c].next, ![d].caf = c]
    /\ caf' = [caf EXCEPT ![c].next = @ + 1,
                          ![c].status = IF caf[c].next + 1 > c.last THEN "EXHAUSTED" ELSE @]
    /\ reservation' = [reservation EXCEPT ![d] = used]
    /\ flight' = [flight EXCEPT ![d] = NoCaf]
    /\ UNCHANGED <<sent, sale>>

IssueSucceeds(d) ==
  /\ Locked(d)
  /\ <<doc[d].type, SignedFolio(d), d>> \in sent
  /\ Commit(d, "SUBMITTED", "CONSUMED")

IssueIsUncertain(d) == Locked(d) /\ Commit(d, "SEND_UNCERTAIN", "RESERVED")

(* Mutant of IssueRollsBack: the reservation was committed on its own.     *)
IssueLosesFolio(d) ==
  /\ Locked(d)
  /\ flight' = [flight EXCEPT ![d] = NoCaf]
  /\ caf' = [caf EXCEPT ![flight[d]].next = @ + 1]
  /\ UNCHANGED <<doc, reservation, sent, sale>>

IssueRollsBack(d) ==
  /\ Locked(d)
  /\ flight' = [flight EXCEPT ![d] = NoCaf]
  /\ UNCHANGED <<doc, reservation, caf, sent, sale>>

(***************************************************************************)
(* refresh_document_status.  The SII is asked by type and folio, so it     *)
(* accepts only a number it received; any other answer may come before it  *)
(* did.  An accepted note cancels what it refers to, in the same step.     *)
(***************************************************************************)
Answers == Accepted \cup {"PROCESSING", "REJECTED"}
SiiMaySay(d, answer) ==
  answer \in Accepted => \E x \in DocIds : <<doc[d].type, doc[d].folio, x>> \in sent

(* Mutant of Cancels: any note cancels, whatever its reason.               *)
CancelsByAnyNote(d, answer) ==
  /\ answer \in Accepted
  /\ doc[d].reason # ""
  /\ doc[doc[d].source].state \in Accepted

Cancels(d, answer) ==
  /\ answer \in Accepted
  /\ doc[d].reason \in CancelReasons
  /\ doc[doc[d].source].state \in Accepted

RefreshStatus(d, answer) ==
  /\ Exists(d)
  /\ doc[d].state \in {"SUBMITTED", "PROCESSING", "SEND_UNCERTAIN"}
  /\ SiiMaySay(d, answer)
  /\ IF Cancels(d, answer)
     THEN doc' = [doc EXCEPT ![d].state = answer,
                             ![doc[d].source].state = "CANCELLED_BY_REFERENCE",
                             ![doc[d].source].base = FALSE]
     ELSE doc' = [doc EXCEPT ![d].state = answer]
  /\ UNCHANGED <<reservation, caf, flight, sent, sale>>

DocNext(d) ==
  \/ \E s \in Sales, type \in BaseTypes \cap IssuedTypes : CreateBaseDocument(d, s, type)
  \/ ValidateDocument(d)
  \/ DiscardDocument(d)
  \/ \E x \in DocIds, reason \in Reasons : CreateCreditNote(d, x, reason)
  \/ \E x \in DocIds : CreateDebitNote(d, x)
  \/ IssueStarts(d)
  \/ SiiReceives(d)
  \/ IssueSucceeds(d)
  \/ IssueIsUncertain(d)
  \/ IssueRollsBack(d)
  \/ \E answer \in Answers : RefreshStatus(d, answer)

Next ==
  \/ \E s \in Sales : RecordPayment(s) \/ CancelSale(s) \/ ReversePosSale(s)
  \/ \E c \in Ranges : ImportCaf(c)
  \/ \E d \in DocIds : DocNext(d)

Spec == Init /\ [][Next]_vars

------------------------------------------------------------------------------
(***************************************************************************)
(* A sale has at most one invoice in force: the one flagged as active      *)
(* base, and every invoice is flagged until it is discarded or cancelled   *)
(* by a note, also while it waits for an answer and when it was rejected.  *)
(***************************************************************************)
InForce(d) ==
  Exists(d) /\ doc[d].type \in BaseTypes /\ doc[d].state \notin {"DISCARDED", "CANCELLED_BY_REFERENCE"}
OneActiveInvoice ==
  \A d \in DocIds :
    /\ Exists(d) => (doc[d].base <=> InForce(d))
    /\ \A x \in DocIds : InForce(d) /\ InForce(x) /\ doc[d].sale = doc[x].sale => d = x

(***************************************************************************)
(* No folio is lost: the numbers of an authorization below its next one    *)
(* are on documents of its type, one each, with a reservation; a failed    *)
(* issue leaves none behind, and an authorization is spent exactly when    *)
(* its last number is used.  And every variable keeps its type.            *)
(***************************************************************************)
DocsOf(c) == {d \in DocIds : Exists(d) /\ doc[d].caf = c}
FoliosAccountedFor ==
  /\ TypeOK
  /\ \A c \in Ranges : Imported(c) =>
       /\ {doc[d].folio : d \in DocsOf(c)} = c.first..(caf[c].next - 1)
       /\ Cardinality(DocsOf(c)) = caf[c].next - c.first
       /\ \A d \in DocsOf(c) : doc[d].type = c.type
       /\ caf[c].status = "EXHAUSTED" <=> caf[c].next > c.last
  /\ \A d \in DocIds : Exists(d) =>
       /\ doc[d].folio # 0 <=> doc[d].state \notin {"DRAFT", "READY", "DISCARDED"}
       /\ doc[d].folio # 0 <=> reservation[d] # "NONE"

(***************************************************************************)
(* Cancellation by reference and acceptance of a note go together: a       *)
(* cancelled document has a note that was accepted and cancels it, and     *)
(* what an accepted cancelling note refers to is cancelled, however many   *)
(* notes were drafted and in whatever order they were answered.            *)
(***************************************************************************)
WasAccepted(d) == Exists(d) /\ doc[d].state \in Accepted \cup {"CANCELLED_BY_REFERENCE"}
CancellationsAreBacked ==
  \A d \in DocIds : Exists(d) =>
    (doc[d].state = "CANCELLED_BY_REFERENCE" <=>
       \E x \in DocIds : WasAccepted(x) /\ doc[x].source = d /\ doc[x].reason \in CancelReasons)

(***************************************************************************)
(* The component implements its promise about folios.                      *)
(***************************************************************************)
Book == INSTANCE FolioBook WITH
  usable <- {c \in Ranges : Imported(c)},
  granted <- {<<doc[d].type, doc[d].folio, d>> : d \in {d \in DocIds : Exists(d) /\ doc[d].folio # 0}}
FolioBookSpec == Book!Spec

(***************************************************************************)
(* What the constraint uniq_dte_company_type_folio says, and the code does *)
(* not hold at the SII: a folio of a type names one document.              *)
(***************************************************************************)
FolioNamesOneDocument ==
  \A x, y \in sent : x[1] = y[1] /\ x[2] = y[2] => x[3] = y[3]
==============================================================================
