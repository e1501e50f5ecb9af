--------------------------- MODULE TaxDocumentsProofs ---------------------------
(***************************************************************************)
(* Proofs about module TaxDocuments, for any number of documents and sales *)
(* and any ranges of folios.                                               *)
(***************************************************************************)
EXTENDS TaxDocuments, FiniteSetTheorems, TLAPS

(* A document and the status of its folio reservation.                     *)
RowFits(row, res) ==
  /\ row.base <=> row.type \in BaseTypes /\ row.state \notin {"DISCARDED", "CANCELLED_BY_REFERENCE"}
  /\ row.folio # 0 <=> row.state \notin {"DRAFT", "READY", "DISCARDED"}
  /\ row.folio # 0 <=> res # "NONE"
  /\ row.folio # 0 <=> row.caf # NoCaf
  /\ row.reason # "" => row.source \in DocIds
RowsFit ==
  \A d \in DocIds : IF Exists(d) THEN RowFits(doc[d], reservation[d]) ELSE reservation[d] = "NONE"

(* An authorization is used up from its first number to its last, and      *)
(* those of one type do not overlap.                                       *)
CafsFit ==
  /\ \A c \in Ranges : Imported(c) =>
       /\ c.first <= c.last /\ c.first <= caf[c].next /\ caf[c].next <= c.last + 1
       /\ caf[c].status = "EXHAUSTED" <=> caf[c].next > c.last
  /\ \A c, x \in Ranges : Imported(c) /\ Imported(x) /\ c # x => ~Overlaps(c, x)

(* The numbers that are used up are on one document each.                  *)
Uses(d, c) == Exists(d) /\ doc[d].caf = c
UsesFit(d, c) == doc[d].type = c.type /\ doc[d].folio \in c.first..(caf[c].next - 1)
FoliosFit ==
  /\ \A c \in Ranges : \A d \in DocIds : Uses(d, c) => Imported(c) /\ UsesFit(d, c)
  /\ \A c \in Ranges : \A d, x \in DocIds :
       Uses(d, c) /\ Uses(x, c) /\ doc[d].folio = doc[x].folio => d = x
  /\ \A c \in Ranges : Imported(c) =>
       \A f \in c.first..(caf[c].next - 1) : \E d \in DocIds : Uses(d, c) /\ doc[d].folio = f

(* What an unfinished issue_document holds.                                *)
FlightFits(d, c) ==
  /\ Exists(d) /\ doc[d].state = "READY" /\ doc[d].type = c.type
  /\ Imported(c) /\ caf[c].next <= c.last
FlightsFit ==
  /\ \A c \in Ranges : \A d \in DocIds : flight[d] = c => FlightFits(d, c)
  /\ \A c \in Ranges : \A d, x \in DocIds : flight[d] = c /\ flight[x] = c => d = x

(* What a note refers to was accepted, and is accepted or cancelled since. *)
SourcesFit ==
  \A d \in DocIds : Exists(d) /\ doc[d].source \in DocIds => WasAccepted(doc[d].source)

(***************************************************************************)
(* None of the properties is inductive alone: which documents are in force *)
(* depends on what notes may cancel, and which folios are used on what the *)
(* unfinished calls hold.                                                  *)
(***************************************************************************)
Single == \A d, x \in DocIds : InForce(d) /\ InForce(x) /\ doc[d].sale = doc[x].sale => d = x
TaxInv ==
  /\ TypeOK /\ RowsFit /\ CafsFit /\ FoliosFit /\ FlightsFit
  /\ SourcesFit /\ CancellationsAreBacked /\ Single

LEMMA RangeTyped ==
  ASSUME NEW c \in Ranges
  PROVE  c.first \in Nat \ {0} /\ c.last \in Nat \ {0} /\ c.type \in Types /\ c # NoCaf
  BY RangesAssumption, NoCafAssumption DEF Types, BaseTypes

LEMMA DocTyped ==
  ASSUME TypeOK, NEW d \in DocIds, Exists(d)
  PROVE  doc[d] \in Documents
  BY DEF TypeOK, Exists

LEMMA CafTyped ==
  ASSUME TypeOK, NEW c \in Ranges, Imported(c)
  PROVE  caf[c] \in Authorizations /\ caf[c].next \in Nat
  BY DEF TypeOK, Imported, Authorizations

LEMMA TaxInvInit == Init => TaxInv
<1> SUFFICES ASSUME Init PROVE TaxInv
  OBVIOUS
<1> USE DEF Init
<1>1. TypeOK
  BY DEF TypeOK
<1>2. /\ \A d \in DocIds : ~Exists(d) /\ ~Locked(d)
      /\ \A c \in Ranges : ~Imported(c)
  BY DEF Exists, Locked, Imported
<1>3. RowsFit /\ CafsFit /\ FoliosFit /\ FlightsFit
  BY <1>2, NoCafAssumption DEF RowsFit, CafsFit, FoliosFit, Uses, FlightsFit
<1>4. SourcesFit /\ CancellationsAreBacked /\ Single
  BY <1>2 DEF SourcesFit, CancellationsAreBacked, Single, InForce
<1> QED
  BY <1>1, <1>3, <1>4 DEF TaxInv

------------------------------------------------------------------------------
(* Steps that leave the documents, or most of them, as they are.           *)
Kept(d) ==
  /\ Exists(d)' = Exists(d)
  /\ Exists(d) =>
       /\ doc'[d].type = doc[d].type /\ doc'[d].sale = doc[d].sale
       /\ doc'[d].source = doc[d].source /\ doc'[d].reason = doc[d].reason
SameFolio(d) == Exists(d) => doc'[d].folio = doc[d].folio /\ doc'[d].caf = doc[d].caf

LEMMA UsesKept ==
  ASSUME TaxInv, UNCHANGED caf,
         \A d \in DocIds, c \in Ranges :
           /\ Uses(d, c)' <=> Uses(d, c)
           /\ Uses(d, c) => doc'[d].folio = doc[d].folio /\ doc'[d].type = doc[d].type
  PROVE  FoliosFit'
<1>1. \A c : Imported(c)' = Imported(c)
  BY DEF Imported
<1>2. \A c \in Ranges : \A d \in DocIds : Uses(d, c)' => Imported(c)' /\ UsesFit(d, c)'
  BY <1>1 DEF TaxInv, FoliosFit, UsesFit
<1>3. \A c \in Ranges : \A d, x \in DocIds :
        Uses(d, c)' /\ Uses(x, c)' /\ doc'[d].folio = doc'[x].folio => d = x
  BY DEF TaxInv, FoliosFit
<1>4. \A c \in Ranges : Imported(c)' =>
        \A f \in c.first..(caf'[c].next - 1) : \E d \in DocIds : Uses(d, c)' /\ doc'[d].folio = f
  BY <1>1 DEF TaxInv, FoliosFit
<1> QED
  BY <1>2, <1>3, <1>4 DEF FoliosFit

LEMMA FoliosKept ==
  ASSUME TaxInv, \A d \in DocIds : Kept(d) /\ SameFolio(d), UNCHANGED caf
  PROVE  FoliosFit'
<1>1. \A d \in DocIds, c \in Ranges :
        /\ Uses(d, c)' <=> Uses(d, c)
        /\ Uses(d, c) => doc'[d].folio = doc[d].folio /\ doc'[d].type = doc[d].type
  BY DEF Kept, SameFolio, Uses
<1> QED
  BY <1>1, UsesKept

(* Notes, and what they cancel, when nothing is accepted or cancelled.     *)
LEMMA NotesKept ==
  ASSUME TaxInv,
         \A d \in DocIds : /\ Kept(d) /\ WasAccepted(d)' = WasAccepted(d)
                           /\ Exists(d) => (doc'[d].state = "CANCELLED_BY_REFERENCE"
                                              <=> doc[d].state = "CANCELLED_BY_REFERENCE")
  PROVE  SourcesFit' /\ CancellationsAreBacked'
<1>1. SourcesFit'
  BY DEF TaxInv, SourcesFit, Kept
<1>2. \A x \in DocIds : WasAccepted(x) => Exists(x)
  BY DEF WasAccepted
<1>3. CancellationsAreBacked'
  <2> SUFFICES ASSUME NEW d \in DocIds, Exists(d)'
               PROVE  doc'[d].state = "CANCELLED_BY_REFERENCE" <=>
                        \E x \in DocIds : WasAccepted(x)' /\ doc'[x].source = d /\ doc'[x].reason \in CancelReasons
    BY DEF CancellationsAreBacked
  <2>1. doc[d].state = "CANCELLED_BY_REFERENCE" <=>
          \E x \in DocIds : WasAccepted(x) /\ doc[x].source = d /\ doc[x].reason \in CancelReasons
    BY DEF TaxInv, CancellationsAreBacked, Kept
  <2>2. \A x \in DocIds : WasAccepted(x) => doc'[x].source = doc[x].source /\ doc'[x].reason = doc[x].reason
    BY <1>2 DEF Kept
  <2> QED
    BY <2>1, <2>2 DEF Kept
<1> QED
  BY <1>1, <1>3

LEMMA SingleKept ==
  ASSUME TaxInv, \A d \in DocIds : Kept(d) /\ (InForce(d)' => InForce(d))
  PROVE  Single'
  BY DEF TaxInv, Single, Kept, InForce

(* Steps in which documents change their states and flags only.            *)
LEMMA MovesFit ==
  ASSUME TaxInv, UNCHANGED <<reservation, caf, flight, sale>>, sent' \subseteq Types \X Folios \X DocIds,
         doc' \in [DocIds -> Documents \cup {NoDoc}],
         \A d \in DocIds :
           /\ Kept(d) /\ SameFolio(d)
           /\ Exists(d) => RowFits(doc'[d], reservation[d])
           /\ InForce(d)' => InForce(d)
           /\ Locked(d) => doc'[d].state = doc[d].state
  PROVE  TypeOK' /\ RowsFit' /\ CafsFit' /\ FoliosFit' /\ FlightsFit' /\ Single'
<1>1. TypeOK'
  BY DEF TaxInv, TypeOK
<1>2. RowsFit'
  BY DEF TaxInv, RowsFit, Kept
<1>3. CafsFit'
  BY DEF TaxInv, CafsFit, Imported
<1>4. FlightsFit'
  <2>1. \A c \in Ranges : c # NoCaf
    BY NoCafAssumption
  <2>2. \A d \in DocIds, c \in Ranges : flight[d] = c => FlightFits(d, c)'
    BY <2>1 DEF TaxInv, FlightsFit, FlightFits, Kept, Imported, Locked
  <2> QED
    BY <2>2 DEF TaxInv, FlightsFit
<1> QED
  BY <1>1, <1>2, <1>3, <1>4, FoliosKept, SingleKept

(* Steps that leave every document alone.                                  *)
LEMMA DocsKept ==
  ASSUME TaxInv, UNCHANGED doc
  PROVE  /\ \A d \in DocIds : Kept(d) /\ SameFolio(d) /\ InForce(d)' = InForce(d)
         /\ SourcesFit' /\ CancellationsAreBacked' /\ Single'
  BY DEF TaxInv, Kept, SameFolio, Exists, InForce, WasAccepted, SourcesFit, CancellationsAreBacked, Single

LEMMA TaxInvMoveSale ==
  ASSUME TaxInv, NEW s \in Sales, NEW new \in {"PAID", "CANCELLED"}, MoveSale(s, new)
  PROVE  TaxInv'
<1>1. UNCHANGED <<doc, reservation, caf, flight, sent>>
  BY DEF MoveSale
<1>2. TypeOK'
  BY <1>1 DEF MoveSale, TaxInv, TypeOK
<1>3. RowsFit' /\ CafsFit' /\ FlightsFit'
  BY <1>1 DEF TaxInv, RowsFit, CafsFit, FlightsFit, FlightFits, Exists, Imported
<1> QED
  BY <1>1, <1>2, <1>3, DocsKept, FoliosKept DEF TaxInv

LEMMA TaxInvSiiReceives ==
  ASSUME TaxInv, NEW d \in DocIds, SiiReceives(d)
  PROVE  TaxInv'
<1>1. /\ UNCHANGED <<doc, reservation, caf, flight, sale>> /\ Exists(d)
      /\ Locked(d) \/ reservation[d] = "RESERVED"
      /\ sent' = sent \cup {<<doc[d].type, SignedFolio(d), d>>}
  BY DEF SiiReceives
<1>2. doc[d] \in Documents
  BY <1>1, DocTyped DEF TaxInv
<1>3. SignedFolio(d) \in Folios
  <2>1. CASE Locked(d)
    <3>1. PICK c \in Ranges : flight[d] = c
      BY <2>1 DEF TaxInv, TypeOK, Locked
    <3>2. /\ c.first <= caf[c].next /\ caf[c].next <= c.last /\ caf[c].next \in Nat
          /\ c.first \in Nat /\ c.last \in Nat
      BY <3>1, CafTyped, RangeTyped DEF TaxInv, FlightsFit, FlightFits, CafsFit
    <3>3. caf[c].next \in c.first..c.last
      BY <3>2
    <3> QED
      BY <2>1, <3>1, <3>3 DEF SignedFolio, Folios
  <2>2. CASE ~Locked(d)
    <3>1. doc[d].folio \in Folios
      BY <1>1, <1>2, <2>2 DEF TaxInv, RowsFit, RowFits, Documents
    <3> QED
      BY <2>2, <3>1 DEF SignedFolio
  <2> QED
    BY <2>1, <2>2
<1>4. TypeOK'
  <2>1. PICK t : t = doc[d].type /\ t \in Types
    BY <1>2 DEF Documents
  <2>2. <<t, SignedFolio(d), d>> \in Types \X Folios \X DocIds
    BY <1>3, <2>1
  <2>3. sent' \subseteq Types \X Folios \X DocIds
    BY <1>1, <2>1, <2>2 DEF TaxInv, TypeOK
  <2> QED
    BY <1>1, <2>3 DEF TaxInv, TypeOK
<1>5. RowsFit' /\ CafsFit' /\ FlightsFit'
  BY <1>1 DEF TaxInv, RowsFit, CafsFit, FlightsFit, FlightFits, Exists, Imported
<1> QED
  BY <1>1, <1>4, <1>5, DocsKept, FoliosKept DEF TaxInv

LEMMA TaxInvIssueStarts ==
  ASSUME TaxInv, NEW d \in DocIds, IssueStarts(d)
  PROVE  TaxInv'
<1>1. PICK c \in Ranges : /\ Lowest(c, doc[d].type) /\ ~CafLocked(c)
                          /\ flight' = [flight EXCEPT ![d] = c]
  BY DEF IssueStarts
<1>2. UNCHANGED <<doc, reservation, caf, sent, sale>> /\ Exists(d) /\ doc[d].state = "READY"
  BY DEF IssueStarts
<1>3. TypeOK'
  BY <1>1, <1>2 DEF TaxInv, TypeOK
<1>4. RowsFit' /\ CafsFit'
  BY <1>2 DEF TaxInv, RowsFit, CafsFit, Exists, Imported
<1>5. FlightsFit'
  <2>1. FlightFits(d, c)
    BY <1>1, <1>2 DEF Lowest, Usable, FlightFits
  <2>2. \A x : flight'[x] = c /\ x \in DocIds => x = d
    BY <1>1 DEF CafLocked, TaxInv, TypeOK
  <2>3. \A x \in DocIds : x # d => flight'[x] = flight[x]
    BY <1>1 DEF TaxInv, TypeOK
  <2>4. flight'[d] = c
    BY <1>1 DEF TaxInv, TypeOK
  <2>5. \A x, e : FlightFits(x, e)' = FlightFits(x, e)
    BY <1>2 DEF FlightFits, Exists, Imported
  <2> QED
    BY <2>1, <2>2, <2>3, <2>4, <2>5 DEF TaxInv, FlightsFit
<1> QED
  BY <1>2, <1>3, <1>4, <1>5, DocsKept, FoliosKept DEF TaxInv

LEMMA TaxInvIssueRollsBack ==
  ASSUME TaxInv, NEW d \in DocIds, IssueRollsBack(d)
  PROVE  TaxInv'
<1>1. UNCHANGED <<doc, reservation, caf, sent, sale>> /\ flight' = [flight EXCEPT ![d] = NoCaf]
  BY DEF IssueRollsBack
<1>2. TypeOK'
  BY <1>1 DEF TaxInv, TypeOK
<1>3. RowsFit' /\ CafsFit'
  BY <1>1 DEF TaxInv, RowsFit, CafsFit, Exists, Imported
<1>4. FlightsFit'
  <2>1. \A x \in DocIds, c \in Ranges : flight'[x] = c => flight[x] = c
    BY <1>1, NoCafAssumption DEF TaxInv, TypeOK
  <2>2. \A x, e : FlightFits(x, e)' = FlightFits(x, e)
    BY <1>1 DEF FlightFits, Exists, Imported
  <2> QED
    BY <2>1, <2>2 DEF TaxInv, FlightsFit
<1> QED
  BY <1>1, <1>2, <1>3, <1>4, DocsKept, FoliosKept DEF TaxInv

LEMMA TaxInvImportCaf ==
  ASSUME TaxInv, NEW c \in Ranges, ImportCaf(c)
  PROVE  TaxInv'
<1>1. PICK new : new = [next |-> c.first, status |-> "ACTIVE"]
  OBVIOUS
<1>2. /\ c.first <= c.last /\ \A x \in Ranges : Imported(x) => ~Overlaps(c, x)
      /\ caf' = [caf EXCEPT ![c] = new]
      /\ UNCHANGED <<doc, reservation, flight, sent, sale>>
  BY <1>1 DEF ImportCaf
<1>3. /\ c.first \in Nat /\ c.last \in Nat /\ new \in Authorizations /\ new # NoCaf
      /\ new.next = c.first /\ new.status = "ACTIVE"
  BY <1>1, RangeTyped, NoCafAssumption DEF Authorizations
<1>4. ~Imported(c)
  BY <1>2, <1>3 DEF Overlaps
<1>5. /\ \A x \in Ranges : x # c => caf'[x] = caf[x]
      /\ caf'[c] = new /\ TypeOK'
  BY <1>2, <1>3 DEF TaxInv, TypeOK
<1>6. \A x \in Ranges : /\ Imported(x) => Imported(x)' /\ caf'[x] = caf[x]
                        /\ x # c => Imported(x)' = Imported(x)
  BY <1>4, <1>5 DEF Imported
<1>7. RowsFit'
  BY <1>2 DEF TaxInv, RowsFit, Exists
<1>8. CafsFit'
  <2>1. \A x \in Ranges : Imported(x)' =>
       /\ x.first <= x.last /\ x.first <= caf'[x].next /\ caf'[x].next <= x.last + 1
       /\ caf'[x].status = "EXHAUSTED" <=> caf'[x].next > x.last
    BY <1>2, <1>3, <1>5, <1>6 DEF TaxInv, CafsFit
  <2>2. \A e, x \in Ranges : Imported(e)' /\ Imported(x)' /\ e # x => ~Overlaps(e, x)
    <3>1. \A x \in Ranges : Overlaps(x, c) => Overlaps(c, x)
      BY DEF Overlaps
    <3> QED
      BY <1>2, <1>6, <3>1 DEF TaxInv, CafsFit
  <2> QED
    BY <2>1, <2>2 DEF CafsFit
<1>9. FoliosFit'
  <2>1. \A d \in DocIds, x \in Ranges : Uses(d, x)' = Uses(d, x) /\ (Uses(d, x) => x # c)
    BY <1>2, <1>4 DEF Uses, Exists, TaxInv, FoliosFit
  <2>2. \A d \in DocIds, x \in Ranges : x # c => UsesFit(d, x)' = UsesFit(d, x)
    BY <1>2, <1>5 DEF UsesFit
  <2>3. \A x \in Ranges : Imported(x)' =>
          \A f \in x.first..(caf'[x].next - 1) : \E d \in DocIds : Uses(d, x) /\ doc[d].folio = f
    <3> SUFFICES ASSUME NEW x \in Ranges, Imported(x)', NEW f \in x.first..(caf'[x].next - 1)
                 PROVE  \E d \in DocIds : Uses(d, x) /\ doc[d].folio = f
      OBVIOUS
    <3>1. x # c
      BY <1>3, <1>5
    <3> QED
      BY <1>5, <1>6, <3>1 DEF TaxInv, FoliosFit
  <2> QED
    BY <1>2, <1>6, <2>1, <2>2, <2>3 DEF TaxInv, FoliosFit
<1>10. FlightsFit'
  <2>1. \A d \in DocIds, x \in Ranges : flight[d] = x => FlightFits(d, x)'
    BY <1>2, <1>6 DEF FlightFits, Exists, TaxInv, FlightsFit
  <2> QED
    BY <1>2, <2>1 DEF TaxInv, FlightsFit
<1> QED
  BY <1>2, <1>5, <1>7, <1>8, <1>9, <1>10, DocsKept DEF TaxInv

LEMMA FlagTyped ==
  ASSUME NEW type
  PROVE  (type \in BaseTypes) \in BOOLEAN
  BY SMT

LEMMA NewRowTyped ==
  ASSUME NEW s \in Sales, NEW type \in Types, NEW base \in BOOLEAN,
         NEW source \in DocIds \cup {NoDoc}, NEW reason \in Reasons \cup {""}
  PROVE  [sale |-> s, type |-> type, state |-> "DRAFT", base |-> base,
          folio |-> 0, caf |-> NoCaf, source |-> source, reason |-> reason] \in Documents
  BY DEF Documents, States

LEMMA TaxInvNewDocument ==
  ASSUME TaxInv, NEW d \in DocIds, ~Exists(d), NEW s \in Sales, NEW type \in Types,
         NEW source \in DocIds \cup {NoDoc}, NEW reason \in Reasons \cup {""},
         NewDocument(d, s, type, source, reason),
         reason # "" => source \in DocIds,
         source \in DocIds => WasAccepted(source),
         type \in BaseTypes => ~\E x \in DocIds : Exists(x) /\ doc[x].sale = s /\ doc[x].base
  PROVE  TaxInv'
<1>1. PICK row : row = [sale |-> s, type |-> type, state |-> "DRAFT", base |-> type \in BaseTypes,
                        folio |-> 0, caf |-> NoCaf, source |-> source, reason |-> reason]
  OBVIOUS
<1>2. doc' = [doc EXCEPT ![d] = row] /\ UNCHANGED <<reservation, caf, flight, sent, sale>>
  BY <1>1 DEF NewDocument
<1>3. row \in Documents
  <2>1. (type \in BaseTypes) \in BOOLEAN
    BY FlagTyped, Zenon
  <2>2. [sale |-> s, type |-> type, state |-> "DRAFT", base |-> type \in BaseTypes,
         folio |-> 0, caf |-> NoCaf, source |-> source, reason |-> reason] \in Documents
    BY <2>1, NewRowTyped, Zenon
  <2> QED
    BY <1>1, <2>2, Zenon
<1>4. /\ row.type = type /\ row.sale = s /\ row.state = "DRAFT" /\ (row.base <=> type \in BaseTypes)
      /\ row.folio = 0 /\ row.caf = NoCaf /\ row.source = source /\ row.reason = reason
      /\ row # NoDoc
  BY <1>1, <1>3, NoDocAssumption
<1>5. \A x \in DocIds : doc'[x] = IF x = d THEN row ELSE doc[x]
  BY <1>2 DEF TaxInv, TypeOK
<1>6. TypeOK'
  BY <1>2, <1>3 DEF TaxInv, TypeOK
<1>7. /\ \A x \in DocIds : x # d => Exists(x)' = Exists(x)
      /\ Exists(d)'
      /\ \A c : Imported(c)' = Imported(c)
  BY <1>2, <1>4, <1>5 DEF Exists, Imported
<1>8. RowsFit'
  <2>1. RowFits(row, reservation[d])
    BY <1>4, <1>3 DEF TaxInv, RowsFit, RowFits
  <2>2. \A x \in DocIds : x # d => (Exists(x)' = Exists(x) /\ doc'[x] = doc[x])
    BY <1>5, <1>7
  <2> QED
    BY <1>2, <1>5, <1>7, <2>1, <2>2 DEF TaxInv, RowsFit
<1>9. CafsFit'
  BY <1>2, <1>7 DEF TaxInv, CafsFit
<1>10. FoliosFit'
  <2>1. \A x \in DocIds, c \in Ranges :
          /\ Uses(x, c)' <=> Uses(x, c)
          /\ Uses(x, c) => doc'[x].folio = doc[x].folio /\ doc'[x].type = doc[x].type
    BY <1>4, <1>5, <1>7, NoCafAssumption DEF Uses
  <2> QED
    BY <1>2, <2>1, UsesKept
<1>11. FlightsFit'
  <2>1. \A x \in DocIds, c \in Ranges : FlightFits(x, c) => FlightFits(x, c)'
    BY <1>2, <1>5, <1>7 DEF FlightFits
  <2> QED
    BY <1>2, <2>1 DEF TaxInv, FlightsFit
<1>12. \A x \in DocIds : WasAccepted(x)' = WasAccepted(x) /\ (WasAccepted(x) => x # d /\ Exists(x))
  BY <1>4, <1>5, <1>7 DEF WasAccepted, Accepted
<1>13. SourcesFit'
  BY <1>4, <1>5, <1>7, <1>12 DEF TaxInv, SourcesFit
<1>14. CancellationsAreBacked'
  <2> SUFFICES ASSUME NEW x \in DocIds, Exists(x)'
               PROVE  doc'[x].state = "CANCELLED_BY_REFERENCE" <=>
                        \E y \in DocIds : WasAccepted(y)' /\ doc'[y].source = x /\ doc'[y].reason \in CancelReasons
    BY DEF CancellationsAreBacked
  <2>1. CASE x = d
    BY <1>4, <1>5, <1>12, <2>1, ZenonT(60) DEF TaxInv, SourcesFit
  <2>2. CASE x # d
    BY <1>5, <1>7, <1>12, <2>2, ZenonT(60) DEF TaxInv, CancellationsAreBacked
  <2> QED
    BY <2>1, <2>2
<1>15. Single'
  <2>1. \A x \in DocIds : x # d => InForce(x)' = InForce(x) /\ doc'[x].sale = doc[x].sale
    BY <1>5, <1>7 DEF InForce
  <2>2. \A x \in DocIds : InForce(d)' /\ InForce(x) => doc[x].sale # s
    <3>1. InForce(d)' => type \in BaseTypes
      BY <1>4, <1>5 DEF InForce
    <3>2. \A x \in DocIds : InForce(x) => Exists(x) /\ doc[x].base
      BY DEF TaxInv, RowsFit, RowFits, InForce
    <3> QED
      BY <3>1, <3>2
  <2>3. doc'[d].sale = s
    BY <1>4, <1>5
  <2> QED
    BY <2>1, <2>2, <2>3 DEF TaxInv, Single
<1> QED
  BY <1>6, <1>8, <1>9, <1>10, <1>11, <1>13, <1>14, <1>15 DEF TaxInv

LEMMA TaxInvCreateBaseDocument ==
  ASSUME TaxInv, NEW d \in DocIds, NEW s \in Sales, NEW type \in BaseTypes, CreateBaseDocument(d, s, type)
  PROVE  TaxInv'
  BY TaxInvNewDocument, NoDocAssumption DEF CreateBaseDocument, Types

LEMMA TaxInvCreateNote ==
  ASSUME TaxInv, NEW d \in DocIds, NEW x \in DocIds, NEW reason \in Reasons,
         CreateCreditNote(d, x, reason) \/ CreateDebitNote(d, x)
  PROVE  TaxInv'
<1>1. ~Exists(d) /\ WasAccepted(x) /\ doc[x] \in Documents
  BY DocTyped DEF CreateCreditNote, CreateDebitNote, WasAccepted, TaxInv
<1>2. doc[x].sale \in Sales
  BY <1>1 DEF Documents
<1>3. /\ {"CREDIT_NOTE", "DEBIT_NOTE"} \subseteq Types
      /\ "CREDIT_NOTE" \notin BaseTypes /\ "DEBIT_NOTE" \notin BaseTypes
      /\ "CANCEL_CREDIT_NOTE" \in Reasons
  BY DEF Types, BaseTypes, Reasons, CancelReasons
<1>4. CASE CreateCreditNote(d, x, reason)
  <2>1. NewDocument(d, doc[x].sale, "CREDIT_NOTE", x, reason)
    BY <1>4 DEF CreateCreditNote
  <2> QED
    BY <1>1, <1>2, <1>3, <2>1, TaxInvNewDocument
<1>5. CASE CreateDebitNote(d, x)
  <2>1. NewDocument(d, doc[x].sale, "DEBIT_NOTE", x, "CANCEL_CREDIT_NOTE")
    BY <1>5 DEF CreateDebitNote
  <2> QED
    BY <1>1, <1>2, <1>3, <2>1, TaxInvNewDocument
<1> QED
  BY <1>4, <1>5


LEMMA TaxInvValidateDocument ==
  ASSUME TaxInv, NEW d \in DocIds, ValidateDocument(d)
  PROVE  TaxInv' /\ \A x \in DocIds : Kept(x) /\ SameFolio(x)
<1>1. PICK row : row = [doc[d] EXCEPT !.state = "READY"]
  OBVIOUS
<1>2. /\ Exists(d) /\ ~Locked(d) /\ doc[d].state = "DRAFT"
      /\ doc' = [doc EXCEPT ![d] = row]
      /\ UNCHANGED <<reservation, caf, flight, sent, sale>>
  BY <1>1, Zenon DEF ValidateDocument
<1>3. doc[d] \in Documents
  BY <1>2, DocTyped DEF TaxInv
<1>4. row \in Documents /\ row # NoDoc
  BY <1>1, <1>3, NoDocAssumption, ZenonT(60) DEF Documents, States
<1>5. /\ row.state = "READY" /\ row.base = doc[d].base /\ row.type = doc[d].type
      /\ row.sale = doc[d].sale /\ row.folio = doc[d].folio /\ row.caf = doc[d].caf
      /\ row.source = doc[d].source /\ row.reason = doc[d].reason
  BY <1>1, <1>3 DEF Documents
<1>6. \A x \in DocIds : doc'[x] = IF x = d THEN row ELSE doc[x]
  BY <1>2 DEF TaxInv, TypeOK
<1>7. doc' \in [DocIds -> Documents \cup {NoDoc}]
  BY <1>2, <1>4 DEF TaxInv, TypeOK
<1>8. \A x \in DocIds : Kept(x) /\ SameFolio(x)
  BY <1>2, <1>4, <1>5, <1>6 DEF Kept, SameFolio, Exists
<1>9. RowFits(row, reservation[d])
  BY <1>2, <1>5 DEF TaxInv, RowsFit, RowFits
<1>10. \A x \in DocIds : /\ Exists(x) => RowFits(doc'[x], reservation[x])
                         /\ InForce(x)' => InForce(x)
                         /\ Locked(x) => doc'[x].state = doc[x].state
                         /\ WasAccepted(x)' = WasAccepted(x)
                         /\ Exists(x) => (doc'[x].state = "CANCELLED_BY_REFERENCE"
                                            <=> doc[x].state = "CANCELLED_BY_REFERENCE")
  BY <1>2, <1>4, <1>5, <1>6, <1>9 DEF TaxInv, RowsFit, InForce, WasAccepted, Exists, Accepted
<1>11. sent' \subseteq Types \X Folios \X DocIds
  BY <1>2 DEF TaxInv, TypeOK
<1> QED
  BY <1>2, <1>7, <1>8, <1>10, <1>11, MovesFit, NotesKept DEF TaxInv

LEMMA TaxInvDiscardDocument ==
  ASSUME TaxInv, NEW d \in DocIds, DiscardDocument(d)
  PROVE  TaxInv' /\ \A x \in DocIds : Kept(x) /\ SameFolio(x)
<1>1. PICK row : row = [doc[d] EXCEPT !.state = "DISCARDED", !.base = FALSE]
  OBVIOUS
<1>2. /\ Exists(d) /\ ~Locked(d) /\ doc[d].state \in {"DRAFT", "READY"}
      /\ UNCHANGED <<reservation, caf, flight, sent, sale>>
  BY DEF DiscardDocument
<1>3. doc[d] \in Documents
  BY <1>2, DocTyped DEF TaxInv
<1>4. row \in Documents /\ row # NoDoc
  BY <1>1, <1>3, NoDocAssumption, ZenonT(60) DEF Documents, States
<1>5. /\ row.state = "DISCARDED" /\ row.base = FALSE /\ row.type = doc[d].type
      /\ row.sale = doc[d].sale /\ row.folio = doc[d].folio /\ row.caf = doc[d].caf
      /\ row.source = doc[d].source /\ row.reason = doc[d].reason
  BY <1>1, <1>3 DEF Documents
<1>6. doc' = [doc EXCEPT ![d] = row]
  <2>1. doc' = [doc EXCEPT ![d].state = "DISCARDED", ![d].base = FALSE]
    BY DEF DiscardDocument
  <2> QED
    BY <1>1, <2>1 DEF TaxInv, TypeOK
<1>7. \A x \in DocIds : doc'[x] = IF x = d THEN row ELSE doc[x]
  BY <1>6 DEF TaxInv, TypeOK
<1>8. doc' \in [DocIds -> Documents \cup {NoDoc}]
  BY <1>4, <1>6 DEF TaxInv, TypeOK
<1>9. \A x \in DocIds : Kept(x) /\ SameFolio(x)
  BY <1>2, <1>4, <1>5, <1>7 DEF Kept, SameFolio, Exists
<1>10. RowFits(row, reservation[d])
  BY <1>2, <1>5 DEF TaxInv, RowsFit, RowFits
<1>11. \A x \in DocIds : /\ Exists(x) => RowFits(doc'[x], reservation[x])
                         /\ InForce(x)' => InForce(x)
                         /\ Locked(x) => doc'[x].state = doc[x].state
                         /\ WasAccepted(x)' = WasAccepted(x)
                         /\ Exists(x) => (doc'[x].state = "CANCELLED_BY_REFERENCE"
                                            <=> doc[x].state = "CANCELLED_BY_REFERENCE")
  BY <1>2, <1>4, <1>5, <1>7, <1>10 DEF TaxInv, RowsFit, InForce, WasAccepted, Exists, Accepted
<1>12. sent' \subseteq Types \X Folios \X DocIds
  BY <1>2 DEF TaxInv, TypeOK
<1> QED
  BY <1>2, <1>8, <1>9, <1>11, <1>12, MovesFit, NotesKept DEF TaxInv

(* An answer of the SII, alone or with what it cancels.                    *)
LEMMA AnswerArrives ==
  ASSUME TaxInv, NEW d \in DocIds, NEW answer \in Answers, RefreshStatus(d, answer)
  PROVE  /\ doc[d] \in Documents /\ Exists(d) /\ ~Locked(d)
         /\ doc[d].state \in {"SUBMITTED", "PROCESSING", "SEND_UNCERTAIN"}
         /\ answer \in States /\ answer \notin {"DRAFT", "READY", "DISCARDED", "CANCELLED_BY_REFERENCE"}
         /\ UNCHANGED <<reservation, caf, flight, sent, sale>>
<1>1. Exists(d) /\ doc[d].state \in {"SUBMITTED", "PROCESSING", "SEND_UNCERTAIN"}
  BY DEF RefreshStatus
<1>2. ~Locked(d)
  BY <1>1 DEF TaxInv, TypeOK, Locked, FlightsFit, FlightFits
<1> QED
  BY <1>1, <1>2, DocTyped DEF RefreshStatus, Answers, Accepted, States, TaxInv

LEMMA TaxInvAnswer ==
  ASSUME TaxInv, NEW d \in DocIds, NEW answer \in Answers, RefreshStatus(d, answer), ~Cancels(d, answer)
  PROVE  TaxInv' /\ \A x \in DocIds : Kept(x) /\ SameFolio(x)
<1>1. PICK row : row = [doc[d] EXCEPT !.state = answer]
  OBVIOUS
<1>2. /\ doc[d] \in Documents /\ Exists(d) /\ ~Locked(d)
      /\ doc[d].state \in {"SUBMITTED", "PROCESSING", "SEND_UNCERTAIN"}
      /\ answer \in States /\ answer \notin {"DRAFT", "READY", "DISCARDED", "CANCELLED_BY_REFERENCE"}
      /\ UNCHANGED <<reservation, caf, flight, sent, sale>>
  BY AnswerArrives
<1>3. row \in Documents /\ row # NoDoc
  BY <1>1, <1>2, NoDocAssumption DEF Documents
<1>4. /\ row.state = answer /\ row.base = doc[d].base /\ row.type = doc[d].type
      /\ row.sale = doc[d].sale /\ row.folio = doc[d].folio /\ row.caf = doc[d].caf
      /\ row.source = doc[d].source /\ row.reason = doc[d].reason
  BY <1>1, <1>2 DEF Documents
<1>5. doc' = [doc EXCEPT ![d] = row]
  BY <1>1, Zenon DEF RefreshStatus
<1>6. \A x \in DocIds : doc'[x] = IF x = d THEN row ELSE doc[x]
  BY <1>5 DEF TaxInv, TypeOK
<1>7. doc' \in [DocIds -> Documents \cup {NoDoc}]
  BY <1>3, <1>5 DEF TaxInv, TypeOK
<1>8. \A x \in DocIds : Kept(x) /\ SameFolio(x)
  BY <1>2, <1>3, <1>4, <1>6 DEF Kept, SameFolio, Exists
<1>9. RowFits(row, reservation[d])
  BY <1>2, <1>4 DEF TaxInv, RowsFit, RowFits
<1>10. \A x \in DocIds : /\ Exists(x) => RowFits(doc'[x], reservation[x])
                         /\ InForce(x)' => InForce(x)
                         /\ Locked(x) => doc'[x].state = doc[x].state
  BY <1>2, <1>3, <1>4, <1>6, <1>9 DEF TaxInv, RowsFit, InForce, Exists
<1>11. sent' \subseteq Types \X Folios \X DocIds
  BY <1>2 DEF TaxInv, TypeOK
<1>12. TypeOK' /\ RowsFit' /\ CafsFit' /\ FoliosFit' /\ FlightsFit' /\ Single'
  BY <1>2, <1>7, <1>8, <1>10, <1>11, MovesFit
<1>13. /\ \A x \in DocIds : x # d => WasAccepted(x)' = WasAccepted(x)
       /\ \A x \in DocIds : Exists(x) => (doc'[x].state = "CANCELLED_BY_REFERENCE"
                                            <=> doc[x].state = "CANCELLED_BY_REFERENCE")
       /\ ~WasAccepted(d)
       /\ WasAccepted(d)' <=> answer \in Accepted
  BY <1>2, <1>3, <1>4, <1>6 DEF WasAccepted, Exists, Accepted
<1>14. SourcesFit'
  BY <1>8, <1>13 DEF TaxInv, SourcesFit, Kept
<1>15. CancellationsAreBacked'
  <2> SUFFICES ASSUME NEW x \in DocIds, Exists(x)'
               PROVE  doc'[x].state = "CANCELLED_BY_REFERENCE" <=>
                        \E y \in DocIds : WasAccepted(y)' /\ doc'[y].source = x /\ doc'[y].reason \in CancelReasons
    BY DEF CancellationsAreBacked
  <2>1. doc[x].state = "CANCELLED_BY_REFERENCE" <=>
          \E y \in DocIds : WasAccepted(y) /\ doc[y].source = x /\ doc[y].reason \in CancelReasons
    BY <1>8 DEF TaxInv, CancellationsAreBacked, Kept
  <2>2. \A y \in DocIds : WasAccepted(y) \/ y = d =>
          doc'[y].source = doc[y].source /\ doc'[y].reason = doc[y].reason
    BY <1>2, <1>8 DEF Kept, WasAccepted
  <2>3. answer \in Accepted /\ doc[d].reason \in CancelReasons /\ doc[d].source = x =>
          doc[x].state = "CANCELLED_BY_REFERENCE"
    <3>1. doc[d].source = x => WasAccepted(x)
      BY <1>2 DEF TaxInv, SourcesFit
    <3> QED
      BY <3>1 DEF Cancels, WasAccepted
  <2> QED
    BY <1>8, <1>13, <2>1, <2>2, <2>3 DEF Kept
<1> QED
  BY <1>8, <1>12, <1>14, <1>15 DEF TaxInv

LEMMA TaxInvCancellingAnswer ==
  ASSUME TaxInv, NEW d \in DocIds, NEW answer \in Answers, RefreshStatus(d, answer), Cancels(d, answer)
  PROVE  TaxInv' /\ \A x \in DocIds : Kept(x) /\ SameFolio(x)
<1>1. PICK n : n = doc[d].source
  OBVIOUS
<1>2. /\ doc[d] \in Documents /\ Exists(d) /\ ~Locked(d)
      /\ doc[d].state \in {"SUBMITTED", "PROCESSING", "SEND_UNCERTAIN"}
      /\ answer \in States /\ answer \notin {"DRAFT", "READY", "DISCARDED", "CANCELLED_BY_REFERENCE"}
      /\ UNCHANGED <<reservation, caf, flight, sent, sale>>
  BY AnswerArrives
<1>3. answer \in Accepted /\ doc[d].reason \in CancelReasons /\ doc[n].state \in Accepted
  BY <1>1 DEF Cancels
<1>4. n \in DocIds
  BY <1>1, <1>2, <1>3 DEF TaxInv, RowsFit, RowFits, CancelReasons
<1>5. WasAccepted(n) /\ Exists(n) /\ n # d
  BY <1>1, <1>2, <1>3, <1>4 DEF TaxInv, SourcesFit, WasAccepted, Accepted
<1>6. doc[n] \in Documents /\ ~Locked(n)
  BY <1>3, <1>4, <1>5, DocTyped DEF TaxInv, TypeOK, Locked, FlightsFit, FlightFits, Accepted
<1>7. PICK row : row = [doc[d] EXCEPT !.state = answer]
  OBVIOUS
<1>8. PICK old : old = [doc[n] EXCEPT !.state = "CANCELLED_BY_REFERENCE", !.base = FALSE]
  OBVIOUS
<1>9. /\ row \in Documents /\ row # NoDoc /\ old \in Documents /\ old # NoDoc
  <2>1. row \in Documents
    BY <1>2, <1>7 DEF Documents
  <2>2. old \in Documents
    BY <1>6, <1>8 DEF Documents, States
  <2> QED
    BY <2>1, <2>2, NoDocAssumption
<1>10. /\ row.state = answer /\ row.base = doc[d].base /\ row.type = doc[d].type
       /\ row.sale = doc[d].sale /\ row.folio = doc[d].folio /\ row.caf = doc[d].caf
       /\ row.source = doc[d].source /\ row.reason = doc[d].reason
  BY <1>2, <1>7 DEF Documents
<1>11. /\ old.state = "CANCELLED_BY_REFERENCE" /\ old.base = FALSE /\ old.type = doc[n].type
       /\ old.sale = doc[n].sale /\ old.folio = doc[n].folio /\ old.caf = doc[n].caf
       /\ old.source = doc[n].source /\ old.reason = doc[n].reason
  BY <1>6, <1>8 DEF Documents
<1>12. doc' = [doc EXCEPT ![d] = row, ![n] = old]
  <2>1. doc' = [doc EXCEPT ![d].state = answer, ![n].state = "CANCELLED_BY_REFERENCE", ![n].base = FALSE]
    BY <1>1 DEF RefreshStatus
  <2> QED
    BY <1>4, <1>5, <1>7, <1>8, <2>1 DEF TaxInv, TypeOK
<1>13. \A x \in DocIds : doc'[x] = IF x = d THEN row ELSE IF x = n THEN old ELSE doc[x]
  BY <1>4, <1>5, <1>12 DEF TaxInv, TypeOK
<1>14. doc' \in [DocIds -> Documents \cup {NoDoc}]
  BY <1>9, <1>12 DEF TaxInv, TypeOK
<1>15. \A x \in DocIds : Kept(x) /\ SameFolio(x)
  BY <1>2, <1>5, <1>9, <1>10, <1>11, <1>13 DEF Kept, SameFolio, Exists
<1>16. RowFits(row, reservation[d])
  BY <1>2, <1>10 DEF TaxInv, RowsFit, RowFits
<1>17. RowFits(old, reservation[n])
  BY <1>3, <1>4, <1>5, <1>11 DEF TaxInv, RowsFit, RowFits, Accepted
<1>18. \A x \in DocIds : /\ Exists(x) => RowFits(doc'[x], reservation[x])
                         /\ InForce(x)' => InForce(x)
                         /\ Locked(x) => doc'[x].state = doc[x].state
  BY <1>2, <1>6, <1>9, <1>10, <1>11, <1>13, <1>16, <1>17 DEF TaxInv, RowsFit, InForce, Exists
<1>19. sent' \subseteq Types \X Folios \X DocIds
  BY <1>2 DEF TaxInv, TypeOK
<1>20. TypeOK' /\ RowsFit' /\ CafsFit' /\ FoliosFit' /\ FlightsFit' /\ Single'
  BY <1>2, <1>14, <1>15, <1>18, <1>19, MovesFit
<1>21. /\ \A x \in DocIds : x # d => WasAccepted(x)' = WasAccepted(x)
       /\ ~WasAccepted(d) /\ WasAccepted(d)'
  BY <1>2, <1>3, <1>5, <1>9, <1>10, <1>11, <1>13 DEF WasAccepted, Exists, Accepted
<1>22. /\ \A x \in DocIds \ {n} : Exists(x) => (doc'[x].state = "CANCELLED_BY_REFERENCE"
                                            <=> doc[x].state = "CANCELLED_BY_REFERENCE")
       /\ doc'[n].state = "CANCELLED_BY_REFERENCE"
  BY <1>2, <1>4, <1>5, <1>9, <1>10, <1>11, <1>13 DEF Exists
<1>23. SourcesFit'
  BY <1>15, <1>21 DEF TaxInv, SourcesFit, Kept
<1>24. CancellationsAreBacked'
  <2> SUFFICES ASSUME NEW x \in DocIds, Exists(x)'
               PROVE  doc'[x].state = "CANCELLED_BY_REFERENCE" <=>
                        \E y \in DocIds : WasAccepted(y)' /\ doc'[y].source = x /\ doc'[y].reason \in CancelReasons
    BY DEF CancellationsAreBacked
  <2>1. doc'[d].source = n /\ doc'[d].reason \in CancelReasons
    BY <1>1, <1>3, <1>10, <1>13
  <2>2. CASE x = n
    BY <1>21, <1>22, <2>1, <2>2
  <2>3. CASE x # n
    <3>1. doc[x].state = "CANCELLED_BY_REFERENCE" <=>
            \E y \in DocIds : WasAccepted(y) /\ doc[y].source = x /\ doc[y].reason \in CancelReasons
      BY <1>15 DEF TaxInv, CancellationsAreBacked, Kept
    <3>2. \A y \in DocIds : WasAccepted(y) =>
            doc'[y].source = doc[y].source /\ doc'[y].reason = doc[y].reason
      BY <1>15 DEF Kept, WasAccepted
    <3> QED
      BY <1>15, <1>21, <1>22, <2>1, <2>3, <3>1, <3>2 DEF Kept
  <2> QED
    BY <2>2, <2>3
<1> QED
  BY <1>15, <1>20, <1>23, <1>24 DEF TaxInv

(* issue_document commits: folio f of c goes to d.                         *)
CommitsTo(d, state, used, c, f, row, new) ==
  /\ flight[d] = c /\ f = caf[c].next
  /\ Exists(d) /\ doc[d].state = "READY" /\ doc[d].type = c.type
  /\ Imported(c) /\ f <= c.last
  /\ c # NoCaf /\ f \in Nat \ {0} /\ c.first \in Nat /\ c.last \in Nat /\ c.first <= f
  /\ doc[d].folio = 0 /\ doc[d].caf = NoCaf
  /\ row # NoDoc /\ row.state = state /\ row.base = doc[d].base /\ row.type = doc[d].type
  /\ row.sale = doc[d].sale /\ row.folio = f /\ row.caf = c
  /\ row.source = doc[d].source /\ row.reason = doc[d].reason
  /\ new # NoCaf /\ new.next = f + 1
  /\ new.status = "EXHAUSTED" <=> f + 1 > c.last
  /\ doc' = [doc EXCEPT ![d] = row] /\ caf' = [caf EXCEPT ![c] = new]
  /\ reservation' = [reservation EXCEPT ![d] = used]
  /\ flight' = [flight EXCEPT ![d] = NoCaf] /\ UNCHANGED <<sent, sale>>
  /\ \A x \in DocIds : /\ doc'[x] = IF x = d THEN row ELSE doc[x]
                       /\ reservation'[x] = IF x = d THEN used ELSE reservation[x]
                       /\ flight'[x] = IF x = d THEN NoCaf ELSE flight[x]
  /\ \A e \in Ranges : caf'[e] = IF e = c THEN new ELSE caf[e]

LEMMA CommitRows ==
  ASSUME TaxInv, NEW d \in DocIds, Locked(d),
         NEW state \in {"SUBMITTED", "SEND_UNCERTAIN"}, NEW used \in {"CONSUMED", "RESERVED"},
         Commit(d, state, used)
  PROVE  \E c \in Ranges, f \in Folios, row \in Documents, new \in Authorizations :
           CommitsTo(d, state, used, c, f, row, new)
<1>1. PICK c \in Ranges : flight[d] = c
  BY DEF TaxInv, TypeOK, Locked
<1>2. PICK f : f = caf[c].next
  OBVIOUS
<1>3. /\ Exists(d) /\ doc[d].state = "READY" /\ doc[d].type = c.type
      /\ Imported(c) /\ f <= c.last
  BY <1>1, <1>2 DEF TaxInv, FlightsFit, FlightFits
<1>4. /\ doc[d] \in Documents /\ caf[c] \in Authorizations /\ c # NoCaf
      /\ f \in Nat \ {0} /\ c.first \in Nat /\ c.last \in Nat /\ c.first <= f
      /\ caf[c].status = "EXHAUSTED" <=> f > c.last
  <2>1. /\ c.first \in Nat \ {0} /\ c.last \in Nat /\ c.first <= f /\ f \in Nat
        /\ caf[c].status = "EXHAUSTED" <=> f > c.last
    BY <1>2, <1>3, CafTyped, RangeTyped DEF TaxInv, CafsFit
  <2> QED
    BY <1>3, <2>1, DocTyped, CafTyped, RangeTyped DEF TaxInv
<1>5. /\ doc[d].folio = 0 /\ doc[d].caf = NoCaf
  BY <1>3 DEF TaxInv, RowsFit, RowFits
<1>6. PICK row : row = [doc[d] EXCEPT !.state = state, !.folio = f, !.caf = c]
  OBVIOUS
<1>7. PICK new : new = [caf[c] EXCEPT !.next = @ + 1,
                                      !.status = IF f + 1 > c.last THEN "EXHAUSTED" ELSE @]
  OBVIOUS
<1>8. f \in c.first..c.last /\ f \in Folios
  BY <1>3, <1>4 DEF Folios
<1>9. row \in Documents /\ row # NoDoc
  <2>1. state \in States /\ f \in Folios \cup {0} /\ c \in Ranges \cup {NoCaf}
    BY <1>8 DEF States
  <2>2. /\ row = [sale |-> doc[d].sale, type |-> doc[d].type, state |-> state,
                  base |-> doc[d].base, folio |-> f, caf |-> c,
                  source |-> doc[d].source, reason |-> doc[d].reason]
        /\ doc[d].sale \in Sales /\ doc[d].type \in Types /\ doc[d].base \in BOOLEAN
        /\ doc[d].source \in DocIds \cup {NoDoc} /\ doc[d].reason \in Reasons \cup {""}
    BY <1>4, <1>6 DEF Documents
  <2>3. row \in Documents
    BY <2>1, <2>2 DEF Documents
  <2> QED
    BY <2>3, NoDocAssumption
<1>10. /\ row.state = state /\ row.base = doc[d].base /\ row.type = doc[d].type
       /\ row.sale = doc[d].sale /\ row.folio = f /\ row.caf = c
       /\ row.source = doc[d].source /\ row.reason = doc[d].reason
  BY <1>4, <1>6 DEF Documents
<1>11. /\ new \in Authorizations /\ new # NoCaf /\ new.next = f + 1
       /\ new.status = "EXHAUSTED" <=> f + 1 > c.last
  <2>1. caf[c].next = f /\ caf[c].status = "ACTIVE"
    BY <1>2, <1>3, <1>4 DEF Authorizations
  <2>2. new.next = f + 1 /\ new.status = IF f + 1 > c.last THEN "EXHAUSTED" ELSE "ACTIVE"
    BY <1>4, <1>7, <2>1 DEF Authorizations
  <2>3. new \in Authorizations
    <3>1. new = [next |-> f + 1, status |-> IF f + 1 > c.last THEN "EXHAUSTED" ELSE "ACTIVE"]
      BY <1>4, <1>7, <2>1 DEF Authorizations
    <3>2. f + 1 \in Nat
      BY <1>4
    <3> QED
      BY <3>1, <3>2 DEF Authorizations
  <2> QED
    BY <1>4, <2>2, <2>3, NoCafAssumption
<1>12. /\ doc' = [doc EXCEPT ![d] = row] /\ caf' = [caf EXCEPT ![c] = new]
       /\ reservation' = [reservation EXCEPT ![d] = used]
       /\ flight' = [flight EXCEPT ![d] = NoCaf] /\ UNCHANGED <<sent, sale>>
  <2>1. /\ doc' = [doc EXCEPT ![d].state = state, ![d].folio = f, ![d].caf = c]
        /\ caf' = [caf EXCEPT ![c].next = @ + 1,
                              ![c].status = IF f + 1 > c.last THEN "EXHAUSTED" ELSE @]
        /\ reservation' = [reservation EXCEPT ![d] = used]
        /\ flight' = [flight EXCEPT ![d] = NoCaf] /\ UNCHANGED <<sent, sale>>
    BY <1>1, <1>2 DEF Commit
  <2>2. doc' = [doc EXCEPT ![d] = row]
    BY <1>6, <2>1 DEF TaxInv, TypeOK
  <2>3. caf' = [caf EXCEPT ![c] = new]
    BY <1>7, <2>1 DEF TaxInv, TypeOK
  <2> QED
    BY <2>1, <2>2, <2>3
<1>13. /\ \A x \in DocIds : /\ doc'[x] = IF x = d THEN row ELSE doc[x]
                            /\ reservation'[x] = IF x = d THEN used ELSE reservation[x]
                            /\ flight'[x] = IF x = d THEN NoCaf ELSE flight[x]
       /\ \A e \in Ranges : caf'[e] = IF e = c THEN new ELSE caf[e]
  BY <1>12 DEF TaxInv, TypeOK
<1>14. CommitsTo(d, state, used, c, f, row, new)
  BY <1>1, <1>2, <1>3, <1>4, <1>5, <1>9, <1>10, <1>11, <1>12, <1>13 DEF CommitsTo
<1> QED
  BY <1>8, <1>9, <1>11, <1>14

LEMMA TaxInvCommit ==
  ASSUME TaxInv, NEW d \in DocIds, Locked(d),
         NEW state \in {"SUBMITTED", "SEND_UNCERTAIN"}, NEW used \in {"CONSUMED", "RESERVED"},
         Commit(d, state, used)
  PROVE  TaxInv'
<1>0. PICK c \in Ranges, f \in Folios, row \in Documents, new \in Authorizations :
        CommitsTo(d, state, used, c, f, row, new)
  BY CommitRows
<1>1. flight[d] = c /\ f = caf[c].next
  BY <1>0 DEF CommitsTo
<1>3. /\ Exists(d) /\ doc[d].state = "READY" /\ doc[d].type = c.type
      /\ Imported(c) /\ f <= c.last
  BY <1>0 DEF CommitsTo
<1>4. c # NoCaf /\ f \in Nat \ {0} /\ c.first \in Nat /\ c.last \in Nat /\ c.first <= f
  BY <1>0 DEF CommitsTo
<1>5. doc[d].folio = 0 /\ doc[d].caf = NoCaf
  BY <1>0 DEF CommitsTo
<1>10. /\ row.state = state /\ row.base = doc[d].base /\ row.type = doc[d].type
       /\ row.sale = doc[d].sale /\ row.folio = f /\ row.caf = c
       /\ row.source = doc[d].source /\ row.reason = doc[d].reason /\ row # NoDoc
  BY <1>0 DEF CommitsTo
<1>11. /\ new.next = f + 1 /\ new # NoCaf
       /\ new.status = "EXHAUSTED" <=> f + 1 > c.last
  BY <1>0 DEF CommitsTo
<1>12. /\ doc' = [doc EXCEPT ![d] = row] /\ caf' = [caf EXCEPT ![c] = new]
       /\ reservation' = [reservation EXCEPT ![d] = used]
       /\ flight' = [flight EXCEPT ![d] = NoCaf] /\ UNCHANGED <<sent, sale>>
  BY <1>0 DEF CommitsTo
<1>13. /\ \A x \in DocIds : /\ doc'[x] = IF x = d THEN row ELSE doc[x]
                            /\ reservation'[x] = IF x = d THEN used ELSE reservation[x]
                            /\ flight'[x] = IF x = d THEN NoCaf ELSE flight[x]
       /\ \A e \in Ranges : caf'[e] = IF e = c THEN new ELSE caf[e]
  BY <1>0 DEF CommitsTo
<1>14. TypeOK'
  BY <1>12 DEF TaxInv, TypeOK
<1>15. /\ \A x \in DocIds : Exists(x)' = Exists(x) /\ Kept(x)
       /\ \A e \in Ranges : Imported(e)' = Imported(e)
  BY <1>3, <1>10, <1>11, <1>13 DEF Exists, Kept, Imported
<1>16. RowsFit'
  <2>1. RowFits(row, used)
    BY <1>3, <1>4, <1>10 DEF TaxInv, RowsFit, RowFits
  <2> QED
    BY <1>3, <1>13, <1>15, <2>1 DEF TaxInv, RowsFit
<1>17. CafsFit'
  BY <1>3, <1>4, <1>11, <1>13, <1>15 DEF TaxInv, CafsFit
<1>18. FoliosFit'
  <2>1. \A x \in DocIds, e \in Ranges : /\ x # d => (Uses(x, e)' <=> Uses(x, e))
                                        /\ ~Uses(d, e)
                                        /\ Uses(d, e)' => e = c
    BY <1>4, <1>5, <1>10, <1>13, <1>15, NoCafAssumption DEF Uses
  <2>2. /\ \A x \in DocIds : x # d => doc'[x] = doc[x]
        /\ doc'[d].folio = f /\ doc'[d].type = c.type /\ Uses(d, c)'
    BY <1>3, <1>10, <1>13, <1>15 DEF Uses
  <2>3. \A x \in DocIds : Uses(x, c) => doc[x].folio \in c.first..(f - 1)
    BY <1>1 DEF TaxInv, FoliosFit, UsesFit
  <2>4. \A e \in Ranges : \A x \in DocIds : Uses(x, e)' => Imported(e)' /\ UsesFit(x, e)'
    <3> SUFFICES ASSUME NEW e \in Ranges, NEW x \in DocIds, Uses(x, e)'
                 PROVE  Imported(e)' /\ UsesFit(x, e)'
      OBVIOUS
    <3>1. CASE x = d
      BY <1>3, <1>4, <1>11, <1>13, <1>15, <2>1, <2>2, <3>1 DEF UsesFit
    <3>2. CASE x # d /\ e # c
      BY <1>13, <1>15, <2>1, <2>2, <3>2 DEF TaxInv, FoliosFit, UsesFit
    <3>3. CASE x # d /\ e = c
      <4>1. Uses(x, c) /\ doc[x].type = c.type /\ doc[x].folio \in c.first..(f - 1)
        BY <2>1, <2>3, <3>3 DEF TaxInv, FoliosFit, UsesFit
      <4> QED
        BY <1>3, <1>4, <1>11, <1>13, <1>15, <2>2, <3>3, <4>1 DEF UsesFit
    <3> QED
      BY <3>1, <3>2, <3>3
  <2>5. \A e \in Ranges : \A x, y \in DocIds :
          Uses(x, e)' /\ Uses(y, e)' /\ doc'[x].folio = doc'[y].folio => x = y
    <3>1. \A x \in DocIds : Uses(x, c) => doc[x].folio # f
      BY <1>4, <2>3
    <3>2. \A e \in Ranges : \A x, y \in DocIds :
            x # d /\ y # d /\ Uses(x, e)' /\ Uses(y, e)' /\ doc'[x].folio = doc'[y].folio => x = y
      BY <2>1, <2>2 DEF TaxInv, FoliosFit
    <3> QED
      BY <2>1, <2>2, <3>1, <3>2
  <2>6. \A e \in Ranges : Imported(e)' =>
          \A g \in e.first..(caf'[e].next - 1) : \E x \in DocIds : Uses(x, e)' /\ doc'[x].folio = g
    <3> SUFFICES ASSUME NEW e \in Ranges, Imported(e)', NEW g \in e.first..(caf'[e].next - 1)
                 PROVE  \E x \in DocIds : Uses(x, e)' /\ doc'[x].folio = g
      OBVIOUS
    <3>1. CASE e = c /\ g = f
      BY <2>2, <3>1
    <3>2. CASE ~(e = c /\ g = f)
      <4>1. g \in e.first..(caf[e].next - 1)
        BY <1>1, <1>4, <1>11, <1>13, <3>2
      <4>2. PICK x \in DocIds : Uses(x, e) /\ doc[x].folio = g
        BY <1>15, <4>1 DEF TaxInv, FoliosFit
      <4> QED
        BY <2>1, <2>2, <4>2
    <3> QED
      BY <3>1, <3>2
  <2> QED
    BY <2>4, <2>5, <2>6 DEF FoliosFit
<1>19. FlightsFit'
  <2>1. \A x \in DocIds, e \in Ranges : flight'[x] = e => x # d /\ flight[x] = e /\ e # c
    BY <1>1, <1>13, NoCafAssumption DEF TaxInv, FlightsFit
  <2>2. \A x \in DocIds, e \in Ranges : x # d /\ e # c /\ FlightFits(x, e) => FlightFits(x, e)'
    BY <1>13, <1>15 DEF FlightFits
  <2> QED
    BY <2>1, <2>2 DEF TaxInv, FlightsFit
<1>20. SourcesFit' /\ CancellationsAreBacked'
  <2>1. \A x \in DocIds : /\ WasAccepted(x)' = WasAccepted(x)
                          /\ Exists(x) => (doc'[x].state = "CANCELLED_BY_REFERENCE"
                                             <=> doc[x].state = "CANCELLED_BY_REFERENCE")
    BY <1>3, <1>10, <1>13, <1>15 DEF WasAccepted, Accepted
  <2> QED
    BY <1>15, <2>1, NotesKept
<1>21. Single'
  <2>1. \A x \in DocIds : InForce(x)' => InForce(x)
    BY <1>3, <1>10, <1>13, <1>15 DEF InForce
  <2> QED
    BY <1>15, <2>1, SingleKept
<1> QED
  BY <1>14, <1>16, <1>17, <1>18, <1>19, <1>20, <1>21 DEF TaxInv

------------------------------------------------------------------------------
LEMMA TaxInvDocNext ==
  ASSUME TaxInv, NEW d \in DocIds, DocNext(d)
  PROVE  TaxInv'
<1>1. CASE \E s \in Sales, type \in BaseTypes \cap IssuedTypes : CreateBaseDocument(d, s, type)
  BY <1>1, TaxInvCreateBaseDocument
<1>2. CASE ValidateDocument(d)
  BY <1>2, TaxInvValidateDocument
<1>3. CASE DiscardDocument(d)
  BY <1>3, TaxInvDiscardDocument
<1>4. CASE \E x \in DocIds, reason \in Reasons : CreateCreditNote(d, x, reason)
  BY <1>4, TaxInvCreateNote
<1>5. CASE \E x \in DocIds : CreateDebitNote(d, x)
  <2>1. "CANCEL_CREDIT_NOTE" \in Reasons
    BY DEF Reasons, CancelReasons
  <2> QED
    BY <1>5, <2>1, TaxInvCreateNote
<1>6. CASE IssueStarts(d)
  BY <1>6, TaxInvIssueStarts
<1>7. CASE SiiReceives(d)
  BY <1>7, TaxInvSiiReceives
<1>8. CASE IssueSucceeds(d)
  BY <1>8, TaxInvCommit DEF IssueSucceeds
<1>9. CASE IssueIsUncertain(d)
  BY <1>9, TaxInvCommit DEF IssueIsUncertain
<1>10. CASE IssueRollsBack(d)
  BY <1>10, TaxInvIssueRollsBack
<1>11. CASE \E answer \in Answers : RefreshStatus(d, answer)
  BY <1>11, TaxInvAnswer, TaxInvCancellingAnswer
<1> QED
  BY <1>1, <1>2, <1>3, <1>4, <1>5, <1>6, <1>7, <1>8, <1>9, <1>10, <1>11 DEF DocNext

LEMMA TaxInvNext == TaxInv /\ [Next]_vars => TaxInv'
<1> SUFFICES ASSUME TaxInv, [Next]_vars
             PROVE  TaxInv'
  OBVIOUS
<1>1. CASE UNCHANGED vars
  <2>1. UNCHANGED <<doc, reservation, caf, flight, sent, sale>>
    BY <1>1 DEF vars
  <2>2. TypeOK' /\ RowsFit' /\ CafsFit' /\ FlightsFit'
    BY <2>1 DEF TaxInv, TypeOK, RowsFit, CafsFit, FlightsFit, FlightFits, Exists, Imported
  <2> QED
    BY <2>1, <2>2, DocsKept, FoliosKept DEF TaxInv
<1>2. CASE \E s \in Sales : RecordPayment(s) \/ CancelSale(s) \/ ReversePosSale(s)
  BY <1>2, TaxInvMoveSale DEF RecordPayment, CancelSale, ReversePosSale
<1>3. CASE \E c \in Ranges : ImportCaf(c)
  BY <1>3, TaxInvImportCaf
<1>4. CASE \E d \in DocIds : DocNext(d)
  BY <1>4, TaxInvDocNext
<1> QED
  BY <1>1, <1>2, <1>3, <1>4 DEF Next

LEMMA TaxInvariant == Spec => []TaxInv
  BY TaxInvInit, TaxInvNext, PTL DEF Spec

LEMMA TaxInvImpliesOne == TaxInv => OneActiveInvoice
  BY DEF TaxInv, RowsFit, RowFits, Single, OneActiveInvoice, InForce

LEMMA TaxInvImpliesFolios == TaxInv => FoliosAccountedFor
<1> SUFFICES ASSUME TaxInv PROVE FoliosAccountedFor
  OBVIOUS
<1>1. ASSUME NEW c \in Ranges, Imported(c)
      PROVE  /\ {doc[d].folio : d \in DocsOf(c)} = c.first..(caf[c].next - 1)
             /\ Cardinality(DocsOf(c)) = caf[c].next - c.first
             /\ \A d \in DocsOf(c) : doc[d].type = c.type
             /\ caf[c].status = "EXHAUSTED" <=> caf[c].next > c.last
  <2>1. PICK S : S = DocsOf(c)
    OBVIOUS
  <2>2. PICK T : T = c.first..(caf[c].next - 1)
    OBVIOUS
  <2>3. \A d \in S : d \in DocIds /\ Uses(d, c) /\ doc[d].type = c.type /\ doc[d].folio \in T
    BY <1>1, <2>1, <2>2 DEF DocsOf, Uses, UsesFit, TaxInv, FoliosFit
  <2>4. \A f \in T : \E d \in S : doc[d].folio = f
    BY <1>1, <2>1, <2>2 DEF DocsOf, Uses, TaxInv, FoliosFit
  <2>5. \A d, x \in S : doc[d].folio = doc[x].folio => d = x
    BY <1>1, <2>3 DEF TaxInv, FoliosFit
  <2>6. c.first \in Int /\ caf[c].next \in Int /\ c.first <= caf[c].next
    BY <1>1, CafTyped, RangeTyped DEF TaxInv, CafsFit
  <2>7. Cardinality(S) = caf[c].next - c.first
    <3>1. PICK g : g = [d \in S |-> doc[d].folio]
      OBVIOUS
    <3>2. g \in [S -> T] /\ \A d \in S : g[d] = doc[d].folio
      BY <2>3, <3>1
    <3>3. g \in Injection(S, T)
      BY <2>5, <3>2 DEF Injection, IsInjective
    <3>4. g \in Surjection(S, T)
      BY <2>4, <3>2 DEF Surjection
    <3>5. IsFiniteSet(T) /\ Cardinality(T) = caf[c].next - c.first
      <4>1. PICK a \in Int, b \in Int : a = c.first /\ b = caf[c].next - 1
        BY <2>6
      <4>2. IsFiniteSet(a..b) /\ Cardinality(a..b) = IF a > b THEN 0 ELSE b - a + 1
        BY FS_Interval
      <4>3. (IF a > b THEN 0 ELSE b - a + 1) = caf[c].next - c.first
        BY <2>6, <4>1
      <4> QED
        BY <2>2, <4>1, <4>2, <4>3, Zenon
    <3> QED
      BY <3>3, <3>4, <3>5, FS_Injection
  <2>8. {doc[d].folio : d \in S} = T
    BY <2>3, <2>4
  <2> QED
    BY <1>1, <2>1, <2>2, <2>3, <2>7, <2>8 DEF TaxInv, CafsFit
<1> QED
  BY <1>1 DEF FoliosAccountedFor, TaxInv, RowsFit, RowFits

(* A sale has at most one invoice in force, and the flag the database      *)
(* constraint is about tells it (create_base_document).                    *)
THEOREM OneInvoicePerSale == Spec => []OneActiveInvoice
  BY TaxInvariant, TaxInvImpliesOne, PTL

(* A document is cancelled by reference exactly when an accepted note says *)
(* so (refresh_document_status).                                           *)
THEOREM CancellationsStayBacked == Spec => []CancellationsAreBacked
<1>1. TaxInv => CancellationsAreBacked
  BY DEF TaxInv
<1> QED
  BY <1>1, TaxInvariant, PTL

(* The numbers of an authorization below its next one are on documents of  *)
(* its type, one each (reserve_folio), whatever issues failed; and the     *)
(* types hold.                                                             *)
THEOREM NoFolioIsLost == Spec => []FoliosAccountedFor
  BY TaxInvariant, TaxInvImpliesFolios, PTL

------------------------------------------------------------------------------
(* What the component promises about folios.                               *)
ToBook == {c \in Ranges : Imported(c)}
Numbered == {d \in DocIds : Exists(d) /\ doc[d].folio # 0}
Granted == {<<doc[d].type, doc[d].folio, d>> : d \in Numbered}

LEMMA BookInit == Init => Book!Init
<1> SUFFICES ASSUME Init PROVE ToBook = {} /\ Granted = {}
  BY DEF Book!Init, ToBook, Granted, Numbered
<1> QED
  BY DEF Init, ToBook, Granted, Numbered, Exists, Imported

LEMMA BookStutters ==
  ASSUME UNCHANGED caf,
         \A d \in DocIds : /\ d \in Numbered' <=> d \in Numbered
                           /\ d \in Numbered => doc'[d].type = doc[d].type /\ doc'[d].folio = doc[d].folio
  PROVE  UNCHANGED <<ToBook, Granted>>
<1>1. ToBook' = ToBook
  BY DEF ToBook, Imported
<1>2. Numbered \subseteq DocIds /\ Numbered' \subseteq DocIds
  BY DEF Numbered
<1>3. Numbered' = Numbered
  BY <1>2
<1>4. Granted' = Granted
  BY <1>2, <1>3 DEF Granted
<1> QED
  BY <1>1, <1>4

LEMMA BookKept ==
  ASSUME UNCHANGED caf, \A d \in DocIds : Kept(d) /\ SameFolio(d)
  PROVE  UNCHANGED <<ToBook, Granted>>
<1>1. \A d \in DocIds : /\ d \in Numbered' <=> d \in Numbered
                        /\ d \in Numbered => doc'[d].type = doc[d].type /\ doc'[d].folio = doc[d].folio
  BY DEF Numbered, Kept, SameFolio
<1> QED
  BY <1>1, BookStutters

LEMMA BookNewDocument ==
  ASSUME TaxInv, NEW d \in DocIds, ~Exists(d), NEW s, NEW type, NEW source, NEW reason,
         NewDocument(d, s, type, source, reason)
  PROVE  UNCHANGED <<ToBook, Granted>>
<1>1. /\ \A x \in DocIds : x # d => doc'[x] = doc[x]
      /\ doc'[d].folio = 0 /\ UNCHANGED caf
  BY DEF NewDocument, TaxInv, TypeOK
<1>2. \A x \in DocIds : /\ x \in Numbered' <=> x \in Numbered
                        /\ x \in Numbered => doc'[x].type = doc[x].type /\ doc'[x].folio = doc[x].folio
  BY <1>1 DEF Numbered, Exists
<1> QED
  BY <1>1, <1>2, BookStutters

LEMMA BookAuthorize ==
  ASSUME TaxInv, NEW c \in Ranges, ImportCaf(c)
  PROVE  Book!Authorize(c)
<1>1. PICK new : new = [next |-> c.first, status |-> "ACTIVE"]
  OBVIOUS
<1>2. /\ c.first <= c.last /\ \A x \in Ranges : Imported(x) => ~Overlaps(c, x)
      /\ caf' = [caf EXCEPT ![c] = new] /\ UNCHANGED doc
  BY <1>1 DEF ImportCaf
<1>3. new # NoCaf
  BY <1>1, RangeTyped, NoCafAssumption DEF Authorizations
<1>4. \A x \in Ranges : Imported(x)' <=> Imported(x) \/ x = c
  BY <1>2, <1>3 DEF Imported, TaxInv, TypeOK
<1>5. ToBook' = ToBook \cup {c}
  BY <1>4 DEF ToBook
<1>6. Granted' = Granted
  BY <1>2 DEF Granted, Numbered, Exists
<1>7. \A x \in ToBook : x.type = c.type => c.last < x.first \/ x.last < c.first
  BY <1>2, RangeTyped DEF ToBook, Overlaps
<1> QED
  BY <1>2, <1>5, <1>6, <1>7 DEF Book!Authorize, ToBook, Granted, Numbered

LEMMA BookGrant ==
  ASSUME TaxInv, NEW d \in DocIds, Locked(d),
         NEW state \in {"SUBMITTED", "SEND_UNCERTAIN"}, NEW used \in {"CONSUMED", "RESERVED"},
         Commit(d, state, used)
  PROVE  \E c \in ToBook : \E f \in c.first..c.last : Book!Grant(d, c, f)
<1>1. PICK c \in Ranges, f \in Folios, row \in Documents, new \in Authorizations :
        CommitsTo(d, state, used, c, f, row, new)
  BY CommitRows
<1>2. /\ f = caf[c].next /\ Exists(d) /\ doc[d].type = c.type /\ Imported(c) /\ doc[d].folio = 0
      /\ f \in Nat \ {0} /\ c.first \in Nat /\ c.last \in Nat /\ c.first <= f /\ f <= c.last
      /\ row # NoDoc /\ row.type = doc[d].type /\ row.folio = f
      /\ new # NoCaf
      /\ \A x \in DocIds : doc'[x] = IF x = d THEN row ELSE doc[x]
      /\ \A e \in Ranges : caf'[e] = IF e = c THEN new ELSE caf[e]
  BY <1>1 DEF CommitsTo
<1>3. c \in ToBook /\ f \in c.first..c.last /\ d \notin Numbered
  BY <1>2 DEF ToBook, Numbered
<1>4. ToBook' = ToBook
  BY <1>2 DEF ToBook, Imported
<1>5. Granted' = Granted \cup {<<c.type, f, d>>}
  <2>1. \A x \in DocIds : x \in Numbered' <=> x \in Numbered \/ x = d
    BY <1>2 DEF Numbered, Exists
  <2>2. /\ \A x \in Numbered : x \in DocIds /\ doc'[x] = doc[x]
        /\ doc'[d].type = c.type /\ doc'[d].folio = f
    BY <1>2, <1>3 DEF Numbered
  <2>3. Numbered' = Numbered \cup {d}
    BY <2>1 DEF Numbered
  <2> QED
    BY <2>2, <2>3 DEF Granted
<1>6. \A g \in c.first..(f - 1) : \E x \in DocIds : <<c.type, g, x>> \in Granted
  <2> SUFFICES ASSUME NEW g \in c.first..(f - 1)
               PROVE  \E x \in DocIds : <<c.type, g, x>> \in Granted
    OBVIOUS
  <2>1. PICK x \in DocIds : Uses(x, c) /\ doc[x].folio = g
    BY <1>2 DEF TaxInv, FoliosFit
  <2>2. Exists(x) /\ doc[x].type = c.type /\ doc[x].caf # NoCaf
    BY <2>1, NoCafAssumption DEF Uses, UsesFit, TaxInv, FoliosFit
  <2>3. x \in Numbered
    BY <2>2 DEF Numbered, TaxInv, RowsFit, RowFits
  <2> QED
    BY <2>1, <2>2, <2>3 DEF Granted
<1>7. \A x \in Numbered : ~(doc[x].type = c.type /\ doc[x].folio = f)
  <2> SUFFICES ASSUME NEW x \in Numbered, doc[x].type = c.type, doc[x].folio = f
               PROVE  FALSE
    OBVIOUS
  <2>1. x \in DocIds /\ Exists(x) /\ doc[x] \in Documents /\ doc[x].caf # NoCaf
    BY DocTyped DEF Numbered, TaxInv, RowsFit, RowFits
  <2>2. PICK e \in Ranges : doc[x].caf = e
    BY <2>1 DEF Documents
  <2>3. Uses(x, e) /\ Imported(e) /\ e.type = c.type /\ f \in e.first..(caf[e].next - 1)
    BY <2>1, <2>2 DEF Uses, UsesFit, TaxInv, FoliosFit
  <2>4. caf[e].next \in Nat /\ caf[e].next <= e.last + 1 /\ e.first \in Nat /\ e.last \in Nat
    BY <2>3, CafTyped, RangeTyped DEF TaxInv, CafsFit
  <2>5. e.first <= f /\ f <= e.last /\ f < caf[e].next
    BY <1>2, <2>3, <2>4
  <2>6. e # c
    BY <1>2, <2>5
  <2>7. Overlaps(e, c)
    BY <1>2, <2>3, <2>4, <2>5 DEF Overlaps
  <2> QED
    BY <1>2, <2>3, <2>6, <2>7 DEF TaxInv, CafsFit
<1>8. ~\E x \in DocIds : <<c.type, f, x>> \in Granted
  BY <1>7 DEF Granted
<1>9. \A x \in Granted : x[3] # d
  BY <1>3 DEF Granted
<1>10. Book!Grant(d, c, f)
  BY <1>4, <1>5, <1>6, <1>8, <1>9 DEF Book!Grant, Book!Used, ToBook, Granted, Numbered
<1> QED
  BY <1>3, <1>10

LEMMA BookDocNext ==
  ASSUME TaxInv, NEW d \in DocIds, DocNext(d)
  PROVE  \/ \E c \in ToBook : \E f \in c.first..c.last : Book!Grant(d, c, f)
         \/ UNCHANGED <<ToBook, Granted>>
<1>1. CASE \E s \in Sales, type \in BaseTypes \cap IssuedTypes : CreateBaseDocument(d, s, type)
  BY <1>1, BookNewDocument DEF CreateBaseDocument
<1>2. CASE \E x \in DocIds, reason \in Reasons : CreateCreditNote(d, x, reason)
  BY <1>2, BookNewDocument DEF CreateCreditNote
<1>3. CASE \E x \in DocIds : CreateDebitNote(d, x)
  BY <1>3, BookNewDocument DEF CreateDebitNote
<1>4. CASE ValidateDocument(d) \/ DiscardDocument(d)
  <2>1. UNCHANGED caf
    BY <1>4 DEF ValidateDocument, DiscardDocument
  <2> QED
    BY <1>4, <2>1, TaxInvValidateDocument, TaxInvDiscardDocument, BookKept
<1>5. CASE \E answer \in Answers : RefreshStatus(d, answer)
  <2>1. UNCHANGED caf
    BY <1>5 DEF RefreshStatus
  <2> QED
    BY <1>5, <2>1, TaxInvAnswer, TaxInvCancellingAnswer, BookKept
<1>6. CASE IssueStarts(d) \/ SiiReceives(d) \/ IssueRollsBack(d)
  <2>1. UNCHANGED <<doc, caf>>
    BY <1>6 DEF IssueStarts, SiiReceives, IssueRollsBack
  <2> QED
    BY <2>1, DocsKept, BookKept
<1>7. CASE IssueSucceeds(d)
  BY <1>7, BookGrant DEF IssueSucceeds
<1>8. CASE IssueIsUncertain(d)
  BY <1>8, BookGrant DEF IssueIsUncertain
<1> QED
  BY <1>1, <1>2, <1>3, <1>4, <1>5, <1>6, <1>7, <1>8 DEF DocNext

LEMMA BookNext ==
  TaxInv /\ [Next]_vars => Book!Next \/ UNCHANGED <<ToBook, Granted>>
<1> SUFFICES ASSUME TaxInv, [Next]_vars
             PROVE  Book!Next \/ UNCHANGED <<ToBook, Granted>>
  OBVIOUS
<1>1. CASE UNCHANGED <<doc, caf>>
  BY <1>1, DocsKept, BookKept
<1>2. CASE \E s \in Sales : RecordPayment(s) \/ CancelSale(s) \/ ReversePosSale(s)
  BY <1>1, <1>2 DEF RecordPayment, CancelSale, ReversePosSale, MoveSale
<1>3. CASE \E c \in Ranges : ImportCaf(c)
  BY <1>3, BookAuthorize DEF Book!Next
<1>4. CASE \E d \in DocIds : DocNext(d)
  BY <1>4, BookDocNext DEF Book!Next, ToBook
<1> QED
  BY <1>1, <1>2, <1>3, <1>4 DEF Next, vars

(* Whatever happens at the SII, to the sales and to the notes, the numbers *)
(* of a range are granted in order, each to one document and for good      *)
(* (import_caf, reserve_folio, issue_document).                            *)
THEOREM KeepsFolioBook == Spec => FolioBookSpec
<1>1. Book!vars = <<ToBook, Granted>>
  BY DEF Book!vars, ToBook, Granted, Numbered
<1>2. TaxInv /\ [Next]_vars => [Book!Next]_(Book!vars)
  BY <1>1, BookNext DEF Book!vars, ToBook, Granted, Numbered
<1> QED
  BY TaxInvInit, TaxInvNext, BookInit, <1>2, PTL DEF Spec, FolioBookSpec, Book!Spec
=============================================================================
