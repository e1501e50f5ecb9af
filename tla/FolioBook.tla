------------------------------ MODULE FolioBook ------------------------------
(***************************************************************************)
(* What the electronic tax component promises about folios: the numbers    *)
(* that the tax authority authorized for a type of document are granted to *)
(* documents in the order of each range, none is skipped, none is granted  *)
(* twice, a document gets at most one, and a grant is for good.  Module    *)
(* TaxDocuments implements it.                                             *)
(***************************************************************************)
EXTENDS Naturals

CONSTANTS
  DocIds,       \* documents that may be made
  Ranges        \* [type, first, last]: what the tax authority may authorize

VARIABLES
  usable,       \* the ranges it authorized
  granted       \* <<type, folio, document>>: who uses what

vars == <<usable, granted>>

Init == usable = {} /\ granted = {}

Used(t, f) == \E d \in DocIds : <<t, f, d>> \in granted

Authorize(r) ==
  /\ r.first <= r.last
  /\ \A x \in usable : x.type = r.type => r.last < x.first \/ x.last < r.first
  /\ usable' = usable \cup {r}
  /\ UNCHANGED granted

(* The next number of a range, to a document that has none.                *)
Grant(d, r, f) ==
  /\ \A g \in r.first..(f - 1) : Used(r.type, g)
  /\ ~Used(r.type, f)
  /\ \A x \in granted : x[3] # d
  /\ granted' = granted \cup {<<r.type, f, d>>}
  /\ UNCHANGED usable

Next ==
  \/ \E r \in Ranges : Authorize(r)
  \/ \E d \in DocIds, r \in usable : \E f \in r.first..r.last : Grant(d, r, f)

Spec == Init /\ [][Next]_vars
==============================================================================
