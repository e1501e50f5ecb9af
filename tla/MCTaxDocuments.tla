---------------------------- MODULE MCTaxDocuments ----------------------------
(* Instances of TaxDocuments small enough for TLC.                         *)
EXTENDS TaxDocuments, TLC

Range(type, first, last) == [type |-> type, first |-> first, last |-> last]

(* Two invoices from adjoining authorizations or from one that overlaps    *)
(* them, two credit notes, a debit note.                                   *)
AllRanges == {Range("INVOICE", 1, 1), Range("INVOICE", 2, 2), Range("INVOICE", 1, 2),
              Range("CREDIT_NOTE", 1, 2), Range("DEBIT_NOTE", 1, 1)}
FewRanges == {Range("INVOICE", 1, 1), Range("CREDIT_NOTE", 1, 1)}

Symmetry == Permutations(DocIds)
==============================================================================
