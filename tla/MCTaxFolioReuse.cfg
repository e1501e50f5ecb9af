\* Two invoices and one folio.
CONSTANTS
  DocIds = {d1, d2}
  Sales = {s1}
  Ranges <- FewRanges
  NoDoc = NoDoc
  NoCaf = NoCaf
SPECIFICATION Spec
INVARIANT FolioNamesOneDocument
CHECK_DEADLOCK FALSE
