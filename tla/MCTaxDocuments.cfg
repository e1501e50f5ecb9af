\* Three documents of one sale: chains of notes, and invoices that compete for folios.
CONSTANTS
  DocIds = {d1, d2, d3}
  Sales = {s1}
  Ranges <- AllRanges
  NoDoc = NoDoc
  NoCaf = NoCaf
SPECIFICATION Spec
SYMMETRY Symmetry
INVARIANTS OneActiveInvoice CancellationsAreBacked FoliosAccountedFor
PROPERTY FolioBookSpec
CHECK_DEADLOCK FALSE
