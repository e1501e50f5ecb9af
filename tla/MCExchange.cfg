\* Two calls deliver two documents with two keys; up to two mails.
CONSTANTS
  Docs = {d1, d2}
  Calls = {p1, p2}
  Keys = {k1, k2}
  Envelopes = {e1, e2, e3}
  Profiles = {r1, r2}
  Verdicts = {"ACCEPTED", "REJECTED"}
  Nothing = Nothing
  MaxMails = 2
SPECIFICATION Spec
SYMMETRY Symmetry
INVARIANTS ExchangeIsTrue VerdictsAreBacked
PROPERTIES AnsweredCallsSendNothing RecordedContentStays
