\* Two payments of one preference, one of them for another amount.
CONSTANTS
  p1 = p1
  p2 = p2
  n1 = n1
  n2 = n2
  Requests = {r1}
  Resolvers = {x1}
  Workers = {d1}
  Notifications = {n1, n2}
  Payments = {p1, p2}
  PayOf <- TwoPayments
  Mismatched = {p2}
  Total = 1
  HasAddress = TRUE
  None = None
SPECIFICATION Spec
SYMMETRY Symmetry
INVARIANTS BooksAgree ApprovalIsBacked
CHECK_DEADLOCK FALSE
