\* Two webhook workers and a refresh compete over one payment, until it is answered for good.
CONSTANTS
  p1 = p1
  p2 = p2
  n1 = n1
  n2 = n2
  Requests = {r1}
  Resolvers = {}
  Workers = {d1, d2}
  Notifications = {n1}
  Payments = {p1}
  PayOf <- OnePayment
  Mismatched = {}
  Total = 2
  HasAddress = TRUE
  None = None
SPECIFICATION FairSpec
INVARIANTS AppliedOnce
PROPERTIES AnswersAreFinal EveryNotificationSettles
CHECK_DEADLOCK FALSE
