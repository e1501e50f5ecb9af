\* Two overlapping workers, two mails, three attempts each.
CONSTANTS
  Count = 2
  Workers = {w1, w2}
  Limit = 2
  MaxAttempts = 3
  RetryDelay = 1
  DelayCap = 2
  SendTime = 1
  StaleAfter = 2
SPECIFICATION FairSpec
INVARIANTS AttemptsAreLogged CopiesAreExplained
PROPERTIES FinalStatuses EveryMailSettles
CHECK_DEADLOCK FALSE
