\* Two scans and two runs follow one document, with two attempts for a task.
CONSTANTS
  DocIds = {1}
  TaskIds = {t1, t2}
  Scans = {p1, p2}
  Runs = {r1, r2}
  MaxAttempts = 2
  NoTask = NoTask
  NoScan = NoScan
SPECIFICATION FairSpec
INVARIANTS OneLiveTask OneRunPerTask
PROPERTIES SettledStays TasksEnd AlertsClose
CHECK_DEADLOCK FALSE
