--------------------------- MODULE StatusTasksProofs ---------------------------
(***************************************************************************)
(* Proofs about module StatusTasks, for any number of documents, tasks,    *)
(* scans and runs and any limit of attempts.                               *)
(***************************************************************************)
EXTENDS StatusTasks, FiniteSetTheorems, TLAPS

OneEach ==
  \A t, u \in TaskIds : IsLive(t) /\ IsLive(u) /\ task[t].doc = task[u].doc => t = u

PendingMayTry ==
  \A t \in TaskIds : task[t] # NoTask /\ task[t].state = "PENDING" => task[t].attempts < MaxAttempts

(* A document that is to get a task has no live one, and its alert is      *)
(* locked by the scan that makes the task.                                 *)
ScansFit ==
  \A p \in Scans : \A d \in scan[p].new : lock[d] = p /\ LiveTasks(d) = {}

(* A run at work holds a RUNNING task, alone; the document it asks about   *)
(* waits for an answer, unless it has changed since the run read it.       *)
Holds(r) ==
  /\ run[r].task \in TaskIds
  /\ task[run[r].task] # NoTask /\ task[run[r].task].state = "RUNNING"
  /\ run[r].at = "ASKING" /\ ~run[r].behind => task[run[r].task].doc \in open
RunsFit ==
  /\ \A r \in Runs : run[r] # Idle => Holds(r)
  /\ \A r, q \in Runs : run[r] # Idle /\ run[q].task = run[r].task => q = r
  /\ \A r \in Runs : \A t \in batch[r] : task[t] # NoTask

(***************************************************************************)
(* OneLiveTask is not inductive alone: a scan looks for a live task long   *)
(* before it makes one, and only the lock of the alert keeps the others    *)
(* from making one in between.                                             *)
(***************************************************************************)
StatusInv == TypeOK /\ OneEach /\ PendingMayTry /\ ScansFit /\ RunsFit

LEMMA TaskRowTyped ==
  ASSUME TypeOK, NEW t \in TaskIds, task[t] # NoTask
  PROVE  /\ task[t] \in TaskRows
         /\ task[t].doc \in DocIds /\ task[t].state \in Live \cup Ended
         /\ task[t].attempts \in 0..MaxAttempts
  BY DEF TypeOK, TaskRows

LEMMA StatusInvInit == Init => StatusInv
<1> SUFFICES ASSUME Init PROVE StatusInv
  OBVIOUS
<1> USE DEF Init
<1>1. TypeOK
  BY DEF TypeOK, NotScanning, ScanStates, Idle, RunStates
<1>2. OneEach /\ PendingMayTry
  BY DEF OneEach, PendingMayTry, IsLive
<1>3. ScansFit /\ RunsFit
  BY DEF ScansFit, RunsFit, NotScanning
<1> QED
  BY <1>1, <1>2, <1>3 DEF StatusInv

------------------------------------------------------------------------------
(* Steps that bring no task to life.                                       *)
LEMMA LiveShrinks ==
  ASSUME StatusInv, UNCHANGED <<lock, scan>>,
         \A t \in TaskIds : IsLive(t)' => IsLive(t) /\ task'[t].doc = task[t].doc
  PROVE  OneEach' /\ ScansFit'
<1>1. OneEach'
  BY DEF StatusInv, OneEach
<1>2. \A d : LiveTasks(d)' \subseteq LiveTasks(d)
  BY DEF LiveTasks
<1>3. ScansFit'
  BY <1>2 DEF StatusInv, ScansFit
<1> QED
  BY <1>1, <1>3

(* Steps that leave the tasks alone.                                       *)
LEMMA TasksKept ==
  ASSUME StatusInv, UNCHANGED task
  PROVE  /\ OneEach' /\ PendingMayTry'
         /\ \A t : IsLive(t)' = IsLive(t)
         /\ \A d : LiveTasks(d)' = LiveTasks(d)
  BY DEF StatusInv, OneEach, PendingMayTry, IsLive, LiveTasks

(* An answer about d, however it was got.                                  *)
LEMMA OutdatedKept ==
  ASSUME StatusInv, NEW d \in DocIds
  PROVE  /\ Outdated(d) \in [Runs -> RunStates]
         /\ \A r \in Runs :
              /\ Outdated(d)[r].at = run[r].at /\ Outdated(d)[r].task = run[r].task
              /\ run[r] = Idle => Outdated(d)[r] = Idle
              /\ run[r].at = "ASKING" /\ ~Outdated(d)[r].behind =>
                   ~run[r].behind /\ task[run[r].task].doc # d
<1>1. \A r \in Runs : run[r] \in RunStates /\ [run[r] EXCEPT !.behind = TRUE] \in RunStates
  BY DEF StatusInv, TypeOK, RunStates
<1>2. \A r \in Runs : /\ [run[r] EXCEPT !.behind = TRUE].at = run[r].at
                      /\ [run[r] EXCEPT !.behind = TRUE].task = run[r].task
                      /\ [run[r] EXCEPT !.behind = TRUE].behind = TRUE
  BY <1>1 DEF RunStates
<1>3. Idle.at # "ASKING"
  BY DEF Idle
<1> QED
  BY <1>1, <1>2, <1>3 DEF Outdated

LEMMA StatusInvOutside ==
  ASSUME StatusInv, NEW d \in DocIds, GetsStale(d) \/ \E settles \in BOOLEAN : UserRefreshes(d, settles)
  PROVE  StatusInv'
<1> USE DEF StatusInv
<1>1. UNCHANGED <<task, scanPart, batch>>
  BY DEF GetsStale, UserRefreshes
<1>2. OneEach' /\ PendingMayTry' /\ ScansFit'
  BY <1>1, TasksKept DEF ScansFit, scanPart
<1>3. CASE GetsStale(d)
  <2>1. UNCHANGED <<open, run>> /\ stale' = stale \cup {d} /\ d \in open
    BY <1>3 DEF GetsStale
  <2>2. TypeOK'
    BY <1>1, <2>1 DEF TypeOK, scanPart
  <2>3. RunsFit'
    BY <1>1, <2>1 DEF RunsFit, Holds
  <2> QED
    BY <1>2, <2>2, <2>3
<1>4. CASE \E settles \in BOOLEAN : UserRefreshes(d, settles)
  <2>1. PICK settles \in BOOLEAN : Answered(d, settles) /\ run' = Outdated(d) /\ d \in open
    BY <1>4 DEF UserRefreshes
  <2>2. TypeOK'
    BY <1>1, <2>1, OutdatedKept DEF TypeOK, scanPart, Answered
  <2>3. open \ {d} \subseteq open'
    BY <2>1 DEF Answered
  <2>4. \A r \in Runs : run'[r] # Idle => Holds(r)'
    BY <1>1, <2>1, <2>3, OutdatedKept DEF RunsFit, Holds, TypeOK, TaskRows
  <2>5. RunsFit'
    BY <1>1, <2>1, <2>4, OutdatedKept DEF RunsFit
  <2> QED
    BY <1>2, <2>2, <2>5
<1> QED
  BY <1>3, <1>4

------------------------------------------------------------------------------
(* Scans.                                                                  *)
LEMMA StatusInvScanStarts ==
  ASSUME StatusInv, NEW p \in Scans, ScanStarts(p)
  PROVE  StatusInv'
<1> USE DEF StatusInv, ScanStarts
<1>1. [on |-> TRUE, active |-> stale, todo |-> stale, new |-> {}] \in ScanStates
  BY DEF TypeOK, ScanStates
<1>2. TypeOK'
  BY <1>1 DEF TypeOK, docPart
<1>3. OneEach' /\ PendingMayTry' /\ \A d : LiveTasks(d)' = LiveTasks(d)
  BY TasksKept
<1>4. \A q \in Scans : scan'[q].new \subseteq scan[q].new
  BY DEF TypeOK
<1>5. ScansFit'
  BY <1>3, <1>4 DEF ScansFit
<1>6. RunsFit'
  BY DEF RunsFit, Holds, docPart
<1> QED
  BY <1>2, <1>3, <1>5, <1>6

LEMMA StatusInvScanTreats ==
  ASSUME StatusInv, NEW p \in Scans, NEW d \in DocIds, ScanTreats(p, d)
  PROVE  StatusInv'
<1> USE DEF StatusInv
<1>0. PICK new : new = IF LiveTasks(d) = {} THEN scan[p].new \cup {d} ELSE scan[p].new
  OBVIOUS
<1>1. /\ lock[d] = NoScan
      /\ lock' = [lock EXCEPT ![d] = p]
      /\ scan' = [scan EXCEPT ![p].todo = @ \ {d}, ![p].new = new]
      /\ UNCHANGED <<docPart, task, alert, batch, run>>
  BY <1>0, Zenon DEF ScanTreats
<1>2. scan[p] \in ScanStates /\ new \subseteq DocIds
  BY <1>0 DEF TypeOK, ScanStates
<1>3. [scan[p] EXCEPT !.todo = @ \ {d}, !.new = new] \in ScanStates
  BY <1>2 DEF ScanStates
<1>4. TypeOK'
  BY <1>1, <1>3 DEF TypeOK, docPart
<1>5. OneEach' /\ PendingMayTry' /\ \A x : LiveTasks(x)' = LiveTasks(x)
  BY <1>1, TasksKept
<1>6. /\ scan'[p].new = new /\ lock'[d] = p
      /\ \A q \in Scans : q # p => scan'[q] = scan[q]
      /\ \A x \in DocIds : x # d => lock'[x] = lock[x]
  BY <1>1, <1>2 DEF TypeOK, ScanStates
<1>7. \A q \in Scans : d \notin scan[q].new
  BY <1>1, NoScanAssumption DEF ScansFit
<1>8. ScansFit'
  <2> SUFFICES ASSUME NEW q \in Scans, NEW x \in scan'[q].new
               PROVE  lock'[x] = q /\ LiveTasks(x) = {}
    BY <1>5 DEF ScansFit
  <2>1. \A s \in Scans : scan[s].new \subseteq DocIds
    BY DEF TypeOK, ScanStates
  <2>2. CASE x \in scan[q].new
    BY <1>6, <1>7, <2>1, <2>2 DEF ScansFit
  <2>3. CASE x \notin scan[q].new
    BY <1>0, <1>6, <2>3
  <2> QED
    BY <2>2, <2>3
<1>9. RunsFit'
  BY <1>1 DEF RunsFit, Holds, docPart
<1> QED
  BY <1>4, <1>5, <1>8, <1>9

LEMMA StatusInvScanRollsBack ==
  ASSUME StatusInv, NEW p \in Scans, ScanRollsBack(p)
  PROVE  StatusInv'
<1> USE DEF StatusInv, ScanRollsBack
<1>1. NotScanning \in ScanStates /\ NotScanning.new = {}
  BY DEF NotScanning, ScanStates
<1>2. TypeOK'
  BY <1>1 DEF TypeOK, docPart, Unlocked
<1>3. OneEach' /\ PendingMayTry' /\ \A d : LiveTasks(d)' = LiveTasks(d)
  BY TasksKept
<1>4. /\ \A q \in Scans : scan'[q] = IF q = p THEN NotScanning ELSE scan[q]
      /\ \A d \in DocIds : lock'[d] = IF lock[d] = p THEN NoScan ELSE lock[d]
      /\ \A q \in Scans : scan[q].new \subseteq DocIds
  BY DEF TypeOK, Unlocked, ScanStates
<1>5. ScansFit'
  BY <1>1, <1>3, <1>4 DEF ScansFit
<1>6. RunsFit'
  BY DEF RunsFit, Holds, docPart
<1> QED
  BY <1>2, <1>3, <1>5, <1>6

LEMMA StatusInvScanCommits ==
  ASSUME StatusInv, NEW p \in Scans, ScanCommits(p)
  PROVE  StatusInv'
<1> USE DEF StatusInv
<1>1. PICK new : new = scan[p].new
  OBVIOUS
<1>2. PICK id : id = CHOOSE f \in NewTasks(p) : TRUE
  OBVIOUS
<1>3. id \in NewTasks(p)
  BY <1>2 DEF ScanCommits
<1>4. /\ id \in [new -> TaskIds]
      /\ \A d \in new : ~IsLive(id[d])
      /\ \A d, e \in new : id[d] = id[e] => d = e
      /\ new \subseteq DocIds
      /\ \A d \in new : lock[d] = p /\ LiveTasks(d) = {}
  BY <1>1, <1>3 DEF NewTasks, ScansFit, TypeOK, ScanStates
<1> DEFINE Row(d) == [doc |-> d, state |-> "PENDING", attempts |-> 0, due |-> FALSE]
<1>5. /\ task' = [t \in TaskIds |->
            IF \E d \in new : id[d] = t THEN Row(CHOOSE d \in new : id[d] = t) ELSE task[t]]
      /\ batch' = [r \in Runs |-> batch[r] \ {id[d] : d \in new}]
      /\ lock' = Unlocked(p)
      /\ scan' = [scan EXCEPT ![p] = NotScanning]
      /\ UNCHANGED <<docPart, run>>
      /\ alert' \in [DocIds -> {"NONE", "OPEN", "RESOLVED"}]
  BY <1>1, <1>2 DEF ScanCommits, TypeOK
<1>6. \A d \in new : task'[id[d]] = Row(d)
  <2> TAKE d \in new
  <2>1. (CHOOSE e \in new : id[e] = id[d]) = d
    BY <1>4
  <2>2. id[d] \in TaskIds
    BY <1>4
  <2> QED
    BY <1>5, <2>1, <2>2, Zenon
<1>7. \A t \in TaskIds : (\A d \in new : id[d] # t) => task'[t] = task[t]
  BY <1>5
<1>8. \A d \in new : Row(d) \in TaskRows
  BY <1>4, MaxAttemptsAssumption DEF TaskRows, Live
<1>9. TypeOK'
  <2>1. task' \in [TaskIds -> TaskRows \cup {NoTask}]
    <3>1. \A t \in TaskIds : task'[t] \in TaskRows \cup {NoTask}
      <4> TAKE t \in TaskIds
      <4>1. CASE \E d \in new : id[d] = t
        BY <1>6, <1>8, <4>1
      <4>2. CASE \A d \in new : id[d] # t
        BY <1>7, <4>2 DEF TypeOK
      <4> QED
        BY <4>1, <4>2
    <3>2. \E f : task' = [t \in TaskIds |-> f[t]]
      <4>1. task' = [t \in TaskIds |-> task'[t]]
        BY <1>5, Zenon
      <4> QED
        BY <4>1
    <3> QED
      BY <3>1, <3>2
  <2>2. NotScanning \in ScanStates
    BY DEF NotScanning, ScanStates
  <2>3. /\ lock' \in [DocIds -> Scans \cup {NoScan}]
        /\ scan' \in [Scans -> ScanStates]
        /\ batch' \in [Runs -> SUBSET TaskIds]
    BY <1>5, <2>2 DEF TypeOK, Unlocked
  <2> QED
    BY <1>5, <2>1, <2>3 DEF TypeOK, docPart
<1> HIDE DEF Row
<1>10. \A d \in new : /\ task'[id[d]].doc = d /\ task'[id[d]].attempts = 0
                        /\ task'[id[d]] # NoTask
  <2> TAKE d \in new
  <2>1. Row(d).doc = d /\ Row(d).attempts = 0
    BY DEF Row
  <2>2. task'[id[d]] = Row(d) /\ Row(d) \in TaskRows
    BY <1>6, <1>8
  <2> QED
    BY <2>1, <2>2, TaskRowsAssumption
<1>11. \A t \in TaskIds :
         IsLive(t)' => \/ \E d \in new : id[d] = t
                       \/ IsLive(t) /\ task'[t] = task[t] /\ task[t].doc \notin new
  <2> SUFFICES ASSUME NEW t \in TaskIds, IsLive(t)', \A d \in new : id[d] # t
               PROVE  IsLive(t) /\ task'[t] = task[t] /\ task[t].doc \notin new
    OBVIOUS
  <2>1. task'[t] = task[t] /\ IsLive(t)
    BY <1>7 DEF IsLive
  <2>2. t \in LiveTasks(task[t].doc)
    BY <2>1 DEF LiveTasks
  <2> QED
    BY <1>4, <2>1, <2>2
<1>12. OneEach'
  <2> SUFFICES ASSUME NEW t \in TaskIds, NEW u \in TaskIds, IsLive(t)', IsLive(u)',
                      task'[t].doc = task'[u].doc
               PROVE  t = u
    BY DEF OneEach
  <2> QED
    BY <1>4, <1>10, <1>11 DEF OneEach
<1>13. PendingMayTry'
  <2> SUFFICES ASSUME NEW t \in TaskIds, task'[t] # NoTask, task'[t].state = "PENDING"
               PROVE  task'[t].attempts < MaxAttempts
    BY DEF PendingMayTry
  <2>1. CASE \E d \in new : id[d] = t
    BY <1>10, <2>1, MaxAttemptsAssumption
  <2>2. CASE \A d \in new : id[d] # t
    BY <1>7, <2>2 DEF PendingMayTry
  <2> QED
    BY <2>1, <2>2
<1>14. ScansFit'
  <2> SUFFICES ASSUME NEW q \in Scans, NEW x \in scan'[q].new
               PROVE  lock'[x] = q /\ LiveTasks(x)' = {}
    BY DEF ScansFit
  <2>1. q # p /\ x \in scan[q].new /\ x \in DocIds
    BY <1>5 DEF TypeOK, ScanStates, NotScanning
  <2>2. lock[x] = q /\ LiveTasks(x) = {} /\ x \notin new
    BY <1>4, <2>1 DEF ScansFit
  <2>3. lock'[x] = q
    BY <1>5, <2>1, <2>2 DEF Unlocked
  <2>4. ASSUME NEW t \in LiveTasks(x)' PROVE FALSE
    <3>1. t \in TaskIds /\ IsLive(t)' /\ task'[t].doc = x
      BY DEF LiveTasks
    <3>2. t \in LiveTasks(x)
      BY <1>10, <1>11, <2>2, <3>1 DEF LiveTasks
    <3> QED
      BY <2>2, <3>2
  <2> QED
    BY <2>3, <2>4
<1>15. RunsFit'
  <2>1. ASSUME NEW r \in Runs, run[r] # Idle
        PROVE  run[r].task \in TaskIds /\ task'[run[r].task] = task[run[r].task]
    <3>1. run[r].task \in TaskIds /\ IsLive(run[r].task)
      BY <2>1 DEF RunsFit, Holds, IsLive, Live
    <3> QED
      BY <1>4, <1>7, <3>1
  <2>2. \A r \in Runs : run'[r] # Idle => Holds(r)'
    BY <1>5, <2>1 DEF RunsFit, Holds, docPart
  <2>3. \A r \in Runs : \A t \in batch'[r] : task'[t] # NoTask
    BY <1>5, <1>7 DEF RunsFit, TypeOK
  <2> QED
    BY <1>5, <2>2, <2>3 DEF RunsFit
<1> QED
  BY <1>9, <1>12, <1>13, <1>14, <1>15

------------------------------------------------------------------------------
(* Runs.  A task that is written keeps its document.                       *)
LEMMA TaskWritten ==
  ASSUME StatusInv, NEW t \in TaskIds, task[t] # NoTask, NEW row \in TaskRows,
         task' = [task EXCEPT ![t] = row],
         row.doc = task[t].doc,
         row.state \in Live => task[t].state \in Live,
         row.state = "PENDING" => row.attempts < MaxAttempts,
         UNCHANGED scanPart
  PROVE  /\ OneEach' /\ PendingMayTry' /\ ScansFit'
         /\ task' \in [TaskIds -> TaskRows \cup {NoTask}]
         /\ \A u \in TaskIds : u # t => task'[u] = task[u]
         /\ task'[t] = row /\ row # NoTask
<1>1. /\ task' \in [TaskIds -> TaskRows \cup {NoTask}]
      /\ \A u \in TaskIds : u # t => task'[u] = task[u]
      /\ task'[t] = row /\ row # NoTask
  BY TaskRowsAssumption DEF StatusInv, TypeOK
<1>2. \A u \in TaskIds : IsLive(u)' => IsLive(u) /\ task'[u].doc = task[u].doc
  BY <1>1 DEF IsLive
<1>3. PendingMayTry'
  BY <1>1 DEF StatusInv, PendingMayTry
<1> QED
  BY <1>1, <1>2, <1>3, LiveShrinks DEF scanPart

LEMMA StatusInvGetsDue ==
  ASSUME StatusInv, NEW t \in TaskIds, GetsDue(t)
  PROVE  StatusInv'
<1> USE DEF StatusInv
<1>1. PICK row : row = [task[t] EXCEPT !.due = TRUE]
  OBVIOUS
<1>2. /\ task[t] # NoTask /\ task' = [task EXCEPT ![t] = row]
      /\ UNCHANGED <<docPart, scanPart, batch, run>>
  BY <1>1, Zenon DEF GetsDue, IsLive
<1>3. task[t] \in TaskRows
  BY <1>2, TaskRowTyped
<1>4. row \in TaskRows /\ row.doc = task[t].doc /\ row.state = task[t].state
      /\ row.attempts = task[t].attempts
  BY <1>1, <1>3 DEF TaskRows
<1>5. row.state = "PENDING" => row.attempts < MaxAttempts
  BY <1>2, <1>4 DEF PendingMayTry
<1> HIDE DEF StatusInv
<1>6. /\ OneEach' /\ PendingMayTry' /\ ScansFit'
      /\ task' \in [TaskIds -> TaskRows \cup {NoTask}]
      /\ \A u \in TaskIds : u # t => task'[u] = task[u]
      /\ task'[t] = row /\ row # NoTask
  BY <1>2, <1>4, <1>5, TaskWritten
<1> USE DEF StatusInv
<1>7. TypeOK'
  BY <1>2, <1>6 DEF TypeOK, docPart, scanPart
<1>8. RunsFit'
  <2>1. \A r \in Runs : run[r] # Idle => Holds(r)'
    BY <1>2, <1>4, <1>6 DEF RunsFit, Holds, docPart
  <2>2. \A r \in Runs : \A u \in batch[r] : task'[u] # NoTask
    BY <1>2, <1>6 DEF RunsFit, TypeOK
  <2> QED
    BY <1>2, <2>1, <2>2 DEF RunsFit
<1> QED
  BY <1>6, <1>7, <1>8

LEMMA StatusInvRunStarts ==
  ASSUME StatusInv, NEW r \in Runs, RunStarts(r)
  PROVE  StatusInv'
<1> USE DEF StatusInv, RunStarts
<1>1. OneEach' /\ PendingMayTry' /\ \A d : LiveTasks(d)' = LiveTasks(d)
  BY TasksKept
<1>2. TypeOK' /\ ScansFit'
  BY <1>1 DEF TypeOK, ScansFit, docPart, scanPart
<1>3. RunsFit'
  <2>1. \A q \in Runs : \A t \in batch'[q] : task[t] # NoTask
    BY DEF RunsFit, TypeOK, IsLive
  <2> QED
    BY <2>1 DEF RunsFit, Holds, docPart
<1> QED
  BY <1>1, <1>2, <1>3

LEMMA StatusInvSkips ==
  ASSUME StatusInv, NEW r \in Runs, NEW t \in TaskIds, Skips(r, t)
  PROVE  StatusInv'
<1> USE DEF StatusInv, Skips
<1>1. OneEach' /\ PendingMayTry' /\ \A d : LiveTasks(d)' = LiveTasks(d)
  BY TasksKept
<1>2. TypeOK' /\ ScansFit'
  BY <1>1 DEF TypeOK, ScansFit, docPart, scanPart
<1>3. RunsFit'
  BY DEF RunsFit, Holds, TypeOK, docPart
<1> QED
  BY <1>1, <1>2, <1>3

LEMMA StatusInvRunDies ==
  ASSUME StatusInv, NEW r \in Runs, RunDies(r)
  PROVE  StatusInv'
<1> USE DEF StatusInv, RunDies
<1>1. OneEach' /\ PendingMayTry' /\ \A d : LiveTasks(d)' = LiveTasks(d)
  BY TasksKept
<1>2. TypeOK' /\ ScansFit'
  BY <1>1 DEF TypeOK, ScansFit, docPart, scanPart, Idle, RunStates
<1>3. \A q \in Runs : run'[q] = IF q = r THEN Idle ELSE run[q]
  BY DEF TypeOK
<1>4. RunsFit'
  <2>1. \A q \in Runs : run'[q] # Idle => Holds(q)'
    BY <1>3 DEF RunsFit, Holds, docPart
  <2>2. \A q, s \in Runs : run'[q] # Idle /\ run'[s].task = run'[q].task => s = q
    BY <1>3, NoTaskAssumption DEF RunsFit, Holds, Idle
  <2>3. \A q \in Runs : \A t \in batch'[q] : task[t] # NoTask
    BY DEF RunsFit, TypeOK
  <2> QED
    BY <2>1, <2>2, <2>3 DEF RunsFit
<1> QED
  BY <1>1, <1>2, <1>4

LEMMA StatusInvClaims ==
  ASSUME StatusInv, NEW r \in Runs, NEW t \in TaskIds, Claims(r, t)
  PROVE  StatusInv'
<1> USE DEF StatusInv
<1>1. PICK row : row = [task[t] EXCEPT !.state = "RUNNING", !.attempts = @ + 1]
  OBVIOUS
<1>2. PICK mine : mine = [at |-> "CLAIMED", task |-> t, behind |-> FALSE]
  OBVIOUS
<1>3. /\ run[r] = Idle /\ t \in batch[r] /\ task[t].state = "PENDING"
      /\ task' = [task EXCEPT ![t] = row]
      /\ batch' = [batch EXCEPT ![r] = @ \ {t}]
      /\ run' = [run EXCEPT ![r] = mine]
      /\ UNCHANGED <<docPart, scanPart>>
  BY <1>1, <1>2, Zenon DEF Claims, Claimable
<1>4. task[t] # NoTask /\ task[t] \in TaskRows /\ task[t].attempts < MaxAttempts
  BY <1>3, TaskRowTyped DEF RunsFit, PendingMayTry
<1>5. row \in TaskRows /\ row.doc = task[t].doc /\ row.state = "RUNNING"
  <2>1. task[t].attempts + 1 \in 0..MaxAttempts /\ "RUNNING" \in Live \cup Ended
    BY <1>4, MaxAttemptsAssumption DEF TaskRows, Live
  <2> QED
    BY <1>1, <1>4, <2>1 DEF TaskRows
<1>6. row.state \in Live => task[t].state \in Live
  BY <1>3 DEF Live
<1> HIDE DEF StatusInv
<1>7. /\ OneEach' /\ PendingMayTry' /\ ScansFit'
      /\ task' \in [TaskIds -> TaskRows \cup {NoTask}]
      /\ \A u \in TaskIds : u # t => task'[u] = task[u]
      /\ task'[t] = row /\ row # NoTask
  BY <1>3, <1>4, <1>5, <1>6, TaskWritten
<1> USE DEF StatusInv
<1>8. mine \in RunStates /\ mine.at = "CLAIMED" /\ mine.task = t
  BY <1>2 DEF RunStates
<1>9. TypeOK'
  BY <1>3, <1>7, <1>8 DEF TypeOK, docPart, scanPart
<1>10. \A q \in Runs : run'[q] = IF q = r THEN mine ELSE run[q]
  BY <1>3 DEF TypeOK
<1>11. \A q \in Runs : run[q] # Idle => run[q].task # t
  BY <1>3 DEF RunsFit, Holds
<1>12. RunsFit'
  <2>1. ASSUME NEW q \in Runs, run'[q] # Idle PROVE Holds(q)'
    <3>1. CASE q = r
      BY <1>5, <1>7, <1>8, <1>10, <3>1 DEF Holds
    <3>2. CASE q # r
      BY <1>3, <1>7, <1>10, <1>11, <2>1, <3>2 DEF RunsFit, Holds, docPart
    <3> QED
      BY <3>1, <3>2
  <2>2. \A q, s \in Runs : run'[q] # Idle /\ run'[s].task = run'[q].task => s = q
    <3>1. Idle.task \notin TaskIds
      BY NoTaskAssumption DEF Idle
    <3> QED
      BY <1>8, <1>10, <1>11, <3>1 DEF RunsFit, Holds
  <2>3. \A q \in Runs : \A u \in batch'[q] : task'[u] # NoTask
    BY <1>3, <1>7 DEF RunsFit, TypeOK
  <2> QED
    BY <2>1, <2>2, <2>3 DEF RunsFit
<1> QED
  BY <1>7, <1>9, <1>12

(* A run writes its task, which ends or is to be tried again, and lets it  *)
(* go.                                                                     *)
LEMMA StatusInvReleases ==
  ASSUME StatusInv, NEW r \in Runs, run[r] # Idle,
         NEW t, t = run[r].task, NEW row \in TaskRows,
         row.doc = task[t].doc, row.state = "PENDING" => row.attempts < MaxAttempts,
         task' = [task EXCEPT ![t] = row],
         run' = [run EXCEPT ![r] = Idle],
         batch' \in [Runs -> SUBSET TaskIds], \A q \in Runs : batch'[q] \subseteq batch[q],
         UNCHANGED <<docPart, scanPart>>
  PROVE  StatusInv'
<1>1. t \in TaskIds /\ task[t] # NoTask /\ task[t].state \in Live
  BY DEF StatusInv, RunsFit, Holds, Live
<1>2. /\ OneEach' /\ PendingMayTry' /\ ScansFit'
      /\ task' \in [TaskIds -> TaskRows \cup {NoTask}]
      /\ \A u \in TaskIds : u # t => task'[u] = task[u]
      /\ task'[t] = row /\ row # NoTask
  BY <1>1, TaskWritten
<1> USE DEF StatusInv
<1>3. \A q \in Runs : run'[q] = IF q = r THEN Idle ELSE run[q]
  BY DEF TypeOK
<1>4. Idle \in RunStates
  BY DEF Idle, RunStates
<1>5. TypeOK'
  BY <1>2, <1>4 DEF TypeOK, docPart, scanPart
<1>6. \A q \in Runs : q # r /\ run[q] # Idle => run[q].task # t
  BY DEF RunsFit
<1>7. RunsFit'
  <2>1. \A q \in Runs : run'[q] # Idle => Holds(q)'
    BY <1>2, <1>3, <1>6 DEF RunsFit, Holds, docPart
  <2>2. \A q, s \in Runs : run'[q] # Idle /\ run'[s].task = run'[q].task => s = q
    BY <1>3, NoTaskAssumption DEF RunsFit, Holds, Idle
  <2>3. \A q \in Runs : \A u \in batch'[q] : task'[u] # NoTask
    BY <1>2 DEF RunsFit, TypeOK
  <2> QED
    BY <2>1, <2>2, <2>3 DEF RunsFit
<1> QED
  BY <1>2, <1>5, <1>7

LEMMA StatusInvEnds ==
  ASSUME StatusInv, NEW r \in Runs, NEW state \in Ended, run[r] # Idle, Ends(r, state)
  PROVE  StatusInv'
<1>1. PICK t, row : t = run[r].task /\ row = [task[t] EXCEPT !.state = state]
  OBVIOUS
<1>2. /\ task' = [task EXCEPT ![t] = row] /\ run' = [run EXCEPT ![r] = Idle]
      /\ UNCHANGED <<docPart, scanPart, batch>>
  BY <1>1, Zenon DEF Ends
<1>3. task[t] \in TaskRows
  BY <1>1, TaskRowTyped DEF StatusInv, RunsFit, Holds
<1>4. row \in TaskRows /\ row.doc = task[t].doc /\ row.state = state /\ state # "PENDING"
  BY <1>1, <1>3 DEF TaskRows, Ended
<1>5. batch' \in [Runs -> SUBSET TaskIds] /\ \A q \in Runs : batch'[q] \subseteq batch[q]
  BY <1>2 DEF StatusInv, TypeOK
<1> QED
  BY <1>1, <1>2, <1>4, <1>5, StatusInvReleases

LEMMA StatusInvReschedules ==
  ASSUME StatusInv, NEW r \in Runs, Reschedules(r)
  PROVE  StatusInv'
<1>1. PICK t, row : t = run[r].task /\ row = [task[t] EXCEPT !.state = "PENDING", !.due = FALSE]
  OBVIOUS
<1>2. /\ task' = [task EXCEPT ![t] = row] /\ run' = [run EXCEPT ![r] = Idle]
      /\ batch' = [x \in Runs |-> batch[x] \ {t}]
      /\ UNCHANGED <<docPart, scanPart>> /\ ~Spent(t)
  BY <1>1, Zenon DEF Reschedules
<1>3. run[r] # Idle
  BY DEF Reschedules, Idle
<1>4. task[t] \in TaskRows
  BY <1>1, <1>3, TaskRowTyped DEF StatusInv, RunsFit, Holds
<1>5. row \in TaskRows /\ row.doc = task[t].doc /\ row.attempts < MaxAttempts
  <2>1. task[t].attempts \in Nat /\ task[t].attempts < MaxAttempts
    BY <1>2, <1>4, MaxAttemptsAssumption DEF TaskRows, Spent
  <2> QED
    BY <1>1, <1>4, <2>1 DEF TaskRows, Live
<1>6. batch' \in [Runs -> SUBSET TaskIds] /\ \A q \in Runs : batch'[q] \subseteq batch[q]
  BY <1>2 DEF StatusInv, TypeOK
<1> QED
  BY <1>1, <1>2, <1>3, <1>5, <1>6, StatusInvReleases

(* Steps of a run that write no task.                                      *)
LEMMA StatusInvLooks ==
  ASSUME StatusInv, NEW r \in Runs, FindsOpen(r) \/ GetsError(r)
  PROVE  StatusInv'
<1> USE DEF StatusInv
<1>0. PICK at \in {"ASKING", "ERROR"} : /\ run' = [run EXCEPT ![r].at = at]
                                        /\ at = "ASKING" => task[run[r].task].doc \in open
  <2>1. CASE FindsOpen(r)
    BY <2>1 DEF FindsOpen
  <2>2. CASE GetsError(r)
    BY <2>2 DEF GetsError
  <2> QED
    BY <2>1, <2>2
<1>1. PICK mine : mine = [run[r] EXCEPT !.at = at] /\ run' = [run EXCEPT ![r] = mine]
  BY <1>0, Zenon
<1>2. UNCHANGED <<docPart, task, scanPart, batch>> /\ run[r] # Idle
  BY DEF FindsOpen, GetsError, Idle
<1>3. run[r] \in RunStates
  BY DEF TypeOK
<1>4. mine \in RunStates /\ mine.at = at /\ mine.task = run[r].task /\ mine # Idle
  BY <1>0, <1>1, <1>3 DEF RunStates, Idle
<1>5. OneEach' /\ PendingMayTry' /\ \A d : LiveTasks(d)' = LiveTasks(d)
  BY <1>2, TasksKept
<1>6. TypeOK' /\ ScansFit'
  BY <1>1, <1>2, <1>4, <1>5 DEF TypeOK, ScansFit, docPart, scanPart
<1>7. \A q \in Runs : run'[q] = IF q = r THEN mine ELSE run[q]
  BY <1>1 DEF TypeOK
<1>8. RunsFit'
  <2>1. \A q \in Runs : run'[q] # Idle => Holds(q)'
    BY <1>0, <1>2, <1>4, <1>7 DEF RunsFit, Holds, docPart
  <2>2. \A q, s \in Runs : run'[q] # Idle /\ run'[s].task = run'[q].task => s = q
    BY <1>2, <1>4, <1>7 DEF RunsFit
  <2> QED
    BY <1>2, <2>1, <2>2 DEF RunsFit
<1> QED
  BY <1>5, <1>6, <1>8

LEMMA StatusInvGetsAnswer ==
  ASSUME StatusInv, NEW r \in Runs, NEW settles \in BOOLEAN, GetsAnswer(r, settles)
  PROVE  StatusInv' /\ open' \subseteq open
<1> USE DEF StatusInv
<1>1. PICK d, at, mine :
        /\ d = task[run[r].task].doc
        /\ at = (IF settles THEN "SETTLED" ELSE "OPEN") /\ mine = [run[r] EXCEPT !.at = at]
  OBVIOUS
<1>2. /\ run[r].at = "ASKING" /\ ~run[r].behind
      /\ Answered(d, settles)
      /\ run' = [Outdated(d) EXCEPT ![r] = mine]
      /\ UNCHANGED <<task, scanPart, batch>>
  BY <1>1, Zenon DEF GetsAnswer, MayAnswer
<1>3. run[r] # Idle /\ run[r] \in RunStates /\ d \in open /\ d \in DocIds
  BY <1>1, <1>2 DEF Idle, TypeOK, RunsFit, Holds
<1>4. mine \in RunStates /\ mine.at = at /\ mine.task = run[r].task /\ mine # Idle /\ at # "ASKING"
  BY <1>1, <1>3 DEF RunStates, Idle
<1>5. OneEach' /\ PendingMayTry' /\ \A x : LiveTasks(x)' = LiveTasks(x)
  BY <1>2, TasksKept
<1>6. open' \subseteq open /\ open \ {d} \subseteq open' /\ stale' = stale \ {d} /\ stale' \subseteq open'
  BY <1>2, <1>3 DEF Answered, TypeOK
<1>7. /\ run' \in [Runs -> RunStates]
      /\ \A q \in Runs : run'[q] = IF q = r THEN mine ELSE Outdated(d)[q]
  BY <1>2, <1>3, <1>4, OutdatedKept
<1>8. TypeOK' /\ ScansFit'
  BY <1>2, <1>5, <1>6, <1>7 DEF TypeOK, ScansFit, scanPart
<1>9. RunsFit'
  <2>1. ASSUME NEW q \in Runs, run'[q] # Idle PROVE Holds(q)'
    <3>1. CASE q = r
      BY <1>2, <1>3, <1>4, <1>7, <3>1 DEF RunsFit, Holds
    <3>2. CASE q # r
      <4>1. /\ run'[q].at = run[q].at /\ run'[q].task = run[q].task /\ run[q] # Idle
            /\ run'[q].at = "ASKING" /\ ~run'[q].behind => ~run[q].behind /\ task[run[q].task].doc # d
        BY <1>3, <1>7, <2>1, <3>2, OutdatedKept
      <4> QED
        BY <1>2, <1>6, <4>1 DEF RunsFit, Holds
    <3> QED
      BY <3>1, <3>2
  <2>2. \A q, s \in Runs : run'[q] # Idle /\ run'[s].task = run'[q].task => s = q
    <3>1. \A q \in Runs : run'[q].task = run[q].task /\ (run'[q] # Idle => run[q] # Idle)
      BY <1>3, <1>4, <1>7, OutdatedKept
    <3> QED
      BY <3>1 DEF RunsFit
  <2> QED
    BY <1>2, <2>1, <2>2 DEF RunsFit
<1> QED
  BY <1>5, <1>6, <1>8, <1>9

LEMMA StatusInvStep == StatusInv /\ [Next]_vars => StatusInv'
<1> SUFFICES ASSUME StatusInv, [Next]_vars PROVE StatusInv'
  OBVIOUS
<1>1. CASE UNCHANGED vars
  BY <1>1 DEF StatusInv, TypeOK, OneEach, PendingMayTry, ScansFit, RunsFit, Holds, IsLive, LiveTasks,
              vars, docPart, scanPart
<1>2. CASE \E d \in DocIds : GetsStale(d) \/ \E settles \in BOOLEAN : UserRefreshes(d, settles)
  BY <1>2, StatusInvOutside
<1>3. CASE \E t \in TaskIds : GetsDue(t)
  BY <1>3, StatusInvGetsDue
<1>4. CASE \E p \in Scans : ScanNext(p)
  BY <1>4, StatusInvScanStarts, StatusInvScanTreats, StatusInvScanCommits, StatusInvScanRollsBack
     DEF ScanNext
<1>5. ASSUME NEW r \in Runs, RunWorks(r) PROVE StatusInv'
  <2>1. CASE FindsSettled(r) \/ Succeeds(r) \/ GivesUp(r)
    <3>1. run[r] # Idle /\ \E state \in Ended : Ends(r, state)
      BY <2>1 DEF FindsSettled, Succeeds, GivesUp, Idle, Ended
    <3> QED
      BY <3>1, StatusInvEnds
  <2> QED
    BY <1>5, <2>1, StatusInvSkips, StatusInvLooks, StatusInvGetsAnswer, StatusInvReschedules DEF RunWorks
<1> QED
  BY <1>1, <1>2, <1>3, <1>4, <1>5, StatusInvRunStarts, StatusInvClaims, StatusInvRunDies DEF Next

LEMMA StatusInvHolds == Spec => []StatusInv
  BY StatusInvInit, StatusInvStep, PTL DEF Spec

------------------------------------------------------------------------------
(***************************************************************************)
(* OneLiveTask, for any number of documents, scans and runs:               *)
(* ensure_status_check_task never gives a document a second live task,     *)
(* although it looks for one without a lock, and the types hold.           *)
(***************************************************************************)
THEOREM TasksStaySingle == Spec => []OneLiveTask
<1>1. StatusInv => OneLiveTask
  <2> SUFFICES ASSUME StatusInv, NEW d \in DocIds PROVE Cardinality(LiveTasks(d)) <= 1
    BY DEF StatusInv, OneLiveTask
  <2>1. \A t, u \in LiveTasks(d) : t = u
    BY DEF StatusInv, OneEach, LiveTasks
  <2>2. CASE LiveTasks(d) = {}
    BY <2>2, FS_EmptySet
  <2>3. ASSUME NEW t \in LiveTasks(d) PROVE Cardinality(LiveTasks(d)) <= 1
    <3>1. LiveTasks(d) = {t}
      BY <2>1
    <3>2. Cardinality({t}) = 1
      BY FS_Singleton
    <3> QED
      BY <3>1, <3>2
  <2> QED
    BY <2>2, <2>3
<1> QED
  BY <1>1, StatusInvHolds, PTL

(***************************************************************************)
(* OneRunPerTask, for any number of runs: process_status_check_tasks       *)
(* claims a task for one run, also when several listed it.                 *)
(***************************************************************************)
THEOREM RunsStayApart == Spec => []OneRunPerTask
<1>1. StatusInv => OneRunPerTask
  BY DEF StatusInv, RunsFit, Holds, OneRunPerTask
<1> QED
  BY <1>1, StatusInvHolds, PTL

(***************************************************************************)
(* SettledStays: no answer reopens a document that was settled, whoever    *)
(* asked before (refresh_document_status compares the version it read).    *)
(***************************************************************************)
THEOREM SettledForGood == Spec => SettledStays
<1>1. StatusInv /\ [Next]_vars => [open' \subseteq open]_vars
  <2> SUFFICES ASSUME StatusInv, Next PROVE open' \subseteq open
    OBVIOUS
  <2>1. ASSUME NEW d \in DocIds, NEW settles \in BOOLEAN, UserRefreshes(d, settles)
        PROVE  open' \subseteq open
    BY <2>1 DEF UserRefreshes, Answered
  <2>2. ASSUME NEW p \in Scans, ScanNext(p) PROVE open' \subseteq open
    BY <2>2 DEF ScanNext, ScanStarts, ScanTreats, ScanCommits, ScanRollsBack, docPart
  <2>3. ASSUME NEW r \in Runs, RunWorks(r) PROVE open' \subseteq open
    BY <2>3, StatusInvGetsAnswer
       DEF RunWorks, Skips, FindsSettled, FindsOpen, GetsError, Succeeds, GivesUp, Ends, Reschedules, docPart
  <2>4. ASSUME NEW r \in Runs, RunStarts(r) \/ (\E t \in TaskIds : Claims(r, t)) \/ RunDies(r)
        PROVE  open' \subseteq open
    BY <2>4 DEF RunStarts, Claims, RunDies, docPart
  <2>5. CASE (\E d \in DocIds : GetsStale(d)) \/ \E t \in TaskIds : GetsDue(t)
    BY <2>5 DEF GetsStale, GetsDue, docPart
  <2> QED
    BY <2>1, <2>2, <2>3, <2>4, <2>5 DEF Next
<1> QED
  BY <1>1, StatusInvHolds, PTL DEF Spec, SettledStays
==============================================================================
