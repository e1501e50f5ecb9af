----------------------------- MODULE StatusTasks -----------------------------
(***************************************************************************)
(* The follow-up of tax documents that wait for an answer                  *)
(* (electronic_tax/operations.py): scans open an alert and a status-check  *)
(* task for every document that waited too long, runs of a second command  *)
(* claim the tasks that are due and ask the tax authority.                 *)
(*                                                                         *)
(* A scan is one transaction: what it made is seen when it commits, but    *)
(* the row of each alert it wrote stays locked until then.  A run commits  *)
(* each of its steps, reads the document without a lock and may die        *)
(* between any two of them.  Of the clock only what the code compares is   *)
(* kept: a document is stale or not, a task is due or not.  A task that    *)
(* ended is never looked at again, so its id may serve another.            *)
(***************************************************************************)
EXTENDS Integers, FiniteSets

CONSTANTS
  DocIds,       \* documents that wait for an answer, by id
  TaskIds,
  Scans,        \* processes that run electronic_tax_operational_check
  Runs,         \* processes that run electronic_tax_process_status_checks
  MaxAttempts,  \* ELECTRONIC_TAX_STATUS_RETRY_MAX_ATTEMPTS
  NoTask, NoScan

ASSUME DocIdsAssumption == DocIds \subseteq Nat
ASSUME MaxAttemptsAssumption == MaxAttempts \in Nat \ {0}
ASSUME NoTaskAssumption == NoTask \notin TaskIds
ASSUME NoScanAssumption == NoScan \notin Scans

VARIABLES
  open,         \* documents in STATUS_QUERY_STATES
  stale,        \* those not updated for ELECTRONIC_TAX_STALE_MINUTES
  alert,        \* alert[d]: status of the alert REMOTE_STATUS_STALE, or "NONE"
  task,         \* task[t]: the ElectronicTaxStatusCheckTask, or NoTask
  lock,         \* lock[d]: the scan that holds the alert's row, or NoScan
  scan,         \* scan[p]: what an unfinished scan read and did
  batch,        \* batch[r]: tasks a run listed and did not look at yet
  run           \* run[r]: where a run is with its present task

docPart == <<open, stale>>
scanPart == <<alert, lock, scan>>
vars == <<docPart, task, scanPart, batch, run>>

Live == {"PENDING", "RUNNING"}
Ended == {"SUCCEEDED", "FAILED", "CANCELLED"}
TaskRows == [doc : DocIds, state : Live \cup Ended, attempts : 0..MaxAttempts, due : BOOLEAN]
ASSUME TaskRowsAssumption == NoTask \notin TaskRows

(* active: documents found stale; todo: those not treated yet; new: those  *)
(* that get a task when the scan commits.                                  *)
ScanStates == [on : BOOLEAN, active : SUBSET DocIds, todo : SUBSET DocIds, new : SUBSET DocIds]
NotScanning == [on |-> FALSE, active |-> {}, todo |-> {}, new |-> {}]

(* behind: the document has another version than the one the run read.     *)
RunStates == [at : {"IDLE", "CLAIMED", "ASKING", "SETTLED", "OPEN", "ERROR"},
              task : TaskIds \cup {NoTask}, behind : BOOLEAN]
Idle == [at |-> "IDLE", task |-> NoTask, behind |-> FALSE]

TypeOK ==
  /\ open \subseteq DocIds /\ stale \subseteq open
  /\ alert \in [DocIds -> {"NONE", "OPEN", "RESOLVED"}]
  /\ task \in [TaskIds -> TaskRows \cup {NoTask}]
  /\ lock \in [DocIds -> Scans \cup {NoScan}]
  /\ scan \in [Scans -> ScanStates]
  /\ batch \in [Runs -> SUBSET TaskIds]
  /\ run \in [Runs -> RunStates]

Init ==
  /\ open = DocIds /\ stale = {}
  /\ alert = [d \in DocIds |-> "NONE"]
  /\ task = [t \in TaskIds |-> NoTask]
  /\ lock = [d \in DocIds |-> NoScan]
  /\ scan = [p \in Scans |-> NotScanning]
  /\ batch = [r \in Runs |-> {}]
  /\ run = [r \in Runs |-> Idle]

IsLive(t) == task[t] # NoTask /\ task[t].state \in Live
LiveTasks(d) == {t \in TaskIds : IsLive(t) /\ task[t].doc = d}

------------------------------------------------------------------------------
(* Time passes.                                                            *)
GetsStale(d) ==
  /\ d \in open \ stale
  /\ stale' = stale \cup {d}
  /\ UNCHANGED <<open, task, scanPart, batch, run>>

GetsDue(t) ==
  /\ IsLive(t) /\ task[t].state = "PENDING" /\ ~task[t].due
  /\ task' = [task EXCEPT ![t].due = TRUE]
  /\ UNCHANGED <<docPart, scanPart, batch, run>>

(* refresh_document_status, for a run or a user: the document is settled   *)
(* or PROCESSING, whatever it was, and has a new version, which the runs   *)
(* that read it before do not know.                                        *)
Answered(d, settles) ==
  /\ open' = IF settles THEN open \ {d} ELSE open \cup {d}
  /\ stale' = stale \ {d}
Outdated(d) ==
  [r \in Runs |-> IF run[r].at = "ASKING" /\ task[run[r].task].doc = d
                  THEN [run[r] EXCEPT !.behind = TRUE] ELSE run[r]]

UserRefreshes(d, settles) ==
  /\ d \in open
  /\ Answered(d, settles)
  /\ run' = Outdated(d)
  /\ UNCHANGED <<task, scanPart, batch>>

------------------------------------------------------------------------------
(* scan_company_operations                                                 *)
ScanStarts(p) ==
  /\ ~scan[p].on
  /\ scan' = [scan EXCEPT ![p] = [on |-> TRUE, active |-> stale, todo |-> stale, new |-> {}]]
  /\ UNCHANGED <<docPart, task, alert, lock, batch, run>>

(* Mutant of ScanTreats: the alert is written after the task, so its row   *)
(* is not locked yet when the tasks are looked up.                         *)
ScanTreatsUnlocked(p, d) ==
  /\ d \in scan[p].todo
  /\ scan' = [scan EXCEPT ![p].todo = @ \ {d}, ![p].new = IF LiveTasks(d) = {} THEN @ \cup {d} ELSE @]
  /\ UNCHANGED <<docPart, task, alert, lock, batch, run>>

(* The newest document is next.  _upsert_alert waits for the lock of its   *)
(* row, new rows included, whose key is unique; then                       *)
(* ensure_status_check_task looks for a live task.                         *)
ScanTreats(p, d) ==
  /\ d \in scan[p].todo /\ \A x \in scan[p].todo : x <= d
  /\ lock[d] = NoScan
  /\ lock' = [lock EXCEPT ![d] = p]
  /\ scan' = [scan EXCEPT ![p].todo = @ \ {d}, ![p].new = IF LiveTasks(d) = {} THEN @ \cup {d} ELSE @]
  /\ UNCHANGED <<docPart, task, alert, batch, run>>

Unlocked(p) == [d \in DocIds |-> IF lock[d] = p THEN NoScan ELSE lock[d]]

(* Mutant of Absent: only alerts of documents that wait are looked at.     *)
AbsentWaiting(p) == {d \in open \ scan[p].active : alert[d] = "OPEN"}

(* _resolve_absent_alerts closes the other open alerts, whose rows must    *)
(* not be locked by another scan.                                          *)
Absent(p) == {d \in DocIds \ scan[p].active : alert[d] = "OPEN"}

(* Ids for the tasks of the documents that get one, each its own.          *)
NewTasks(p) ==
  {id \in [scan[p].new -> {t \in TaskIds : ~IsLive(t)}] :
     \A d, e \in scan[p].new : id[d] = id[e] => d = e}

ScanCommits(p) ==
  /\ scan[p].on /\ scan[p].todo = {}
  /\ \A d \in Absent(p) : lock[d] = NoScan
  /\ NewTasks(p) # {}
  /\ alert' = [d \in DocIds |-> IF d \in scan[p].active THEN "OPEN"
                                ELSE IF d \in Absent(p) THEN "RESOLVED" ELSE alert[d]]
  /\ LET id == CHOOSE id \in NewTasks(p) : TRUE IN
       /\ task' = [t \in TaskIds |->
            IF \E d \in scan[p].new : id[d] = t
            THEN [doc |-> CHOOSE d \in scan[p].new : id[d] = t,
                  state |-> "PENDING", attempts |-> 0, due |-> FALSE]
            ELSE task[t]]
       /\ batch' = [r \in Runs |-> batch[r] \ {id[d] : d \in scan[p].new}]
  /\ lock' = Unlocked(p)
  /\ scan' = [scan EXCEPT ![p] = NotScanning]
  /\ UNCHANGED <<docPart, run>>

(* The process dies, or the database ends a deadlock.                      *)
ScanRollsBack(p) ==
  /\ scan[p].on
  /\ lock' = Unlocked(p)
  /\ scan' = [scan EXCEPT ![p] = NotScanning]
  /\ UNCHANGED <<docPart, task, alert, batch, run>>

------------------------------------------------------------------------------
(* process_status_check_tasks                                              *)
RunStarts(r) ==
  /\ run[r] = Idle /\ batch[r] = {}
  /\ \E t \in TaskIds : IsLive(t) /\ task[t].state = "PENDING" /\ task[t].due
  /\ batch' = [batch EXCEPT ![r] = {t \in TaskIds : IsLive(t) /\ task[t].state = "PENDING" /\ task[t].due}]
  /\ UNCHANGED <<docPart, task, scanPart, run>>

(* Mutant of Claimable: the state of the locked row is not looked at.      *)
ClaimableBlindly(t) == task[t].attempts < MaxAttempts
Claimable(t) == task[t].state = "PENDING"

Claims(r, t) ==
  /\ run[r] = Idle /\ t \in batch[r]
  /\ Claimable(t)
  /\ task' = [task EXCEPT ![t].state = "RUNNING", ![t].attempts = @ + 1]
  /\ batch' = [batch EXCEPT ![r] = @ \ {t}]
  /\ run' = [run EXCEPT ![r] = [at |-> "CLAIMED", task |-> t, behind |-> FALSE]]
  /\ UNCHANGED <<docPart, scanPart>>

Skips(r, t) ==
  /\ run[r] = Idle /\ t \in batch[r]
  /\ ~Claimable(t)
  /\ batch' = [batch EXCEPT ![r] = @ \ {t}]
  /\ UNCHANGED <<docPart, task, scanPart, run>>

Ends(r, state) ==
  /\ task' = [task EXCEPT ![run[r].task].state = state]
  /\ run' = [run EXCEPT ![r] = Idle]
  /\ UNCHANGED <<docPart, scanPart, batch>>

FindsSettled(r) ==
  /\ run[r].at = "CLAIMED" /\ task[run[r].task].doc \notin open
  /\ Ends(r, "CANCELLED")

FindsOpen(r) ==
  /\ run[r].at = "CLAIMED" /\ task[run[r].task].doc \in open
  /\ run' = [run EXCEPT ![r].at = "ASKING"]
  /\ UNCHANGED <<docPart, task, scanPart, batch>>

(* Mutant of MayAnswer: neither version nor state of the document is       *)
(* compared once it is locked.                                             *)
AnswersAnyway(r) == TRUE
MayAnswer(r) == ~run[r].behind

GetsAnswer(r, settles) ==
  /\ run[r].at = "ASKING" /\ MayAnswer(r)
  /\ Answered(task[run[r].task].doc, settles)
  /\ run' = [Outdated(task[run[r].task].doc) EXCEPT
               ![r] = [run[r] EXCEPT !.at = IF settles THEN "SETTLED" ELSE "OPEN"]]
  /\ UNCHANGED <<task, scanPart, batch>>

(* A version conflict, a document that was settled, or no answer.          *)
GetsError(r) ==
  /\ run[r].at = "ASKING"
  /\ run' = [run EXCEPT ![r].at = "ERROR"]
  /\ UNCHANGED <<docPart, task, scanPart, batch>>

Succeeds(r) == run[r].at = "SETTLED" /\ Ends(r, "SUCCEEDED")

Spent(t) == task[t].attempts >= MaxAttempts

GivesUp(r) ==
  /\ run[r].at \in {"OPEN", "ERROR"} /\ Spent(run[r].task)
  /\ Ends(r, "FAILED")

(* Mutant of Reschedules: the attempts are counted afresh.                 *)
ReschedulesAfresh(r) ==
  /\ run[r].at \in {"OPEN", "ERROR"} /\ ~Spent(run[r].task)
  /\ task' = [task EXCEPT ![run[r].task].state = "PENDING", ![run[r].task].due = FALSE,
                          ![run[r].task].attempts = 0]
  /\ batch' = [x \in Runs |-> batch[x] \ {run[r].task}]
  /\ run' = [run EXCEPT ![r] = Idle]
  /\ UNCHANGED <<docPart, scanPart>>

(* The new due time is later than the start of every run, so a run that    *)
(* listed the task passes it over.                                         *)
Reschedules(r) ==
  /\ run[r].at \in {"OPEN", "ERROR"} /\ ~Spent(run[r].task)
  /\ task' = [task EXCEPT ![run[r].task].state = "PENDING", ![run[r].task].due = FALSE]
  /\ batch' = [x \in Runs |-> batch[x] \ {run[r].task}]
  /\ run' = [run EXCEPT ![r] = Idle]
  /\ UNCHANGED <<docPart, scanPart>>

RunDies(r) ==
  /\ run[r] # Idle \/ batch[r] # {}
  /\ run' = [run EXCEPT ![r] = Idle]
  /\ batch' = [batch EXCEPT ![r] = {}]
  /\ UNCHANGED <<docPart, task, scanPart>>

ScanNext(p) ==
  ScanStarts(p) \/ (\E d \in DocIds : ScanTreats(p, d)) \/ ScanCommits(p) \/ ScanRollsBack(p)

RunWorks(r) ==
  \/ \E t \in TaskIds : Skips(r, t)
  \/ FindsSettled(r) \/ FindsOpen(r)
  \/ GetsError(r) \/ (\E settles \in BOOLEAN : GetsAnswer(r, settles))
  \/ Succeeds(r) \/ GivesUp(r) \/ Reschedules(r)

Next ==
  \/ \E d \in DocIds : GetsStale(d) \/ \E settles \in BOOLEAN : UserRefreshes(d, settles)
  \/ \E t \in TaskIds : GetsDue(t)
  \/ \E p \in Scans : ScanNext(p)
  \/ \E r \in Runs : RunStarts(r) \/ (\E t \in TaskIds : Claims(r, t)) \/ RunWorks(r) \/ RunDies(r)

(* Time passes; both commands are run again and again; what started goes   *)
(* on or dies; no row stays locked, or claimed too late, for ever.         *)
Fairness ==
  /\ \A t \in TaskIds : WF_vars(GetsDue(t)) /\ SF_vars(\E r \in Runs : Claims(r, t))
  /\ \A p \in Scans : /\ WF_vars(ScanStarts(p)) /\ SF_vars(ScanCommits(p))
                      /\ SF_vars(\E d \in DocIds : ScanTreats(p, d))
  /\ \A r \in Runs : WF_vars(RunStarts(r)) /\ WF_vars(RunWorks(r))

Spec == Init /\ [][Next]_vars
FairSpec == Spec /\ Fairness

------------------------------------------------------------------------------
(***************************************************************************)
(* At most one live task follows a document, although scans look for one   *)
(* without locking tasks and create theirs later: the lock of the alert    *)
(* is what keeps two scans apart.  And every variable keeps its type.      *)
(***************************************************************************)
OneLiveTask == TypeOK /\ \A d \in DocIds : Cardinality(LiveTasks(d)) <= 1

(***************************************************************************)
(* A claimed task belongs to one run, until that run lets it go or dies.   *)
(***************************************************************************)
OneRunPerTask ==
  \A r, q \in Runs : run[r] # Idle =>
    /\ task[run[r].task].state = "RUNNING"
    /\ run[q].task = run[r].task => q = r

(***************************************************************************)
(* A settled document is never reopened by an answer that was asked for    *)
(* before, by whatever run or user.                                        *)
(***************************************************************************)
SettledStays == [][open' \subseteq open]_vars

(***************************************************************************)
(* Every task ends, unless a run died with it: then it stays RUNNING, and  *)
(* its document is not followed any more.                                  *)
(***************************************************************************)
Orphan(t) == task[t].state = "RUNNING" /\ \A r \in Runs : run[r].task # t
TasksEnd == \A t \in TaskIds : IsLive(t) ~> (~IsLive(t) \/ Orphan(t))

(***************************************************************************)
(* The alert of a settled document is closed in the end, also when a scan  *)
(* that had read it as stale commits after one that closed its alert.      *)
(***************************************************************************)
AlertsClose == \A d \in DocIds : (alert[d] = "OPEN" /\ d \notin open) ~> alert[d] = "RESOLVED"
==============================================================================
