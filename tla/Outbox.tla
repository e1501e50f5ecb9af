-------------------------------- MODULE Outbox --------------------------------
(***************************************************************************)
(* The outbox of transactional_notifications: rows that business           *)
(* transactions enqueue, workers that send them by SMTP in batches         *)
(* (process_pending_notifications), and the recovery command that gives up *)
(* on sends that seem to have died (mark_stale_sending_uncertain).         *)
(*                                                                         *)
(* Claiming a row and recording the outcome of its send are transactions   *)
(* that lock the row; the send itself happens between them, takes time,    *)
(* and may crash with the worker.                                          *)
(*                                                                         *)
(* Time: Tick is one unit.  Instants are kept as ages (how long ago) and   *)
(* waits (how far ahead), relative to the present and cut off where the    *)
(* code no longer tells them apart, so no clock grows without bound.  A    *)
(* send takes at most SendTime units (TRANSACTIONAL_EMAIL_TIMEOUT bounds   *)
(* its socket operations); the rest of a batch takes no time.              *)
(***************************************************************************)
EXTENDS Integers, FiniteSets

CONSTANTS
  Count,         \* notifications are 1..Count, in the order they were created
  Workers,       \* runs of process_transactional_notifications
  Limit,         \* its --limit
  MaxAttempts,   \* TRANSACTIONAL_EMAIL_MAX_ATTEMPTS
  RetryDelay,    \* TRANSACTIONAL_EMAIL_RETRY_MINUTES
  DelayCap,      \* longest retry delay, a day in the code
  SendTime,      \* longest send
  StaleAfter     \* TRANSACTIONAL_EMAIL_SENDING_STALE_MINUTES

ASSUME OutboxAssumption ==
  /\ {Count, Limit, MaxAttempts, RetryDelay, DelayCap, SendTime, StaleAfter} \subseteq Nat \ {0}
  /\ SendTime < StaleAfter

VARIABLES
  status,        \* status[n]: the row's status, or "NONE"
  attempts,      \* attempts[n]
  log,           \* log[n]: <<attempt_number, outcome>> of its attempt rows
  wait,          \* wait[n]: next_attempt_at minus the present
  age,           \* age[n]: the present minus sending_started_at
  delivered,     \* delivered[n]: copies the recipient got
  batch,         \* batch[w]: notifications the worker's list still holds
  since,         \* since[w]: the present minus the `now' of the batch
  sending,       \* sending[w]: the notification being sent, 0 for none
  spent          \* spent[w]: time the send has taken

rowVars == <<status, attempts, log, wait, age, delivered>>
workerVars == <<batch, since, sending, spent>>
vars == <<rowVars, workerVars>>

Notifications == 1..Count
Horizon == Count * SendTime      \* longest batch
Oldest == Horizon + StaleAfter   \* ages are cut off here
Terminal == {"SENT", "FAILED", "UNCERTAIN"}
Outcomes == {"SENT", "RETRY", "FAILED", "UNCERTAIN"}

(* _retry_delay: doubles with each attempt, up to a cap.                   *)
CutAt(x, top) == IF x > top THEN top ELSE x
Delay(k) == CutAt(RetryDelay * 2^(k - 1), DelayCap)

TypeOK ==
  /\ status \in [Notifications -> Terminal \cup {"NONE", "PENDING", "SENDING", "RETRY"}]
  /\ attempts \in [Notifications -> 0..MaxAttempts]
  /\ log \in [Notifications -> SUBSET ((1..MaxAttempts) \X Outcomes)]
  /\ wait \in [Notifications -> Int]
  /\ age \in [Notifications -> 0..Oldest]
  /\ delivered \in [Notifications -> Nat]
  /\ batch \in [Workers -> SUBSET Notifications]
  /\ since \in [Workers -> 0..Horizon]
  /\ sending \in [Workers -> Notifications \cup {0}]
  /\ spent \in [Workers -> 0..SendTime]

Init ==
  /\ status = [n \in Notifications |-> "NONE"]
  /\ attempts = [n \in Notifications |-> 0]
  /\ log = [n \in Notifications |-> {}]
  /\ wait = [n \in Notifications |-> -Horizon]
  /\ age = [n \in Notifications |-> 0]
  /\ delivered = [n \in Notifications |-> 0]
  /\ batch = [w \in Workers |-> {}]
  /\ since = [w \in Workers |-> 0]
  /\ sending = [w \in Workers |-> 0]
  /\ spent = [w \in Workers |-> 0]

------------------------------------------------------------------------------
(* _create_idempotent: the business transaction that enqueues n commits.   *)
Enqueue(n) ==
  /\ status[n] = "NONE"
  /\ \A m \in Notifications : m < n => status[m] # "NONE"
  /\ status' = [status EXCEPT ![n] = "PENDING"]
  /\ UNCHANGED <<attempts, log, wait, age, delivered, workerVars>>

(* Mutant of Due: the list forgets the rows in RETRY.                      *)
DueOnce == {n \in Notifications : status[n] = "PENDING" /\ wait[n] <= 0}

Due == {n \in Notifications : status[n] \in {"PENDING", "RETRY"} /\ wait[n] <= 0}
Oldests(S, k) == {n \in S : Cardinality({m \in S : m < n}) < k}

(* process_pending_notifications takes its list, and its `now', once.      *)
StartBatch(w) ==
  /\ batch[w] = {} /\ sending[w] = 0
  /\ Due # {}
  /\ batch' = [batch EXCEPT ![w] = Oldests(Due, Limit)]
  /\ since' = [since EXCEPT ![w] = 0]
  /\ UNCHANGED <<rowVars, sending, spent>>

(* process_one_notification, first transaction: claim the row.             *)
Claimable(w, n) ==
  /\ status[n] \in {"PENDING", "RETRY"}
  /\ wait[n] + since[w] <= 0

Claim(w) ==
  /\ sending[w] = 0
  /\ \E n \in batch[w] :
       /\ \A m \in batch[w] : n <= m
       /\ batch' = [batch EXCEPT ![w] = @ \ {n}]
       /\ IF Claimable(w, n)
          THEN /\ status' = [status EXCEPT ![n] = "SENDING"]
               /\ attempts' = [attempts EXCEPT ![n] = @ + 1]
               /\ age' = [age EXCEPT ![n] = since[w]]
               /\ sending' = [sending EXCEPT ![w] = n]
          ELSE UNCHANGED <<status, attempts, age, sending>>
  /\ UNCHANGED <<log, wait, delivered, since, spent>>

(* The attempt rows of n, unique by number.  When the number is taken the  *)
(* insert fails, the transaction is rolled back and the exception ends the *)
(* whole batch.                                                            *)
Logged(n) == {entry[1] : entry \in log[n]}
(* Mutant of AlreadyLogged: no unique constraint on the attempt rows.      *)
NeverLogged(n) == n = 0
AlreadyLogged(n) == attempts[n] \in Logged(n)

Release(w, rest) ==
  /\ sending' = [sending EXCEPT ![w] = 0]
  /\ spent' = [spent EXCEPT ![w] = 0]
  /\ batch' = [batch EXCEPT ![w] = rest]

(* Last transaction of process_one_notification: the new status of the row *)
(* is written without looking at the old one, next to the attempt row.     *)
Record(w, new, next) ==
  LET n == sending[w]
  IN  IF AlreadyLogged(n)
      THEN /\ UNCHANGED <<status, log, wait, age>>
           /\ Release(w, {})
      ELSE /\ status' = [status EXCEPT ![n] = new]
           /\ log' = [log EXCEPT ![n] = @ \cup {<<attempts[n], new>>}]
           /\ wait' = [wait EXCEPT ![n] = next]
           /\ age' = [age EXCEPT ![n] = 0]
           /\ Release(w, batch[w])

SendSucceeds(w) ==
  /\ sending[w] # 0
  /\ delivered' = [delivered EXCEPT ![sending[w]] = @ + 1]
  /\ Record(w, "SENT", -Horizon)
  /\ UNCHANGED <<attempts, since>>

(* A timeout or a connection error, perhaps after the server took the mail. *)
SendFails(w) ==
  /\ sending[w] # 0
  /\ \E copies \in {0, 1} :
       delivered' = [delivered EXCEPT ![sending[w]] = @ + copies]
  /\ IF attempts[sending[w]] >= MaxAttempts
     THEN Record(w, "FAILED", -Horizon)
     ELSE Record(w, "RETRY", Delay(attempts[sending[w]]) - since[w])
  /\ UNCHANGED <<attempts, since>>

(* Any other exception, in rendering or in the SMTP dialogue.               *)
SendBreaks(w) ==
  /\ sending[w] # 0
  /\ Record(w, "FAILED", -Horizon)
  /\ UNCHANGED <<attempts, delivered, since>>

Crash(w) ==
  /\ batch[w] # {} \/ sending[w] # 0
  /\ \E copies \in {0, 1} :
       delivered' = [n \in Notifications |-> delivered[n] + IF n = sending[w] THEN copies ELSE 0]
  /\ Release(w, {})
  /\ UNCHANGED <<status, attempts, log, wait, age, since>>

(* Mutants of MarkStale: no attempt row; the mail is sent again.           *)
MarkStaleUnlogged(n) ==
  /\ status[n] = "SENDING"
  /\ age[n] >= StaleAfter
  /\ status' = [status EXCEPT ![n] = "UNCERTAIN"]
  /\ age' = [age EXCEPT ![n] = 0]
  /\ UNCHANGED <<attempts, log, wait, delivered, workerVars>>

MarkStaleForRetry(n) ==
  /\ status[n] = "SENDING"
  /\ age[n] >= StaleAfter
  /\ status' = [status EXCEPT ![n] = IF attempts[n] < MaxAttempts THEN "RETRY" ELSE "UNCERTAIN"]
  /\ log' = [log EXCEPT ![n] = @ \cup {<<attempts[n], "UNCERTAIN">>}]
  /\ age' = [age EXCEPT ![n] = 0]
  /\ UNCHANGED <<attempts, wait, delivered, workerVars>>

(* mark_stale_sending_uncertain, for one row.                               *)
MarkStale(n) ==
  /\ status[n] = "SENDING"
  /\ age[n] >= StaleAfter
  /\ ~AlreadyLogged(n)
  /\ status' = [status EXCEPT ![n] = "UNCERTAIN"]
  /\ log' = [log EXCEPT ![n] = @ \cup {<<attempts[n], "UNCERTAIN">>}]
  /\ age' = [age EXCEPT ![n] = 0]
  /\ UNCHANGED <<attempts, wait, delivered, workerVars>>

Tick ==
  /\ \A w \in Workers : IF sending[w] # 0 THEN spent[w] < SendTime ELSE batch[w] = {}
  /\ wait' = [n \in Notifications |-> IF wait[n] > -Horizon THEN wait[n] - 1 ELSE -Horizon]
  /\ age' = [n \in Notifications |->
               IF status[n] = "SENDING" THEN CutAt(age[n] + 1, Oldest) ELSE age[n]]
  /\ since' = [w \in Workers |-> IF sending[w] # 0 THEN since[w] + 1 ELSE since[w]]
  /\ spent' = [w \in Workers |-> IF sending[w] # 0 THEN spent[w] + 1 ELSE 0]
  /\ UNCHANGED <<status, attempts, log, delivered, batch, sending>>

WorkerNext(w) ==
  \/ StartBatch(w) \/ Claim(w) \/ Crash(w)
  \/ SendSucceeds(w) \/ SendFails(w) \/ SendBreaks(w)

Next ==
  \/ \E n \in Notifications : Enqueue(n) \/ MarkStale(n)
  \/ \E w \in Workers : WorkerNext(w)
  \/ Tick

Spec == Init /\ [][Next]_vars

(***************************************************************************)
(* The commands are run again and again by a scheduler, and time passes.   *)
(* A worker may crash at any point, but not every time before it claims    *)
(* the row it is about to claim.                                           *)
(***************************************************************************)
Fairness ==
  /\ WF_vars(Tick)
  /\ WF_vars(\E w \in Workers : StartBatch(w))
  /\ \A w \in Workers : SF_vars(Claim(w)) /\ WF_vars(WorkerNext(w) /\ sending[w] # 0)
  /\ \A n \in Notifications : WF_vars(MarkStale(n))
FairSpec == Spec /\ Fairness

------------------------------------------------------------------------------
(* Overlapping runs of the command never send one mail at the same time.   *)
OneSender ==
  \A v, w \in Workers : v # w /\ sending[v] # 0 => sending[v] # sending[w]

(***************************************************************************)
(* The attempt rows are the whole story of a notification: one row for     *)
(* each finished attempt, numbered without gaps, the last one saying what  *)
(* the status says, whatever raced (a worker that ends after its row was   *)
(* given up, a crash, a retry).  And every variable keeps its type.        *)
(***************************************************************************)
AttemptsAreLogged ==
  /\ TypeOK
  /\ \A n \in Notifications :
    LET open == IF status[n] = "SENDING" THEN 1 ELSE 0
    IN  /\ Logged(n) = 1..(attempts[n] - open)
        /\ Cardinality(log[n]) = Cardinality(Logged(n))
        /\ status[n] \in Outcomes => <<attempts[n], status[n]>> \in log[n]

(***************************************************************************)
(* The recipient gets a second copy only after an attempt that failed with *)
(* a connection error: never from overlapping workers, nor from a send     *)
(* that was given up ("No se reenvía automáticamente").  A mail marked     *)
(* SENT did arrive.                                                        *)
(***************************************************************************)
CopiesAreExplained ==
  /\ OneSender
  /\ \A n \in Notifications :
    /\ delivered[n] <= 1 + Cardinality({k \in Logged(n) : <<k, "RETRY">> \in log[n]})
    /\ status[n] = "SENT" => delivered[n] >= 1

(* SENT, FAILED and UNCERTAIN are final, although the last transaction of a *)
(* worker does not look at the status it overwrites.                        *)
FinalStatuses ==
  [][\A n \in Notifications : status[n] \in Terminal => status'[n] = status[n]]_vars

(* Every mail is sent, or given up, in the end; none is forgotten in        *)
(* PENDING, RETRY or SENDING, whatever crashes.                             *)
EveryMailSettles ==
  \A n \in Notifications : status[n] = "PENDING" ~> status[n] \in Terminal
==============================================================================
