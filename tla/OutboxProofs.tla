------------------------------ MODULE OutboxProofs ------------------------------
(***************************************************************************)
(* Proofs about module Outbox, for any number of notifications, workers    *)
(* and attempts and every length of the delays and timeouts.               *)
(***************************************************************************)
EXTENDS Outbox, FiniteSetTheorems, TLAPS

Statuses == Terminal \cup {"NONE", "PENDING", "SENDING", "RETRY"}
Numbers(rows) == {entry[1] : entry \in rows}

(***************************************************************************)
(* One notification: its status st, the attempts k it counted and its      *)
(* attempt rows.                                                           *)
(***************************************************************************)
RowFits(st, k, rows) ==
  /\ st \in Statuses
  /\ k \in 0..MaxAttempts
  /\ rows \subseteq (1..MaxAttempts) \X Outcomes
  /\ st \in {"NONE", "PENDING"} => k = 0
  /\ st = "SENDING" => k >= 1
  /\ st = "RETRY" => k < MaxAttempts
  /\ Numbers(rows) = 1..(k - IF st = "SENDING" THEN 1 ELSE 0)
  /\ \A e, f \in rows : e[1] = f[1] => e = f
  /\ st \in Outcomes => <<k, st>> \in rows
RowsFit == \A n \in Notifications : RowFits(status[n], attempts[n], log[n])

(* What a worker is sending is being sent, or was given up meanwhile.      *)
SendersHold ==
  \A w \in Workers : sending[w] # 0 => status[sending[w]] \in {"SENDING", "UNCERTAIN"}

(* The clock of a batch: it has had time for the mails it has sent.        *)
Left(w) == Cardinality(batch[w]) + IF sending[w] = 0 THEN 0 ELSE 1
BatchInTime(w) ==
  /\ Left(w) <= Count
  /\ since[w] <= SendTime * (Count - Left(w)) + spent[w]
  /\ sending[w] = 0 => spent[w] = 0
BatchesInTime == \A w \in Workers : BatchInTime(w)

(***************************************************************************)
(* A row that may be sent, or is being sent, has had a copy for each       *)
(* failed attempt at most; another one can only be in its last attempt.    *)
(***************************************************************************)
Retries(rows) == {k \in Numbers(rows) : <<k, "RETRY">> \in rows}
Copied(n, extra) == delivered[n] <= extra + Cardinality(Retries(log[n]))
Sender(n) == \E w \in Workers : sending[w] = n
CopiesFit ==
  \A n \in Notifications :
    /\ Copied(n, 1)
    /\ status[n] \in {"NONE", "PENDING", "RETRY"} \/ Sender(n) => Copied(n, 0)
    /\ status[n] = "SENT" => delivered[n] >= 1

(***************************************************************************)
(* AttemptsAreLogged is not inductive alone: the last transaction of a     *)
(* worker overwrites the status, so it must be known who is sending what.  *)
(***************************************************************************)
OutboxInv == TypeOK /\ RowsFit /\ SendersHold /\ OneSender /\ BatchesInTime

------------------------------------------------------------------------------
(* One notification at a time.                                             *)
LEMMA RowClaimed ==
  ASSUME NEW st \in {"PENDING", "RETRY"}, NEW k, NEW rows, RowFits(st, k, rows)
  PROVE  RowFits("SENDING", k + 1, rows)
  BY OutboxAssumption DEF RowFits, Statuses, Outcomes, Terminal

LEMMA RowEnqueued ==
  ASSUME NEW k, NEW rows, RowFits("NONE", k, rows)
  PROVE  RowFits("PENDING", k, rows)
  BY DEF RowFits, Statuses, Outcomes, Terminal

LEMMA NumbersAdded ==
  ASSUME NEW rows, NEW k, NEW new
  PROVE  Numbers(rows \cup {<<k, new>>}) = Numbers(rows) \cup {k}
<1>1. <<k, new>>[1] = k
  OBVIOUS
<1>2. ASSUME NEW x \in Numbers(rows) \cup {k} PROVE x \in Numbers(rows \cup {<<k, new>>})
  BY <1>1, Zenon DEF Numbers
<1>3. ASSUME NEW x \in Numbers(rows \cup {<<k, new>>}) PROVE x \in Numbers(rows) \cup {k}
  BY <1>1, Zenon DEF Numbers
<1> QED
  BY <1>2, <1>3

LEMMA RowEnded ==
  ASSUME NEW new \in Outcomes, NEW k, NEW rows, RowFits("SENDING", k, rows),
         new = "RETRY" => k < MaxAttempts
  PROVE  RowFits(new, k, rows \cup {<<k, new>>})
<1> DEFINE more == rows \cup {<<k, new>>}
<1>1. /\ k \in 1..MaxAttempts /\ Numbers(rows) = 1..(k - 1)
      /\ rows \subseteq (1..MaxAttempts) \X Outcomes
      /\ \A e, f \in rows : e[1] = f[1] => e = f
  BY OutboxAssumption DEF RowFits
<1>2. Numbers(more) = Numbers(rows) \cup {k}
  BY NumbersAdded
<1>3. \A e \in rows : e[1] # k
  BY <1>1 DEF Numbers
<1>4. \A e, f \in more : e[1] = f[1] => e = f
  BY <1>1, <1>3
<1>5. 1..(k - 1) \cup {k} = 1..k
  BY <1>1
<1>6. new \in Statuses /\ new \notin {"NONE", "PENDING", "SENDING"}
  BY DEF Outcomes, Statuses, Terminal
<1>7. more \subseteq (1..MaxAttempts) \X Outcomes
  BY <1>1
<1> HIDE DEF more
<1>8. Numbers(more) = 1..(k - 0)
  BY <1>1, <1>2, <1>5
<1>9. <<k, new>> \in more
  BY DEF more
<1> QED
  BY <1>1, <1>4, <1>6, <1>7, <1>8, <1>9 DEF RowFits, more

LEMMA RetriesAdded ==
  ASSUME NEW new \in Outcomes, NEW k, NEW rows, RowFits("SENDING", k, rows)
  PROVE  /\ IsFiniteSet(Retries(rows)) /\ IsFiniteSet(Retries(rows \cup {<<k, new>>}))
         /\ Cardinality(Retries(rows \cup {<<k, new>>})) =
              Cardinality(Retries(rows)) + IF new = "RETRY" THEN 1 ELSE 0
<1>1. /\ k \in 1..MaxAttempts /\ Numbers(rows) = 1..(k - 1)
      /\ rows \subseteq (1..MaxAttempts) \X Outcomes
  BY OutboxAssumption DEF RowFits
<1>2. IsFiniteSet(1..(k - 1))
  BY <1>1, FS_Interval
<1>3. IsFiniteSet(Retries(rows))
  BY <1>1, <1>2, FS_Subset DEF Retries
<1>4. k \notin Retries(rows)
  BY <1>1 DEF Retries
<1>5. Retries(rows \cup {<<k, new>>}) = Retries(rows) \cup (IF new = "RETRY" THEN {k} ELSE {})
  <2>1. Numbers(rows \cup {<<k, new>>}) = Numbers(rows) \cup {k}
    BY NumbersAdded
  <2>2. \A e \in rows : e[1] # k
    BY <1>1 DEF Numbers
  <2> QED
    BY <1>1, <2>1, <2>2 DEF Retries
<1>6. CASE new = "RETRY"
  <2>1. Retries(rows \cup {<<k, new>>}) = Retries(rows) \cup {k}
    BY <1>5, <1>6
  <2>2. /\ IsFiniteSet(Retries(rows) \cup {k})
        /\ Cardinality(Retries(rows) \cup {k}) = Cardinality(Retries(rows)) + 1
    BY <1>3, <1>4, FS_AddElement
  <2> QED
    BY <1>3, <1>6, <2>1, <2>2
<1>7. CASE new # "RETRY"
  <2>1. Retries(rows \cup {<<k, new>>}) = Retries(rows)
    BY <1>5, <1>7
  <2>2. Cardinality(Retries(rows)) \in Nat
    BY <1>3, FS_CardinalityType
  <2> QED
    BY <1>3, <1>7, <2>1, <2>2
<1> QED
  BY <1>6, <1>7

------------------------------------------------------------------------------
(* The clock of a batch.                                                   *)
LEMMA TimesGrows ==
  ASSUME NEW t \in Nat, NEW a \in Int, NEW b \in Int, a <= b
  PROVE  t * a <= t * b /\ t * a \in Int /\ t * b \in Int
<1>1. t * (b - a) >= 0
  OBVIOUS
<1>2. t * (b - a) = t * b - t * a
  OBVIOUS
<1> QED
  BY <1>1, <1>2

LEMMA OneMoreSend ==
  ASSUME NEW t \in Nat, NEW a \in Int
  PROVE  t * (a + 1) = t * a + t
  OBVIOUS

(* Who ends a send has had time for it; who begins one has some left.      *)
LEMMA TimeLeft ==
  ASSUME NEW left \in Nat, NEW more \in Nat, left < more, more <= Count,
         NEW used \in 0..SendTime, NEW time \in Nat,
         time <= SendTime * (Count - more) + used
  PROVE  time <= SendTime * (Count - left)
<1> USE OutboxAssumption
<1>1. SendTime * ((Count - more) + 1) = SendTime * (Count - more) + SendTime
  BY OneMoreSend
<1>2. SendTime * ((Count - more) + 1) <= SendTime * (Count - left)
  BY TimesGrows
<1>3. SendTime * (Count - more) \in Int /\ SendTime * (Count - left) \in Int
  BY TimesGrows
<1> QED
  BY <1>1, <1>2, <1>3

LEMMA InTime ==
  ASSUME NEW left \in Nat, left <= Count, NEW used \in 0..SendTime, NEW time \in Nat,
         left = 0 => used = 0,
         time <= SendTime * (Count - left) + used
  PROVE  time <= Horizon
<1> USE OutboxAssumption
<1>1. Horizon = SendTime * (Count - 0)
  BY DEF Horizon
<1>2. CASE left = 0
  BY <1>1, <1>2
<1>3. CASE left > 0
  BY <1>1, <1>3, TimeLeft
<1> QED
  BY <1>2, <1>3

LEMMA SomeNotifications ==
  ASSUME NEW S, S \subseteq Notifications
  PROVE  /\ IsFiniteSet(S) /\ Cardinality(S) \in Nat /\ Cardinality(S) <= Count
         /\ \A n \in S : Cardinality(S \ {n}) = Cardinality(S) - 1
         /\ S # {} => Cardinality(S) >= 1
<1>1. IsFiniteSet(Notifications) /\ Cardinality(Notifications) = Count
  BY FS_Interval, OutboxAssumption, SMTT(30) DEF Notifications
<1>2. IsFiniteSet(S) /\ Cardinality(S) \in Nat /\ Cardinality(S) <= Count
  BY <1>1, FS_Subset, FS_CardinalityType
<1>3. \A n \in S : Cardinality(S \ {n}) = Cardinality(S) - 1
  BY <1>2, FS_RemoveElement
<1>4. S # {} => Cardinality(S) >= 1
  BY <1>2, FS_EmptySet
<1> QED
  BY <1>2, <1>3, <1>4

------------------------------------------------------------------------------
LEMMA Clocks == Horizon \in Nat /\ Oldest \in Nat /\ Horizon <= Oldest
<1>1. SendTime * 0 <= SendTime * Count /\ SendTime * 0 = 0 /\ SendTime * Count \in Int
  BY TimesGrows, OutboxAssumption
<1> QED
  BY <1>1, OutboxAssumption DEF Horizon, Oldest

LEMMA OutboxInvInit == Init => OutboxInv /\ CopiesFit
<1> SUFFICES ASSUME Init PROVE OutboxInv /\ CopiesFit
  OBVIOUS
<1> USE OutboxAssumption DEF Init
<1>1. 0 \in 0..Horizon /\ 0 \in 0..Oldest /\ -Horizon \in Int
  BY Clocks
<1>2. TypeOK
  BY <1>1 DEF TypeOK, Terminal
<1>3. RowsFit
  <2>1. Numbers({}) = {} /\ 1..0 = {}
    BY DEF Numbers
  <2> QED
    BY <2>1 DEF RowsFit, RowFits, Statuses, Outcomes
<1>4. SendersHold /\ OneSender
  BY DEF SendersHold, OneSender
<1>5. BatchesInTime
  <2>1. Cardinality({}) = 0
    BY FS_EmptySet
  <2>2. SendTime * 0 <= SendTime * Count /\ SendTime * 0 = 0 /\ SendTime * (Count - 0) \in Int
    BY TimesGrows
  <2> QED
    BY <2>1, <2>2 DEF BatchesInTime, BatchInTime, Left
<1>6. CopiesFit
  <2>1. Retries({}) = {} /\ Cardinality({}) = 0
    BY FS_EmptySet DEF Retries, Numbers
  <2> QED
    BY <2>1 DEF CopiesFit, Copied
<1> QED
  BY <1>2, <1>3, <1>4, <1>5, <1>6 DEF OutboxInv

(* Rows and workers of a step: what it changes keeps the invariant if each *)
(* part does.                                                              *)
LEMMA BatchesKept ==
  ASSUME OutboxInv, NEW w \in Workers,
         \A v \in Workers \ {w} :
            /\ batch'[v] = batch[v] /\ sending'[v] = sending[v]
            /\ since'[v] = since[v] /\ spent'[v] = spent[v],
         BatchInTime(w)'
  PROVE  BatchesInTime'
  BY DEF OutboxInv, BatchesInTime, BatchInTime, Left

(* What is left of a batch that lets its mail go, or that a crash ends.    *)
LEMMA Released ==
  ASSUME OutboxInv, NEW w \in Workers, NEW rest \in {{}, batch[w]},
         sending[w] # 0 \/ (rest = {} /\ batch[w] # {}),
         Release(w, rest), since' = since
  PROVE  BatchesInTime' /\ batch' \in [Workers -> SUBSET Notifications]
         /\ sending' \in [Workers -> Notifications \cup {0}] /\ spent' \in [Workers -> 0..SendTime]
<1> USE DEF OutboxInv, TypeOK
<1>1. /\ batch' \in [Workers -> SUBSET Notifications]
      /\ sending' \in [Workers -> Notifications \cup {0}] /\ spent' \in [Workers -> 0..SendTime]
      /\ batch'[w] = rest /\ sending'[w] = 0 /\ spent'[w] = 0 /\ since'[w] = since[w]
  BY OutboxAssumption DEF Release
<1>2. /\ Left(w) \in Nat /\ Left(w)' \in Nat /\ Left(w)' < Left(w) /\ Left(w) <= Count
      /\ since[w] <= SendTime * (Count - Left(w)) + spent[w]
  <2>1. BatchInTime(w)
    BY DEF BatchesInTime
  <2>2. /\ Cardinality(rest) \in Nat /\ Cardinality(batch[w]) \in Nat
        /\ rest = {} => Cardinality(rest) = 0
        /\ batch[w] # {} => Cardinality(batch[w]) >= 1
    BY SomeNotifications, FS_EmptySet
  <2>3. Left(w)' = Cardinality(rest)
    BY <1>1, <2>2 DEF Left
  <2> QED
    BY <2>1, <2>2, <2>3 DEF BatchInTime, Left
<1>3. since[w] <= SendTime * (Count - Left(w)')
  BY <1>2, TimeLeft
<1>4. BatchInTime(w)'
  <2>1. SendTime * (Count - Left(w)') \in Int
    BY <1>2, TimesGrows, OutboxAssumption
  <2>2. Left(w)' <= Count
    BY <1>2, OutboxAssumption
  <2> QED
    BY <1>1, <1>3, <2>1, <2>2 DEF BatchInTime
<1>5. BatchesInTime'
  <2>1. \A v \in Workers \ {w} : /\ batch'[v] = batch[v] /\ sending'[v] = sending[v]
                                /\ since'[v] = since[v] /\ spent'[v] = spent[v]
    BY DEF Release
  <2> QED
    BY <1>4, <2>1, BatchesKept
<1> QED
  BY <1>1, <1>5

------------------------------------------------------------------------------
(* Steps on one row, with senders left alone or leaving.                   *)
LEMMA RowsKept ==
  ASSUME OutboxInv, NEW n \in Notifications,
         \A m \in Notifications \ {n} :
            status'[m] = status[m] /\ attempts'[m] = attempts[m] /\ log'[m] = log[m],
         RowFits(status[n], attempts[n], log[n])'
  PROVE  RowsFit'
  BY DEF OutboxInv, RowsFit

LEMMA RowsTyped ==
  ASSUME OutboxInv, NEW n \in Notifications
  PROVE  /\ status[n] \in Statuses /\ attempts[n] \in 0..MaxAttempts
         /\ RowFits(status[n], attempts[n], log[n])
         /\ status[n] = "SENDING" => ~AlreadyLogged(n)
         /\ status[n] \in Outcomes => AlreadyLogged(n)
<1>1. /\ RowFits(status[n], attempts[n], log[n])
      /\ Numbers(log[n]) = Logged(n)
  BY DEF OutboxInv, RowsFit, Numbers, Logged
<1>2. attempts[n] \in 0..MaxAttempts /\ status[n] \in Statuses
  BY <1>1 DEF RowFits
<1>3. ASSUME status[n] = "SENDING" PROVE ~AlreadyLogged(n)
  BY <1>1, <1>2, <1>3, OutboxAssumption DEF RowFits, AlreadyLogged
<1>4. ASSUME status[n] \in Outcomes PROVE AlreadyLogged(n)
  <2>1. <<attempts[n], status[n]>> \in log[n] /\ <<attempts[n], status[n]>>[1] = attempts[n]
    BY <1>1, <1>4 DEF RowFits
  <2> QED
    BY <2>1, Zenon DEF AlreadyLogged, Logged
<1> QED
  BY <1>1, <1>2, <1>3, <1>4

LEMMA OutboxInvEnqueue ==
  ASSUME OutboxInv, NEW n \in Notifications, Enqueue(n)
  PROVE  OutboxInv'
<1> USE DEF OutboxInv, Enqueue, workerVars
<1>1. TypeOK'
  BY DEF TypeOK, Terminal
<1>2. RowsFit'
  <2>1. status'[n] = "PENDING"
    BY DEF TypeOK
  <2>2. RowFits("PENDING", attempts[n], log[n])
    BY RowEnqueued, RowsTyped
  <2>3. \A m \in Notifications \ {n} :
          status'[m] = status[m] /\ attempts'[m] = attempts[m] /\ log'[m] = log[m]
    BY DEF TypeOK
  <2> QED
    BY <2>1, <2>2, <2>3, RowsKept
<1>3. SendersHold'
  BY DEF SendersHold, TypeOK
<1>4. OneSender' /\ BatchesInTime'
  BY DEF OneSender, BatchesInTime, BatchInTime, Left
<1> QED
  BY <1>1, <1>2, <1>3, <1>4

LEMMA OutboxInvMarkStale ==
  ASSUME OutboxInv, NEW n \in Notifications, MarkStale(n)
  PROVE  OutboxInv'
<1> USE DEF OutboxInv, MarkStale, workerVars
<1>1. TypeOK'
  <2>1. <<attempts[n], "UNCERTAIN">> \in (1..MaxAttempts) \X Outcomes
    <3>1. RowFits("SENDING", attempts[n], log[n])
      BY RowsTyped
    <3> QED
      BY <3>1, OutboxAssumption DEF RowFits, Outcomes
  <2>2. 0 \in 0..Oldest
    BY Clocks
  <2> QED
    BY <2>1, <2>2 DEF TypeOK, Terminal
<1>2. RowsFit'
  <2>1. /\ status'[n] = "UNCERTAIN" /\ attempts'[n] = attempts[n]
        /\ log'[n] = log[n] \cup {<<attempts[n], "UNCERTAIN">>}
    BY DEF TypeOK
  <2>2. RowFits("UNCERTAIN", attempts[n], log[n] \cup {<<attempts[n], "UNCERTAIN">>})
    <3>1. RowFits("SENDING", attempts[n], log[n]) /\ "UNCERTAIN" \in Outcomes
      BY RowsTyped DEF Outcomes
    <3> QED
      BY <3>1, RowEnded
  <2>3. \A m \in Notifications \ {n} :
          status'[m] = status[m] /\ attempts'[m] = attempts[m] /\ log'[m] = log[m]
    BY DEF TypeOK
  <2> QED
    BY <2>1, <2>2, <2>3, RowsKept
<1>3. SendersHold'
  BY DEF SendersHold, TypeOK
<1>4. OneSender' /\ BatchesInTime'
  BY DEF OneSender, BatchesInTime, BatchInTime, Left
<1> QED
  BY <1>1, <1>2, <1>3, <1>4

LEMMA OutboxInvStartBatch ==
  ASSUME OutboxInv, NEW w \in Workers, StartBatch(w)
  PROVE  OutboxInv'
<1> USE DEF OutboxInv, StartBatch
<1>1. Oldests(Due, Limit) \subseteq Notifications
  BY DEF Oldests, Due
<1>2. 0 \in 0..Horizon
  BY Clocks
<1>3. TypeOK'
  BY <1>1, <1>2 DEF TypeOK, rowVars
<1>4. RowsFit' /\ SendersHold' /\ OneSender'
  BY DEF RowsFit, SendersHold, OneSender, rowVars
<1>5. BatchInTime(w)'
  <2>1. /\ batch'[w] = Oldests(Due, Limit) /\ since'[w] = 0 /\ spent'[w] = spent[w]
        /\ spent[w] = 0 /\ sending'[w] = 0
    BY DEF TypeOK, BatchesInTime, BatchInTime
  <2>2. Left(w)' \in Nat /\ Left(w)' <= Count
    <3>1. Left(w)' = Cardinality(Oldests(Due, Limit)) + 0
      BY <2>1 DEF Left
    <3> QED
      BY <1>1, <3>1, SomeNotifications, OutboxAssumption
  <2>3. 0 <= SendTime * (Count - Left(w)')
    <3>1. SendTime * 0 <= SendTime * (Count - Left(w)') /\ SendTime * 0 = 0
      BY <2>2, TimesGrows, OutboxAssumption
    <3> QED
      BY <3>1
  <2>4. SendTime * (Count - Left(w)') \in Int
    BY <2>2, TimesGrows, OutboxAssumption
  <2> QED
    BY <2>1, <2>2, <2>3, <2>4 DEF BatchInTime
<1>6. BatchesInTime'
  <2>1. \A v \in Workers \ {w} : /\ batch'[v] = batch[v] /\ sending'[v] = sending[v]
                                /\ since'[v] = since[v] /\ spent'[v] = spent[v]
    BY DEF TypeOK
  <2> QED
    BY <1>5, <2>1, BatchesKept
<1> QED
  BY <1>3, <1>4, <1>6

------------------------------------------------------------------------------
(* The first of a list is claimed, or passed over.                         *)
LEMMA OutboxInvClaim ==
  ASSUME OutboxInv, NEW w \in Workers, Claim(w)
  PROVE  OutboxInv'
<1> USE DEF OutboxInv
<1>1. PICK n \in batch[w] :
        /\ batch' = [batch EXCEPT ![w] = @ \ {n}]
        /\ IF Claimable(w, n)
           THEN /\ status' = [status EXCEPT ![n] = "SENDING"]
                /\ attempts' = [attempts EXCEPT ![n] = @ + 1]
                /\ age' = [age EXCEPT ![n] = since[w]]
                /\ sending' = [sending EXCEPT ![w] = n]
           ELSE UNCHANGED <<status, attempts, age, sending>>
  BY DEF Claim
<1>2. /\ sending[w] = 0 /\ n \in Notifications /\ n # 0
      /\ UNCHANGED <<log, wait, delivered, since, spent>>
  BY DEF Claim, TypeOK, Notifications
<1>3. /\ batch' \in [Workers -> SUBSET Notifications] /\ batch'[w] = batch[w] \ {n}
      /\ \A v \in Workers \ {w} : batch'[v] = batch[v] /\ since'[v] = since[v] /\ spent'[v] = spent[v]
  BY <1>1, <1>2 DEF TypeOK
<1>4. /\ BatchInTime(w) /\ spent[w] = 0 /\ Left(w) = Cardinality(batch[w])
      /\ Cardinality(batch[w]) \in Nat /\ Cardinality(batch[w]) >= 1
      /\ Cardinality(batch[w]) <= Count
      /\ Cardinality(batch'[w]) = Cardinality(batch[w]) - 1
  <2>1. /\ Cardinality(batch[w]) \in Nat /\ Cardinality(batch[w]) >= 1
        /\ Cardinality(batch[w]) <= Count
        /\ Cardinality(batch'[w]) = Cardinality(batch[w]) - 1
    BY <1>1, <1>3, SomeNotifications DEF TypeOK
  <2>2. BatchInTime(w)
    BY DEF BatchesInTime
  <2> QED
    BY <1>2, <2>1, <2>2 DEF BatchInTime, Left
<1>5. CASE Claimable(w, n)
  <2>1. /\ status' = [status EXCEPT ![n] = "SENDING"]
        /\ attempts' = [attempts EXCEPT ![n] = attempts[n] + 1]
        /\ age' = [age EXCEPT ![n] = since[w]]
        /\ sending' = [sending EXCEPT ![w] = n]
    BY <1>1, <1>5
  <2>2. RowFits("SENDING", attempts[n] + 1, log[n])
    <3>1. status[n] \in {"PENDING", "RETRY"} /\ RowFits(status[n], attempts[n], log[n])
      BY <1>2, <1>5, RowsTyped DEF Claimable
    <3> QED
      BY <3>1, RowClaimed
  <2>3. TypeOK'
    <3>1. since[w] \in 0..Oldest
      BY Clocks DEF TypeOK
    <3>2. attempts[n] + 1 \in 0..MaxAttempts
      BY <2>2 DEF RowFits
    <3> QED
      BY <1>2, <1>3, <2>1, <3>1, <3>2 DEF TypeOK
  <2>4. RowsFit'
    <3>1. /\ status'[n] = "SENDING" /\ attempts'[n] = attempts[n] + 1 /\ log'[n] = log[n]
          /\ \A m \in Notifications \ {n} :
               status'[m] = status[m] /\ attempts'[m] = attempts[m] /\ log'[m] = log[m]
      BY <1>2, <2>1 DEF TypeOK
    <3> QED
      BY <1>2, <2>2, <3>1, RowsKept
  <2>5. \A v \in Workers : sending[v] # n
    BY <1>2, <1>5 DEF SendersHold, Claimable
  <2>6. /\ sending'[w] = n
        /\ \A v \in Workers \ {w} : sending'[v] = sending[v]
    BY <2>1 DEF TypeOK
  <2>7. SendersHold'
    <3> SUFFICES ASSUME NEW v \in Workers, sending'[v] # 0
                 PROVE  status'[sending'[v]] \in {"SENDING", "UNCERTAIN"}
      BY DEF SendersHold
    <3>1. CASE v = w
      BY <1>2, <2>1, <2>6, <3>1 DEF TypeOK
    <3>2. CASE v # w
      <4>1. sending'[v] = sending[v] /\ sending[v] \in Notifications /\ sending[v] # n
        BY <2>5, <2>6, <3>2 DEF TypeOK
      <4>2. status'[sending[v]] = status[sending[v]]
        BY <1>2, <2>1, <4>1 DEF TypeOK
      <4> QED
        BY <4>1, <4>2 DEF SendersHold
    <3> QED
      BY <3>1, <3>2
  <2>8. OneSender'
    BY <1>2, <2>5, <2>6 DEF OneSender
  <2>9. BatchInTime(w)'
    <3>1. Left(w)' = Left(w)
      BY <1>2, <1>4, <2>6 DEF Left
    <3> QED
      BY <1>2, <1>4, <2>6, <3>1 DEF BatchInTime
  <2> QED
    BY <1>3, <2>3, <2>4, <2>6, <2>7, <2>8, <2>9, BatchesKept
<1>6. CASE ~Claimable(w, n)
  <2>1. UNCHANGED <<status, attempts, age, sending>>
    BY <1>1, <1>6
  <2>2. TypeOK' /\ RowsFit' /\ SendersHold' /\ OneSender'
    BY <1>2, <1>3, <2>1 DEF TypeOK, RowsFit, SendersHold, OneSender
  <2>3. BatchInTime(w)'
    <3>1. Left(w)' = Left(w) - 1 /\ Left(w)' \in Nat /\ Left(w) \in Nat /\ Left(w) <= Count
      BY <1>2, <1>4, <2>1 DEF Left
    <3>2. since[w] <= SendTime * (Count - Left(w)')
      BY <1>4, <3>1, TimeLeft DEF BatchInTime, TypeOK
    <3>3. SendTime * (Count - Left(w)') \in Int
      BY <3>1, TimesGrows, OutboxAssumption
    <3> QED
      BY <1>2, <1>4, <2>1, <3>1, <3>2, <3>3, OutboxAssumption DEF BatchInTime
  <2> QED
    BY <1>3, <2>1, <2>2, <2>3, BatchesKept
<1> QED
  BY <1>5, <1>6

LEMMA OutboxInvCrash ==
  ASSUME OutboxInv, NEW w \in Workers, Crash(w)
  PROVE  OutboxInv'
<1> USE DEF OutboxInv
<1>1. /\ batch[w] # {} \/ sending[w] # 0
      /\ Release(w, {}) /\ UNCHANGED <<status, attempts, log, wait, age, since>>
  BY DEF Crash
<1>2. /\ BatchesInTime' /\ batch' \in [Workers -> SUBSET Notifications]
      /\ sending' \in [Workers -> Notifications \cup {0}] /\ spent' \in [Workers -> 0..SendTime]
  <2>1. /\ {} \in {{}, batch[w]} /\ since' = since
        /\ sending[w] # 0 \/ ({} = {} /\ batch[w] # {})
    BY <1>1
  <2> HIDE DEF OutboxInv
  <2> QED
    BY <1>1, <2>1, Released
<1>3. delivered' \in [Notifications -> Nat]
  <2>1. PICK copies \in {0, 1} :
          delivered' = [n \in Notifications |-> delivered[n] + IF n = sending[w] THEN copies ELSE 0]
    BY DEF Crash
  <2> QED
    BY <2>1 DEF TypeOK
<1>4. TypeOK' /\ RowsFit'
  BY <1>1, <1>2, <1>3 DEF TypeOK, RowsFit
<1>5. \A v \in Workers : sending'[v] = sending[v] \/ sending'[v] = 0
  BY <1>1 DEF Release, TypeOK
<1>6. SendersHold' /\ OneSender'
  BY <1>1, <1>5 DEF SendersHold, OneSender
<1> QED
  BY <1>2, <1>4, <1>6

(* The end of a send, whose row may have been given up in the meantime.    *)
LEMMA OutboxInvRecord ==
  ASSUME OutboxInv, NEW w \in Workers, sending[w] # 0,
         NEW new \in Outcomes, NEW next \in Int, new = "RETRY" => attempts[sending[w]] < MaxAttempts,
         Record(w, new, next), UNCHANGED <<attempts, since>>,
         delivered' \in [Notifications -> Nat]
  PROVE  OutboxInv'
<1> DEFINE n == sending[w]
<1> USE DEF OutboxInv
<1>1. n \in Notifications
  BY DEF TypeOK
<1>2. \E rest \in {{}, batch[w]} : Release(w, rest)
  BY DEF Record
<1>3. /\ BatchesInTime' /\ batch' \in [Workers -> SUBSET Notifications]
      /\ sending' \in [Workers -> Notifications \cup {0}] /\ spent' \in [Workers -> 0..SendTime]
  <2>1. PICK rest \in {{}, batch[w]} : Release(w, rest)
    BY <1>2
  <2> HIDE DEF OutboxInv
  <2> QED
    BY <2>1, Released
<1>4. \A v \in Workers : sending'[v] = (IF v = w THEN 0 ELSE sending[v])
  BY <1>2 DEF Release, TypeOK
<1>5. OneSender'
  BY <1>4 DEF OneSender
<1>6. CASE AlreadyLogged(n)
  <2>1. UNCHANGED <<status, log, wait, age>>
    BY <1>6 DEF Record
  <2> QED
    BY <1>3, <1>4, <1>5, <2>1 DEF TypeOK, RowsFit, SendersHold
<1>7. CASE ~AlreadyLogged(n)
  <2>1. /\ status' = [status EXCEPT ![n] = new]
        /\ log' = [log EXCEPT ![n] = log[n] \cup {<<attempts[n], new>>}]
        /\ wait' = [wait EXCEPT ![n] = next]
        /\ age' = [age EXCEPT ![n] = 0]
    BY <1>7 DEF Record
  <2>2. status[n] = "SENDING"
    <3>1. status[n] \in {"SENDING", "UNCERTAIN"}
      BY DEF SendersHold
    <3> QED
      BY <1>1, <1>7, <3>1, RowsTyped DEF Outcomes
  <2>3. RowFits(new, attempts[n], log[n] \cup {<<attempts[n], new>>})
    <3>1. RowFits("SENDING", attempts[n], log[n])
      BY <1>1, <2>2, RowsTyped
    <3> QED
      BY <3>1, RowEnded
  <2>4. TypeOK'
    <3>1. <<attempts[n], new>> \in (1..MaxAttempts) \X Outcomes
      BY <2>3 DEF RowFits
    <3>2. new \in Terminal \cup {"RETRY"} /\ 0 \in 0..Oldest
      BY Clocks DEF Outcomes, Terminal
    <3> QED
      BY <1>3, <2>1, <3>1, <3>2 DEF TypeOK
  <2>5. RowsFit'
    <3>1. /\ status'[n] = new /\ attempts'[n] = attempts[n]
          /\ log'[n] = log[n] \cup {<<attempts[n], new>>}
          /\ \A m \in Notifications \ {n} :
               status'[m] = status[m] /\ attempts'[m] = attempts[m] /\ log'[m] = log[m]
      BY <1>1, <2>1 DEF TypeOK
    <3> QED
      BY <1>1, <2>3, <3>1, RowsKept
  <2>6. SendersHold'
    <3> SUFFICES ASSUME NEW v \in Workers, sending'[v] # 0
                 PROVE  status'[sending'[v]] \in {"SENDING", "UNCERTAIN"}
      BY DEF SendersHold
    <3>1. v # w /\ sending'[v] = sending[v] /\ sending[v] # n
      BY <1>4 DEF OneSender
    <3>2. status'[sending[v]] = status[sending[v]]
      BY <2>1, <3>1 DEF TypeOK
    <3> QED
      BY <3>1, <3>2 DEF SendersHold
  <2> QED
    BY <1>3, <1>5, <2>4, <2>5, <2>6
<1> QED
  BY <1>6, <1>7

(* The three outcomes of a send, as the record that each of them makes.    *)
LEMMA Recorded ==
  ASSUME OutboxInv, NEW w \in Workers, SendSucceeds(w) \/ SendFails(w) \/ SendBreaks(w)
  PROVE  /\ sending[w] \in Notifications /\ sending[w] # 0 /\ UNCHANGED <<attempts, since>>
         /\ \E new \in Outcomes, next \in Int, copies \in {0, 1} :
              /\ Record(w, new, next)
              /\ new = "RETRY" => attempts[sending[w]] < MaxAttempts
              /\ delivered' = [delivered EXCEPT ![sending[w]] = @ + copies]
              /\ new = "SENT" => copies = 1
<1> USE DEF OutboxInv
<1>1. sending[w] \in Notifications /\ sending[w] # 0 /\ UNCHANGED <<attempts, since>>
  BY DEF SendSucceeds, SendFails, SendBreaks, TypeOK
<1>2. /\ attempts[sending[w]] \in 1..MaxAttempts /\ -Horizon \in Int
      /\ {"SENT", "RETRY", "FAILED"} \subseteq Outcomes
  <2>1. status[sending[w]] \in {"SENDING", "UNCERTAIN"}
    BY <1>1 DEF SendersHold
  <2>2. RowFits(status[sending[w]], attempts[sending[w]], log[sending[w]])
    BY <1>1, RowsTyped
  <2>3. attempts[sending[w]] \in 1..MaxAttempts
    BY <2>1, <2>2, OutboxAssumption DEF RowFits, Outcomes
  <2> QED
    BY <2>3, Clocks DEF Outcomes
<1>3. CASE SendSucceeds(w)
  <2>1. Record(w, "SENT", -Horizon) /\ delivered' = [delivered EXCEPT ![sending[w]] = @ + 1]
    BY <1>3 DEF SendSucceeds
  <2> QED
    BY <1>1, <1>2, <2>1, Zenon
<1>4. CASE SendFails(w)
  <2>1. PICK copies \in {0, 1} : delivered' = [delivered EXCEPT ![sending[w]] = @ + copies]
    BY <1>4 DEF SendFails
  <2>2. CASE attempts[sending[w]] >= MaxAttempts
    <3>1. Record(w, "FAILED", -Horizon)
      BY <1>4, <2>2 DEF SendFails
    <3> QED
      BY <1>1, <1>2, <2>1, <3>1, Zenon
  <2>3. CASE ~(attempts[sending[w]] >= MaxAttempts)
    <3>1. Record(w, "RETRY", Delay(attempts[sending[w]]) - since[w])
      BY <1>4, <2>3 DEF SendFails
    <3>2. Delay(attempts[sending[w]]) - since[w] \in Int
      <4>1. attempts[sending[w]] - 1 \in Nat
        BY <1>2
      <4>2. RetryDelay * 2^(attempts[sending[w]] - 1) \in Int
        BY <4>1, OutboxAssumption
      <4>3. Delay(attempts[sending[w]]) \in Int
        BY <4>2, OutboxAssumption DEF Delay, CutAt
      <4>4. since[w] \in Int
        BY Clocks DEF TypeOK
      <4> QED
        BY <4>3, <4>4
    <3>3. attempts[sending[w]] < MaxAttempts
      BY <1>2, <2>3, OutboxAssumption
    <3> QED
      BY <1>1, <1>2, <2>1, <3>1, <3>2, <3>3, Zenon
  <2> QED
    BY <2>2, <2>3
<1>5. CASE SendBreaks(w)
  <2>1. Record(w, "FAILED", -Horizon) /\ delivered' = [delivered EXCEPT ![sending[w]] = @ + 0]
    BY <1>1, <1>5 DEF SendBreaks, TypeOK
  <2> QED
    BY <1>1, <1>2, <2>1, Zenon
<1> QED
  BY <1>3, <1>4, <1>5

LEMMA OutboxInvSend ==
  ASSUME OutboxInv, NEW w \in Workers, SendSucceeds(w) \/ SendFails(w) \/ SendBreaks(w)
  PROVE  OutboxInv'
<1>1. PICK new \in Outcomes, next \in Int, copies \in {0, 1} :
        /\ Record(w, new, next)
        /\ new = "RETRY" => attempts[sending[w]] < MaxAttempts
        /\ delivered' = [delivered EXCEPT ![sending[w]] = @ + copies]
  BY Recorded
<1>2. sending[w] \in Notifications /\ sending[w] # 0 /\ UNCHANGED <<attempts, since>>
  BY Recorded
<1>3. delivered' \in [Notifications -> Nat]
  BY <1>1, <1>2 DEF OutboxInv, TypeOK
<1> QED
  BY <1>1, <1>2, <1>3, OutboxInvRecord

LEMMA OutboxInvTick ==
  ASSUME OutboxInv, Tick
  PROVE  OutboxInv'
<1> USE DEF OutboxInv
<1>1. /\ \A w \in Workers : IF sending[w] # 0 THEN spent[w] < SendTime ELSE batch[w] = {}
      /\ wait' = [n \in Notifications |-> IF wait[n] > -Horizon THEN wait[n] - 1 ELSE -Horizon]
      /\ age' = [n \in Notifications |->
                   IF status[n] = "SENDING" THEN CutAt(age[n] + 1, Oldest) ELSE age[n]]
      /\ since' = [w \in Workers |-> IF sending[w] # 0 THEN since[w] + 1 ELSE since[w]]
      /\ spent' = [w \in Workers |-> IF sending[w] # 0 THEN spent[w] + 1 ELSE 0]
      /\ UNCHANGED <<status, attempts, log, delivered, batch, sending>>
  BY DEF Tick
<1>2. RowsFit' /\ SendersHold' /\ OneSender'
  BY <1>1 DEF RowsFit, SendersHold, OneSender
<1>3. \A w \in Workers :
        /\ since[w] \in Nat /\ spent[w] \in 0..SendTime
        /\ since'[w] = (IF sending[w] # 0 THEN since[w] + 1 ELSE since[w])
        /\ spent'[w] = (IF sending[w] # 0 THEN spent[w] + 1 ELSE 0)
        /\ spent'[w] \in 0..SendTime /\ since'[w] \in Nat
  <2> TAKE w \in Workers
  <2>1. since[w] \in Nat /\ spent[w] \in 0..SendTime
    BY Clocks DEF TypeOK
  <2> QED
    BY <1>1, <2>1, OutboxAssumption
<1>4. ASSUME NEW w \in Workers
      PROVE  /\ BatchInTime(w)'
             /\ Left(w)' \in Nat /\ Left(w)' <= Count
             /\ Left(w)' = 0 => spent'[w] = 0
  <2>1. Left(w)' = Left(w)
    BY <1>1 DEF Left
  <2>2. BatchInTime(w) /\ Left(w) \in Nat /\ (Left(w) = 0 => sending[w] = 0)
    <3>1. Cardinality(batch[w]) \in Nat
      BY SomeNotifications DEF TypeOK
    <3> QED
      BY <3>1 DEF Left, BatchesInTime
  <2>3. SendTime * (Count - Left(w)) \in Int
    BY <2>2, TimesGrows, OutboxAssumption
  <2> QED
    BY <1>1, <1>3, <2>1, <2>2, <2>3, OutboxAssumption DEF BatchInTime
<1>5. BatchesInTime'
  BY <1>4 DEF BatchesInTime
<1>6. \A w \in Workers : since'[w] \in 0..Horizon
  <2> TAKE w \in Workers
  <2>1. since'[w] <= SendTime * (Count - Left(w)') + spent'[w]
    BY <1>4 DEF BatchInTime
  <2>2. since'[w] <= Horizon
    <3> DEFINE left == Left(w)'
               used == spent'[w]
               time == since'[w]
    <3>1. left \in Nat /\ left <= Count /\ used \in 0..SendTime /\ time \in Nat
          /\ (left = 0 => used = 0) /\ time <= SendTime * (Count - left) + used
      BY <1>3, <1>4, <2>1
    <3> HIDE DEF left, used, time
    <3>2. time <= Horizon
      BY <3>1, InTime
    <3> QED
      BY <3>2 DEF time
  <2> QED
    BY <1>3, <2>2, Clocks
<1>7. TypeOK'
  <2>1. since' \in [Workers -> 0..Horizon] /\ spent' \in [Workers -> 0..SendTime]
    BY <1>1, <1>3, <1>6
  <2>2. wait' \in [Notifications -> Int]
    BY <1>1, Clocks DEF TypeOK
  <2>3. age' \in [Notifications -> 0..Oldest]
    BY <1>1, Clocks DEF TypeOK, CutAt
  <2> QED
    BY <1>1, <2>1, <2>2, <2>3 DEF TypeOK
<1> QED
  BY <1>2, <1>5, <1>7

LEMMA OutboxInvStep == OutboxInv /\ [Next]_vars => OutboxInv'
<1> SUFFICES ASSUME OutboxInv, [Next]_vars PROVE OutboxInv'
  OBVIOUS
<1>1. CASE UNCHANGED vars
  BY <1>1 DEF OutboxInv, TypeOK, RowsFit, SendersHold, OneSender, BatchesInTime, BatchInTime, Left,
              vars, rowVars, workerVars
<1>2. CASE \E n \in Notifications : Enqueue(n) \/ MarkStale(n)
  BY <1>2, OutboxInvEnqueue, OutboxInvMarkStale
<1>3. CASE \E w \in Workers : WorkerNext(w)
  BY <1>3, OutboxInvStartBatch, OutboxInvClaim, OutboxInvCrash, OutboxInvSend DEF WorkerNext
<1>4. CASE Tick
  BY <1>4, OutboxInvTick
<1> QED
  BY <1>1, <1>2, <1>3, <1>4 DEF Next

LEMMA OutboxInvHolds == Spec => []OutboxInv
  BY OutboxInvInit, OutboxInvStep, PTL DEF Spec

------------------------------------------------------------------------------
(***************************************************************************)
(* AttemptsAreLogged, for any number of mails, workers and attempts: each  *)
(* finished attempt of a notification (process_one_notification,           *)
(* mark_stale_sending_uncertain) left one row, numbered without gaps, and  *)
(* the status says what the last one says.  The types hold with it, among  *)
(* them that no batch takes longer than Horizon.                           *)
(***************************************************************************)
THEOREM AttemptsStayLogged == Spec => []AttemptsAreLogged
<1>1. OutboxInv => AttemptsAreLogged
  <2> SUFFICES ASSUME OutboxInv, NEW n \in Notifications
               PROVE  LET open == IF status[n] = "SENDING" THEN 1 ELSE 0
                      IN  /\ Logged(n) = 1..(attempts[n] - open)
                          /\ Cardinality(log[n]) = Cardinality(Logged(n))
                          /\ status[n] \in Outcomes => <<attempts[n], status[n]>> \in log[n]
    BY DEF OutboxInv, AttemptsAreLogged
  <2>1. /\ RowFits(status[n], attempts[n], log[n])
        /\ Numbers(log[n]) = Logged(n) /\ attempts[n] \in Int
    BY RowsTyped DEF Numbers, Logged
  <2>2. Logged(n) = 1..(attempts[n] - IF status[n] = "SENDING" THEN 1 ELSE 0)
    BY <2>1 DEF RowFits
  <2>3. IsFiniteSet(Logged(n))
    BY <2>1, <2>2, FS_Interval
  <2>4. Cardinality(log[n]) = Cardinality(Logged(n))
    <3> DEFINE f == [e \in log[n] |-> e[1]]
    <3>1. f \in Injection(log[n], Logged(n)) /\ f \in Surjection(log[n], Logged(n))
      <4>1. f \in [log[n] -> Logged(n)]
        BY DEF Logged
      <4>2. \A e, g \in log[n] : f[e] = f[g] => e = g
        BY <2>1 DEF RowFits
      <4>3. \A k \in Logged(n) : \E e \in log[n] : f[e] = k
        BY DEF Logged
      <4> QED
        BY <4>1, <4>2, <4>3 DEF Injection, IsInjective, Surjection
    <3> QED
      BY <2>3, <3>1, FS_Injection
  <2> QED
    BY <2>1, <2>2, <2>4 DEF RowFits
<1> QED
  BY <1>1, OutboxInvHolds, PTL

(***************************************************************************)
(* FinalStatuses: no step changes SENT, FAILED or UNCERTAIN, although the  *)
(* last transaction of process_one_notification does not look at the       *)
(* status it overwrites: a row that was given up has its attempt logged,   *)
(* and the number of an attempt row is unique.                             *)
(***************************************************************************)
THEOREM FinalStatusesStay == Spec => FinalStatuses
<1>1. OutboxInv /\ [Next]_vars =>
        [\A n \in Notifications : status[n] \in Terminal => status'[n] = status[n]]_vars
  <2> SUFFICES ASSUME OutboxInv, Next, NEW n \in Notifications, status[n] \in Terminal
               PROVE  status'[n] = status[n]
    BY DEF FinalStatuses
  <2> USE DEF OutboxInv, TypeOK
  <2>1. CASE \E m \in Notifications : Enqueue(m) \/ MarkStale(m)
    BY <2>1 DEF Enqueue, MarkStale, Terminal
  <2>2. CASE \E w \in Workers : WorkerNext(w)
    <3> PICK w \in Workers : WorkerNext(w)
      BY <2>2
    <3>1. CASE StartBatch(w) \/ Crash(w)
      BY <3>1 DEF StartBatch, Crash, rowVars
    <3>2. CASE Claim(w)
      BY <3>2 DEF Claim, Claimable, Terminal
    <3>3. CASE SendSucceeds(w) \/ SendFails(w) \/ SendBreaks(w)
      <4>1. PICK new \in Outcomes, next \in Int : Record(w, new, next)
        BY <3>3, Recorded
      <4>2. status[sending[w]] \in Terminal => UNCHANGED status
        <5>1. Terminal \subseteq Outcomes
          BY DEF Terminal, Outcomes
        <5>2. sending[w] \in Notifications
          BY <3>3, Recorded
        <5>3. status[sending[w]] \in Terminal => AlreadyLogged(sending[w])
          BY <5>1, <5>2, RowsTyped
        <5> QED
          BY <4>1, <5>3 DEF Record
      <4>3. \A m \in Notifications : m # sending[w] => status'[m] = status[m]
        BY <4>1 DEF Record
      <4> QED
        BY <4>2, <4>3
    <3> QED
      BY <3>1, <3>2, <3>3 DEF WorkerNext
  <2>3. CASE Tick
    BY <2>3 DEF Tick
  <2> QED
    BY <2>1, <2>2, <2>3 DEF Next
<1> QED
  BY <1>1, OutboxInvHolds, PTL DEF Spec, FinalStatuses

------------------------------------------------------------------------------
(* How many copies.                                                        *)
LEMMA RetriesCounted ==
  ASSUME OutboxInv, NEW n \in Notifications
  PROVE  Cardinality(Retries(log[n])) \in Nat /\ delivered[n] \in Nat
<1>1. /\ RowFits(status[n], attempts[n], log[n]) /\ attempts[n] \in Int
      /\ delivered[n] \in Nat
  BY RowsTyped DEF OutboxInv, TypeOK
<1>2. IsFiniteSet(Numbers(log[n]))
  BY <1>1, FS_Interval DEF RowFits
<1>3. Retries(log[n]) \subseteq Numbers(log[n])
  BY DEF Retries
<1> QED
  BY <1>1, <1>2, <1>3, FS_Subset, FS_CardinalityType

(* Steps that send nothing, to no new row, and log no attempt.             *)
LEMMA CopiesQuiet ==
  ASSUME OutboxInv, CopiesFit, UNCHANGED <<log, delivered>>,
         \A n \in Notifications :
           /\ (status[n] \in {"NONE", "PENDING", "RETRY"} \/ Sender(n))'
                => status[n] \in {"NONE", "PENDING", "RETRY"} \/ Sender(n)
           /\ status'[n] = "SENT" => status[n] = "SENT"
  PROVE  CopiesFit'
  BY DEF CopiesFit, Copied

LEMMA CopiesMarkStale ==
  ASSUME OutboxInv, CopiesFit, NEW n \in Notifications, MarkStale(n)
  PROVE  CopiesFit'
<1> DEFINE rows == log[n] \cup {<<attempts[n], "UNCERTAIN">>}
<1>1. /\ status'[n] = "UNCERTAIN" /\ log'[n] = rows /\ status[n] = "SENDING"
      /\ \A m \in Notifications : m # n => status'[m] = status[m] /\ log'[m] = log[m]
      /\ UNCHANGED <<delivered, sending>>
  BY DEF MarkStale, OutboxInv, TypeOK, workerVars
<1>2. \A m : Sender(m)' = Sender(m)
  BY <1>1 DEF Sender
<1>3. Cardinality(Retries(rows)) = Cardinality(Retries(log[n]))
  <2>1. RowFits("SENDING", attempts[n], log[n]) /\ "UNCERTAIN" \in Outcomes /\ "UNCERTAIN" # "RETRY"
    BY <1>1, RowsTyped DEF Outcomes
  <2>2. Cardinality(Retries(rows)) = Cardinality(Retries(log[n])) + 0
    BY <2>1, RetriesAdded
  <2> QED
    BY <2>2, RetriesCounted
<1> HIDE DEF rows
<1>4. \A m \in Notifications : \A k : Copied(m, k)' = Copied(m, k)
  BY <1>1, <1>3 DEF Copied
<1> QED
  BY <1>1, <1>2, <1>4 DEF CopiesFit

LEMMA CopiesClaim ==
  ASSUME OutboxInv, CopiesFit, NEW w \in Workers, Claim(w)
  PROVE  CopiesFit'
<1>1. PICK n \in batch[w] :
        IF Claimable(w, n)
        THEN /\ status' = [status EXCEPT ![n] = "SENDING"]
             /\ sending' = [sending EXCEPT ![w] = n]
        ELSE UNCHANGED <<status, sending>>
  BY DEF Claim
<1>2. UNCHANGED <<log, delivered>> /\ n \in Notifications
  BY DEF Claim, OutboxInv, TypeOK
<1>3. CASE Claimable(w, n)
  <2>1. \A m \in Notifications \ {n} : status'[m] = status[m] /\ (Sender(m)' => Sender(m))
    BY <1>1, <1>3 DEF OutboxInv, TypeOK, Sender
  <2>2. status[n] \in {"PENDING", "RETRY"} /\ status'[n] = "SENDING"
    BY <1>1, <1>2, <1>3 DEF Claimable, OutboxInv, TypeOK
  <2> QED
    BY <1>2, <2>1, <2>2, CopiesQuiet
<1>4. CASE ~Claimable(w, n)
  BY <1>1, <1>2, <1>4, CopiesQuiet DEF Sender
<1> QED
  BY <1>3, <1>4

(* A worker that ends a send, or dies with it, was the only one on it.     *)
LEMMA SenderLeaves ==
  ASSUME OutboxInv, NEW w \in Workers, NEW rest, Release(w, rest)
  PROVE  /\ \A m \in Notifications : Sender(m)' => Sender(m) /\ m # sending[w]
<1>1. \A v \in Workers : sending'[v] = (IF v = w THEN 0 ELSE sending[v])
  BY DEF Release, OutboxInv, TypeOK
<1>2. \A m \in Notifications : m # 0
  BY DEF Notifications
<1> QED
  BY <1>1, <1>2 DEF OutboxInv, OneSender, Sender

LEMMA CopiesCrash ==
  ASSUME OutboxInv, CopiesFit, NEW w \in Workers, Crash(w)
  PROVE  CopiesFit'
<1>1. PICK copies \in {0, 1} :
        delivered' = [n \in Notifications |-> delivered[n] + IF n = sending[w] THEN copies ELSE 0]
  BY DEF Crash
<1>2. Release(w, {}) /\ UNCHANGED <<status, log>>
  BY DEF Crash
<1> SUFFICES ASSUME NEW n \in Notifications
             PROVE  /\ Copied(n, 1)'
                    /\ (status[n] \in {"NONE", "PENDING", "RETRY"} \/ Sender(n))' => Copied(n, 0)'
                    /\ status'[n] = "SENT" => delivered'[n] >= 1
  BY DEF CopiesFit
<1>3. /\ delivered[n] \in Nat /\ Cardinality(Retries(log[n])) \in Nat
      /\ Cardinality(Retries(log[n]))' = Cardinality(Retries(log[n]))
  BY <1>2, RetriesCounted
<1>4. CASE n = sending[w]
  <2>1. Sender(n) /\ status[n] \in {"SENDING", "UNCERTAIN"} /\ ~Sender(n)'
    BY <1>2, <1>4, SenderLeaves DEF Sender, OutboxInv, SendersHold, Notifications
  <2>2. Copied(n, 0)
    BY <2>1 DEF CopiesFit
  <2>3. delivered'[n] = delivered[n] + copies
    BY <1>1, <1>4
  <2> QED
    BY <1>2, <1>3, <2>1, <2>2, <2>3 DEF Copied
<1>5. CASE n # sending[w]
  <2>1. delivered'[n] = delivered[n]
    BY <1>1, <1>3, <1>5
  <2>2. Sender(n)' => Sender(n)
    BY <1>2, SenderLeaves
  <2>3. \A k : Copied(n, k)' = Copied(n, k)
    BY <1>2, <2>1 DEF Copied
  <2> QED
    BY <1>2, <2>1, <2>2, <2>3 DEF CopiesFit
<1> QED
  BY <1>4, <1>5

LEMMA CopiesSend ==
  ASSUME OutboxInv, CopiesFit, NEW w \in Workers, SendSucceeds(w) \/ SendFails(w) \/ SendBreaks(w)
  PROVE  CopiesFit'
<1>0. PICK n : n = sending[w]
  OBVIOUS
<1>1. n \in Notifications /\ n # 0 /\ UNCHANGED <<attempts, since>>
  BY <1>0, Recorded
<1>2. PICK new \in Outcomes, next \in Int, copies \in {0, 1} :
        /\ Record(w, new, next)
        /\ delivered' = [delivered EXCEPT ![n] = @ + copies]
        /\ new = "SENT" => copies = 1
  BY <1>0, Recorded
<1>3. /\ Sender(n) /\ status[n] \in {"SENDING", "UNCERTAIN"} /\ Copied(n, 0)
      /\ Cardinality(Retries(log[n])) \in Nat /\ delivered[n] \in Nat
      /\ delivered'[n] = delivered[n] + copies
  <2>1. Sender(n)
    BY <1>0 DEF Sender
  <2>2. delivered'[n] = delivered[n] + copies
    BY <1>1, <1>2 DEF OutboxInv, TypeOK
  <2> QED
    BY <1>0, <1>1, <2>1, <2>2, RetriesCounted DEF CopiesFit, OutboxInv, SendersHold
<1>4. \A m \in Notifications : Sender(m)' => Sender(m) /\ m # n
  <2>1. PICK rest : Release(w, rest)
    BY <1>2 DEF Record
  <2> QED
    BY <1>0, <2>1, SenderLeaves
<1>5. ASSUME NEW m \in Notifications, m # n
      PROVE  /\ Copied(m, 1)'
             /\ (status[m] \in {"NONE", "PENDING", "RETRY"} \/ Sender(m))' => Copied(m, 0)'
             /\ status'[m] = "SENT" => delivered'[m] >= 1
  <2>1. status'[m] = status[m] /\ log'[m] = log[m] /\ delivered'[m] = delivered[m]
    BY <1>0, <1>1, <1>2, <1>5 DEF Record, OutboxInv, TypeOK
  <2> QED
    BY <1>4, <2>1 DEF CopiesFit, Copied
<1>6. CASE AlreadyLogged(n)
  <2>1. UNCHANGED <<status, log>>
    BY <1>0, <1>2, <1>6 DEF Record
  <2>2. Copied(n, 1)' /\ ~Sender(n)' /\ status'[n] \in {"SENDING", "UNCERTAIN"}
    BY <1>1, <1>3, <1>4, <2>1 DEF Copied
  <2> QED
    BY <1>5, <2>2 DEF CopiesFit
<1>7. CASE ~AlreadyLogged(n)
  <2>1. status'[n] = new /\ log'[n] = log[n] \cup {<<attempts[n], new>>}
    BY <1>0, <1>1, <1>2, <1>7 DEF Record, OutboxInv, TypeOK
  <2>2. Cardinality(Retries(log'[n])) = Cardinality(Retries(log[n])) + IF new = "RETRY" THEN 1 ELSE 0
    <3>1. status[n] = "SENDING"
      BY <1>1, <1>3, <1>7, RowsTyped DEF Outcomes
    <3>2. RowFits("SENDING", attempts[n], log[n])
      BY <1>1, <3>1, RowsTyped
    <3> QED
      BY <2>1, <3>2, RetriesAdded
  <2>3. /\ Copied(n, 1)'
        /\ new = "RETRY" => Copied(n, 0)'
        /\ new = "SENT" => delivered'[n] >= 1
    BY <1>2, <1>3, <2>2 DEF Copied
  <2>4. ~Sender(n)' /\ new \notin {"NONE", "PENDING"}
    BY <1>1, <1>4 DEF Outcomes
  <2> QED
    BY <1>5, <2>1, <2>3, <2>4 DEF CopiesFit
<1> QED
  BY <1>6, <1>7

LEMMA CopiesStep == OutboxInv /\ CopiesFit /\ [Next]_vars => CopiesFit'
<1> SUFFICES ASSUME OutboxInv, CopiesFit, [Next]_vars PROVE CopiesFit'
  OBVIOUS
<1>1. CASE UNCHANGED vars
  BY <1>1, CopiesQuiet DEF vars, rowVars, workerVars, Sender
<1>2. CASE Tick
  BY <1>2, CopiesQuiet DEF Tick, Sender
<1>3. ASSUME NEW n \in Notifications, Enqueue(n) PROVE CopiesFit'
  <2>1. UNCHANGED <<log, delivered, sending>> /\ status[n] = "NONE"
        /\ \A m \in Notifications : status'[m] = IF m = n THEN "PENDING" ELSE status[m]
    BY <1>3 DEF Enqueue, OutboxInv, TypeOK, workerVars
  <2> QED
    BY <2>1, CopiesQuiet DEF Sender
<1>4. ASSUME NEW w \in Workers, StartBatch(w) PROVE CopiesFit'
  BY <1>4, CopiesQuiet DEF StartBatch, rowVars, Sender
<1> QED
  BY <1>1, <1>2, <1>3, <1>4, CopiesMarkStale, CopiesClaim, CopiesCrash, CopiesSend DEF Next, WorkerNext

(***************************************************************************)
(* CopiesAreExplained, for any number of mails, workers and attempts:      *)
(* overlapping runs of the command never send one mail at the same time,   *)
(* a recipient gets no more than one copy beyond the attempts that ended   *)
(* in RETRY, and a mail marked SENT did arrive.                            *)
(***************************************************************************)
THEOREM CopiesStayExplained == Spec => []CopiesAreExplained
<1>1. OutboxInv /\ CopiesFit => CopiesAreExplained
  <2> SUFFICES ASSUME OutboxInv, CopiesFit, NEW n \in Notifications
               PROVE  /\ delivered[n] <= 1 + Cardinality({k \in Logged(n) : <<k, "RETRY">> \in log[n]})
                      /\ status[n] = "SENT" => delivered[n] >= 1
    BY DEF OutboxInv, CopiesAreExplained
  <2>1. Retries(log[n]) = {k \in Logged(n) : <<k, "RETRY">> \in log[n]}
    BY DEF Retries, Numbers, Logged
  <2> QED
    BY <2>1 DEF CopiesFit, Copied
<1> QED
  BY <1>1, OutboxInvInit, OutboxInvStep, CopiesStep, PTL DEF Spec
==============================================================================
