---------------------------- MODULE ExchangeProofs ----------------------------
(***************************************************************************)
(* Proofs about module Exchange, for every set of documents, calls, keys,  *)
(* profiles and verdicts.                                                  *)
(***************************************************************************)
EXTENDS Exchange, FiniteSetTheorems, TLAPS

(* Some mail of d with this envelope and this RIDE is out.                 *)
Mailed(d, e, r) ==
  \E i \in DOMAIN mails : mails[i].doc = d /\ mails[i].envelope = e /\ mails[i].ride = r

(***************************************************************************)
(* What a delivery holds while its transaction is open: the lock of its    *)
(* document, contents that are those stored, if any are, and a key that no *)
(* delivery of the same document has recorded.                             *)
(***************************************************************************)
OneCallPerDoc == \A p, q \in Calls : Busy(p) /\ call[p].doc = call[q].doc => p = q

CallHolds(p) ==
  LET c == call[p]
      a == artifact[c.doc] IN
    /\ c.key \in Keys /\ c.envelope \in Envelopes /\ c.ride \in Profiles
    /\ a.envelope # Nothing => c.envelope = a.envelope
    /\ a.ride # Nothing => c.ride = a.ride
    /\ c.mailed => Mailed(c.doc, c.envelope, c.ride)
    /\ <<"DELIVER", c.key, c.doc>> \notin records
CallsHold == \A p \in Calls : Busy(p) => CallHolds(p)

(* What is on record of a document that was delivered.                     *)
Recorded(d) ==
  /\ exchange[d].delivery = "SENT" => Mailed(d, exchange[d].envelope, exchange[d].ride)
  /\ exchange[d].delivery # "NONE" =>
       /\ exchange[d].envelope \in Envelopes /\ exchange[d].ride \in Profiles
       /\ artifact[d].envelope = exchange[d].envelope
       /\ artifact[d].ride = exchange[d].ride
RecordsHold == \A d \in Docs : Recorded(d)

(***************************************************************************)
(* ExchangeIsTrue is not inductive alone: that a commit records what is    *)
(* out and stored depends on what the open call holds.                     *)
(***************************************************************************)
ExchangeInv == TypeOK /\ OneCallPerDoc /\ CallsHold /\ RecordsHold

LEMMA ExchangeInvInit == Init => ExchangeInv
<1> SUFFICES ASSUME Init PROVE ExchangeInv
  OBVIOUS
<1> USE ExchangeAssumption DEF Init
<1>1. TypeOK
  <2>1. /\ NoExchange \in Exchanges /\ Idle \in CallStates
        /\ [envelope |-> Nothing, ride |-> Nothing] \in Artifacts
    BY DEF NoExchange, Exchanges, DeliveryStates, Idle, CallStates, Artifacts
  <2> QED
    BY <2>1 DEF TypeOK
<1>2. \A p \in Calls : ~Busy(p)
  BY DEF Busy, Idle
<1>3. RecordsHold
  BY DEF RecordsHold, Recorded, NoExchange
<1> QED
  BY <1>1, <1>2, <1>3 DEF ExchangeInv, OneCallPerDoc, CallsHold

(* Mails are only added at the end.                                        *)
LEMMA OneMoreMail ==
  ASSUME TypeOK, NEW m \in Mails, mails' = Append(mails, m)
  PROVE  /\ mails' \in Seq(Mails)
         /\ \A i \in DOMAIN mails : i \in DOMAIN mails' /\ mails'[i] = mails[i]
         /\ Len(mails) + 1 \in DOMAIN mails' /\ mails'[Len(mails) + 1] = m
         /\ \A i \in DOMAIN mails' : i \in DOMAIN mails \/ i = Len(mails) + 1
  BY DEF TypeOK

(* Steps that leave calls, contents and mails alone.                       *)
LEMMA ExchangeInvQuiet ==
  ASSUME ExchangeInv, UNCHANGED <<call, artifact, mails>>,
         TypeOK',
         \A d \in Docs : /\ exchange[d]'.delivery = exchange[d].delivery
                         /\ exchange[d]'.envelope = exchange[d].envelope
                         /\ exchange[d]'.ride = exchange[d].ride,
         \A k \in Keys, d \in Docs : <<"DELIVER", k, d>> \in records' => <<"DELIVER", k, d>> \in records
  PROVE  ExchangeInv'
<1>1. \A p \in Calls : Busy(p)' = Busy(p)
  BY DEF Busy
<1>2. \A d, e, r : Mailed(d, e, r)' = Mailed(d, e, r)
  BY DEF Mailed
<1>3. OneCallPerDoc'
  BY <1>1 DEF ExchangeInv, OneCallPerDoc
<1>4. CallsHold'
  <2> SUFFICES ASSUME NEW p \in Calls, Busy(p) PROVE CallHolds(p)'
    BY <1>1 DEF CallsHold
  <2>1. CallHolds(p) /\ call[p].doc \in Docs
    BY DEF ExchangeInv, CallsHold, Busy, TypeOK, CallStates
  <2> QED
    BY <1>2, <2>1 DEF CallHolds
<1>5. RecordsHold'
  BY <1>2 DEF ExchangeInv, RecordsHold, Recorded
<1> QED
  BY <1>3, <1>4, <1>5 DEF ExchangeInv

LEMMA ExchangeInvOutside ==
  ASSUME ExchangeInv,
         \/ \E d \in Docs : Accept(d)
         \/ \E new \in Profiles : ProfileMoves(new)
         \/ \E d \in Docs, verdict \in Verdicts : ReceiverSays(d, verdict)
  PROVE  ExchangeInv'
<1>1. TypeOK'
  BY DEF ExchangeInv, TypeOK, Accept, ProfileMoves, ReceiverSays
<1>2. UNCHANGED <<call, artifact, mails, exchange, records>>
  BY DEF Accept, ProfileMoves, ReceiverSays
<1> QED
  BY <1>1, <1>2, ExchangeInvQuiet

LEMMA ExchangeInvIngest ==
  ASSUME ExchangeInv, NEW d \in Docs, NEW k \in Keys, NEW answer \in Verdicts \cup {"RECEIVED"},
         IngestResponse(d, k, answer)
  PROVE  ExchangeInv'
<1> USE DEF ExchangeInv
<1>1. /\ exchange' = [exchange EXCEPT ![d].answer = answer]
      /\ records' = records \cup {<<"INGEST", k, d>>}
      /\ UNCHANGED <<accepted, profile, artifact, call, mails, said>>
  BY DEF IngestResponse
<1>2. TypeOK'
  <2>1. [exchange[d] EXCEPT !.answer = answer] \in Exchanges
    BY DEF TypeOK, Exchanges
  <2> QED
    BY <1>1, <2>1 DEF TypeOK
<1>3. \A e \in Docs : /\ exchange[e]'.delivery = exchange[e].delivery
                      /\ exchange[e]'.envelope = exchange[e].envelope
                      /\ exchange[e]'.ride = exchange[e].ride
  BY <1>1 DEF TypeOK, Exchanges
<1>4. \A l \in Keys, e \in Docs : <<"DELIVER", l, e>> \in records' => <<"DELIVER", l, e>> \in records
  BY <1>1
<1> QED
  BY <1>1, <1>2, <1>3, <1>4, ExchangeInvQuiet

(* A RIDE that is downloaded first is of a document that no call holds and *)
(* that was never delivered.                                               *)
LEMMA ExchangeInvDownload ==
  ASSUME ExchangeInv, NEW d \in Docs, DownloadRide(d)
  PROVE  ExchangeInv'
<1> USE DEF ExchangeInv
<1>1. /\ artifact' = [artifact EXCEPT ![d].ride = profile]
      /\ UNCHANGED <<accepted, profile, exchange, records, call, mails, said>>
      /\ artifact[d].ride = Nothing /\ ~Locked(d)
  BY DEF DownloadRide
<1>2. TypeOK'
  <2>1. [artifact[d] EXCEPT !.ride = profile] \in Artifacts
    BY DEF TypeOK, Artifacts
  <2> QED
    BY <1>1, <2>1 DEF TypeOK
<1>3. \A e \in Docs : e # d => artifact'[e] = artifact[e]
  BY <1>1 DEF TypeOK
<1>4. /\ \A p \in Calls : Busy(p)' = Busy(p)
      /\ \A e, x, r : Mailed(e, x, r)' = Mailed(e, x, r)
  BY <1>1 DEF Busy, Mailed
<1>5. OneCallPerDoc'
  BY <1>1, <1>4 DEF OneCallPerDoc
<1>6. CallsHold'
  <2> SUFFICES ASSUME NEW p \in Calls, Busy(p) PROVE CallHolds(p)'
    BY <1>4 DEF CallsHold
  <2>1. CallHolds(p) /\ call[p].doc \in Docs /\ call[p].doc # d
    BY <1>1 DEF CallsHold, Busy, Locked, TypeOK, CallStates
  <2> QED
    BY <1>1, <1>3, <1>4, <2>1 DEF CallHolds
<1>7. RecordsHold'
  <2>1. exchange[d].delivery = "NONE"
    BY <1>1, ExchangeAssumption DEF RecordsHold, Recorded
  <2> QED
    BY <1>1, <1>3, <1>4, <2>1 DEF RecordsHold, Recorded
<1> QED
  BY <1>2, <1>5, <1>6, <1>7

LEMMA ExchangeInvStart ==
  ASSUME ExchangeInv, NEW p \in Calls, NEW d \in Docs, NEW k \in Keys, DeliverStarts(p, d, k)
  PROVE  ExchangeInv'
<1> USE DEF ExchangeInv
<1>1. PICK e \in EnvelopesFor(d) :
        call' = [call EXCEPT ![p] = [doc |-> d, key |-> k, envelope |-> e,
                                     ride |-> RideOf(d), mailed |-> FALSE]]
  BY DEF DeliverStarts
<1>2. /\ ~Busy(p) /\ ~Locked(d) /\ <<"DELIVER", k, d>> \notin records
      /\ UNCHANGED <<accepted, profile, artifact, exchange, records, mails, said>>
  BY DEF DeliverStarts, KeyTaken
<1>3. /\ e \in Envelopes /\ RideOf(d) \in Profiles
      /\ artifact[d].envelope # Nothing => e = artifact[d].envelope
      /\ artifact[d].ride # Nothing => RideOf(d) = artifact[d].ride
  BY DEF EnvelopesFor, RideOf, TypeOK, Artifacts
<1>4. TypeOK'
  <2>1. [doc |-> d, key |-> k, envelope |-> e, ride |-> RideOf(d), mailed |-> FALSE] \in CallStates
    BY <1>3 DEF CallStates
  <2> QED
    BY <1>1, <1>2, <2>1 DEF TypeOK
<1>5. /\ call'[p].doc = d /\ call'[p].key = k /\ call'[p].envelope = e
      /\ call'[p].ride = RideOf(d) /\ call'[p].mailed = FALSE
      /\ \A q \in Calls : q # p => call'[q] = call[q]
  BY <1>1 DEF TypeOK
<1>6. OneCallPerDoc'
  BY <1>2, <1>5, ExchangeAssumption DEF OneCallPerDoc, Busy, Locked
<1>7. \A c, x, r : Mailed(c, x, r)' = Mailed(c, x, r)
  BY <1>2 DEF Mailed
<1>8. CallsHold'
  <2> SUFFICES ASSUME NEW q \in Calls, Busy(q)' PROVE CallHolds(q)'
    BY DEF CallsHold
  <2>1. CASE q = p
    BY <1>2, <1>3, <1>5, <2>1 DEF CallHolds
  <2>2. CASE q # p
    <3>1. CallHolds(q)
      BY <1>5, <2>2 DEF CallsHold, Busy
    <3> QED
      BY <1>2, <1>5, <1>7, <2>2, <3>1 DEF CallHolds
  <2> QED
    BY <2>1, <2>2
<1>9. RecordsHold'
  BY <1>2, <1>7 DEF RecordsHold, Recorded
<1> QED
  BY <1>4, <1>6, <1>8, <1>9

LEMMA ExchangeInvMail ==
  ASSUME ExchangeInv, NEW p \in Calls, MailGoesOut(p)
  PROVE  ExchangeInv'
<1> USE DEF ExchangeInv
<1> DEFINE m == [doc |-> call[p].doc, key |-> call[p].key,
                 envelope |-> call[p].envelope, ride |-> call[p].ride]
<1>1. /\ Busy(p) /\ mails' = Append(mails, m)
      /\ call' = [call EXCEPT ![p].mailed = TRUE]
      /\ UNCHANGED <<accepted, profile, artifact, exchange, records, said>>
  BY DEF MailGoesOut
<1>2. m \in Mails
  BY <1>1 DEF CallsHold, CallHolds, Busy, TypeOK, CallStates, Mails
<1>3. TypeOK'
  <2>1. [call[p] EXCEPT !.mailed = TRUE] \in CallStates
    BY DEF TypeOK, CallStates
  <2>2. mails' \in Seq(Mails)
    BY <1>1, <1>2 DEF TypeOK
  <2> QED
    BY <1>1, <2>1, <2>2 DEF TypeOK
<1>4. \A d, e, r : Mailed(d, e, r) => Mailed(d, e, r)'
  BY <1>1, <1>2, OneMoreMail DEF Mailed
<1>5. Mailed(call[p].doc, call[p].envelope, call[p].ride)'
  BY <1>1, <1>2, OneMoreMail DEF Mailed
<1>6. /\ call'[p].doc = call[p].doc /\ call'[p].key = call[p].key
      /\ call'[p].envelope = call[p].envelope /\ call'[p].ride = call[p].ride
      /\ \A q \in Calls : q # p => call'[q] = call[q]
  BY <1>1 DEF TypeOK, CallStates
<1>7. OneCallPerDoc'
  BY <1>6 DEF OneCallPerDoc, Busy
<1>8. CallsHold'
  <2> SUFFICES ASSUME NEW q \in Calls, Busy(q)' PROVE CallHolds(q)'
    BY DEF CallsHold
  <2>1. CallHolds(q)
    BY <1>6 DEF CallsHold, Busy
  <2>2. CASE q = p
    BY <1>1, <1>5, <1>6, <2>1, <2>2 DEF CallHolds
  <2>3. CASE q # p
    BY <1>1, <1>4, <1>6, <2>1, <2>3 DEF CallHolds
  <2> QED
    BY <2>2, <2>3
<1>9. RecordsHold'
  BY <1>1, <1>4 DEF RecordsHold, Recorded
<1> QED
  BY <1>3, <1>7, <1>8, <1>9

(* The row that a commit of call c writes over row x.                      *)
CommittedRow(c, x, delivery) ==
  [delivery |-> delivery, envelope |-> c.envelope, ride |-> c.ride,
   attempts |-> x.attempts + 1, answer |-> x.answer]

LEMMA CommittedRowType ==
  ASSUME NEW c, c.envelope \in Envelopes, c.ride \in Profiles, NEW x \in Exchanges,
         NEW delivery \in {"SENT", "SEND_UNCERTAIN"}
  PROVE  CommittedRow(c, x, delivery) \in Exchanges
  BY DEF CommittedRow, Exchanges, DeliveryStates

(* A commit writes what its call holds; the other calls hold other         *)
(* documents.                                                              *)
LEMMA ExchangeInvCommit ==
  ASSUME ExchangeInv, NEW p \in Calls, DeliverEnds(p) \/ DeliverIsUncertain(p)
  PROVE  ExchangeInv'
<1> USE DEF ExchangeInv
<1> DEFINE d == call[p].doc
<1>1. PICK delivery \in {"SENT", "SEND_UNCERTAIN"} :
        /\ Busy(p) /\ CommitDelivery(p, delivery)
        /\ delivery = "SENT" => call[p].mailed
  BY DEF DeliverEnds, DeliverIsUncertain
<1>2. d \in Docs /\ CallHolds(p) /\ d # Nothing
  BY <1>1 DEF CallsHold, Busy, TypeOK, CallStates
<1>3. /\ artifact' = [artifact EXCEPT ![d] = [envelope |-> call[p].envelope, ride |-> call[p].ride]]
      /\ exchange' = [exchange EXCEPT ![d] = CommittedRow(call[p], exchange[d], delivery)]
      /\ records' = records \cup {<<"DELIVER", call[p].key, d>>}
      /\ call' = [call EXCEPT ![p] = Idle]
      /\ UNCHANGED <<accepted, profile, mails, said>>
  BY <1>1 DEF CommitDelivery, CommittedRow
<1>4. /\ exchange'[d].delivery = delivery /\ exchange'[d].envelope = call[p].envelope
      /\ exchange'[d].ride = call[p].ride /\ exchange'[d].attempts = exchange[d].attempts + 1
      /\ exchange'[d].answer = exchange[d].answer
      /\ exchange'[d] \in Exchanges
      /\ \A e \in Docs : e # d => exchange'[e] = exchange[e]
  <2>1. exchange[d] \in Exchanges
    BY <1>2 DEF TypeOK
  <2>2. exchange'[d] = CommittedRow(call[p], exchange[d], delivery)
    BY <1>2, <1>3 DEF TypeOK
  <2>3. \A e \in Docs : e # d => exchange'[e] = exchange[e]
    BY <1>2, <1>3 DEF TypeOK
  <2>4. call[p].envelope \in Envelopes /\ call[p].ride \in Profiles
    BY <1>2 DEF CallHolds
  <2>5. exchange'[d] \in Exchanges
    BY <2>1, <2>2, <2>4, CommittedRowType
  <2> QED
    BY <2>2, <2>3, <2>5 DEF CommittedRow
<1>5. /\ artifact'[d] = [envelope |-> call[p].envelope, ride |-> call[p].ride]
      /\ \A e \in Docs : e # d => artifact'[e] = artifact[e]
      /\ artifact'[d] \in Artifacts
  BY <1>2, <1>3 DEF TypeOK, Artifacts, CallHolds
<1>6. call'[p] = Idle /\ \A q \in Calls : q # p => call'[q] = call[q]
  BY <1>3 DEF TypeOK
<1>7. TypeOK'
  <2>1. exchange' \in [Docs -> Exchanges] /\ artifact' \in [Docs -> Artifacts]
    BY <1>2, <1>3, <1>4, <1>5 DEF TypeOK
  <2>2. call' \in [Calls -> CallStates]
    BY <1>3 DEF TypeOK, Idle, CallStates
  <2>3. <<"DELIVER", call[p].key, d>> \in {"DELIVER", "INGEST"} \X Keys \X Docs
    BY <1>2 DEF CallHolds
  <2> QED
    BY <1>3, <2>1, <2>2, <2>3 DEF TypeOK
<1>8. \A e, x, r : Mailed(e, x, r)' = Mailed(e, x, r)
  BY <1>3 DEF Mailed
<1>9. \A q \in Calls : Busy(q)' => q # p /\ Busy(q) /\ call[q].doc # d
  BY <1>1, <1>6 DEF Busy, Idle, OneCallPerDoc
<1>10. OneCallPerDoc'
  BY <1>6, <1>9 DEF OneCallPerDoc, Busy
<1>11. CallsHold'
  <2> SUFFICES ASSUME NEW q \in Calls, Busy(q)' PROVE CallHolds(q)'
    BY DEF CallsHold
  <2>1. CallHolds(q) /\ q # p /\ call[q].doc # d /\ call[q].doc \in Docs
    BY <1>9 DEF CallsHold, Busy, TypeOK, CallStates
  <2>2. call'[q] = call[q] /\ artifact'[call[q].doc] = artifact[call[q].doc]
    BY <1>5, <1>6, <2>1
  <2>3. <<"DELIVER", call[q].key, call[q].doc>> \notin records'
    BY <1>3, <2>1 DEF CallHolds
  <2> QED
    BY <1>8, <2>1, <2>2, <2>3 DEF CallHolds
<1>12. RecordsHold'
  <2> SUFFICES ASSUME NEW e \in Docs PROVE Recorded(e)'
    BY DEF RecordsHold
  <2>1. CASE e = d
    <3>1. delivery = "SENT" => Mailed(d, call[p].envelope, call[p].ride)
      BY <1>1, <1>2 DEF CallHolds
    <3>2. call[p].envelope \in Envelopes /\ call[p].ride \in Profiles
      BY <1>2 DEF CallHolds
    <3> QED
      BY <1>4, <1>5, <1>8, <2>1, <3>1, <3>2 DEF Recorded
  <2>2. CASE e # d
    BY <1>4, <1>5, <1>8, <2>2 DEF RecordsHold, Recorded
  <2> QED
    BY <2>1, <2>2
<1> QED
  BY <1>7, <1>10, <1>11, <1>12

LEMMA ExchangeInvRollBack ==
  ASSUME ExchangeInv, NEW p \in Calls, DeliverRollsBack(p)
  PROVE  ExchangeInv'
<1> USE DEF ExchangeInv
<1>1. /\ call' = [call EXCEPT ![p] = Idle]
      /\ UNCHANGED <<accepted, profile, artifact, exchange, records, mails, said>>
  BY DEF DeliverRollsBack
<1>2. call'[p] = Idle /\ \A q \in Calls : q # p => call'[q] = call[q]
  BY <1>1 DEF TypeOK
<1>3. TypeOK'
  <2>1. Idle \in CallStates
    BY DEF Idle, CallStates
  <2> QED
    BY <1>1, <2>1 DEF TypeOK
<1>4. \A e, x, r : Mailed(e, x, r)' = Mailed(e, x, r)
  BY <1>1 DEF Mailed
<1>5. \A q \in Calls : Busy(q)' => q # p /\ Busy(q)
  BY <1>2 DEF Busy, Idle
<1>6. OneCallPerDoc'
  BY <1>2, <1>5 DEF OneCallPerDoc, Busy
<1>7. CallsHold'
  BY <1>1, <1>2, <1>4, <1>5 DEF CallsHold, CallHolds
<1>8. RecordsHold'
  BY <1>1, <1>4 DEF RecordsHold, Recorded
<1> QED
  BY <1>3, <1>6, <1>7, <1>8

(* What is parsed from a file that some receiver wrote.                    *)
LEMMA ParsedType ==
  ASSUME TypeOK, NEW d \in Docs, NEW s \in said
  PROVE  /\ Parsed(d, s) \in Verdicts \cup {"RECEIVED"}
         /\ Parsed(d, s) \in Verdicts => <<d, Parsed(d, s)>> \in said
<1>1. PICK e \in Docs, v \in Verdicts : s = <<e, v>>
  BY DEF TypeOK
<1> QED
  BY <1>1, ExchangeAssumption DEF Parsed

LEMMA ExchangeInvNext == ExchangeInv /\ [Next]_vars => ExchangeInv'
<1> SUFFICES ASSUME ExchangeInv, [Next]_vars PROVE ExchangeInv'
  OBVIOUS
<1>1. CASE UNCHANGED vars
  <2>1. TypeOK'
    BY <1>1 DEF vars, ExchangeInv, TypeOK
  <2> QED
    BY <1>1, <2>1, ExchangeInvQuiet DEF vars
<1>2. CASE \/ \E d \in Docs : Accept(d)
           \/ \E new \in Profiles : ProfileMoves(new)
           \/ \E d \in Docs, verdict \in Verdicts : ReceiverSays(d, verdict)
  BY <1>2, ExchangeInvOutside
<1>3. CASE \E d \in Docs : DownloadRide(d)
  BY <1>3, ExchangeInvDownload
<1>4. CASE \E p \in Calls, d \in Docs, k \in Keys : DeliverStarts(p, d, k)
  BY <1>4, ExchangeInvStart
<1>5. CASE \E p \in Calls : MailGoesOut(p)
  BY <1>5, ExchangeInvMail
<1>6. CASE \E p \in Calls : DeliverEnds(p) \/ DeliverIsUncertain(p)
  BY <1>6, ExchangeInvCommit
<1>7. CASE \E p \in Calls : DeliverRollsBack(p)
  BY <1>7, ExchangeInvRollBack
<1>8. CASE \E d \in Docs, k \in Keys, s \in said : IngestResponse(d, k, Parsed(d, s))
  <2>1. PICK d \in Docs, k \in Keys, s \in said : IngestResponse(d, k, Parsed(d, s))
    BY <1>8
  <2>2. Parsed(d, s) \in Verdicts \cup {"RECEIVED"}
    BY ParsedType DEF ExchangeInv
  <2> QED
    BY <2>1, <2>2, ExchangeInvIngest
<1>9. CASE \E d \in Docs, k \in Keys : IngestResponse(d, k, "RECEIVED")
  BY <1>9, ExchangeInvIngest
<1> QED
  BY <1>1, <1>2, <1>3, <1>4, <1>5, <1>6, <1>7, <1>8, <1>9 DEF Next

LEMMA ExchangeInvHolds == Spec => []ExchangeInv
  BY ExchangeInvInit, ExchangeInvNext, PTL DEF Spec

------------------------------------------------------------------------------
(* Each attempt has its key: an attempt is counted with the record of a    *)
(* key that its document had not.                                          *)
AttemptsCounted ==
  \A d \in Docs : exchange[d].attempts = Cardinality(KeysOf("DELIVER", d))

LEMMA AttemptsStep ==
  ASSUME IsFiniteSet(Keys), ExchangeInv, AttemptsCounted, [Next]_vars
  PROVE  AttemptsCounted'
<1>1. CASE /\ \A d \in Docs : exchange'[d].attempts = exchange[d].attempts
           /\ \A k \in Keys, d \in Docs : <<"DELIVER", k, d>> \in records'
                                           <=> <<"DELIVER", k, d>> \in records
  <2>1. \A d \in Docs : KeysOf("DELIVER", d)' = KeysOf("DELIVER", d)
    BY <1>1 DEF KeysOf
  <2> QED
    BY <1>1, <2>1 DEF AttemptsCounted
<1>2. ASSUME NEW p \in Calls, DeliverEnds(p) \/ DeliverIsUncertain(p)
      PROVE  AttemptsCounted'
  <2>1. PICK delivery \in {"SENT", "SEND_UNCERTAIN"} : Busy(p) /\ CommitDelivery(p, delivery)
    BY <1>2 DEF DeliverEnds, DeliverIsUncertain
  <2>0. PICK d, k : d = call[p].doc /\ k = call[p].key
    OBVIOUS
  <2>2. d \in Docs /\ k \in Keys /\ k \notin KeysOf("DELIVER", d)
    BY <2>0, <2>1 DEF ExchangeInv, CallsHold, CallHolds, Busy, TypeOK, CallStates, KeysOf
  <2>3. /\ records' = records \cup {<<"DELIVER", k, d>>}
        /\ exchange' = [exchange EXCEPT ![d] = CommittedRow(call[p], exchange[d], delivery)]
    BY <2>0, <2>1 DEF CommitDelivery, CommittedRow
  <2>4. /\ exchange'[d].attempts = exchange[d].attempts + 1
        /\ \A e \in Docs : e # d => exchange'[e] = exchange[e]
    <3>1. exchange[d] \in Exchanges /\ call[p].envelope \in Envelopes /\ call[p].ride \in Profiles
      BY <2>1, <2>2 DEF ExchangeInv, TypeOK, CallsHold, CallHolds
    <3>2. exchange'[d] = CommittedRow(call[p], exchange[d], delivery)
      BY <2>2, <2>3 DEF ExchangeInv, TypeOK
    <3>3. \A e \in Docs : e # d => exchange'[e] = exchange[e]
      BY <2>2, <2>3 DEF ExchangeInv, TypeOK
    <3> QED
      BY <3>2, <3>3 DEF CommittedRow
  <2>5. /\ KeysOf("DELIVER", d)' = KeysOf("DELIVER", d) \cup {k}
        /\ \A e \in Docs : e # d => KeysOf("DELIVER", e)' = KeysOf("DELIVER", e)
    BY <2>2, <2>3 DEF KeysOf
  <2>6. IsFiniteSet(KeysOf("DELIVER", d))
    BY FS_Subset DEF KeysOf
  <2>7. Cardinality(KeysOf("DELIVER", d) \cup {k}) = Cardinality(KeysOf("DELIVER", d)) + 1
    BY <2>2, <2>6, FS_AddElement
  <2>8. ASSUME NEW e \in Docs PROVE exchange'[e].attempts = Cardinality(KeysOf("DELIVER", e)')
    <3>1. exchange[e].attempts = Cardinality(KeysOf("DELIVER", e))
      BY DEF AttemptsCounted
    <3> QED
      BY <2>4, <2>5, <2>7, <3>1
  <2> QED
    BY <2>8 DEF AttemptsCounted
<1>3. ASSUME NEW d \in Docs, NEW k \in Keys, NEW answer, IngestResponse(d, k, answer)
      PROVE  AttemptsCounted'
  BY <1>1, <1>3 DEF IngestResponse, ExchangeInv, TypeOK, Exchanges
<1>4. CASE UNCHANGED <<exchange, records>>
  BY <1>1, <1>4
<1> QED
  BY <1>2, <1>3, <1>4
  DEF Next, vars, Accept, ProfileMoves, DownloadRide, DeliverStarts, MailGoesOut, DeliverRollsBack,
      ReceiverSays

(* SENT means that the recorded content is out; what is recorded is what   *)
(* is stored; each attempt has its key: whatever calls overlap, fail or    *)
(* die between the mail and the commit (ExchangeIsTrue).                   *)
THEOREM ExchangeTellsTheTruth ==
  ASSUME IsFiniteSet(Keys) PROVE Spec => []ExchangeIsTrue
<1>1. Init => AttemptsCounted
  <2> SUFFICES ASSUME Init, NEW d \in Docs
               PROVE  exchange[d].attempts = Cardinality(KeysOf("DELIVER", d))
    BY DEF AttemptsCounted
  <2>1. KeysOf("DELIVER", d) = {} /\ exchange[d].attempts = 0
    BY DEF Init, NoExchange, KeysOf
  <2> QED
    BY <2>1, FS_EmptySet
<1>2. ExchangeInv /\ AttemptsCounted /\ [Next]_vars => AttemptsCounted'
  BY AttemptsStep
<1>3. ExchangeInv /\ AttemptsCounted => ExchangeIsTrue
  <2> SUFFICES ASSUME ExchangeInv, AttemptsCounted, NEW d \in Docs
               PROVE  /\ exchange[d].delivery = "SENT" => MailedAsRecorded(d)
                      /\ exchange[d].delivery # "NONE" =>
                           artifact[d] = [envelope |-> exchange[d].envelope,
                                          ride |-> exchange[d].ride]
    BY DEF ExchangeIsTrue, ExchangeInv, AttemptsCounted
  <2>1. Recorded(d) /\ artifact[d] \in Artifacts
    BY DEF ExchangeInv, RecordsHold, TypeOK
  <2> QED
    BY <2>1 DEF Recorded, Mailed, MailedAsRecorded, Artifacts
<1> QED
  BY <1>1, <1>2, <1>3, ExchangeInvHolds, PTL DEF Spec

(* A repeated call whose key was answered mails nothing: an open delivery  *)
(* of the document has another key (AnsweredCallsSendNothing).             *)
THEOREM RepeatedCallsAreSilent == Spec => AnsweredCallsSendNothing
<1>1. ASSUME ExchangeInv, [Next]_vars, NEW d \in Docs, NEW k \in Keys, <<"DELIVER", k, d>> \in records
      PROVE  MailsOf(d, k)' = MailsOf(d, k)
  <2>1. CASE \E p \in Calls : MailGoesOut(p)
    <3>1. PICK p \in Calls : MailGoesOut(p)
      BY <2>1
    <3> DEFINE m == [doc |-> call[p].doc, key |-> call[p].key,
                     envelope |-> call[p].envelope, ride |-> call[p].ride]
    <3>0. Busy(p) /\ CallHolds(p)
      BY <1>1, <3>1 DEF MailGoesOut, ExchangeInv, CallsHold
    <3>2. Busy(p) /\ mails' = Append(mails, m) /\ CallHolds(p)
      BY <3>0, <3>1 DEF MailGoesOut
    <3>3. m \in Mails /\ ~(m.doc = d /\ m.key = k)
      BY <1>1, <3>2 DEF CallHolds, Busy, ExchangeInv, TypeOK, CallStates, Mails
    <3> QED
      BY <1>1, <3>2, <3>3, OneMoreMail DEF MailsOf, ExchangeInv
  <2>2. CASE UNCHANGED mails
    BY <2>2 DEF MailsOf
  <2> QED
    BY <1>1, <2>1, <2>2
    DEF Next, vars, Accept, ProfileMoves, DownloadRide, DeliverStarts, CommitDelivery, DeliverEnds,
        DeliverIsUncertain, DeliverRollsBack, ReceiverSays, IngestResponse
<1>2. ExchangeInv /\ [Next]_vars =>
        [\A d \in Docs, k \in Keys :
           <<"DELIVER", k, d>> \in records => MailsOf(d, k)' = MailsOf(d, k)]_vars
  BY <1>1
<1> QED
  BY <1>2, ExchangeInvHolds, PTL DEF Spec, AnsweredCallsSendNothing

(* A later attempt repeats the envelope and the RIDE of the first          *)
(* (RecordedContentStays).                                                 *)
THEOREM ContentIsKept == Spec => RecordedContentStays
<1>1. ASSUME ExchangeInv, [Next]_vars, NEW d \in Docs, exchange[d].delivery # "NONE"
      PROVE  exchange[d]'.envelope = exchange[d].envelope /\ exchange[d]'.ride = exchange[d].ride
  <2>1. CASE \E p \in Calls : DeliverEnds(p) \/ DeliverIsUncertain(p)
    <3>1. PICK p \in Calls, delivery \in {"SENT", "SEND_UNCERTAIN"} :
                 Busy(p) /\ CommitDelivery(p, delivery)
      BY <2>1 DEF DeliverEnds, DeliverIsUncertain
    <3>2. /\ exchange' = [exchange EXCEPT ![call[p].doc] = CommittedRow(call[p], exchange[call[p].doc], delivery)]
      BY <3>1 DEF CommitDelivery, CommittedRow
    <3>3. call[p].doc = d => call[p].envelope = artifact[d].envelope /\ call[p].ride = artifact[d].ride
      BY <1>1, <3>1, ExchangeAssumption, ZenonT(60) DEF ExchangeInv, CallsHold, CallHolds, RecordsHold, Recorded
    <3>4. artifact[d].envelope = exchange[d].envelope /\ artifact[d].ride = exchange[d].ride
      BY <1>1 DEF ExchangeInv, RecordsHold, Recorded
    <3>5. exchange[d] \in Exchanges /\ DOMAIN exchange = Docs
      BY <1>1 DEF ExchangeInv, TypeOK
    <3>6. CASE call[p].doc = d
      BY <3>2, <3>3, <3>4, <3>5, <3>6 DEF CommittedRow
    <3>7. CASE call[p].doc # d
      BY <3>2, <3>5, <3>7
    <3> QED
      BY <3>6, <3>7
  <2>2. CASE \E e \in Docs, k \in Keys, answer \in Verdicts \cup {"RECEIVED"} : IngestResponse(e, k, answer)
    BY <1>1, <2>2 DEF IngestResponse, ExchangeInv, TypeOK, Exchanges
  <2>3. CASE UNCHANGED exchange
    BY <2>3
  <2>4. \A e \in Docs, s \in said : Parsed(e, s) \in Verdicts \cup {"RECEIVED"}
    BY <1>1, ParsedType DEF ExchangeInv
  <2> QED
    BY <1>1, <2>1, <2>2, <2>3, <2>4
    DEF Next, vars, Accept, ProfileMoves, DownloadRide, DeliverStarts, MailGoesOut, DeliverRollsBack,
        ReceiverSays
<1>2. ExchangeInv /\ [Next]_vars =>
        [\A d \in Docs : exchange[d].delivery # "NONE" =>
           /\ exchange[d]'.envelope = exchange[d].envelope
           /\ exchange[d]'.ride = exchange[d].ride]_vars
  BY <1>1
<1> QED
  BY <1>2, ExchangeInvHolds, PTL DEF Spec, RecordedContentStays

------------------------------------------------------------------------------
(* Nobody answers for a document that was not mailed to him.               *)
AnswersFollowMails == \A x \in said : \E i \in DOMAIN mails : mails[i].doc = x[1]
VerdictInv == AnswersFollowMails /\ VerdictsAreBacked

LEMMA VerdictStep ==
  ASSUME ExchangeInv, VerdictInv, [Next]_vars
  PROVE  VerdictInv'
<1> USE DEF VerdictInv
<1>0. TypeOK
  BY DEF ExchangeInv
<1>1. ASSUME \A d \in Docs : exchange'[d].answer = exchange[d].answer,
             said' = said, \A i \in DOMAIN mails : i \in DOMAIN mails' /\ mails'[i] = mails[i]
      PROVE  VerdictInv'
  BY <1>1 DEF AnswersFollowMails, VerdictsAreBacked
<1>2. CASE \E p \in Calls : MailGoesOut(p)
  <2>1. PICK p \in Calls : MailGoesOut(p)
    BY <1>2
  <2>2. PICK m \in Mails : mails' = Append(mails, m)
    <3>1. CallHolds(p) /\ Busy(p)
      BY <2>1 DEF MailGoesOut, ExchangeInv, CallsHold
    <3>2. [doc |-> call[p].doc, key |-> call[p].key, envelope |-> call[p].envelope,
           ride |-> call[p].ride] \in Mails
      BY <1>0, <3>1 DEF CallHolds, Busy, TypeOK, CallStates, Mails
    <3> QED
      BY <2>1, <3>2 DEF MailGoesOut
  <2> QED
    BY <1>0, <1>1, <2>1, <2>2, OneMoreMail DEF MailGoesOut
<1>3. CASE \E p \in Calls : DeliverEnds(p) \/ DeliverIsUncertain(p)
  <2>1. PICK p \in Calls, delivery \in {"SENT", "SEND_UNCERTAIN"} :
               Busy(p) /\ CommitDelivery(p, delivery)
    BY <1>3 DEF DeliverEnds, DeliverIsUncertain
  <2>2. said' = said /\ mails' = mails
    BY <2>1 DEF CommitDelivery
  <2>3. \A d \in Docs : exchange'[d].answer = exchange[d].answer
    BY <1>0, <2>1 DEF CommitDelivery, TypeOK, Exchanges
  <2> QED
    BY <1>1, <2>2, <2>3
<1>4. CASE \E d \in Docs, verdict \in Verdicts : ReceiverSays(d, verdict)
  <2>1. PICK d \in Docs, verdict \in Verdicts : ReceiverSays(d, verdict)
    BY <1>4
  <2>2. /\ said' = said \cup {<<d, verdict>>} /\ UNCHANGED <<exchange, mails>>
        /\ \E i \in DOMAIN mails : mails[i].doc = d
    BY <2>1 DEF ReceiverSays
  <2> QED
    BY <2>2 DEF AnswersFollowMails, VerdictsAreBacked
<1>5. ASSUME NEW d \in Docs, NEW k \in Keys, NEW answer \in Verdicts \cup {"RECEIVED"},
             answer \in Verdicts => <<d, answer>> \in said,
             IngestResponse(d, k, answer)
      PROVE  VerdictInv'
  <2>1. /\ exchange' = [exchange EXCEPT ![d].answer = answer]
        /\ UNCHANGED <<said, mails>>
    BY <1>5 DEF IngestResponse
  <2>2. /\ exchange'[d].answer = answer
        /\ \A e \in Docs : e # d => exchange'[e] = exchange[e]
    BY <1>0, <2>1 DEF TypeOK, Exchanges
  <2>3. answer \in Verdicts => \E i \in DOMAIN mails : mails[i].doc = d
    BY <1>5 DEF AnswersFollowMails
  <2> QED
    BY <1>5, <2>1, <2>2, <2>3 DEF AnswersFollowMails, VerdictsAreBacked
<1>6. CASE \E d \in Docs, k \in Keys, s \in said : IngestResponse(d, k, Parsed(d, s))
  BY <1>0, <1>5, <1>6, ParsedType
<1>7. CASE \E d \in Docs, k \in Keys : IngestResponse(d, k, "RECEIVED")
  BY <1>5, <1>7, ExchangeAssumption
<1>8. CASE UNCHANGED <<exchange, said, mails>>
  BY <1>1, <1>8
<1> QED
  BY <1>2, <1>3, <1>4, <1>6, <1>7, <1>8
  DEF Next, vars, Accept, ProfileMoves, DownloadRide, DeliverStarts, DeliverRollsBack

(* A verdict on record was given by the receiver, of this document, which  *)
(* he had been sent (VerdictsAreBacked).                                   *)
THEOREM VerdictsHold == Spec => []VerdictsAreBacked
<1>1. Init => VerdictInv
  BY ExchangeAssumption DEF Init, VerdictInv, AnswersFollowMails, VerdictsAreBacked, NoExchange
<1>2. ExchangeInv /\ VerdictInv /\ [Next]_vars => VerdictInv'
  BY VerdictStep
<1>3. VerdictInv => VerdictsAreBacked
  BY DEF VerdictInv
<1> QED
  BY <1>1, <1>2, <1>3, ExchangeInvHolds, PTL DEF Spec
===============================================================================
