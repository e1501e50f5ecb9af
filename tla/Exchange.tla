------------------------------- MODULE Exchange -------------------------------
(***************************************************************************)
(* Sending accepted tax documents to their receivers by mail, and the      *)
(* receivers' answers (electronic_tax/exchange.py).                        *)
(*                                                                         *)
(* deliver_to_receiver mails inside its transaction, so a call is several  *)
(* steps: it holds the lock of its document, what it wrote becomes visible *)
(* when it commits, and a mail that is out stays out when it does not.     *)
(* The idempotency keys belong to the company: calls for two documents     *)
(* hold different locks and may use one key at the same time.              *)
(*                                                                         *)
(* The version a call names, and the request hash made of it, only stop    *)
(* calls that would do nothing here: they are left out.                    *)
(***************************************************************************)
EXTENDS Integers, Sequences, FiniteSets

CONSTANTS
  Docs,         \* signed tax documents of one company
  Calls,        \* concurrent requests to deliver
  Keys,         \* idempotency keys
  Envelopes,    \* EnvioDTE contents: no two builds make the same one
  Profiles,     \* tax profiles the company has over time: a RIDE shows one
  Verdicts,     \* what a receiver may say: accepted, with discrepancy, rejected
  Nothing,      \* no artifact, no document of a call
  MaxMails      \* bound on the mails of a behaviour

ASSUME ExchangeAssumption ==
  /\ Nothing \notin Docs \cup Keys \cup Envelopes \cup Profiles
  /\ Verdicts \cap {"NONE", "RECEIVED"} = {}
  /\ MaxMails \in Nat

VARIABLES
  accepted,     \* documents the SII accepted, whether or not a note cancelled them
                \*   later: both are in _EXCHANGEABLE_STATES
  profile,      \* the active TaxCompanyProfile
  artifact,     \* artifact[d]: the stored RECEIVER_ENVELOPE and RIDE_PDF
  exchange,     \* exchange[d]: the ElectronicTaxExchange
  records,      \* <<operation, key, document>>: the IdempotencyRecord rows
  call,         \* call[p]: the delivery request p is in, or doc = Nothing
  mails,        \* what the receivers' mail servers took, in order
  said          \* <<document, verdict>>: what the receivers answered

vars == <<accepted, profile, artifact, exchange, records, call, mails, said>>

DeliveryStates == {"NONE", "SENT", "SEND_UNCERTAIN"}   \* PENDING is never committed

Artifacts == [envelope : Envelopes \cup {Nothing}, ride : Profiles \cup {Nothing}]
Exchanges == [delivery : DeliveryStates, envelope : Envelopes \cup {Nothing},
              ride : Profiles \cup {Nothing}, attempts : Nat,
              answer : Verdicts \cup {"NONE", "RECEIVED"}]
CallStates == [doc : Docs \cup {Nothing}, key : Keys \cup {Nothing}, envelope : Envelopes \cup {Nothing},
               ride : Profiles \cup {Nothing}, mailed : BOOLEAN]
Mails == [doc : Docs, key : Keys, envelope : Envelopes, ride : Profiles]

TypeOK ==
  /\ accepted \subseteq Docs
  /\ profile \in Profiles
  /\ artifact \in [Docs -> Artifacts]
  /\ exchange \in [Docs -> Exchanges]
  /\ records \subseteq {"DELIVER", "INGEST"} \X Keys \X Docs
  /\ call \in [Calls -> CallStates]
  /\ mails \in Seq(Mails)
  /\ said \subseteq Docs \X Verdicts

NoExchange == [delivery |-> "NONE", envelope |-> Nothing, ride |-> Nothing,
               attempts |-> 0, answer |-> "NONE"]
Idle == [doc |-> Nothing, key |-> Nothing, envelope |-> Nothing, ride |-> Nothing,
         mailed |-> FALSE]

Init ==
  /\ accepted \in SUBSET Docs
  /\ profile \in Profiles
  /\ artifact = [d \in Docs |-> [envelope |-> Nothing, ride |-> Nothing]]
  /\ exchange = [d \in Docs |-> NoExchange]
  /\ records = {}
  /\ call = [p \in Calls |-> Idle]
  /\ mails = <<>>
  /\ said = {}

------------------------------------------------------------------------------
Busy(p) == call[p].doc # Nothing
Locked(d) == \E p \in Calls : call[p].doc = d
KeyTaken(op, k) == \E d \in Docs : <<op, k, d>> \in records

(* refresh_document_status, under the document's lock.                     *)
Accept(d) ==
  /\ d \notin accepted
  /\ accepted' = accepted \cup {d}
  /\ UNCHANGED <<profile, artifact, exchange, records, call, mails, said>>

(* The company's tax profile is edited by hand, at any time.               *)
ProfileMoves(new) ==
  /\ profile' = new
  /\ UNCHANGED <<accepted, artifact, exchange, records, call, mails, said>>

(* get_or_create_ride: a stored RIDE is never rendered again.              *)
RideOf(d) == IF artifact[d].ride = Nothing THEN profile ELSE artifact[d].ride

(* document_ride_view takes no lock of the document.  While a delivery     *)
(* that renders the RIDE itself is open, the row it inserted makes this    *)
(* one wait, and then fail if it commits.                                  *)
DownloadRide(d) ==
  /\ artifact[d].ride = Nothing
  /\ ~Locked(d)
  /\ artifact' = [artifact EXCEPT ![d].ride = profile]
  /\ UNCHANGED <<accepted, profile, exchange, records, call, mails, said>>

(* build_receiver_envelope signs the present instant: a content that is    *)
(* nowhere yet.  get_or_create_receiver_envelope builds one only once.     *)
Built == {artifact[d].envelope : d \in Docs} \cup {call[p].envelope : p \in Calls}
           \cup {mails[i].envelope : i \in DOMAIN mails}
(* Mutant of EnvelopesFor: every delivery builds one.                      *)
EnvelopesAfresh(d) == Envelopes \ Built
EnvelopesFor(d) ==
  IF artifact[d].envelope = Nothing THEN Envelopes \ Built ELSE {artifact[d].envelope}

(***************************************************************************)
(* deliver_to_receiver.  The transaction locks the document and replays a  *)
(* known key, which sends nothing; then it makes what is missing and mails *)
(* it.  DeliverEnds is its commit after the mail server took the mail,     *)
(* DeliverIsUncertain its commit after the send raised, DeliverRollsBack   *)
(* everything else: nobody took the mail, the key was taken by a delivery  *)
(* of another document meanwhile, or the process died.                     *)
(***************************************************************************)
(* Mutant of DeliverStarts: a known key is not looked up.                  *)
DeliverStartsAgain(p, d, k) ==
  /\ ~Busy(p) /\ ~Locked(d)
  /\ d \in accepted
  /\ \E e \in EnvelopesFor(d) :
       call' = [call EXCEPT ![p] = [doc |-> d, key |-> k, envelope |-> e,
                                    ride |-> RideOf(d), mailed |-> FALSE]]
  /\ UNCHANGED <<accepted, profile, artifact, exchange, records, mails, said>>

DeliverStarts(p, d, k) ==
  /\ ~Busy(p) /\ ~Locked(d)
  /\ d \in accepted
  /\ ~KeyTaken("DELIVER", k)
  /\ \E e \in EnvelopesFor(d) :
       call' = [call EXCEPT ![p] = [doc |-> d, key |-> k, envelope |-> e,
                                    ride |-> RideOf(d), mailed |-> FALSE]]
  /\ UNCHANGED <<accepted, profile, artifact, exchange, records, mails, said>>

MailGoesOut(p) ==
  /\ Busy(p) /\ ~call[p].mailed
  /\ Len(mails) < MaxMails
  /\ mails' = Append(mails, [doc |-> call[p].doc, key |-> call[p].key,
                             envelope |-> call[p].envelope, ride |-> call[p].ride])
  /\ call' = [call EXCEPT ![p].mailed = TRUE]
  /\ UNCHANGED <<accepted, profile, artifact, exchange, records, said>>

CommitDelivery(p, delivery) ==
  LET c == call[p] IN
    /\ ~KeyTaken("DELIVER", c.key)
    /\ artifact' = [artifact EXCEPT ![c.doc] = [envelope |-> c.envelope, ride |-> c.ride]]
    /\ exchange' = [exchange EXCEPT ![c.doc] =
         [delivery |-> delivery, envelope |-> c.envelope, ride |-> c.ride,
          attempts |-> @.attempts + 1, answer |-> @.answer]]
    /\ records' = records \cup {<<"DELIVER", c.key, c.doc>>}
    /\ call' = [call EXCEPT ![p] = Idle]
    /\ UNCHANGED <<accepted, profile, mails, said>>

(* Mutant of DeliverEnds: whatever send() returned.                        *)
DeliverEndsAnyway(p) == Busy(p) /\ CommitDelivery(p, "SENT")
DeliverEnds(p) == Busy(p) /\ call[p].mailed /\ CommitDelivery(p, "SENT")
DeliverIsUncertain(p) == Busy(p) /\ CommitDelivery(p, "SEND_UNCERTAIN")

DeliverRollsBack(p) ==
  /\ Busy(p)
  /\ call' = [call EXCEPT ![p] = Idle]
  /\ UNCHANGED <<accepted, profile, artifact, exchange, records, mails, said>>

(* A receiver says what it makes of a document that was mailed to it, and  *)
(* may change its mind.                                                    *)
ReceiverSays(d, verdict) ==
  /\ \E i \in DOMAIN mails : mails[i].doc = d
  /\ said' = said \cup {<<d, verdict>>}
  /\ UNCHANGED <<accepted, profile, artifact, exchange, records, call, mails>>

(* _parse_receiver_response of a file in which a receiver says a thing:    *)
(* only the result of this document counts.  A file about another one, or  *)
(* a mere acknowledgement, is a reception.                                 *)
(* Mutant of Parsed: the folio is not compared.                            *)
ParsedAnyFolio(d, s) == s[2]
Parsed(d, s) == IF s[1] = d THEN s[2] ELSE "RECEIVED"

(* ingest_receiver_response of a file: what it says replaces what an       *)
(* earlier one said.                                                       *)
IngestResponse(d, k, answer) ==
  /\ ~Locked(d)
  /\ d \in accepted
  /\ exchange[d].delivery \in {"SENT", "SEND_UNCERTAIN"}
  /\ ~KeyTaken("INGEST", k)
  /\ exchange' = [exchange EXCEPT ![d].answer = answer]
  /\ records' = records \cup {<<"INGEST", k, d>>}
  /\ UNCHANGED <<accepted, profile, artifact, call, mails, said>>

Next ==
  \/ \E d \in Docs : Accept(d)
  \/ \E new \in Profiles : ProfileMoves(new)
  \/ \E d \in Docs : DownloadRide(d)
  \/ \E p \in Calls, d \in Docs, k \in Keys : DeliverStarts(p, d, k)
  \/ \E p \in Calls : \/ MailGoesOut(p)
                      \/ DeliverEnds(p)
                      \/ DeliverIsUncertain(p)
                      \/ DeliverRollsBack(p)
  \/ \E d \in Docs, verdict \in Verdicts : ReceiverSays(d, verdict)
  \/ \E d \in Docs, k \in Keys, s \in said : IngestResponse(d, k, Parsed(d, s))
  \/ \E d \in Docs, k \in Keys : IngestResponse(d, k, "RECEIVED")

Spec == Init /\ [][Next]_vars

------------------------------------------------------------------------------
(***************************************************************************)
(* The exchange tells what happened: SENT means that a mail with exactly   *)
(* the recorded envelope and RIDE is out; what is recorded is what is      *)
(* stored and downloaded, whatever was mailed by calls that rolled back;   *)
(* each attempt has its key.  And every variable keeps its type.           *)
(***************************************************************************)
MailedAsRecorded(d) ==
  \E i \in DOMAIN mails : /\ mails[i].doc = d
                          /\ mails[i].envelope = exchange[d].envelope
                          /\ mails[i].ride = exchange[d].ride
KeysOf(op, d) == {k \in Keys : <<op, k, d>> \in records}
ExchangeIsTrue ==
  /\ TypeOK
  /\ \A d \in Docs :
    /\ exchange[d].delivery = "SENT" => MailedAsRecorded(d)
    /\ exchange[d].delivery # "NONE" => artifact[d] = [envelope |-> exchange[d].envelope,
                                                       ride |-> exchange[d].ride]
    /\ exchange[d].attempts = Cardinality(KeysOf("DELIVER", d))

(***************************************************************************)
(* A call that was answered and is repeated with its key sends nothing,    *)
(* also when the same key is in use for another document.                  *)
(***************************************************************************)
MailsOf(d, k) == {i \in DOMAIN mails : mails[i].doc = d /\ mails[i].key = k}
AnsweredCallsSendNothing ==
  [][\A d \in Docs, k \in Keys :
       <<"DELIVER", k, d>> \in records => MailsOf(d, k)' = MailsOf(d, k)]_vars

(***************************************************************************)
(* Resending changes nothing that was recorded: every later attempt, by    *)
(* whatever key, names the envelope and the RIDE of the first.             *)
(***************************************************************************)
RecordedContentStays ==
  [][\A d \in Docs : exchange[d].delivery # "NONE" =>
       /\ exchange[d]'.envelope = exchange[d].envelope
       /\ exchange[d]'.ride = exchange[d].ride]_vars

(***************************************************************************)
(* A verdict on record is one its receiver gave of this very document, and *)
(* so of a document it was sent.                                           *)
(***************************************************************************)
VerdictsAreBacked ==
  \A d \in Docs : exchange[d].answer \in Verdicts =>
    /\ <<d, exchange[d].answer>> \in said
    /\ \E i \in DOMAIN mails : mails[i].doc = d
==============================================================================
