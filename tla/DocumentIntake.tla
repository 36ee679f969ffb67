--------------------------- MODULE DocumentIntake ---------------------------
(***************************************************************************)
(* A document from its admission to the settlement of what reading it      *)
(* cost: the client that uploads or imports it, the store, the queue, and  *)
(* the worker that disarms it, has it read and settles its reservation.    *)
(*                                                                         *)
(* The queue gives one message at a time to one worker, gives a message    *)
(* again when it was not acknowledged, and sets it aside as dead when it   *)
(* was given too often.  A client can stop anywhere and start over, its    *)
(* upload can land after it gave up, and every reply can be lost.          *)
(***************************************************************************)
EXTENDS ComputeLedger

CONSTANTS
  Ranges,         \* page ranges a document is read in
  Deferrals,      \* deliveries that leave an unreachable reader unrecorded
  MaxDeliveries,  \* bound: deliveries before a message is dead
  FileLimit,      \* files of a free trial
  Funds,          \* credits of the workspace
  MaxFaults       \* bound: clients that stop, replies, acknowledgements and
                  \* listings of disarmed versions lost

ASSUME IntakeAssumption ==
  /\ Ranges \in Nat /\ MaxDeliveries \in Nat \ {0}
  /\ Funds \in Nat /\ MaxFaults \in Nat

VARIABLES
  admission,  \* admission[d]: the intake row of d
  client,     \* client[d]: where the client of d is
  landing,    \* documents whose upload is still under way
  object,     \* documents whose source is stored
  message,    \* message[d]: the queue's message for d
  record,     \* record[d]: what is stored beside d and the version of it in use
  earlier,    \* earlier[d]: what is stored beside other disarmed versions of d
  worker,     \* the delivery being handled
  faults      \* faults that may still happen

records == <<record, earlier>>
intakeVars ==
  <<admission, client, landing, object, message, records, worker, faults, vars>>
ledgerOnly == vars

Charge == 2

NoAdmission == [issued |-> FALSE, live |-> FALSE, confirmed |-> FALSE, rejected |-> FALSE]
NoMessage == [state |-> "none", delivery |-> 0]
NoRecord == [clean |-> FALSE, ranges |-> 0, ocr |-> FALSE, review |-> "none", reject |-> FALSE]
Idle == [phase |-> "idle"]

Beside(r) == [ranges |-> r.ranges, ocr |-> r.ocr, review |-> r.review]
InUse(v, r) == [r EXCEPT !.ranges = v.ranges, !.ocr = v.ocr, !.review = v.review]
Versions(d) == earlier[d] \union {Beside(record[d])}

Outcome(kind) == [settled |-> Charge, operator_review |-> Charge, released |-> 0][kind]

IntakeTypeOK ==
  /\ TypeOK
  /\ admission \in [Documents -> [issued : BOOLEAN, live : BOOLEAN,
                                  confirmed : BOOLEAN, rejected : BOOLEAN]]
  /\ client \in [Documents -> {"idle", "admitted", "held", "putting", "stored",
                               "failed", "releasing", "done"}]
  /\ landing \subseteq Documents /\ object \subseteq Documents
  /\ message \in
       [Documents -> [state : {"none", "waiting", "given", "acked", "skipped", "dead"},
                      delivery : 0 .. MaxDeliveries]]
  /\ record \in [Documents -> [clean : BOOLEAN, ranges : 0 .. Ranges, ocr : BOOLEAN,
                               review : {"none", "operator_review", "released"},
                               reject : BOOLEAN]]
  /\ earlier \in [Documents -> SUBSET
       [ranges : 0 .. Ranges, ocr : BOOLEAN, review : {"none", "operator_review", "released"}]]
  /\ worker \in {Idle} \union
       [phase : {"sanitizing", "refusing", "reading", "recording", "settling", "marking",
                 "acknowledging"},
        doc : Documents,
        outcome : {"none", "settled", "operator_review", "released", "skipped"},
        refused : BOOLEAN]
  /\ faults \in 0 .. MaxFaults

IntakeInit ==
  /\ hold = [d \in Documents |-> NoHold]
  /\ balance = Funds /\ funds = Funds /\ overage = 0 /\ daily = 0
  /\ \E entitled \in BOOLEAN :
       account = [entitled |-> entitled, blocked |-> FALSE, overage |-> FALSE, exempt |-> FALSE]
  /\ trial = "none"
  /\ sale = [s \in Sales |-> "none"] /\ refund = sale /\ expired = [s \in Sales |-> 0]
  /\ admission = [d \in Documents |-> NoAdmission]
  /\ client = [d \in Documents |-> "idle"]
  /\ landing = {} /\ object = {}
  /\ message = [d \in Documents |-> NoMessage]
  /\ record = [d \in Documents |-> NoRecord]
  /\ earlier = [d \in Documents |-> {}]
  /\ worker = Idle
  /\ faults = MaxFaults

-----------------------------------------------------------------------------
(* The client: a person's browser, which uploads a confirmed document again, *)
(* or an import, which leaves it alone.                                      *)
Counted == {d \in Documents : admission[d].confirmed \/ admission[d].live}

(* A workspace that once had a trial is admitted as a trial, whatever it     *)
(* pays now.                                                                 *)
TrialAdmits ==
  trial # "none" => trial = "trialing" /\ Cardinality(Counted) < FileLimit

Admit(d) ==
  /\ client[d] = "idle"
  /\ \/ /\ admission[d].confirmed
        /\ \E goesOn \in {"done", "admitted"} : client' = [client EXCEPT ![d] = goesOn]
        /\ UNCHANGED admission
     \/ /\ admission[d].issued /\ ~admission[d].confirmed
        /\ admission' = [admission EXCEPT ![d].live = TRUE]
        /\ client' = [client EXCEPT ![d] = "admitted"]
     \/ /\ ~admission[d].issued
        /\ TrialAdmits
        /\ admission' = [admission EXCEPT ![d].issued = TRUE, ![d].live = TRUE]
        /\ client' = [client EXCEPT ![d] = "admitted"]
  /\ UNCHANGED <<landing, object, message, records, worker, faults, ledgerOnly>>

(* The upload address is signed only for a reservation that is still open.   *)
ReserveForUpload(d) ==
  /\ client[d] = "admitted"
  /\ Reserve(d)
  /\ client' = [client EXCEPT ![d] = IF hold'[d].state = "reserved" THEN "held" ELSE "idle"]
  /\ UNCHANGED <<admission, landing, object, message, records, worker, faults>>

StartUpload(d) ==
  /\ client[d] = "held"
  /\ client' = [client EXCEPT ![d] = "putting"]
  /\ landing' = landing \union {d}
  /\ UNCHANGED <<admission, object, message, records, worker, faults, ledgerOnly>>

(* Mutant: the client, not the store, tells the queue. *)
LandToldByClient(d) ==
  /\ d \in landing
  /\ landing' = landing \ {d}
  /\ object' = object \union {d}
  /\ message' = [message EXCEPT ![d] = IF client[d] # "putting" THEN @
                                       ELSE [state |-> "waiting", delivery |-> 1]]
  /\ client' = [client EXCEPT ![d] = IF @ = "putting" THEN "stored" ELSE @]
  /\ UNCHANGED <<admission, records, worker, faults, ledgerOnly>>

(* The store keeps the source and tells the queue; the client may be gone.   *)
Land(d) ==
  /\ d \in landing
  /\ landing' = landing \ {d}
  /\ object' = object \union {d}
  /\ message' = [message EXCEPT ![d] = IF @.state \in {"waiting", "given"} THEN @
                                       ELSE [state |-> "waiting", delivery |-> 1]]
  /\ client' = [client EXCEPT ![d] = IF @ = "putting" THEN "stored" ELSE @]
  /\ UNCHANGED <<admission, records, worker, faults, ledgerOnly>>

(* The client sees its upload fail, and an uploader goes on to release; the  *)
(* upload was refused, or it is still under way.                             *)
UploadFails(d) ==
  /\ client[d] = "putting" /\ faults > 0
  /\ faults' = faults - 1
  /\ \E seen \in {"failed", "idle"} : client' = [client EXCEPT ![d] = seen]
  /\ landing' \in {landing, landing \ {d}}
  /\ UNCHANGED <<admission, object, message, records, worker, ledgerOnly>>

Confirm(d) ==
  /\ client[d] = "stored"
  /\ admission' = [admission EXCEPT ![d].confirmed = TRUE]
  /\ client' = [client EXCEPT ![d] = "done"]
  /\ UNCHANGED <<landing, object, message, records, worker, faults, ledgerOnly>>

(* Releasing the reservation of a failed upload: first the store is asked,   *)
(* then the ledger is told.                                                  *)
AskStore(d) ==
  /\ client[d] = "failed"
  /\ client' = [client EXCEPT ![d] = IF d \in object THEN "idle" ELSE "releasing"]
  /\ UNCHANGED <<admission, landing, object, message, records, worker, faults, ledgerOnly>>

ReleaseUpload(d) ==
  /\ client[d] = "releasing"
  /\ client' = [client EXCEPT ![d] = "idle"]
  /\ \/ Settle(d, "released", 0)
     \/ ~StillOpen(d) /\ UNCHANGED ledgerOnly
  /\ UNCHANGED <<admission, landing, object, message, records, worker, faults>>

ClientStops(d) ==
  /\ client[d] \notin {"idle", "done"} /\ faults > 0
  /\ faults' = faults - 1
  /\ client' = [client EXCEPT ![d] = "idle"]
  /\ UNCHANGED <<admission, landing, object, message, records, worker, ledgerOnly>>

AdmissionLapses(d) ==
  /\ admission[d].live
  /\ admission' = [admission EXCEPT ![d].live = FALSE]
  /\ UNCHANGED <<client, landing, object, message, records, worker, faults, ledgerOnly>>

-----------------------------------------------------------------------------
(* The worker. *)
At(phase) == worker.phase = phase

Go(phase, outcome, refused) ==
  worker' = [worker EXCEPT !.phase = phase, !.outcome = outcome, !.refused = refused]

Deliver(d) ==
  /\ At("idle") /\ message[d].state = "waiting"
  /\ message' = [message EXCEPT ![d].state = "given"]
  /\ worker' = [phase |-> "sanitizing", doc |-> d, outcome |-> "none", refused |-> FALSE]
  /\ UNCHANGED <<admission, client, landing, object, records, faults, ledgerOnly>>

(* Mutant: no delivery is the last. *)
GiveBackForever ==
  /\ worker' = Idle
  /\ message' = [message EXCEPT ![worker.doc] =
                   [state |-> "waiting", delivery |-> @.delivery + 1]]

(* The message goes back to the queue, which gives it again or sets it aside.*)
GiveBack ==
  /\ worker' = Idle
  /\ LET d == worker.doc
     IN message' = [message EXCEPT ![d] =
          IF @.delivery = MaxDeliveries THEN [@ EXCEPT !.state = "dead"]
          ELSE [state |-> "waiting", delivery |-> @.delivery + 1]]

Retry ==
  /\ ~At("idle") /\ faults > 0
  /\ faults' = faults - 1
  /\ GiveBack
  /\ UNCHANGED <<admission, client, landing, object, records, ledgerOnly>>

(* A version disarmed before is used again, whichever the store lists first. *)
FindDisarmed ==
  /\ At("sanitizing")
  /\ LET d == worker.doc
     IN /\ record[d].clean
        /\ \E v \in Versions(d) :
             /\ record' = [record EXCEPT ![d] = InUse(v, record[d])]
             /\ earlier' = [earlier EXCEPT ![d] = Versions(d) \ {v}]
  /\ Go("reading", "none", FALSE)
  /\ UNCHANGED <<admission, client, landing, object, message, faults, ledgerOnly>>

(* None is found, or the listing fails: the source is disarmed, to a version *)
(* that nothing is stored beside yet, or refused.                            *)
Sanitize ==
  /\ At("sanitizing")
  /\ LET d == worker.doc
     IN /\ \/ ~record[d].clean /\ UNCHANGED faults
           \/ record[d].clean /\ faults > 0 /\ faults' = faults - 1
        /\ \/ /\ record' = [record EXCEPT ![d] =
                              [NoRecord EXCEPT !.clean = TRUE, !.reject = record[d].reject]]
              /\ earlier' = [earlier EXCEPT ![d] = IF record[d].clean THEN Versions(d) ELSE {}]
              /\ Go("reading", "none", FALSE)
           \/ /\ Go("refusing", "released", TRUE)
              /\ UNCHANGED records
  /\ UNCHANGED <<admission, client, landing, object, message, ledgerOnly>>

(* Mutant: the intake row is marked before the hold is settled. *)
RecordRefusalMarkFirst ==
  /\ At("refusing")
  /\ record' = [record EXCEPT ![worker.doc].reject = TRUE]
  /\ Go("marking", "released", TRUE)
  /\ UNCHANGED <<admission, client, landing, object, message, earlier, faults, ledgerOnly>>

RecordRefusal ==
  /\ At("refusing")
  /\ record' = [record EXCEPT ![worker.doc].reject = TRUE]
  /\ Go("settling", "released", TRUE)
  /\ UNCHANGED <<admission, client, landing, object, message, earlier, faults, ledgerOnly>>

(* Mutant: stored text is taken for a success, whatever was recorded. *)
ReplayText ==
  /\ At("reading")
  /\ LET r == record[worker.doc]
     IN /\ r.review # "none" \/ r.ocr
        /\ Go("settling", IF r.ocr THEN "settled" ELSE r.review, FALSE)
  /\ UNCHANGED <<admission, client, landing, object, message, records, faults, ledgerOnly>>

(* What an earlier delivery recorded is said again, never read again.        *)
Replay ==
  /\ At("reading")
  /\ LET r == record[worker.doc]
     IN /\ r.review # "none" \/ r.ocr
        /\ Go("settling", IF r.review # "none" THEN r.review ELSE "settled", FALSE)
  /\ UNCHANGED <<admission, client, landing, object, message, records, faults, ledgerOnly>>

(* The ranges are read and stored in order, and assembled once all are       *)
(* stored.  Each write may be kept although its reply was lost.              *)
Unread == At("reading") /\ record[worker.doc].review = "none" /\ ~record[worker.doc].ocr

ReadRange ==
  /\ Unread
  /\ LET d == worker.doc
     IN IF record[d].ranges < Ranges
        THEN /\ record' = [record EXCEPT ![d].ranges = @ + 1]
             /\ UNCHANGED worker
        ELSE /\ record' = [record EXCEPT ![d].ocr = TRUE]
             /\ Go("settling", "settled", FALSE)
  /\ UNCHANGED <<admission, client, landing, object, message, earlier, faults, ledgerOnly>>

(* No reader is named, or none of this deployment: nothing is asked of one,   *)
(* nor of the text that may be stored.                                       *)
SkipReading ==
  /\ At("reading") /\ record[worker.doc].review = "none"
  /\ Go("settling", "skipped", FALSE)
  /\ UNCHANGED <<admission, client, landing, object, message, records, faults, ledgerOnly>>

(* The reader answered and its answer did not hold.                          *)
BadAnswer ==
  /\ Unread
  /\ Go("recording", "operator_review", FALSE)
  /\ UNCHANGED <<admission, client, landing, object, message, records, faults, ledgerOnly>>

(* No answer, or no certain write: deferred while the reader may be booting, *)
(* recorded at no charge after that.                                         *)
NoAnswer ==
  /\ Unread
  /\ LET d == worker.doc
         kept == IF record[d].ranges < Ranges THEN [record[d] EXCEPT !.ranges = @ + 1]
                 ELSE [record[d] EXCEPT !.ocr = TRUE]
     IN /\ \E r \in {record[d], kept} : record' = [record EXCEPT ![d] = r]
        /\ IF message[d].delivery <= Deferrals
           THEN GiveBack
           ELSE Go("recording", "released", FALSE) /\ UNCHANGED message
  /\ UNCHANGED <<admission, client, landing, object, earlier, faults, ledgerOnly>>

(* Create-once: what is settled is what the receipt says.                    *)
RecordReview ==
  /\ At("recording")
  /\ LET d == worker.doc
     IN /\ record' = [record EXCEPT ![d].review = IF @ = "none" THEN worker.outcome ELSE @]
        /\ Go("settling", record'[d].review, FALSE)
  /\ UNCHANGED <<admission, client, landing, object, message, earlier, faults, ledgerOnly>>

(* The settlement route: the ledger, then for a refusal the intake row.  A   *)
(* document left unread is released.                                         *)
Told == IF worker.outcome = "skipped" THEN "released" ELSE worker.outcome

AlreadySaid(d, outcome) ==
  hold[d].state = outcome /\ hold[d].settled = Outcome(outcome)

(* Mutant: a settlement the ledger refuses counts as made. *)
SettleCallAnyway ==
  /\ At("settling")
  /\ LET d == worker.doc
     IN /\ \/ Settle(d, Told, Outcome(Told))
           \/ ~StillOpen(d) /\ UNCHANGED ledgerOnly
        /\ Go(IF worker.refused THEN "marking" ELSE "acknowledging",
              worker.outcome, worker.refused)
  /\ UNCHANGED <<admission, client, landing, object, message, records, faults>>

SettleCall ==
  /\ At("settling")
  /\ LET d == worker.doc
         next == IF worker.refused THEN "marking" ELSE "acknowledging"
     IN \/ /\ \/ Settle(d, Told, Outcome(Told))
              \/ AlreadySaid(d, Told) /\ UNCHANGED ledgerOnly
           /\ Go(next, worker.outcome, worker.refused)
           /\ UNCHANGED message
        \/ /\ ~StillOpen(d) /\ ~AlreadySaid(d, Told)
           /\ GiveBack
           /\ UNCHANGED ledgerOnly
  /\ UNCHANGED <<admission, client, landing, object, records, faults>>

MarkRejected ==
  /\ At("marking")
  /\ admission' = [admission EXCEPT ![worker.doc].rejected = TRUE]
  /\ Go("acknowledging", "released", TRUE)
  /\ UNCHANGED <<client, landing, object, message, records, faults, ledgerOnly>>

(* The queue is told the same of both; the two states tell them apart.       *)
Acknowledge ==
  /\ At("acknowledging")
  /\ worker' = Idle
  /\ message' = [message EXCEPT ![worker.doc].state =
                   IF worker.outcome = "skipped" THEN "skipped" ELSE "acked"]
  /\ UNCHANGED <<admission, client, landing, object, records, faults, ledgerOnly>>

(* At least once: a message can come again after it was acknowledged.        *)
ComesAgain(d) ==
  /\ message[d].state \in {"acked", "skipped"} /\ faults > 0
  /\ faults' = faults - 1
  /\ message' = [message EXCEPT ![d] = [state |-> "waiting", delivery |-> 1]]
  /\ UNCHANGED <<admission, client, landing, object, records, worker, ledgerOnly>>

-----------------------------------------------------------------------------
ClientStep(d) ==
  \/ Admit(d) \/ ReserveForUpload(d) \/ StartUpload(d) \/ Land(d) \/ UploadFails(d)
  \/ Confirm(d) \/ AskStore(d) \/ ReleaseUpload(d) \/ ClientStops(d)

WorkerStep ==
  \/ FindDisarmed \/ Sanitize \/ RecordRefusal
  \/ Replay \/ SkipReading \/ ReadRange \/ BadAnswer \/ NoAnswer
  \/ RecordReview \/ SettleCall \/ MarkRejected \/ Acknowledge

(* What the plan and the clock do meanwhile.                                 *)
Meanwhile ==
  /\ \/ SubscriptionEvent
     \/ Bootstrap
     \/ \E d \in Documents : HoldLapses(d)
  /\ UNCHANGED <<admission, client, landing, object, message, records, worker, faults>>

IntakeNext ==
  \/ \E d \in Documents : ClientStep(d) \/ AdmissionLapses(d) \/ Deliver(d) \/ ComesAgain(d)
  \/ WorkerStep \/ Retry
  \/ Meanwhile

IntakeSpec == IntakeInit /\ [][IntakeNext]_intakeVars

(* The queue hands every waiting message to the worker in its turn, and the  *)
(* worker ends its delivery.                                                 *)
FairIntakeSpec ==
  /\ IntakeSpec
  /\ WF_intakeVars(WorkerStep)
  /\ \A d \in Documents : SF_intakeVars(Deliver(d))

-----------------------------------------------------------------------------
(* A document is charged for exactly what is on record about it: as read     *)
(* with the text of a version stored and no failure of it recorded, or as    *)
(* failed with the receipt that says so, however often it was delivered and  *)
(* disarmed.                                                                 *)
ReadWell(v) == v.ocr /\ v.review = "none"

ChargedAsRecorded ==
  \A d \in Documents :
    /\ hold[d].state = "settled" => \E v \in Versions(d) : ReadWell(v)
    /\ hold[d].state = "operator_review" => \E v \in Versions(d) : v.review = "operator_review"

(* A message is acknowledged only when nothing is left to do: its document   *)
(* is settled as recorded, and a refusal can be read from the intake row; or *)
(* there was no reader to ask, and it is disarmed, unread and not charged.   *)
AcknowledgedIsDone ==
  \A d \in Documents :
    /\ message[d].state = "acked" =>
         \/ hold[d].state \in Worked
         \/ /\ hold[d].state = "released"
            /\ \/ \E v \in Versions(d) : v.review = "released"
               \/ record[d].reject /\ admission[d].rejected
    /\ message[d].state = "skipped" => hold[d].state = "released" /\ record[d].clean

(* The intake row says rejected only of a document whose refusal is on       *)
(* record and which cost nothing.                                            *)
RejectedCostNothing ==
  \A d \in Documents :
    admission[d].rejected => record[d].reject /\ hold[d].state = "released"

(* Every stored source is answered for: its message is acknowledged, or it   *)
(* is set aside where an operator finds it.                                  *)
StoredIsAnsweredFor ==
  \A d \in Documents : d \in object ~> message[d].state \in {"acked", "skipped", "dead"}
=============================================================================
