---------------------------- MODULE ComputeLedger ----------------------------
(***************************************************************************)
(* The processing credits of one workspace: the reservations documents     *)
(* hold on them, how a reservation is settled, and the billing events that *)
(* put credits in and take them back.                                      *)
(*                                                                         *)
(* Every reservation and every settlement is one transaction behind the    *)
(* workspace's lock, so each is one action.  A billing event is locked by  *)
(* its own id only: a sale and the refund of that sale can be processed at *)
(* the same time, so each takes the step that looks for the other and the  *)
(* step that commits.                                                      *)
(***************************************************************************)
EXTENDS Integers, FiniteSetsExt

CONSTANTS
  Documents,     \* documents of the workspace
  Sales,         \* paid transactions, each a grant of included credits
  Reserved,      \* Reserved[d]: what document d sets aside
  Maximum,       \* Maximum[d]: the most it may cost
  Actuals,       \* what a settlement may say a document cost
  Grant,         \* Grant[s]: credits sale s grants
  Offer,         \* Offer[s]: the plan sale s is for
  TrialUnits,    \* credits a free trial may ever consume
  DailyUnits     \* credits all free trials may reserve in a day

ASSUME AmountsAssumption ==
  /\ Reserved \in [Documents -> Nat] /\ Maximum \in [Documents -> Nat]
  /\ Actuals \subseteq Nat /\ Grant \in [Sales -> Nat]
  /\ TrialUnits \in Nat /\ DailyUnits \in Nat

ASSUME DocumentsAssumption == IsFiniteSet(Documents)

VARIABLES
  hold,     \* hold[d]: the reservation row of document d
  balance,  \* credits that may still be reserved
  overage,  \* credits to be invoiced beyond the included ones
  account,  \* what the plan of the workspace allows
  trial,    \* its free trial
  daily,    \* free credits reserved today, and observed beyond the reserved
  sale,     \* sale[s]: how far the payment event of s is
  refund,   \* refund[s]: how far the refund event of s is
  expired,  \* expired[s]: unused credits that ended when s was granted
  funds     \* credits put in and not taken back (history)

vars == <<hold, balance, overage, account, trial, daily, sale, refund, expired, funds>>
billing == <<account, sale, refund, expired, funds>>

Terminal == {"settled", "operator_review", "released", "expired"}
Worked == {"settled", "operator_review"}
Sources == {"owner", "paid", "trial"}

NoHold == [state |-> "none", source |-> "none", settled |-> 0, lapsed |-> FALSE]
Hold == [state : {"reserved"} \union Terminal, source : Sources, settled : Nat,
         lapsed : BOOLEAN]

TypeOK ==
  /\ hold \in [Documents -> {NoHold} \union Hold]
  /\ balance \in Nat
  /\ overage \in Nat
  /\ account \in [entitled : BOOLEAN, blocked : BOOLEAN, overage : BOOLEAN, exempt : BOOLEAN]
  /\ trial \in {"none", "trialing", "over"}
  /\ daily \in Nat
  /\ sale \in [Sales -> {"none", "granting", "granted", "reversed"}]
  /\ refund \in [Sales -> {"none", "looked", "pending", "done"}]
  /\ expired \in [Sales -> Nat]
  /\ funds \in Int

Init ==
  /\ hold = [d \in Documents |-> NoHold]
  /\ balance = 0
  /\ overage = 0
  /\ account = [entitled |-> FALSE, blocked |-> FALSE, overage |-> FALSE, exempt |-> FALSE]
  /\ trial = "none"
  /\ daily = 0
  /\ sale = [s \in Sales |-> "none"]
  /\ refund = [s \in Sales |-> "none"]
  /\ expired = [s \in Sales |-> 0]
  /\ funds = 0

Least(a, b) == IF a < b THEN a ELSE b
Excess(a, b) == IF a > b THEN a - b ELSE 0

(* The sum of f over the documents, counted unit by unit. *)
Units(f) == UNION {{d} \X (1 .. f[d]) : d \in Documents}
Total(f) == Cardinality(Units(f))

-----------------------------------------------------------------------------
(* Reserving: what a transaction that reserves finds, after the holds past   *)
(* their ten minutes have been swept back into the balance.                  *)
Lapsed == {d \in Documents : hold[d].state = "reserved" /\ hold[d].lapsed}

Swept ==
  [d \in Documents |->
     IF d \in Lapsed THEN [hold[d] EXCEPT !.state = "expired", !.settled = 0] ELSE hold[d]]

Returned ==
  [d \in Documents |-> IF d \in Lapsed /\ hold[d].source = "paid" THEN Reserved[d] ELSE 0]

Refilled == balance + Total(Returned)

(* Only a release gives free capacity back: an abandoned hold stays used.    *)
Consumed(d) ==
  IF hold[d].source # "trial" \/ hold[d].state \in {"none", "released"} THEN 0
  ELSE IF hold[d].state \in Worked THEN hold[d].settled
  ELSE Reserved[d]

(* Mutant: abandoned holds give their capacity back. *)
TrialHasRoomNow(d) ==
  /\ trial = "trialing"
  /\ Total([e \in Documents |-> IF hold[e].state = "expired" \/ e \in Lapsed THEN 0
                                ELSE Consumed(e)]) + Reserved[d] <= TrialUnits
  /\ daily + Reserved[d] <= DailyUnits

TrialHasRoom(d) ==
  /\ trial = "trialing"
  /\ Total([e \in Documents |-> Consumed(e)]) + Reserved[d] <= TrialUnits
  /\ daily + Reserved[d] <= DailyUnits

NewHold(source) == [NoHold EXCEPT !.state = "reserved", !.source = source]

ReserveExempt(d) ==
  /\ hold[d].state = "none"
  /\ account.exempt
  /\ hold' = [Swept EXCEPT ![d] = NewHold("owner")]
  /\ balance' = Refilled
  /\ UNCHANGED <<daily, overage, trial>>

ReservePaid(d) ==
  /\ hold[d].state = "none"
  /\ ~account.exempt /\ account.entitled /\ ~account.blocked
  /\ Refilled >= Reserved[d]
  /\ hold' = [Swept EXCEPT ![d] = NewHold("paid")]
  /\ balance' = Refilled - Reserved[d]
  /\ UNCHANGED <<daily, overage, trial>>

ReserveTrial(d) ==
  /\ hold[d].state = "none"
  /\ ~account.exempt /\ ~account.entitled /\ ~account.blocked
  /\ TrialHasRoom(d)
  /\ hold' = [Swept EXCEPT ![d] = NewHold("trial")]
  /\ balance' = Refilled
  /\ daily' = daily + Reserved[d]
  /\ UNCHANGED <<overage, trial>>

(* The row exists: it is answered with as it is, whatever its state.         *)
ReserveAgain(d) ==
  /\ hold[d].state # "none"
  /\ hold' = Swept
  /\ balance' = Refilled
  /\ UNCHANGED <<daily, overage, trial>>

Reserve(d) ==
  /\ ReserveExempt(d) \/ ReservePaid(d) \/ ReserveTrial(d) \/ ReserveAgain(d)
  /\ UNCHANGED billing

-----------------------------------------------------------------------------
(* Settling: a hold past its time that no sweep returned can still settle.   *)
(* Mutant: a hold the sweep returned still settles. *)
StillOpenOrSwept(d) == hold[d].state \in {"reserved", "expired"}

StillOpen(d) == hold[d].state = "reserved"

SettleFree(d, outcome, actual) ==
  /\ hold[d].source \in {"owner", "trial"}
  /\ hold' = [hold EXCEPT ![d].state = outcome, ![d].settled = actual]
  /\ IF hold[d].source = "trial"
     THEN /\ daily' = daily + Excess(actual, Reserved[d])
          /\ LET worked == [e \in Documents |->
                              IF hold'[e].source = "trial" /\ hold'[e].state \in Worked
                              THEN hold'[e].settled ELSE 0]
             IN trial' = IF trial = "trialing" /\ Total(worked) >= TrialUnits
                         THEN "over" ELSE trial
     ELSE UNCHANGED <<daily, trial>>
  /\ UNCHANGED <<balance, overage>>

SettlePaid(d, outcome, actual) ==
  /\ hold[d].source = "paid"
  /\ actual <= Maximum[d]
  /\ actual > Reserved[d] => account.overage /\ ~account.blocked
  /\ hold' = [hold EXCEPT ![d].state = outcome, ![d].settled = actual]
  /\ balance' = balance + Excess(Reserved[d], actual)
  /\ overage' = overage + Excess(actual, Reserved[d])
  /\ UNCHANGED <<daily, trial>>

Settle(d, outcome, actual) ==
  /\ StillOpen(d)
  /\ outcome = "released" => actual = 0
  /\ SettleFree(d, outcome, actual) \/ SettlePaid(d, outcome, actual)
  /\ UNCHANGED billing

(* Ten minutes pass. *)
HoldLapses(d) ==
  /\ hold[d].state = "reserved" /\ ~hold[d].lapsed
  /\ hold' = [hold EXCEPT ![d].lapsed = TRUE]
  /\ UNCHANGED <<balance, overage, trial, daily, billing>>

-----------------------------------------------------------------------------
(* Billing events.  A renewal ends what is left of the month before, down to *)
(* what was bought under another plan.                                       *)
LedgerOf(s) ==
  (IF sale[s] \in {"granted", "reversed"} THEN Grant[s] - expired[s] ELSE 0)
  - (IF sale[s] = "reversed" THEN Grant[s] ELSE 0)

OtherPlans(s) == Excess(MapThenSumSet(LedgerOf, {r \in Sales : Offer[r] # Offer[s]}), 0)

Ended(s) == Excess(balance, OtherPlans(s))

(* Mutant: a refund takes back what was already used. *)
TakeBackAll(s, left) ==
  /\ balance' = left - Grant[s]
  /\ funds' = funds + balance' - balance
  /\ account' = [account EXCEPT !.blocked = TRUE, !.overage = FALSE]

TakeBack(s, left) ==
  /\ balance' = Excess(left, Grant[s])
  /\ funds' = funds + balance' - balance
  /\ account' = [account EXCEPT !.blocked = TRUE, !.overage = FALSE]

(* The sale's transaction looks for a refund that came first and, finding    *)
(* none committed, goes on to grant.                                         *)
BeginGrant(s) ==
  /\ sale[s] = "none" /\ refund[s] # "pending"
  /\ sale' = [sale EXCEPT ![s] = "granting"]
  /\ UNCHANGED <<hold, balance, overage, account, trial, daily, refund, expired, funds>>

CommitGrant(s) ==
  /\ sale[s] = "granting"
  /\ sale' = [sale EXCEPT ![s] = "granted"]
  /\ \E ended \in 0 .. balance :
       /\ ended = Ended(s)
       /\ expired' = [expired EXCEPT ![s] = ended]
       /\ balance' = balance - ended + Grant[s]
       /\ funds' = funds - ended + Grant[s]
  /\ account' = [account EXCEPT !.overage = TRUE]
  /\ UNCHANGED <<hold, overage, trial, daily, refund>>

GrantRefunded(s) ==
  /\ sale[s] = "none" /\ refund[s] = "pending"
  /\ sale' = [sale EXCEPT ![s] = "reversed"]
  /\ refund' = [refund EXCEPT ![s] = "done"]
  /\ \E ended \in 0 .. balance :
       /\ ended = Ended(s)
       /\ expired' = [expired EXCEPT ![s] = ended]
       /\ TakeBack(s, balance - ended + Grant[s])
  /\ UNCHANGED <<hold, overage, trial, daily>>

(* The refund's transaction looks for its sale; without one it is kept for   *)
(* the sale to find.                                                         *)
RefundGranted(s) ==
  /\ refund[s] = "none" /\ sale[s] = "granted"
  /\ sale' = [sale EXCEPT ![s] = "reversed"]
  /\ refund' = [refund EXCEPT ![s] = "done"]
  /\ TakeBack(s, balance)
  /\ UNCHANGED <<hold, overage, trial, daily, expired>>

LookForSale(s) ==
  /\ refund[s] = "none" /\ sale[s] \in {"none", "granting"}
  /\ refund' = [refund EXCEPT ![s] = "looked"]
  /\ UNCHANGED <<hold, balance, overage, account, trial, daily, sale, expired, funds>>

KeepRefund(s) ==
  /\ refund[s] = "looked"
  /\ refund' = [refund EXCEPT ![s] = "pending"]
  /\ UNCHANGED <<hold, balance, overage, account, trial, daily, sale, expired, funds>>

(* A transaction that fails leaves nothing, and its event is delivered again.*)
EventFails(s) ==
  /\ \/ sale[s] = "granting" /\ sale' = [sale EXCEPT ![s] = "none"] /\ UNCHANGED refund
     \/ refund[s] = "looked" /\ refund' = [refund EXCEPT ![s] = "none"] /\ UNCHANGED sale
  /\ UNCHANGED <<hold, balance, overage, account, trial, daily, expired, funds>>

(* Subscription events, the owner's grant and the trial's own clock.         *)
SubscriptionEvent ==
  /\ \E entitled \in BOOLEAN : account' = [account EXCEPT !.entitled = entitled]
  /\ UNCHANGED <<hold, balance, overage, trial, daily, sale, refund, expired, funds>>

OwnerGrant ==
  /\ account' = [account EXCEPT !.exempt = ~@]
  /\ UNCHANGED <<hold, balance, overage, trial, daily, sale, refund, expired, funds>>

(* Signing in starts a trial once, ends it when the plan is paid, and finds  *)
(* it over when its days are.                                                *)
Bootstrap ==
  /\ ~account.exempt
  /\ \/ account.entitled /\ ~account.blocked /\ trial = "trialing" /\ trial' = "over"
     \/ ~(account.entitled /\ ~account.blocked) /\ trial = "none" /\ trial' = "trialing"
  /\ UNCHANGED <<hold, balance, overage, daily, billing>>

TrialDaysEnd ==
  /\ trial = "trialing"
  /\ trial' = "over"
  /\ UNCHANGED <<hold, balance, overage, daily, billing>>

BillingStep(s) ==
  \/ BeginGrant(s) \/ CommitGrant(s) \/ GrantRefunded(s)
  \/ RefundGranted(s) \/ LookForSale(s) \/ KeepRefund(s) \/ EventFails(s)

Next ==
  \/ \E d \in Documents : Reserve(d) \/ HoldLapses(d)
  \/ \E d \in Documents, outcome \in Worked \union {"released"}, actual \in Actuals :
       Settle(d, outcome, actual)
  \/ \E s \in Sales : BillingStep(s)
  \/ SubscriptionEvent \/ OwnerGrant \/ Bootstrap \/ TrialDaysEnd

Spec == Init /\ [][Next]_vars

-----------------------------------------------------------------------------
(* What a paid hold keeps out of the balance: all it set aside while it is   *)
(* open, what was used of it once the work was done, nothing after a return. *)
Drawn(d) ==
  IF hold[d].source # "paid" THEN 0
  ELSE IF hold[d].state = "reserved" THEN Reserved[d]
  ELSE IF hold[d].state \in Worked THEN Least(hold[d].settled, Reserved[d])
  ELSE 0

Invoiced(d) ==
  IF hold[d].source = "paid" /\ hold[d].state \in Worked
  THEN Excess(hold[d].settled, Reserved[d]) ELSE 0

(* No credit is lost or made: what billing put in is in the balance or drawn *)
(* by a document, and what a document cost beyond its reservation is         *)
(* invoiced once.  A hold that was swept and then settled, or settled twice, *)
(* would be returned twice.                                                  *)
CreditsConserved ==
  /\ balance + Total([d \in Documents |-> Drawn(d)]) = funds
  /\ overage = Total([d \in Documents |-> Invoiced(d)])

(* A trial never consumes more than its allowance, but for what a document   *)
(* was found to need beyond its own reservation: abandoned holds included.   *)
TrialStaysBounded ==
  Total([d \in Documents |-> Least(Consumed(d), Reserved[d])]) <= TrialUnits

(* What the migration says of a refund delivered before its sale: it is      *)
(* connected when the sale comes, so that the order of delivery cannot bring *)
(* refunded credits back.                                                    *)
RefundsAreConnected ==
  \A s \in Sales : ~(sale[s] = "granted" /\ refund[s] = "pending")
=============================================================================
