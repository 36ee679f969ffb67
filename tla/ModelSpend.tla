------------------------------ MODULE ModelSpend ------------------------------
(***************************************************************************)
(* What paid model calls may spend: the reservations requests hold on the  *)
(* budgets of the deployment and of their tenants, the fair queue they     *)
(* wait in, and the ledger of holds and charges.                           *)
(*                                                                         *)
(* Every function takes the global lock first, so each is one action.  A   *)
(* reservation is marked before its provider is called: an unmarked hold   *)
(* past its time is refunded by the next reservation, a marked one may     *)
(* have been spent and is parked, still charged, until someone reconciles. *)
(***************************************************************************)
EXTENDS Integers, FiniteSets

CONSTANTS
  Requests,       \* request keys
  Tenants,        \* tenants
  TenantOf,       \* TenantOf[r]: the tenant of request r
  Reserved,       \* Reserved[r]: units request r reserves
  Budget,         \* units the deployment may commit
  TenantBudget,   \* units a tenant may commit
  Slots,          \* calls the deployment may run at once
  TenantSlots     \* calls a tenant may run at once

ASSUME SpendAssumption ==
  /\ IsFiniteSet(Requests)
  /\ TenantOf \in [Requests -> Tenants]
  /\ Reserved \in [Requests -> Nat]
  /\ Budget \in Nat /\ TenantBudget \in Nat /\ Slots \in Nat /\ TenantSlots \in Nat

VARIABLES
  row,    \* row[r]: the reservation of r
  turn,   \* turn[t]: when tenant t was last admitted, 0 while never
  held,   \* units the ledger holds
  spent   \* units the ledger charged

spendVars == <<row, turn, held, spent>>

States == {"none", "queued", "rejected", "reserved", "settled", "released", "expired",
           "queue_expired"}

NoRow == [state |-> "none", place |-> 0, lapsed |-> FALSE, marked |-> FALSE,
          pending |-> FALSE, resolved |-> FALSE, actual |-> 0]

Row == [state : States, place : Nat, lapsed : BOOLEAN, marked : BOOLEAN,
        pending : BOOLEAN, resolved : BOOLEAN, actual : Nat]

SpendTypeOK ==
  /\ row \in [Requests -> Row]
  /\ turn \in [Tenants -> Nat]
  /\ held \in Nat /\ spent \in Nat

SpendInit ==
  /\ row = [r \in Requests |-> NoRow]
  /\ turn = [t \in Tenants |-> 0]
  /\ held = 0 /\ spent = 0

(* The sum of f over the requests of R, counted unit by unit. *)
Units(f, R) == UNION {{r} \X (1 .. f[r]) : r \in R}
Total(f, R) == Cardinality(Units(f, R))

(* What rows commit of a budget: a hold its reservation, a charge its cost.  *)
Commitment(rows) ==
  [r \in Requests |-> IF rows[r].state = "reserved" THEN Reserved[r]
                      ELSE IF rows[r].state = "settled" THEN rows[r].actual ELSE 0]

OfTenant(t) == {r \in Requests : TenantOf[r] = t}

-----------------------------------------------------------------------------
(* What every reservation does first with the rows past their time.          *)
Late(r) == row[r].state = "reserved" /\ row[r].lapsed

(* Mutant: time alone refunds a hold, called or not. *)
RefundedAnyway == {r \in Requests : Late(r)}

Refunded == {r \in Requests : Late(r) /\ ~row[r].marked}
Parked == {r \in Requests : Late(r)} \ Refunded
Overdue == {r \in Requests : row[r].state = "queued" /\ row[r].lapsed}

Swept ==
  [r \in Requests |->
     IF r \in Parked THEN [row[r] EXCEPT !.pending = TRUE, !.lapsed = FALSE]
     ELSE IF r \in Refunded THEN [row[r] EXCEPT !.state = "expired", !.lapsed = FALSE]
     ELSE IF r \in Overdue THEN [row[r] EXCEPT !.state = "queue_expired", !.lapsed = FALSE]
     ELSE row[r]]

HeldAfterSweep == held - Total(Reserved, Refunded)

(* The rows with r waiting in the queue, at the place it came in.            *)
Waiting(r) ==
  [Swept EXCEPT ![r].state = "queued",
                ![r].place = IF @ = 0 THEN 1 + Cardinality({q \in Requests : row[q].place # 0})
                             ELSE @]

(* Only each tenant's oldest request competes, and the tenant least recently *)
(* admitted is next.                                                         *)
Head(rows, q) ==
  /\ rows[q].state = "queued"
  /\ \A p \in OfTenant(TenantOf[q]) : rows[p].state = "queued" => rows[q].place <= rows[p].place

HasTurn(rows, t) ==
  \E q \in OfTenant(t) :
    /\ Head(rows, q)
    /\ \A p \in Requests : Head(rows, p) =>
         \/ turn[t] < turn[TenantOf[p]]
         \/ turn[t] = turn[TenantOf[p]] /\ rows[q].place <= rows[p].place

(* Mutant: charges of settled calls are not counted. *)
FitsHolds(r) ==
  LET open == [q \in Requests |-> IF Swept[q].state = "reserved" THEN Reserved[q] ELSE 0]
  IN /\ Total(open, Requests) + Reserved[r] <= Budget
     /\ Total(open, OfTenant(TenantOf[r])) + Reserved[r] <= TenantBudget

Fits(r) ==
  /\ Total(Commitment(Swept), Requests) + Reserved[r] <= Budget
  /\ Total(Commitment(Swept), OfTenant(TenantOf[r])) + Reserved[r] <= TenantBudget

Running(R) == {q \in R : Swept[q].state = "reserved" /\ ~Swept[q].pending}

HasSlot(r) ==
  /\ Cardinality(Running(Requests)) < Slots
  /\ Cardinality(Running(OfTenant(TenantOf[r]))) < TenantSlots

Admitted == {q \in Requests : row[q].state \in {"reserved", "settled", "released", "expired"}}

Unqueued(r) == Swept[r].state \in {"none", "queued"}

(* A known request is answered with its row. *)
ReserveKnown(r) ==
  /\ ~Unqueued(r)
  /\ row' = Swept
  /\ held' = HeldAfterSweep
  /\ UNCHANGED <<turn, spent>>

ReserveWaits(r) ==
  /\ Unqueued(r)
  /\ HasTurn(Waiting(r), TenantOf[r]) => Fits(r) /\ ~HasSlot(r)
  /\ row' = Waiting(r)
  /\ held' = HeldAfterSweep
  /\ UNCHANGED <<turn, spent>>

(* A queued request the budget has no room for is rejected for good; a new   *)
(* one raises, and the sweep is undone with it.                              *)
ReserveRejected(r) ==
  /\ Swept[r].state = "queued"
  /\ HasTurn(Waiting(r), TenantOf[r]) /\ ~Fits(r)
  /\ row' = [Swept EXCEPT ![r].state = "rejected"]
  /\ held' = HeldAfterSweep
  /\ UNCHANGED <<turn, spent>>

ReserveAdmitted(r) ==
  /\ Unqueued(r)
  /\ HasTurn(Waiting(r), TenantOf[r]) /\ Fits(r) /\ HasSlot(r)
  /\ row' = [Waiting(r) EXCEPT ![r].state = "reserved", ![r].lapsed = FALSE]
  /\ held' = HeldAfterSweep + Reserved[r]
  /\ turn' = [turn EXCEPT ![TenantOf[r]] = 1 + Cardinality(Admitted)]
  /\ UNCHANGED spent

Reserve(r) ==
  ReserveKnown(r) \/ ReserveWaits(r) \/ ReserveRejected(r) \/ ReserveAdmitted(r)

-----------------------------------------------------------------------------
(* Only the first marker of a live hold may call the provider. *)
MarkStarted(r) ==
  /\ row[r].state = "reserved" /\ ~row[r].pending /\ ~row[r].lapsed
  /\ ~row[r].marked
  /\ row' = [row EXCEPT ![r].marked = TRUE]
  /\ UNCHANGED <<turn, held, spent>>

Open(r) == row[r].state = "reserved" /\ ~row[r].pending

(* A release needs proof that nothing was spent: no mark.  An unmarked hold  *)
(* past its time is refunded whatever is said of it; a measured settlement   *)
(* of a marked one is recorded however late it is.                           *)
Settle(r, outcome, units) ==
  /\ Open(r)
  /\ outcome = "released" => ~row[r].marked /\ units = 0
  /\ units <= Reserved[r]
  /\ LET refund == row[r].lapsed /\ ~row[r].marked
         cost == IF refund THEN 0 ELSE units
     IN /\ row' = [row EXCEPT ![r].state = IF refund THEN "expired" ELSE outcome,
                              ![r].actual = cost, ![r].lapsed = FALSE]
        /\ spent' = spent + cost
  /\ held' = held - Reserved[r]
  /\ UNCHANGED turn

(* The outcome is unknown: the hold is kept for reconciliation, and taken    *)
(* back if a sweep had refunded it.                                          *)
MarkIndeterminate(r) ==
  /\ ~row[r].pending /\ ~row[r].resolved
  /\ row[r].state \in {"reserved", "expired"}
  /\ held' = IF row[r].state = "expired" THEN held + Reserved[r] ELSE held
  /\ row' = [row EXCEPT ![r].state = "reserved", ![r].pending = TRUE, ![r].lapsed = FALSE]
  /\ UNCHANGED <<turn, spent>>

(* Mutant: evidence is taken for a hold whose call is still under way. *)
ReconcileUnparked(r, outcome, units) ==
  /\ row[r].state = "reserved"
  /\ units <= Reserved[r] /\ (outcome = "released" => units = 0)
  /\ row' = [row EXCEPT ![r].state = outcome, ![r].actual = units,
                        ![r].pending = FALSE, ![r].resolved = TRUE]
  /\ held' = held - Reserved[r]
  /\ spent' = spent + units
  /\ UNCHANGED turn

(* Evidence resolves a pending hold, once. *)
Reconcile(r, outcome, units) ==
  /\ row[r].state = "reserved" /\ row[r].pending
  /\ units <= Reserved[r] /\ (outcome = "released" => units = 0)
  /\ row' = [row EXCEPT ![r].state = outcome, ![r].actual = units,
                        ![r].pending = FALSE, ![r].resolved = TRUE]
  /\ held' = held - Reserved[r]
  /\ spent' = spent + units
  /\ UNCHANGED turn

(* The reservation's seconds, or the queue's fifteen minutes, pass.          *)
RowLapses(r) ==
  /\ row[r].state = "queued" \/ Open(r)
  /\ ~row[r].lapsed
  /\ row' = [row EXCEPT ![r].lapsed = TRUE]
  /\ UNCHANGED <<turn, held, spent>>

-----------------------------------------------------------------------------
(* What the ledger holds and has charged never exceeds a budget, nor what    *)
(* the rows of a tenant commit its own: not even when late answers, parked   *)
(* holds and refunds meet.                                                   *)
BudgetHolds ==
  /\ held + spent <= Budget
  /\ \A t \in Tenants : Total(Commitment(row), OfTenant(t)) <= TenantBudget
=============================================================================
