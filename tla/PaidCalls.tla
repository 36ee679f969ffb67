------------------------------- MODULE PaidCalls -------------------------------
(***************************************************************************)
(* What governed model calls promise of a provider that has to be paid:    *)
(* units are committed within the budgets before a call, a request is      *)
(* called at most once and only on its own commitment, and a commitment    *)
(* ends once: charged with what was measured, returned because there was   *)
(* no call, or, in doubt, as evidence says.                                *)
(***************************************************************************)
EXTENDS Integers, FiniteSets

CONSTANTS
  Requests,      \* request keys
  Tenants,       \* tenants
  TenantOf,      \* TenantOf[r]: the tenant of request r
  Reserved,      \* Reserved[r]: units a call of r may cost
  Budget,        \* units that may be committed
  TenantBudget   \* units of one tenant that may be committed

VARIABLES
  stage,     \* stage[r]: how far the commitment of r is
  cost,      \* cost[r]: units r was charged
  called,    \* called[r]: how often the provider was called for r
  measured   \* measured[r]: units the provider's answer says r used

callVars == <<stage, cost, called, measured>>

Stages == {"none", "committed", "doubtful", "charged", "returned", "resolved"}

Commitments ==
  [r \in Requests |-> IF stage[r] \in {"committed", "doubtful"} THEN Reserved[r] ELSE cost[r]]

Sum(R) == Cardinality(UNION {{r} \X (1 .. Commitments[r]) : r \in R})

WithinBudgets ==
  /\ Sum(Requests) <= Budget
  /\ \A t \in Tenants : Sum({r \in Requests : TenantOf[r] = t}) <= TenantBudget

CallsInit ==
  /\ stage = [r \in Requests |-> "none"]
  /\ cost = [r \in Requests |-> 0]
  /\ called = [r \in Requests |-> 0]
  /\ measured = [r \in Requests |-> 0]

(* Time returns a commitment nobody called on, and puts others in doubt.     *)
Ages(r) ==
  /\ stage[r] = "committed"
  /\ stage'[r] \in {"committed", "doubtful"} \union IF called[r] = 0 THEN {"returned"} ELSE {}

(* At most one request is committed, after time has done its part.           *)
Commit ==
  /\ stage' \in [Requests -> Stages]
  /\ \E R \in SUBSET Requests :
       /\ \A q, r \in R : q = r
       /\ \A r \in R : stage[r] = "none" /\ stage'[r] = "committed"
       /\ \A r \in Requests \ R : Ages(r) \/ stage'[r] = stage[r]
       /\ R # {} => WithinBudgets'
  /\ UNCHANGED <<cost, called, measured>>

(* A call that was marked goes out although its commitment is in doubt by    *)
(* then, or even resolved.                                                   *)
Call(r) ==
  /\ stage[r] \in {"committed", "doubtful", "resolved"}
  /\ called[r] = 0
  /\ called' = [called EXCEPT ![r] = 1]
  /\ \E units \in 0 .. Reserved[r] : measured' = [measured EXCEPT ![r] = units]
  /\ UNCHANGED <<stage, cost>>

Charge(r) ==
  /\ stage[r] = "committed" /\ called[r] = 1
  /\ stage' = [stage EXCEPT ![r] = "charged"]
  /\ cost' = [cost EXCEPT ![r] = measured[r]]
  /\ UNCHANGED <<called, measured>>

Return(r) ==
  /\ stage[r] = "committed" /\ called[r] = 0
  /\ stage' = [stage EXCEPT ![r] = "returned"]
  /\ UNCHANGED <<cost, called, measured>>

Doubt(r) ==
  /\ stage[r] = "committed"
  /\ stage' = [stage EXCEPT ![r] = "doubtful"]
  /\ UNCHANGED <<cost, called, measured>>

Resolve(r) ==
  /\ stage[r] = "doubtful"
  /\ stage' = [stage EXCEPT ![r] = "resolved"]
  /\ \E units \in 0 .. Reserved[r] : cost' = [cost EXCEPT ![r] = units]
  /\ UNCHANGED <<called, measured>>

CallsNext ==
  \/ Commit
  \/ \E r \in Requests : Call(r) \/ Charge(r) \/ Return(r) \/ Doubt(r) \/ Resolve(r)

CallsSpec == CallsInit /\ [][CallsNext]_callVars
=============================================================================
