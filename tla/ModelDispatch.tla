----------------------------- MODULE ModelDispatch -----------------------------
(***************************************************************************)
(* The one way to a paid model provider: read the provider's circuit, take *)
(* a hold on the budget, commit an admission to the circuit as it was      *)
(* read, mark the hold, call, settle what was measured, and commit the     *)
(* outcome to the circuit as it is read then.                              *)
(*                                                                         *)
(* Between those calls workers interleave and time passes.  Every call may *)
(* be lost, its effect kept or not, and a worker may die anywhere.  The    *)
(* circuit is moved by compare-and-set on its revision.                    *)
(***************************************************************************)
EXTENDS ModelSpend

CONSTANTS
  Workers,      \* concurrent governed calls
  Threshold,    \* correlated failures that open the circuit
  MaxRevision,  \* bound: revisions of the circuit
  MaxFaults     \* bound: replies lost and workers that die

ASSUME DispatchAssumption == Threshold \in Nat \ {0} /\ MaxRevision \in Nat /\ MaxFaults \in Nat

VARIABLES
  circuit,  \* the circuit row of the provider
  due,      \* whether its cooldown, or its probe's lease, has run out
  worker,   \* worker[w]: the call w is making
  calls,    \* calls[r]: how often the provider was called for r (history)
  used,     \* used[r]: what the last answer for r measured (history)
  faults    \* faults that may still happen

vars == <<spendVars, circuit, due, worker, calls, used, faults>>
rest == <<spendVars, circuit, due, calls, used>>

Results == {"success", "operational", "account", "semantic"}
Circuit == [phase : {"closed", "open", "half_open"}, revision : 0 .. MaxRevision,
            failures : 0 .. Threshold, probe : 0 .. MaxRevision]
Closed == [phase |-> "closed", revision |-> 0, failures |-> 0, probe |-> 0]

Idle == [phase |-> "idle"]
(* A probe is named by the revision that admitted it, 0 for any other call.  *)
Turn == [phase : {"read", "held", "admitted", "releasing", "marked", "settling", "doubting",
                  "reporting", "closing"},
         request : Requests, seen : Circuit, admitted : BOOLEAN, probe : 0 .. MaxRevision,
         late : BOOLEAN, result : Results, units : Nat]

DispatchTypeOK ==
  /\ SpendTypeOK
  /\ circuit \in Circuit /\ due \in BOOLEAN
  /\ worker \in [Workers -> {Idle} \union Turn]
  /\ calls \in [Requests -> Nat] /\ used \in [Requests -> Nat]
  /\ faults \in 0 .. MaxFaults

Init ==
  /\ SpendInit
  /\ circuit = Closed /\ due = FALSE
  /\ worker = [w \in Workers |-> Idle]
  /\ calls = [r \in Requests |-> 0] /\ used = [r \in Requests |-> 0]
  /\ faults = MaxFaults

-----------------------------------------------------------------------------
At(w, phase) == worker[w].phase = phase
Request(w) == worker[w].request

Go(w, phase) == worker' = [worker EXCEPT ![w].phase = phase]
End(w) == worker' = [worker EXCEPT ![w] = Idle]

(* A call that is lost: what it did is kept or not, and w goes on as after a *)
(* refusal.                                                                  *)
Lost(effect, untouched) ==
  /\ faults > 0
  /\ faults' = faults - 1
  /\ effect \/ UNCHANGED untouched

ReadCircuit(w, r) ==
  /\ worker[w] = Idle
  /\ worker' = [worker EXCEPT ![w] =
       [phase |-> "read", request |-> r, seen |-> circuit, admitted |-> FALSE, probe |-> 0,
        late |-> FALSE, result |-> "semantic", units |-> 0]]
  /\ UNCHANGED <<rest, faults>>

(* Only a hold that is open and still has time goes on. *)
Granted(r) == row'[r].state = "reserved" /\ ~row'[r].pending /\ ~row'[r].lapsed

TakeHold(w) ==
  /\ At(w, "read")
  /\ \/ /\ Reserve(Request(w))
        /\ IF Granted(Request(w)) THEN Go(w, "held") ELSE End(w)
        /\ UNCHANGED faults
     \/ Lost(Reserve(Request(w)), spendVars) /\ End(w)
  /\ UNCHANGED <<circuit, due, calls, used>>

(* Over budget: the call raises. *)
HoldRefused(w) ==
  /\ At(w, "read")
  /\ row[Request(w)].state = "none"
  /\ HasTurn(Waiting(Request(w)), TenantOf[Request(w)]) /\ ~Fits(Request(w))
  /\ End(w)
  /\ UNCHANGED <<rest, faults>>

-----------------------------------------------------------------------------
(* The circuit.  What w proposes it derives from the circuit as it saw it.   *)
(* Mutant: the event commits whatever the revision is now. *)
CommitBlind(w, next) ==
  circuit' = [next EXCEPT !.revision = circuit.revision + 1]

Commit(w, next) ==
  /\ circuit.revision = worker[w].seen.revision
  /\ circuit' = [next EXCEPT !.revision = circuit.revision + 1]

Committable(w) ==
  circuit.revision = worker[w].seen.revision /\ circuit.revision < MaxRevision

AsProbe(w) == worker[w].seen.phase # "closed"

(* Mutant: a half-open circuit admits another probe. *)
AdmissibleHalfOpen(w) == worker[w].seen.phase = "open" => due

Admissible(w) == AsProbe(w) => due

AfterAdmission(w) ==
  IF AsProbe(w)
  THEN [worker[w].seen EXCEPT !.phase = "half_open", !.probe = circuit.revision + 1]
  ELSE worker[w].seen

CommitAdmission(w) ==
  /\ circuit.revision < MaxRevision
  /\ Commit(w, AfterAdmission(w))
  /\ due' = FALSE

EnterCircuit(w) ==
  /\ At(w, "held")
  /\ \/ /\ Admissible(w)
        /\ CommitAdmission(w)
        /\ worker' = [worker EXCEPT ![w].phase = "admitted", ![w].admitted = TRUE,
                                    ![w].probe = IF AsProbe(w) THEN circuit'.revision ELSE 0,
                                    ![w].seen = Closed]
        /\ UNCHANGED faults
     \/ /\ ~Admissible(w) \/ circuit.revision # worker[w].seen.revision
        /\ worker' = [worker EXCEPT ![w].phase = "releasing", ![w].seen = Closed]
        /\ UNCHANGED <<circuit, due, faults>>
     \/ /\ Admissible(w)
        /\ Lost(CommitAdmission(w), <<circuit, due>>)
        /\ worker' = [worker EXCEPT ![w].phase = "releasing", ![w].seen = Closed]
  /\ UNCHANGED <<spendVars, calls, used>>

(* The attempt cannot be put on record: nothing is called.                   *)
AttemptUnrecorded(w) ==
  /\ At(w, "admitted") /\ faults > 0
  /\ faults' = faults - 1
  /\ Go(w, "releasing")
  /\ UNCHANGED rest

(* What is released or marked is refused when the row no longer allows it.   *)
ReleaseHold(w) ==
  /\ At(w, "releasing")
  /\ \/ Settle(Request(w), "released", 0) /\ UNCHANGED faults
     \/ (~Open(Request(w)) \/ row[Request(w)].marked) /\ UNCHANGED <<spendVars, faults>>
     \/ Lost(Settle(Request(w), "released", 0), spendVars)
  /\ IF worker[w].admitted THEN Go(w, "reporting") ELSE End(w)
  /\ UNCHANGED <<circuit, due, calls, used>>

CanMark(r) == Open(r) /\ ~row[r].lapsed /\ ~row[r].marked

StartDispatch(w) ==
  /\ At(w, "admitted")
  /\ \/ MarkStarted(Request(w)) /\ Go(w, "marked") /\ UNCHANGED faults
     \/ ~CanMark(Request(w)) /\ Go(w, "reporting") /\ UNCHANGED <<spendVars, faults>>
     \/ Lost(MarkStarted(Request(w)), spendVars) /\ Go(w, "reporting")
  /\ UNCHANGED <<circuit, due, calls, used>>

(* The provider answers within its reservation, or not usably.               *)
CallProvider(w) ==
  /\ At(w, "marked")
  /\ calls' = [calls EXCEPT ![Request(w)] = @ + 1]
  /\ \/ \E result \in Results, units \in 0 .. Reserved[Request(w)] :
          /\ worker' = [worker EXCEPT ![w].phase = "settling", ![w].result = result,
                                      ![w].units = units]
          /\ used' = [used EXCEPT ![Request(w)] = units]
     \/ /\ worker' = [worker EXCEPT ![w].phase = "doubting", ![w].result = "operational"]
        /\ UNCHANGED used
  /\ UNCHANGED <<spendVars, circuit, due, faults>>

SettleCall(w) ==
  /\ At(w, "settling")
  /\ \E next \in {"reporting", "doubting"} :
       /\ worker' = [worker EXCEPT ![w].phase = next, ![w].units = 0]
       /\ \/ /\ next = "reporting"
             /\ Settle(Request(w), "settled", worker[w].units)
             /\ UNCHANGED faults
          \/ /\ next = "doubting" /\ ~Open(Request(w))
             /\ UNCHANGED <<spendVars, faults>>
          \/ /\ next = "doubting"
             /\ Lost(Settle(Request(w), "settled", worker[w].units), spendVars)
  /\ UNCHANGED <<circuit, due, calls, used>>

CanDoubt(r) == ~row[r].pending /\ ~row[r].resolved /\ row[r].state \in {"reserved", "expired"}

Doubt(w) ==
  /\ At(w, "doubting")
  /\ \/ MarkIndeterminate(Request(w)) /\ UNCHANGED faults
     \/ ~CanDoubt(Request(w)) /\ UNCHANGED <<spendVars, faults>>
     \/ Lost(MarkIndeterminate(Request(w)), spendVars)
  /\ Go(w, "reporting")
  /\ UNCHANGED <<circuit, due, calls, used>>

(* The outcome is derived from a new reading; a probe that lost its place,   *)
(* and an admission past its time, say nothing.                              *)
StaleProbe(w) ==
  worker[w].probe # 0 /\ (circuit.phase # "half_open" \/ circuit.probe # worker[w].probe)

ReadForOutcome(w) ==
  /\ At(w, "reporting")
  /\ IF worker[w].late \/ StaleProbe(w)
     THEN End(w)
     ELSE worker' = [worker EXCEPT ![w].phase = "closing", ![w].seen = circuit]
  /\ UNCHANGED <<rest, faults>>

(* What an outcome makes of the circuit w saw.                               *)
Opened(seen, failures) == [seen EXCEPT !.phase = "open", !.failures = failures, !.probe = 0]
Recovered(seen) == [seen EXCEPT !.phase = "closed", !.failures = 0, !.probe = 0]

(* Failures correlate within a window that starts with the first of them.    *)
Counted(seen) ==
  {IF n >= Threshold THEN Opened(seen, Threshold) ELSE [seen EXCEPT !.failures = n] :
     n \in {1, seen.failures + 1}}

(* Work admitted before the circuit opened neither closes nor extends it.    *)
Outcomes(w) ==
  LET seen == worker[w].seen
      result == worker[w].result
  IN  IF worker[w].probe # 0
      THEN {IF result = "success" THEN Recovered(seen) ELSE Opened(seen, seen.failures)}
      ELSE IF seen.phase # "closed" \/ result = "semantic" THEN {seen}
      ELSE IF result = "success" THEN {Recovered(seen)}
      ELSE IF result = "account" THEN {Opened(seen, Threshold)}
      ELSE Counted(seen)

(* Best effort: whether it was committed or not, the call is over.           *)
CommitOutcome(w) ==
  /\ At(w, "closing")
  /\ \/ /\ circuit.revision < MaxRevision
        /\ \E next \in Outcomes(w) : Commit(w, next)
        /\ due' = (due /\ circuit'.phase # "closed" /\ worker[w].probe = 0)
     \/ /\ ~Committable(w)
        /\ UNCHANGED <<circuit, due>>
  /\ End(w)
  /\ UNCHANGED <<spendVars, calls, used, faults>>

-----------------------------------------------------------------------------
Dies(w) ==
  /\ worker[w] # Idle /\ faults > 0
  /\ faults' = faults - 1
  /\ End(w)
  /\ UNCHANGED rest

(* The cooldown ends, or the lease of the probe and with it its admission;   *)
(* or the admission of a normal call ends.                                   *)
CircuitFallsDue ==
  /\ circuit.phase # "closed" /\ ~due
  /\ due' = TRUE
  /\ worker' = [w \in Workers |->
       IF worker[w] # Idle /\ worker[w].probe # 0 /\ worker[w].probe = circuit.probe
       THEN [worker[w] EXCEPT !.late = TRUE] ELSE worker[w]]
  /\ UNCHANGED <<spendVars, circuit, calls, used, faults>>

AdmissionEnds(w) ==
  /\ worker[w] # Idle /\ worker[w].admitted
  /\ worker[w].probe = 0 /\ ~worker[w].late
  /\ worker' = [worker EXCEPT ![w].late = TRUE]
  /\ UNCHANGED <<rest, faults>>

Resolve(r) ==
  /\ \/ \E units \in 0 .. Reserved[r] : Reconcile(r, "settled", units)
     \/ Reconcile(r, "released", 0)
  /\ UNCHANGED <<circuit, due, worker, calls, used, faults>>

Lapse(r) ==
  /\ RowLapses(r)
  /\ UNCHANGED <<circuit, due, worker, calls, used, faults>>

WorkerStep(w) ==
  \/ TakeHold(w) \/ HoldRefused(w) \/ EnterCircuit(w) \/ AttemptUnrecorded(w)
  \/ ReleaseHold(w) \/ StartDispatch(w) \/ CallProvider(w) \/ SettleCall(w)
  \/ Doubt(w) \/ ReadForOutcome(w) \/ CommitOutcome(w)

Next ==
  \/ \E w \in Workers, r \in Requests : ReadCircuit(w, r)
  \/ \E w \in Workers : WorkerStep(w) \/ Dies(w) \/ AdmissionEnds(w)
  \/ \E r \in Requests : Resolve(r) \/ Lapse(r)
  \/ CircuitFallsDue

Spec == Init /\ [][Next]_vars

-----------------------------------------------------------------------------
(* A request is paid for once and only when it was called: the provider is   *)
(* called at most once for it, a call that may have been made is never       *)
(* refunded by time or by a release, and what is charged without evidence is *)
(* what was measured.                                                        *)
CallsAreAccounted ==
  \A r \in Requests :
    /\ calls[r] <= 1
    /\ calls[r] = 1 => \/ row[r].state = "reserved" /\ row[r].marked
                       \/ row[r].state = "settled"
                       \/ row[r].resolved
    /\ row[r].state = "settled" /\ ~row[r].resolved => calls[r] = 1 /\ row[r].actual = used[r]

(* While the circuit is half open one probe at most is under way with time   *)
(* left: two workers that read the same open circuit do not both probe.      *)
OneProbe ==
  \A v, w \in Workers :
    (/\ worker[v] # Idle /\ worker[v].probe # 0 /\ ~worker[v].late
     /\ worker[w] # Idle /\ worker[w].probe # 0 /\ ~worker[w].late) => v = w

(* An open circuit closes only on the success of the probe it waits for:     *)
(* not on the late success of a call admitted before it opened, nor on that  *)
(* of a probe that was replaced.                                             *)
ClosesOnProof ==
  [][circuit.phase # "closed" /\ circuit'.phase = "closed" =>
       /\ circuit.phase = "half_open"
       /\ \E w \in Workers : /\ worker[w] # Idle /\ worker[w].result = "success"
                             /\ worker[w].probe # 0 /\ worker[w].probe = circuit.probe]_vars

(* Budgets, queue, leases, lost replies and dead workers, seen from the      *)
(* bill: every request is a paid call that is committed, called and ended    *)
(* once.                                                                     *)
Stage(x) ==
  IF x.resolved THEN "resolved"
  ELSE [none |-> "none", queued |-> "none", rejected |-> "none", queue_expired |-> "none",
        reserved |-> IF x.pending THEN "doubtful" ELSE "committed",
        settled |-> "charged", released |-> "returned", expired |-> "returned"][x.state]

Paid == INSTANCE PaidCalls WITH
          stage <- [r \in Requests |-> Stage(row[r])],
          cost <- [r \in Requests |-> IF row[r].state = "settled" THEN row[r].actual ELSE 0],
          called <- calls,
          measured <- used

DispatchPaysOnce == Paid!CallsSpec
=============================================================================
