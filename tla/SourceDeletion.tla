--------------------------- MODULE SourceDeletion ---------------------------
(***************************************************************************)
(* The deletion of a source, from the request to the removal of its last   *)
(* object: the producers that may still be writing, the inventory that has *)
(* to be complete, the sweepers that claim one object at a time, the store *)
(* that may answer late, wrongly or not at all, and the legal hold that    *)
(* has to win against all of them.                                         *)
(*                                                                         *)
(* The database steps are transactions under the lock of the deletion, of  *)
(* the object or of the workspace's hold; the requests to the store are    *)
(* not part of any of them.                                                *)
(***************************************************************************)
EXTENDS FiniteSets, Integers

CONSTANTS
  Sources,    \* sources of one workspace
  Compiled,   \* those the compiled World is built from
  Sweepers,   \* calls of the deletion route that may overlap
  MaxHolds,   \* bound: times a legal hold is placed
  MaxFaults   \* bound: calls that fail, replies lost, sweepers that die

ASSUME BoundsAssumption ==
  Compiled \subseteq Sources /\ MaxHolds \in Nat /\ MaxFaults \in Nat

VARIABLES
  connected, \* sources a connector imports; the others are uploads
  hold,      \* what the workspace's legal hold reads as
  request,   \* request[s]: the tombstone of s
  producer,  \* producer[s]: the import and the disarming of s
  lapsed,    \* sources whose reservation lapsed before they were disarmed
  compile,   \* the compile of the World
  stored,    \* the keys the store holds
  locked,    \* keys under a lock of the bucket
  row,       \* row[d]: the deletion's record of one object
  attested,  \* sources whose inventory is attested
  inventory, \* the inventory worker
  run,       \* run[w]: what sweeper w is doing
  late,      \* keys with a removal under way that nobody waits for any more
  holds,     \* holds that may still be placed
  faults     \* faults that may still happen

deletionVars == <<request, row, attested>>
producerVars == <<producer, lapsed, compile>>
storeVars == <<stored, locked, late>>
vars == <<connected, hold, deletionVars, producerVars, storeVars, inventory, run, holds, faults>>

Raw(s) == <<"raw", s>>
Clean(s) == <<"clean", s>>
World == <<"world">>
Own(s) == {Raw(s), Clean(s)}
Keys == (UNION {Own(s) : s \in Sources}) \union {World}
Deletions == UNION {{s} \X (Own(s) \union IF s \in Compiled THEN {World} ELSE {}) : s \in Sources}

NoRow == [state |-> "none", live |-> FALSE, started |-> FALSE, due |-> TRUE]
Pending == [NoRow EXCEPT !.state = "pending"]
Purged == [NoRow EXCEPT !.state = "purged", !.started = TRUE]
Resting == [phase |-> "rest"]

DeletionTypeOK ==
  /\ connected \subseteq Sources
  /\ hold \in {"inactive", "active", "unknown"}
  /\ request \in [Sources -> {"none", "recorded", "eligible"}]
  /\ producer \in [Sources -> {"idle", "importing", "processing", "ended"}]
  /\ lapsed \subseteq Sources
  /\ compile \in {"idle", "running", "failed", "done"}
  /\ stored \subseteq Keys /\ locked \subseteq Keys /\ late \subseteq Keys
  /\ row \in [Deletions -> {NoRow, Purged} \union
       [state : {"pending"}, live : BOOLEAN, started : BOOLEAN, due : BOOLEAN]]
  /\ attested \subseteq Sources
  /\ inventory \in {Resting} \union
       [phase : {"listing", "sealing"}, source : Sources,
        worlds : SUBSET {World}, found : SUBSET Keys]
  /\ run \in [Sweepers -> {Resting} \union
       [phase : {"inspecting", "beginning", "waiting", "verifying", "finalizing", "refused"},
        of : Deletions, exists : BOOLEAN, claims : BOOLEAN]]
  /\ holds \in 0 .. MaxHolds /\ faults \in 0 .. MaxFaults

Init ==
  /\ connected \in SUBSET Sources
  /\ hold = "inactive"
  /\ request = [s \in Sources |-> "none"]
  /\ producer = [s \in Sources |-> "idle"] /\ lapsed = {} /\ compile = "idle"
  /\ stored = {} /\ late = {}
  /\ locked \in SUBSET ({Clean(s) : s \in Sources} \union {World})
  /\ row = [d \in Deletions |-> NoRow]
  /\ attested = {} /\ inventory = Resting
  /\ run = [w \in Sweepers |-> Resting]
  /\ holds = MaxHolds /\ faults = MaxFaults

-----------------------------------------------------------------------------
(* The producers of objects.  A connector binds a source and an upload is    *)
(* admitted only while it has no tombstone; what was begun goes on.          *)
Import(s) ==
  /\ producer[s] = "idle" /\ request[s] = "none"
  /\ producer' = [producer EXCEPT ![s] = "importing"]
  /\ UNCHANGED <<connected, hold, deletionVars, lapsed, compile, storeVars, inventory, run, holds, faults>>

StoreSource(s) ==
  /\ producer[s] = "importing"
  /\ producer' = [producer EXCEPT ![s] = "processing"]
  /\ stored' = stored \union {Raw(s)}
  /\ UNCHANGED <<connected, hold, deletionVars, lapsed, compile, locked, late, inventory, run, holds, faults>>

AbandonImport(s) ==
  /\ producer[s] = "importing"
  /\ producer' = [producer EXCEPT ![s] = "ended"]
  /\ UNCHANGED <<connected, hold, deletionVars, lapsed, compile, storeVars, inventory, run, holds, faults>>

Disarm(s) ==
  /\ producer[s] = "processing"
  /\ producer' = [producer EXCEPT ![s] = "ended"]
  /\ stored' = IF Raw(s) \in stored THEN stored \union {Clean(s)} ELSE stored
  /\ UNCHANGED <<connected, hold, deletionVars, lapsed, compile, locked, late, inventory, run, holds, faults>>

(* Another reservation sweeps the lapsed one: no record says any more that   *)
(* the document waits in the queue.                                          *)
Lapse(s) ==
  /\ producer[s] = "processing"
  /\ lapsed' = lapsed \union {s}
  /\ UNCHANGED <<connected, hold, deletionVars, producer, compile, storeVars, inventory, run, holds, faults>>

StartCompile ==
  /\ compile = "idle"
  /\ \A s \in Compiled : Clean(s) \in stored /\ request[s] = "none"
  /\ compile' = "running"
  /\ UNCHANGED <<connected, hold, deletionVars, producer, lapsed, storeVars, inventory, run, holds, faults>>

EndCompile ==
  /\ compile = "running"
  /\ \/ compile' = "done" /\ stored' = stored \union {World}
     \/ compile' = "failed" /\ UNCHANGED stored
  /\ UNCHANGED <<connected, hold, deletionVars, producer, lapsed, locked, late, inventory, run, holds, faults>>

Produce ==
  \/ \E s \in Sources : Import(s) \/ StoreSource(s) \/ AbandonImport(s) \/ Disarm(s) \/ Lapse(s)
  \/ StartCompile
  \/ EndCompile

-----------------------------------------------------------------------------
(* Legal holds.  A hold is refused while the outcome of a removal is open.   *)

(* Mutant: only a claim that has not expired counts. *)
OpenWhileClaimed == \E d \in Deletions : row[d].state = "pending" /\ row[d].live

RemovalIsOpen == \E d \in Deletions : row[d].state = "pending" /\ (row[d].live \/ row[d].started)

PlaceHold ==
  /\ holds > 0 /\ hold # "active" /\ ~RemovalIsOpen
  /\ hold' = "active" /\ holds' = holds - 1
  /\ UNCHANGED <<connected, deletionVars, producerVars, storeVars, inventory, run, faults>>

ReleaseHold ==
  /\ hold = "active"
  /\ hold' = "inactive"
  /\ UNCHANGED <<connected, deletionVars, producerVars, storeVars, inventory, run, holds, faults>>

(* The workspace is assigned to an organization without a readable policy,   *)
(* or that policy is written.                                                *)
LoseSight ==
  /\ holds > 0 /\ hold = "inactive" /\ ~RemovalIsOpen
  /\ hold' = "unknown" /\ holds' = holds - 1
  /\ UNCHANGED <<connected, deletionVars, producerVars, storeVars, inventory, run, faults>>

WritePolicy ==
  /\ hold = "unknown"
  /\ hold' = "inactive"
  /\ UNCHANGED <<connected, deletionVars, producerVars, storeVars, inventory, run, holds, faults>>

-----------------------------------------------------------------------------
(* The request.  A connector's is recorded under a hold as well, with the    *)
(* objects its bindings name; a person's is refused.                         *)
Request(s) ==
  /\ request[s] = "none" /\ hold # "unknown"
  /\ s \in connected \/ (hold = "inactive" /\ producer[s] # "idle")
  /\ request' = [request EXCEPT ![s] = "recorded"]
  /\ row' = IF s \in connected /\ producer[s] # "idle"
              THEN [row EXCEPT ![<<s, Raw(s)>>] = Pending] ELSE row
  /\ UNCHANGED <<connected, hold, attested, producerVars, storeVars, inventory, run, holds, faults>>

(* The grace of a connector's deletion may be nothing; an upload's lasts     *)
(* longer than its upload address.                                           *)
BecomeEligible(s) ==
  /\ request[s] = "recorded"
  /\ s \in connected \/ producer[s] # "importing"
  /\ request' = [request EXCEPT ![s] = "eligible"]
  /\ UNCHANGED <<connected, hold, row, attested, producerVars, storeVars, inventory, run, holds, faults>>

-----------------------------------------------------------------------------
(* The inventory: list, list again, and have the database seal what was      *)
(* found, if nothing can be writing.                                         *)
NoImport == \A s \in connected : producer[s] # "importing"
Affected(s) == IF compile = "done" /\ s \in Compiled THEN {World} ELSE {}

(* Mutant: a compile that is still running is not looked for. *)
QuiescentButForCompiles(s) == NoImport /\ (producer[s] # "processing" \/ s \in lapsed)

Quiescent(s) ==
  /\ NoImport
  /\ producer[s] # "processing" \/ s \in lapsed
  /\ s \in Compiled => compile # "running"

Listed(s, worlds) == stored \intersect (Own(s) \union worlds)

TakeCandidate(s) ==
  /\ inventory = Resting
  /\ hold = "inactive" /\ request[s] = "eligible" /\ s \notin attested /\ Quiescent(s)
  /\ inventory' = [phase |-> "listing", source |-> s, worlds |-> Affected(s), found |-> {}]
  /\ UNCHANGED <<connected, hold, deletionVars, producerVars, storeVars, run, holds, faults>>

(* Two listings that agree say what the second one found; listings that do   *)
(* not agree, or that find nothing, end the attempt.                         *)
List ==
  /\ inventory.phase = "listing"
  /\ \/ /\ Listed(inventory.source, inventory.worlds) # {}
        /\ inventory' = [inventory EXCEPT !.phase = "sealing",
                                          !.found = Listed(inventory.source, inventory.worlds)]
     \/ inventory' = Resting
  /\ UNCHANGED <<connected, hold, deletionVars, producerVars, storeVars, run, holds, faults>>

Seals(s) ==
  /\ hold = "inactive" /\ Quiescent(s)
  /\ inventory.worlds = Affected(s)
  /\ s \notin attested

Attest ==
  /\ inventory.phase = "sealing"
  /\ LET s == inventory.source IN
       IF Seals(s)
         THEN /\ attested' = attested \union {s}
              /\ row' = [d \in Deletions |->
                           IF d[1] = s /\ d[2] \in inventory.found /\ row[d].state = "none"
                             THEN Pending ELSE row[d]]
         ELSE UNCHANGED <<attested, row>>
  /\ inventory' = Resting
  /\ UNCHANGED <<connected, hold, request, producerVars, storeVars, run, holds, faults>>

TakeInventory == (\E s \in Sources : TakeCandidate(s)) \/ List \/ Attest

-----------------------------------------------------------------------------
(* The sweep.  A claim is a lease on one object; everything a sweeper writes *)
(* is refused once another holds the claim.                                  *)

(* Mutant: an eligible source's objects go before its inventory is attested. *)
ClaimableUnattested(d) ==
  /\ row[d].state = "pending" /\ ~row[d].live /\ row[d].due
  /\ request[d[1]] = "eligible"
  /\ hold = "inactive"

(* No import of the workspace may hold a lease.  The lease of one that is    *)
(* under way may have run out, so an import does not stand in the way.       *)
Claimable(d) ==
  /\ row[d].state = "pending" /\ ~row[d].live /\ row[d].due
  /\ request[d[1]] = "eligible" /\ d[1] \in attested
  /\ hold = "inactive"

(* A claim takes the claim of whoever had it before. *)
Claim(w, d) ==
  /\ run[w] = Resting
  /\ Claimable(d)
  /\ row' = [row EXCEPT ![d].live = TRUE]
  /\ run' = [v \in Sweepers |->
               IF v = w THEN [phase |-> "inspecting", of |-> d, exists |-> FALSE, claims |-> TRUE]
               ELSE IF run[v] # Resting /\ run[v].of = d THEN [run[v] EXCEPT !.claims = FALSE]
               ELSE run[v]]
  /\ UNCHANGED <<connected, hold, request, attested, producerVars, storeVars, inventory, holds, faults>>

Expire(d) ==
  /\ row[d].live
  /\ row' = [row EXCEPT ![d].live = FALSE]
  /\ UNCHANGED <<connected, hold, request, attested, producerVars, storeVars, inventory, run, holds, faults>>

(* A day has passed since the store refused to remove a locked object. *)
FallDue(d) ==
  /\ ~row[d].due
  /\ row' = [row EXCEPT ![d].due = TRUE]
  /\ UNCHANGED <<connected, hold, request, attested, producerVars, storeVars, inventory, run, holds, faults>>

Working == {w \in Sweepers : run[w] # Resting}
Key(w) == run[w].of[2]
HoldsClaim(w) == run[w].claims /\ row[run[w].of].live
GoOn(w, phase) == run' = [run EXCEPT ![w].phase = phase]
Rest(w) == run' = [run EXCEPT ![w] = Resting]

Inspect(w) ==
  /\ run[w].phase = "inspecting"
  /\ run' = [run EXCEPT ![w].phase = "beginning", ![w].exists = Key(w) \in stored]
  /\ UNCHANGED <<connected, hold, deletionVars, producerVars, storeVars, inventory, holds, faults>>

(* The intent is recorded before the store is asked for the removal.  To an  *)
(* object already purged the database answers well and changes nothing.      *)
Begin(w) ==
  /\ run[w].phase = "beginning"
  /\ LET d == run[w].of
         begins == row[d].state = "pending" /\ HoldsClaim(w) /\ hold = "inactive" IN
       /\ row' = IF begins THEN [row EXCEPT ![d].started = TRUE] ELSE row
       /\ IF begins \/ row[d].state = "purged"
            THEN GoOn(w, IF run[w].exists THEN "waiting" ELSE "verifying") ELSE Rest(w)
  /\ UNCHANGED <<connected, hold, request, attested, producerVars, storeVars, inventory, holds, faults>>

(* A locked object stays, whether the store refuses or acknowledges. *)
Answer(w) ==
  /\ run[w].phase = "waiting"
  /\ IF Key(w) \in locked
       THEN UNCHANGED stored /\ (GoOn(w, "refused") \/ GoOn(w, "verifying"))
       ELSE stored' = stored \ {Key(w)} /\ GoOn(w, "verifying")
  /\ UNCHANGED <<connected, hold, deletionVars, producerVars, locked, late, inventory, holds, faults>>

(* Mutant: the store's acknowledgement is taken for the removal. *)
VerifyNothing(w) ==
  /\ run[w].phase = "verifying"
  /\ GoOn(w, "finalizing")
  /\ UNCHANGED <<connected, hold, deletionVars, producerVars, storeVars, inventory, holds, faults>>

Verify(w) ==
  /\ run[w].phase = "verifying"
  /\ IF Key(w) \in stored THEN Rest(w) ELSE GoOn(w, "finalizing")
  /\ UNCHANGED <<connected, hold, deletionVars, producerVars, storeVars, inventory, holds, faults>>

Finalizes(w) ==
  LET d == run[w].of IN
    row[d].state = "pending" /\ HoldsClaim(w) /\ hold = "inactive" /\ row[d].started

(* The receipt and the mark on the object are one transaction. *)
Finalize(w) ==
  /\ run[w].phase = "finalizing"
  /\ row' = IF Finalizes(w) THEN [row EXCEPT ![run[w].of] = Purged] ELSE row
  /\ Rest(w)
  /\ UNCHANGED <<connected, hold, request, attested, producerVars, storeVars, inventory, holds, faults>>

(* The record of an explicit refusal ends the attempt: the claim and the     *)
(* start are taken back.  The record of any other failure leaves them, the   *)
(* outcome being unknown.                                                    *)
RecordRefusal(w) ==
  /\ run[w].phase = "refused"
  /\ LET d == run[w].of IN
       row' = IF row[d].state = "pending" /\ run[w].claims
                THEN [row EXCEPT ![d] = [Pending EXCEPT !.due = FALSE]] ELSE row
  /\ Rest(w)
  /\ UNCHANGED <<connected, hold, request, attested, producerVars, storeVars, inventory, holds, faults>>

(* A call fails, its reply is lost or the sweeper dies: it goes no further.  *)
(* A removal it waited for may still be under way.                           *)
Stop(w) ==
  /\ w \in Working /\ faults > 0
  /\ faults' = faults - 1
  /\ late' = IF run[w].phase = "waiting" THEN late \union {Key(w)} ELSE late
  /\ Rest(w)
  /\ UNCHANGED <<connected, hold, deletionVars, producerVars, stored, locked, inventory, holds>>

Work(w) ==
  \/ Inspect(w) \/ Begin(w) \/ Answer(w) \/ Verify(w)
  \/ Finalize(w) \/ RecordRefusal(w) \/ Stop(w)

-----------------------------------------------------------------------------
(* The store: a removal nobody waits for lands after all, or is lost; a lock *)
(* lapses, on a day when no removal of its object is under way.              *)
LandLate(k) ==
  /\ k \in late
  /\ late' = late \ {k}
  /\ stored' \in {stored, stored \ (IF k \in locked THEN {} ELSE {k})}
  /\ UNCHANGED <<connected, hold, deletionVars, producerVars, locked, inventory, run, holds, faults>>

LockLapses(k) ==
  /\ k \in locked \ late
  /\ k \notin {Key(w) : w \in Working}
  /\ locked' = locked \ {k}
  /\ UNCHANGED <<connected, hold, deletionVars, producerVars, stored, late, inventory, run, holds, faults>>

Next ==
  \/ Produce
  \/ PlaceHold \/ ReleaseHold \/ LoseSight \/ WritePolicy
  \/ \E s \in Sources : Request(s) \/ BecomeEligible(s)
  \/ TakeInventory
  \/ \E w \in Sweepers, d \in Deletions : Claim(w, d)
  \/ \E w \in Sweepers : Work(w)
  \/ \E d \in Deletions : Expire(d) \/ FallDue(d)
  \/ \E k \in Keys : LandLate(k) \/ LockLapses(k)

Spec == Init /\ [][Next]_vars

-----------------------------------------------------------------------------
(* Under a legal hold, or one that cannot be read, no object goes: not by a  *)
(* removal that was sent before the hold and lands after it, nor by a        *)
(* sweeper that claimed its object before.                                   *)
HeldObjectsStay ==
  [][hold # "inactive" => stored \subseteq stored']_vars

(* A receipt is true for ever: an object recorded as purged is gone and no   *)
(* producer brings it back.                                                  *)
PurgedIsGone ==
  \A d \in Deletions : row[d].state = "purged" => d[2] \notin stored

(* An attested inventory is complete: every object made from the source is   *)
(* recorded for removal, whatever was being written while it was taken.  A   *)
(* source whose reservation lapsed before it was disarmed is excepted: the   *)
(* inventory does not see that it still waits.                               *)
AttestedIsComplete ==
  \A s \in attested \ lapsed :
    \A k \in stored \intersect (Own(s) \union Affected(s)) : row[<<s, k>>].state # "none"

(* Producers, inventories, sweepers that overlap and a store that answers    *)
(* late, seen by who holds the objects and who audits the receipts: only     *)
(* lawful removals.  A recorded object is asked for once its inventory is    *)
(* attested.                                                                 *)
Asked == {d \in Deletions : d[1] \in attested /\ row[d].state # "none"}
Open == {d \in Deletions : row[d].state = "pending" /\ row[d].started}
Done == {d \in Deletions : row[d].state = "purged"}

Lawful == INSTANCE LawfulRemoval WITH
            Objects <- Keys, Removals <- Deletions, ObjectOf <- [d \in Deletions |-> d[2]],
            asked <- Asked, open <- Open, done <- Done

RemovalsAreLawful == Lawful!RemovalSpec
=============================================================================
