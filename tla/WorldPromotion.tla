---------------------------- MODULE WorldPromotion ----------------------------
(***************************************************************************)
(* Forward promotion against connector imports: the composition of         *)
(* SourceBinding and WorldPointer that transition_foundation_world_        *)
(* atomic_current makes.                                                   *)
(*                                                                         *)
(* A promotion takes the binding lock of every logical source its          *)
(* candidate was compiled from, in one fixed order, checks under the locks *)
(* that each document is still the newest binding, and then runs the       *)
(* unchanged transition; all of it is one transaction, whose locks fall at *)
(* its end.  The guarded binding writer takes the same lock of the one     *)
(* source it writes.  Rollback takes none: it is historical on purpose.    *)
(***************************************************************************)
EXTENDS SourceBinding, WorldPointer, FiniteSets

CONSTANTS
  Promotions,  \* database sessions running a promotion
  Documents    \* Documents[d]: the source revisions candidate d was compiled from

(* The lock order is the order of source ids; sources are numbered by it. *)
ASSUME SourcesAssumption == Sources \subseteq Nat /\ IsFiniteSet(Sources)
ASSUME DocumentsAssumption ==
  Documents \in [Digests -> SUBSET (Sources \X Revisions)]

VARIABLE promotion  \* promotion[p]: the open transaction of session p

vars == <<bindingVars, worldVars, promotion>>

Closed == [phase |-> "closed"]
Open == [phase : {"locking", "checked"}, operation : Operations,
         request : Request, held : SUBSET Sources]

Init ==
  /\ BindingInit
  /\ WorldInit
  /\ promotion = [p \in Promotions |-> Closed]

Held(p) == IF promotion[p] = Closed THEN {} ELSE promotion[p].held

(* An advisory lock has one holder. *)
PromotionTypeOK ==
  /\ promotion \in [Promotions -> {Closed} \union Open]
  /\ \A p, q \in Promotions : p # q => Held(p) \intersect Held(q) = {}

Locked(s) == \E p \in Promotions : s \in Held(p)

(* Sources of the documents that have a binding: a document without one is a *)
(* direct upload, with no lineage to compare.                                *)
BoundDocuments(d) == {doc \in Documents[d] : doc[2] \in Bound(doc[1])}
Involved(p) ==
  {doc[1] : doc \in BoundDocuments(promotion[p].request.target)}
Unlocked(p) == Involved(p) \ promotion[p].held

DocumentsNewest(d) ==
  \A doc \in BoundDocuments(d) : NewestVersions(doc[1]) = {doc[2]}

(* A candidate exists once its documents were bound and compiled.  A retry   *)
(* of a committed operation goes straight to the transition.                 *)
BeginPromotion(p, o, q) ==
  /\ promotion[p] = Closed
  /\ q.action = "activate"
  /\ BoundDocuments(q.target) = Documents[q.target]
  /\ promotion' = [promotion EXCEPT ![p] =
       [phase |-> IF receipts[o] = None THEN "locking" ELSE "checked",
        operation |-> o, request |-> q, held |-> {}]]
  /\ UNCHANGED <<bindingVars, worldVars>>

(* Mutant: the sources are locked in whatever order they come. *)
LockSourceUnordered(p) ==
  /\ promotion[p].phase = "locking"
  /\ \E s \in Unlocked(p) :
       /\ ~Locked(s)
       /\ promotion' = [promotion EXCEPT ![p].held = @ \union {s}]
  /\ UNCHANGED <<bindingVars, worldVars>>

LockSource(p) ==
  /\ promotion[p].phase = "locking"
  /\ \E s \in Unlocked(p) :
       /\ \A t \in Unlocked(p) : s <= t
       /\ ~Locked(s)
       /\ promotion' = [promotion EXCEPT ![p].held = @ \union {s}]
  /\ UNCHANGED <<bindingVars, worldVars>>

(* Mutant: the check is a statement of its own, whose locks fall with it. *)
CheckSourcesAndRelease(p) ==
  /\ promotion[p].phase = "locking"
  /\ Unlocked(p) = {}
  /\ DocumentsNewest(promotion[p].request.target)
  /\ promotion' = [promotion EXCEPT ![p].phase = "checked", ![p].held = {}]
  /\ UNCHANGED <<bindingVars, worldVars>>

CheckSources(p) ==
  /\ promotion[p].phase = "locking"
  /\ Unlocked(p) = {}
  /\ DocumentsNewest(promotion[p].request.target)
  /\ promotion' = [promotion EXCEPT ![p].phase = "checked"]
  /\ UNCHANGED <<bindingVars, worldVars>>

CommitPromotion(p) ==
  /\ promotion[p].phase = "checked"
  /\ Transition(promotion[p].operation, promotion[p].request)
  /\ promotion' = [promotion EXCEPT ![p] = Closed]
  /\ UNCHANGED bindingVars

(* Any refusal or a lost session: the transaction rolls back and the locks   *)
(* fall.                                                                     *)
AbortPromotion(p) ==
  /\ promotion[p] # Closed
  /\ promotion' = [promotion EXCEPT ![p] = Closed]
  /\ UNCHANGED <<bindingVars, worldVars>>

Rollback(o, q) ==
  /\ q.action = "rollback"
  /\ Transition(o, q)
  /\ UNCHANGED <<bindingVars, promotion>>

MembershipStep ==
  /\ \E a \in Actors, role \in Roles, active \in BOOLEAN :
       ChangeMembership(a, role, active)
  /\ UNCHANGED <<bindingVars, promotion>>

(* What a compile read of source s, whose World the closure of its deletion  *)
(* finds when the job recorded its candidate.                                *)
CompiledFrom(s) ==
  {d \in Digests : /\ BoundDocuments(d) = Documents[d]
                   /\ \E doc \in Documents[d] : doc[1] = s}

DeletionStep ==
  /\ \E s \in tombstoned : \E D \in SUBSET CompiledFrom(s) : InvalidateWorlds(D)
  /\ UNCHANGED <<bindingVars, promotion>>

(* The guarded writer waits for the lock of the source it writes. *)
BindingStep ==
  /\ \/ \E s \in Sources : ProviderRevises(s) \/ Tombstone(s)
     \/ ToggleConnection
     \/ \E w \in Importers :
          \/ \E s \in Sources, r \in Revisions : BeginImport(w, s, r)
          \/ ObserveBefore(w)
          \/ ObserveAfter(w)
          \/ AbandonImport(w)
          \/ import[w] # Idle /\ ~Locked(import[w].source) /\ Record(w)
  /\ UNCHANGED <<worldVars, promotion>>

PromotionStep(p) ==
  \/ \E o \in Operations, q \in Requests : BeginPromotion(p, o, q)
  \/ LockSource(p)
  \/ CheckSources(p)
  \/ CommitPromotion(p)
  \/ AbortPromotion(p)

Next ==
  \/ BindingStep
  \/ MembershipStep
  \/ DeletionStep
  \/ \E p \in Promotions : PromotionStep(p)
  \/ \E o \in Operations, q \in Requests : Rollback(o, q)

Spec == Init /\ [][Next]_vars

-----------------------------------------------------------------------------
(* At the commit that makes a candidate the active World every document it   *)
(* was compiled from is its source's one newest binding: not at a precheck,  *)
(* at the commit.  A revision bound concurrently either refuses the          *)
(* promotion or waits for it (assert_world_sources_current's promise).       *)
PublishesNewest ==
  [][\A o \in Operations :
       receipts[o] = None /\ receipts'[o] # None =>
         \/ receipts'[o].request.action = "rollback"
         \/ \A doc \in Documents[receipts'[o].request.target] :
              NewestVersions(doc[1]) = {doc[2]}]_vars

(* No group of promotions waits for each other's source locks: the locks are *)
(* taken in one order, so the database never has to kill one of them.        *)
Wants(p) ==
  IF promotion[p].phase # "locking" THEN {}
  ELSE {s \in Unlocked(p) : \A t \in Unlocked(p) : s <= t}

NoLockCycle ==
  \A W \in (SUBSET Promotions) \ {{}} :
    \E p \in W : \A q \in W \ {p} : Wants(p) \intersect Held(q) = {}
=============================================================================
