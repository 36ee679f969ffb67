----------------------------- MODULE WorldPointer -----------------------------
(***************************************************************************)
(* The active-World pointer of one collection: activation and rollback as  *)
(* transition_foundation_world_atomic performs them, and its invalidation  *)
(* when a source the World was built from is deleted.                      *)
(*                                                                         *)
(* Writers of one collection hold its advisory lock for their whole        *)
(* transaction, and the actor's membership row is held FOR SHARE from the  *)
(* authorization check to the commit, so a transition is one action.  The  *)
(* callers are not: they expect the pointer they read at some earlier      *)
(* moment, they repeat a call whose answer was lost, and their role or     *)
(* membership changes in between.  A call the function refuses raises,     *)
(* which rolls everything back, so a refusal is the absence of a step.     *)
(***************************************************************************)
EXTENDS Integers

CONSTANTS
  Digests,        \* manifest digests of compiled candidates
  Operations,     \* operation ids chosen by callers
  Actors,         \* users
  MaxMembership,  \* bound: authorization revisions of a membership
  None            \* no digest, no receipt

VARIABLES
  members,      \* members[a]: the membership row of a
  pointer,      \* the active-world row; NoWorld while there is none
  seen,         \* every value the pointer ever had (history)
  status,       \* status[d]: lifecycle of World version d
  erased,       \* Worlds named by the receipt of a source deletion
  receipts,     \* receipts[o]: the transition receipt of operation o
  answers       \* answers[o]: what callers were told about o (history)

worldVars == <<members, pointer, seen, status, erased, receipts, answers>>

NoWorld == [digest |-> None, revision |-> 0]
Pointer == [digest : Digests \union {None}, revision : Nat]
(* An owner may do here what an administrator may: "admin" stands for both. *)
Roles == {"admin", "member"}
Membership == [role : Roles, active : BOOLEAN, authorization : Nat \ {0}]
Request == [action : {"activate", "rollback"}, target : Digests,
            expected : Pointer, actor : Actors]
Receipt == [request : Request, from : Digests \union {None}, before : Nat,
            after : Nat, authorization : Nat,
            outcome : {"applied", "already_active"}]
ASSUME NoneAssumption == None \notin Digests /\ None \notin Receipt

Answer == [digest : Digests, revision : Nat, authorization : Nat]

WorldTypeOK ==
  /\ members \in [Actors -> Membership]
  /\ pointer \in Pointer
  /\ seen \subseteq Pointer
  /\ status \in [Digests -> {"absent", "active", "superseded"}]
  /\ erased \subseteq Digests
  /\ receipts \in [Operations -> Receipt \union {None}]
  /\ answers \in [Operations -> SUBSET Answer]

WorldInit ==
  /\ members = [a \in Actors |->
       [role |-> "admin", active |-> TRUE, authorization |-> 1]]
  /\ pointer = NoWorld
  /\ seen = {NoWorld}
  /\ status = [d \in Digests |-> "absent"]
  /\ erased = {}
  /\ receipts = [o \in Operations |-> None]
  /\ answers = [o \in Operations |-> {}]

Authorized(a) == members[a].active /\ members[a].role = "admin"

(* Any change of role or state bumps the authorization revision (the trigger *)
(* of the membership table).                                                 *)
ChangeMembership(a, role, active) ==
  /\ <<role, active>> # <<members[a].role, members[a].active>>
  /\ members[a].authorization < MaxMembership
  /\ members' = [members EXCEPT ![a] =
       [role |-> role, active |-> active, authorization |-> @.authorization + 1]]
  /\ UNCHANGED <<pointer, seen, status, erased, receipts, answers>>

Tell(o, digest, revision, authorization) ==
  answers' = [answers EXCEPT ![o] = @ \union
    {[digest |-> digest, revision |-> revision, authorization |-> authorization]}]

(* Mutant: a receipt answers whoever repeats the request. *)
ReplayUnchecked(o, q) ==
  /\ Authorized(q.actor)
  /\ receipts[o] # None
  /\ receipts[o].request = q
  /\ Tell(o, q.target, receipts[o].after, members[q.actor].authorization)
  /\ UNCHANGED <<members, pointer, seen, status, erased, receipts>>

(* The operation id already has a receipt: the request must be the same one, *)
(* and the caller's authorization the one the receipt is bound to.           *)
Replay(o, q) ==
  /\ Authorized(q.actor)
  /\ receipts[o] # None
  /\ receipts[o].request = q
  /\ members[q.actor].authorization = receipts[o].authorization
  /\ Tell(o, q.target, receipts[o].after, members[q.actor].authorization)
  /\ UNCHANGED <<members, pointer, seen, status, erased, receipts>>

(* Mutant: only the digest the caller expects is compared (the ABA problem). *)
FirstCallByDigest(o, q) ==
  /\ Authorized(q.actor)
  /\ receipts[o] = None
  /\ pointer.digest = q.expected.digest

(* A first call: authorized, no receipt yet, and the pointer row is exactly  *)
(* what the caller expects -- presence, revision and digest.                 *)
FirstCall(o, q) ==
  /\ Authorized(q.actor)
  /\ receipts[o] = None
  /\ pointer = q.expected

(* Mutant: the receipt is not yet bound to an authorization when written. *)
WriteReceiptUnbound(o, q, after, outcome) ==
  receipts' = [receipts EXCEPT ![o] =
    [request |-> q, from |-> pointer.digest, before |-> pointer.revision,
     after |-> after, authorization |-> None, outcome |-> outcome]]

WriteReceipt(o, q, after, outcome) ==
  receipts' = [receipts EXCEPT ![o] =
    [request |-> q, from |-> pointer.digest, before |-> pointer.revision,
     after |-> after, authorization |-> members[q.actor].authorization,
     outcome |-> outcome]]

AlreadyActive(o, q) ==
  /\ FirstCall(o, q)
  /\ pointer.digest = q.target
  /\ WriteReceipt(o, q, pointer.revision, "already_active")
  /\ Tell(o, q.target, pointer.revision, members[q.actor].authorization)
  /\ UNCHANGED <<members, pointer, seen, status, erased>>

(* Mutant: the versions table has no trigger that asks for deletions. *)
SourceDeletedIgnored(d) == FALSE

(* A World that a source deletion invalidated cannot become active again.    *)
SourceDeleted(d) == d \in erased

(* Mutant: a rollback does not ask whether its target was ever active. *)
TargetAcceptedAlways(q) == ~SourceDeleted(q.target)

(* Activation inserts an unknown version; rollback needs a superseded one.   *)
TargetAccepted(q) ==
  /\ ~SourceDeleted(q.target)
  /\ \/ q.action = "activate"
     \/ /\ q.action = "rollback"
        /\ pointer # NoWorld
        /\ status[q.target] = "superseded"

(* Mutant: the World that was active is not superseded. *)
MoveKeepingOld(o, q) ==
  /\ FirstCall(o, q)
  /\ pointer.digest # q.target
  /\ TargetAccepted(q)
  /\ status' = [status EXCEPT ![q.target] = "active"]
  /\ pointer' = [digest |-> q.target, revision |-> pointer.revision + 1]
  /\ seen' = seen \union {pointer'}
  /\ WriteReceipt(o, q, q.expected.revision + 1, "applied")
  /\ Tell(o, q.target, q.expected.revision + 1, members[q.actor].authorization)
  /\ UNCHANGED <<members, erased>>

Move(o, q) ==
  /\ FirstCall(o, q)
  /\ pointer.digest # q.target
  /\ TargetAccepted(q)
  /\ status' = [d \in Digests |-> IF d = q.target THEN "active"
                                  ELSE IF status[d] = "active" THEN "superseded"
                                  ELSE status[d]]
  /\ pointer' = [digest |-> q.target, revision |-> pointer.revision + 1]
  /\ seen' = seen \union {pointer'}
  /\ WriteReceipt(o, q, q.expected.revision + 1, "applied")
  /\ Tell(o, q.target, q.expected.revision + 1, members[q.actor].authorization)
  /\ UNCHANGED <<members, erased>>

(* The closure of a source deletion, under the same collection lock: the     *)
(* Worlds D compiled from the source lose their pointer, and are superseded. *)
(* The versions and their receipts stay.                                     *)
InvalidateWorlds(D) ==
  /\ erased' = erased \union D
  /\ pointer' = IF pointer.digest \in D THEN NoWorld ELSE pointer
  /\ seen' = seen \union {pointer'}
  /\ status' = [d \in Digests |-> IF d \in D /\ status[d] = "active"
                                  THEN "superseded" ELSE status[d]]
  /\ UNCHANGED <<members, receipts, answers>>

Transition(o, q) == Replay(o, q) \/ AlreadyActive(o, q) \/ Move(o, q)

(* What a caller can ask: it expects some value the pointer had when it read. *)
Requests == [action : {"activate", "rollback"}, target : Digests,
             expected : seen, actor : Actors]

WorldNext ==
  \/ \E a \in Actors, role \in Roles, active \in BOOLEAN :
       ChangeMembership(a, role, active)
  \/ \E o \in Operations, q \in Requests : Transition(o, q)
  \/ \E D \in SUBSET Digests : InvalidateWorlds(D)

WorldSpec == WorldInit /\ [][WorldNext]_worldVars

-----------------------------------------------------------------------------
Applied(o) == receipts[o] # None /\ receipts[o].outcome = "applied"

(* The pointer row and the version rows agree: exactly the pointed-at World  *)
(* is active.  The deferred constraint triggers raise on anything else; the  *)
(* transition itself never trips them.                                       *)
PointerNamesTheActiveVersion ==
  {d \in Digests : status[d] = "active"} = {pointer.digest} \ {None}

(* The receipts are an audit trail without gaps.  Every revision of the      *)
(* present pointer was made by a receipt that took over the digest the one   *)
(* before it installed, and the last one installed the present World; and a  *)
(* receipt of a pointer that was invalidated since has its predecessor too.  *)
(* So two callers that read the same present pointer cannot both move it.    *)
AuditChain ==
  /\ \E chain \in [1 .. pointer.revision -> Operations] :
       /\ \A n \in 1 .. pointer.revision :
            /\ Applied(chain[n])
            /\ receipts[chain[n]].before = n - 1
            /\ receipts[chain[n]].after = n
            /\ n > 1 => receipts[chain[n]].from = receipts[chain[n - 1]].request.target
       /\ pointer # NoWorld =>
            receipts[chain[pointer.revision]].request.target = pointer.digest
  /\ \A o \in Operations : Applied(o) /\ receipts[o].from # None =>
       \E p \in Operations :
         /\ Applied(p)
         /\ receipts[p].after = receipts[o].before
         /\ receipts[p].request.target = receipts[o].from

(* A rollback only ever installs a World that an activation had installed:   *)
(* it is historical and cannot introduce a candidate.                        *)
RollbackIsHistorical ==
  \A o \in Operations :
    Applied(o) /\ receipts[o].request.action = "rollback" =>
      \E p \in Operations :
        /\ Applied(p)
        /\ receipts[p].request.action = "activate"
        /\ receipts[p].request.target = receipts[o].request.target

(* An invalidated World stays invalidated: neither a rollback nor a repeated *)
(* activation, nor a promotion that was under way, brings it back.           *)
InvalidatedStaysDown == \A d \in erased : status[d] # "active"

(* All callers of one operation are told the same thing under the same       *)
(* authorization: a member who was demoted or revoked and let back in is not *)
(* answered from a receipt that belongs to the earlier authorization.        *)
AnswersAgree ==
  \A o \in Operations : \A x, y \in answers[o] : x = y
=============================================================================
