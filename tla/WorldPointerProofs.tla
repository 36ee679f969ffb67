-------------------------- MODULE WorldPointerProofs --------------------------
(***************************************************************************)
(* The active-World transition is right for any number of candidates,      *)
(* operations and actors, and for any number of membership changes and     *)
(* source deletions.                                                       *)
(*                                                                         *)
(* AuditChain is strengthened by what a move needs to know of the state it *)
(* starts from: a pointer that names a World has a revision                *)
(* (PointerCounts), a version exists only because some activation          *)
(* installed it (VersionsHaveReceipts), and what a caller was told is what *)
(* the receipt says (AnswersAreReceipts).                                  *)
(***************************************************************************)
EXTENDS WorldPointer, TLAPS

PointerCounts ==
  pointer # NoWorld => pointer.digest \in Digests /\ pointer.revision > 0

VersionsHaveReceipts ==
  \A d \in Digests : status[d] # "absent" =>
    \E o \in Operations :
      /\ Applied(o)
      /\ receipts[o].request.action = "activate"
      /\ receipts[o].request.target = d

AnswersAreReceipts ==
  \A o \in Operations : \A x \in answers[o] :
    /\ receipts[o] # None
    /\ x = [digest |-> receipts[o].request.target, revision |-> receipts[o].after,
            authorization |-> receipts[o].authorization]

WorldInv ==
  /\ WorldTypeOK
  /\ PointerCounts
  /\ VersionsHaveReceipts
  /\ AnswersAreReceipts
  /\ PointerNamesTheActiveVersion
  /\ AuditChain
  /\ RollbackIsHistorical
  /\ InvalidatedStaysDown

-----------------------------------------------------------------------------
(* A request a caller can make is well formed. *)
LEMMA RequestsAreRequests ==
  ASSUME WorldTypeOK
  PROVE  Requests \subseteq Request
BY DEF WorldTypeOK, Requests, Request

(* A receipt is written once and leaves the others alone. *)
LEMMA ReceiptWritten ==
  ASSUME WorldTypeOK, NEW o \in Operations, NEW q \in Request, NEW after \in Nat,
         NEW outcome \in {"applied", "already_active"},
         WriteReceipt(o, q, after, outcome)
  PROVE  /\ receipts' \in [Operations -> Receipt \union {None}]
         /\ receipts'[o] = [request |-> q, from |-> pointer.digest,
              before |-> pointer.revision, after |-> after,
              authorization |-> members[q.actor].authorization, outcome |-> outcome]
         /\ receipts'[o] # None
         /\ \A p \in Operations : p # o => receipts'[p] = receipts[p]
<1> DEFINE written == [request |-> q, from |-> pointer.digest,
              before |-> pointer.revision, after |-> after,
              authorization |-> members[q.actor].authorization, outcome |-> outcome]
<1>1. q.actor \in Actors /\ members[q.actor].authorization \in Nat
  BY DEF Request, WorldTypeOK, Membership
<1>2. written \in Receipt
  BY <1>1 DEF Receipt, WorldTypeOK, Pointer
<1>3. receipts' = [receipts EXCEPT ![o] = written]
  BY DEF WriteReceipt
<1> QED BY <1>2, <1>3, NoneAssumption DEF WorldTypeOK

(* What a call tells its caller is what the receipt says. *)
LEMMA Told ==
  ASSUME WorldTypeOK, AnswersAreReceipts, NEW o \in Operations, NEW q \in Request,
         NEW revision \in Nat, Tell(o, q.target, revision, members[q.actor].authorization),
         receipts'[o] # None, receipts'[o].request = q, receipts'[o].after = revision,
         receipts'[o].authorization = members[q.actor].authorization,
         \A p \in Operations : receipts[p] # None => receipts'[p] = receipts[p],
         receipts[o] # None => receipts'[o] = receipts[o]
  PROVE  /\ answers' \in [Operations -> SUBSET Answer]
         /\ AnswersAreReceipts'
<1> DEFINE told == [digest |-> q.target, revision |-> revision,
                    authorization |-> members[q.actor].authorization]
<1>1. told \in Answer
  BY DEF Request, WorldTypeOK, Membership, Answer
<1>2. answers' = [answers EXCEPT ![o] = @ \union {told}]
  BY DEF Tell
<1>3. answers'[o] = answers[o] \union {told} /\ \A p \in Operations : p # o => answers'[p] = answers[p]
  BY <1>2 DEF WorldTypeOK
<1>4. answers' \in [Operations -> SUBSET Answer]
  BY <1>1, <1>2 DEF WorldTypeOK
<1>5. ASSUME NEW p \in Operations, NEW x \in answers'[p]
      PROVE  /\ receipts'[p] # None
             /\ x = [digest |-> receipts'[p].request.target, revision |-> receipts'[p].after,
                     authorization |-> receipts'[p].authorization]
  <2>1. CASE x \in answers[p]
    BY <2>1 DEF AnswersAreReceipts
  <2>2. CASE p = o /\ x = told
    BY <2>2
  <2> QED BY <1>3, <1>5, <2>1, <2>2
<1> QED BY <1>4, <1>5 DEF AnswersAreReceipts

LEMMA WorldInitEstablishes == WorldInit => WorldInv
<1> SUFFICES ASSUME WorldInit PROVE WorldInv
  OBVIOUS
<1>1. WorldTypeOK
  BY DEF WorldInit, WorldTypeOK, Membership, Roles, Pointer, NoWorld
<1>2. \A o \in Operations : ~Applied(o)
  BY DEF WorldInit, Applied
<1>3. PointerNamesTheActiveVersion
  BY DEF WorldInit, PointerNamesTheActiveVersion, NoWorld
<1>4. pointer.revision = 0 /\ pointer = NoWorld /\ erased = {}
  BY DEF WorldInit, NoWorld
<1>5. AuditChain
  <2>1. PICK f : f \in [1 .. pointer.revision -> Operations]
    <3>1. [n \in 1 .. pointer.revision |-> None] \in [1 .. pointer.revision -> Operations]
      BY <1>4
    <3> QED BY <3>1
  <2>2. \A n \in 1 .. pointer.revision : FALSE
    BY <1>4
  <2> QED BY <1>2, <1>4, <2>1, <2>2 DEF AuditChain
<1>6. VersionsHaveReceipts /\ AnswersAreReceipts
  BY DEF WorldInit, VersionsHaveReceipts, AnswersAreReceipts
<1>7. RollbackIsHistorical /\ PointerCounts /\ InvalidatedStaysDown
  BY <1>2, <1>4 DEF RollbackIsHistorical, PointerCounts, InvalidatedStaysDown
<1> QED BY <1>1, <1>3, <1>5, <1>6, <1>7 DEF WorldInv

(* A step that applies no receipt leaves the history as it is. *)
LEMMA HistoryStays ==
  ASSUME WorldInv,
         \A o \in Operations : Applied(o)' = Applied(o)
           /\ (Applied(o) => receipts'[o] = receipts[o])
  PROVE  /\ RollbackIsHistorical'
         /\ pointer' = pointer => AuditChain'
         /\ \A o \in Operations : Applied(o)' /\ receipts'[o].from # None =>
              \E p \in Operations :
                /\ Applied(p)'
                /\ receipts'[p].after = receipts'[o].before
                /\ receipts'[p].request.target = receipts'[o].from
<1>1. RollbackIsHistorical'
  BY DEF WorldInv, RollbackIsHistorical
<1>2. \A o \in Operations : Applied(o)' /\ receipts'[o].from # None =>
         \E p \in Operations :
           /\ Applied(p)'
           /\ receipts'[p].after = receipts'[o].before
           /\ receipts'[p].request.target = receipts'[o].from
  BY DEF WorldInv, AuditChain
<1>3. ASSUME pointer' = pointer PROVE AuditChain'
  <2>1. PICK f \in [1 .. pointer.revision -> Operations] :
          /\ \A n \in 1 .. pointer.revision :
               /\ Applied(f[n])
               /\ receipts[f[n]].before = n - 1
               /\ receipts[f[n]].after = n
               /\ n > 1 => receipts[f[n]].from = receipts[f[n - 1]].request.target
          /\ pointer # NoWorld => receipts[f[pointer.revision]].request.target = pointer.digest
    BY DEF WorldInv, AuditChain
  <2>2. pointer.revision \in Nat
    BY DEF WorldInv, WorldTypeOK, Pointer
  <2>3. \A n \in 1 .. pointer.revision :
          Applied(f[n])' /\ receipts'[f[n]] = receipts[f[n]]
    BY <2>1
  <2>4. \A n \in 1 .. pointer.revision : n > 1 => n - 1 \in 1 .. pointer.revision
    BY <2>2
  <2>5. pointer # NoWorld => pointer.revision \in 1 .. pointer.revision
    BY <2>2 DEF WorldInv, PointerCounts
  <2>6. \A n \in 1 .. pointer.revision :
          /\ Applied(f[n])'
          /\ receipts'[f[n]].before = n - 1
          /\ receipts'[f[n]].after = n
          /\ n > 1 => receipts'[f[n]].from = receipts'[f[n - 1]].request.target
    BY <2>1, <2>3, <2>4
  <2>7. pointer # NoWorld => receipts'[f[pointer.revision]].request.target = pointer.digest
    BY <2>1, <2>3, <2>5
  <2> QED BY <1>2, <1>3, <2>6, <2>7 DEF AuditChain
<1> QED BY <1>1, <1>2, <1>3

(* A step that neither moves the pointer nor applies a receipt. *)
LEMMA NothingApplied ==
  ASSUME WorldInv, WorldTypeOK', AnswersAreReceipts', UNCHANGED <<pointer, status, erased>>,
         \A o \in Operations : Applied(o)' = Applied(o)
           /\ (Applied(o) => receipts'[o] = receipts[o])
  PROVE  WorldInv'
<1>1. PointerCounts' /\ InvalidatedStaysDown'
  BY DEF WorldInv, PointerCounts, InvalidatedStaysDown
<1>2. VersionsHaveReceipts'
  BY DEF WorldInv, VersionsHaveReceipts
<1>3. PointerNamesTheActiveVersion'
  BY DEF WorldInv, PointerNamesTheActiveVersion
<1>4. AuditChain' /\ RollbackIsHistorical'
  BY HistoryStays
<1> QED BY <1>1, <1>2, <1>3, <1>4 DEF WorldInv

LEMMA MembershipPreserves ==
  ASSUME WorldInv, NEW a \in Actors, NEW role \in Roles, NEW active \in BOOLEAN,
         ChangeMembership(a, role, active)
  PROVE  WorldInv'
<1>1. UNCHANGED <<pointer, seen, status, erased, receipts, answers>>
  BY DEF ChangeMembership
<1>2. members' \in [Actors -> Membership]
  <2>1. [role |-> role, active |-> active,
         authorization |-> members[a].authorization + 1] \in Membership
    BY DEF WorldInv, WorldTypeOK, Membership
  <2> QED BY <2>1 DEF ChangeMembership, WorldInv, WorldTypeOK
<1>3. WorldTypeOK'
  BY <1>1, <1>2 DEF WorldInv, WorldTypeOK
<1>4. AnswersAreReceipts'
  BY <1>1 DEF WorldInv, AnswersAreReceipts
<1>5. \A o \in Operations : Applied(o)' = Applied(o)
  BY <1>1 DEF Applied
<1> QED BY <1>1, <1>3, <1>4, <1>5, NothingApplied

LEMMA ReplayPreserves ==
  ASSUME WorldInv, NEW o \in Operations, NEW q \in Request, Replay(o, q)
  PROVE  WorldInv'
<1>1. UNCHANGED <<members, pointer, seen, status, erased, receipts>>
  BY DEF Replay
<1>2. receipts[o].after \in Nat
  BY DEF Replay, WorldInv, WorldTypeOK, Receipt
<1>3. answers' \in [Operations -> SUBSET Answer] /\ AnswersAreReceipts'
  BY <1>1, <1>2, Told DEF Replay, WorldInv
<1>4. WorldTypeOK'
  BY <1>1, <1>3 DEF WorldInv, WorldTypeOK
<1>5. \A p \in Operations : Applied(p)' = Applied(p)
  BY <1>1 DEF Applied
<1> QED BY <1>1, <1>3, <1>4, <1>5, NothingApplied

LEMMA AlreadyActivePreserves ==
  ASSUME WorldInv, NEW o \in Operations, NEW q \in Request, AlreadyActive(o, q)
  PROVE  WorldInv'
<1>1. UNCHANGED <<members, pointer, seen, status, erased>> /\ receipts[o] = None
  BY DEF AlreadyActive, FirstCall
<1>2. pointer.revision \in Nat
  BY DEF WorldInv, WorldTypeOK, Pointer
<1>3. /\ receipts' \in [Operations -> Receipt \union {None}]
      /\ receipts'[o] = [request |-> q, from |-> pointer.digest,
           before |-> pointer.revision, after |-> pointer.revision,
           authorization |-> members[q.actor].authorization,
           outcome |-> "already_active"]
      /\ receipts'[o] # None
      /\ \A p \in Operations : p # o => receipts'[p] = receipts[p]
  BY <1>2, ReceiptWritten DEF AlreadyActive, WorldInv
<1>4. answers' \in [Operations -> SUBSET Answer] /\ AnswersAreReceipts'
  BY <1>1, <1>2, <1>3, Told DEF AlreadyActive, WorldInv
<1>5. WorldTypeOK'
  BY <1>1, <1>3, <1>4 DEF WorldInv, WorldTypeOK
<1>6. \A p \in Operations :
        /\ Applied(p)' = Applied(p)
        /\ Applied(p) => receipts'[p] = receipts[p]
  BY <1>1, <1>3 DEF Applied
<1> QED BY <1>1, <1>4, <1>5, <1>6, NothingApplied

-----------------------------------------------------------------------------
LEMMA MovePreserves ==
  ASSUME WorldInv, NEW o \in Operations, NEW q \in Request, Move(o, q)
  PROVE  WorldInv'
<1> DEFINE rev == pointer.revision
<1>1. /\ q.target \in Digests /\ q.target # None
      /\ pointer.digest \in Digests \union {None}
      /\ rev \in Nat
      /\ q.expected = pointer
      /\ receipts[o] = None
      /\ pointer.digest # q.target
      /\ q.target \notin erased
      /\ UNCHANGED <<members, erased>>
  BY NoneAssumption DEF Move, FirstCall, TargetAccepted, SourceDeleted, Request, WorldInv,
     WorldTypeOK, Pointer
<1>2. /\ pointer' = [digest |-> q.target, revision |-> rev + 1]
      /\ pointer'.revision = rev + 1
      /\ pointer'.digest = q.target
      /\ pointer' \in Pointer
  BY <1>1 DEF Move, Pointer
<1>3. /\ receipts' \in [Operations -> Receipt \union {None}]
      /\ receipts'[o] = [request |-> q, from |-> pointer.digest,
           before |-> rev, after |-> rev + 1,
           authorization |-> members[q.actor].authorization, outcome |-> "applied"]
      /\ receipts'[o] # None
      /\ \A p \in Operations : p # o => receipts'[p] = receipts[p]
  <2>1. WriteReceipt(o, q, rev + 1, "applied") /\ rev + 1 \in Nat
    BY <1>1 DEF Move
  <2> QED BY <2>1, ReceiptWritten DEF WorldInv
<1>4. /\ Applied(o)' /\ ~Applied(o)
      /\ receipts'[o].request = q
      /\ receipts'[o].from = pointer.digest
      /\ receipts'[o].before = rev
      /\ receipts'[o].after = rev + 1
  BY <1>1, <1>3 DEF Applied
<1>5. \A p \in Operations : p # o =>
        Applied(p)' = Applied(p) /\ receipts'[p] = receipts[p]
  BY <1>3 DEF Applied
<1>6. answers' \in [Operations -> SUBSET Answer] /\ AnswersAreReceipts'
  BY <1>1, <1>3, Told DEF Move, WorldInv
<1>7. WorldTypeOK'
  <2>1. status' \in [Digests -> {"absent", "active", "superseded"}]
    BY DEF Move, WorldInv, WorldTypeOK
  <2>2. seen' \subseteq Pointer
    BY <1>2 DEF Move, WorldInv, WorldTypeOK
  <2> QED BY <1>1, <1>2, <1>3, <1>6, <2>1, <2>2 DEF WorldInv, WorldTypeOK
<1>8. \A p \in Operations : Applied(p) => p # o
  BY <1>4
<1>9. PointerCounts'
  BY <1>1, <1>2 DEF PointerCounts
<1>10. \A d \in Digests : status'[d] = IF d = q.target THEN "active"
                          ELSE IF status[d] = "active" THEN "superseded" ELSE status[d]
  BY DEF Move
<1>11. VersionsHaveReceipts'
  <2> SUFFICES ASSUME NEW d \in Digests, status'[d] # "absent"
               PROVE  \E p \in Operations :
                        /\ Applied(p)'
                        /\ receipts'[p].request.action = "activate"
                        /\ receipts'[p].request.target = d
    BY DEF VersionsHaveReceipts
  <2>1. CASE d = q.target /\ q.action = "activate"
    BY <1>4, <2>1
  <2>2. CASE d # q.target \/ q.action # "activate"
    <3>1. status[d] # "absent"
      BY <1>10, <2>2 DEF Move, TargetAccepted
    <3>2. PICK p \in Operations :
            /\ Applied(p)
            /\ receipts[p].request.action = "activate"
            /\ receipts[p].request.target = d
      BY <3>1 DEF WorldInv, VersionsHaveReceipts
    <3> QED BY <1>5, <1>8, <3>2
  <2> QED BY <2>1, <2>2
<1>12. PointerNamesTheActiveVersion'
  <2>1. {d \in Digests : status'[d] = "active"} = {q.target}
    BY <1>1, <1>10
  <2> QED BY <1>1, <1>2, <2>1 DEF PointerNamesTheActiveVersion
<1>13. AuditChain'
  <2>1. PICK f \in [1 .. rev -> Operations] :
          /\ \A n \in 1 .. rev :
               /\ Applied(f[n])
               /\ receipts[f[n]].before = n - 1
               /\ receipts[f[n]].after = n
               /\ n > 1 => receipts[f[n]].from = receipts[f[n - 1]].request.target
          /\ pointer # NoWorld => receipts[f[rev]].request.target = pointer.digest
    BY DEF WorldInv, AuditChain
  <2>2. PICK chain \in [1 .. rev + 1 -> Operations] :
          chain[rev + 1] = o /\ \A n \in 1 .. rev : chain[n] = f[n]
    <3>1. [n \in 1 .. rev + 1 |-> IF n = rev + 1 THEN o ELSE f[n]]
            \in [1 .. rev + 1 -> Operations]
      BY <1>1
    <3>2. rev + 1 \in 1 .. rev + 1 /\ \A n \in 1 .. rev : n \in 1 .. rev + 1 /\ n # rev + 1
      BY <1>1
    <3> QED BY <3>1, <3>2
  <2>3. \A n \in 1 .. rev : Applied(f[n])' /\ receipts'[f[n]] = receipts[f[n]]
    BY <1>5, <1>8, <2>1
  <2>4. rev > 0 => receipts[f[rev]].request.target = pointer.digest
    BY <2>1 DEF NoWorld
  <2>5. ASSUME NEW n \in 1 .. rev + 1
        PROVE  /\ Applied(chain[n])'
               /\ receipts'[chain[n]].before = n - 1
               /\ receipts'[chain[n]].after = n
               /\ n > 1 => receipts'[chain[n]].from = receipts'[chain[n - 1]].request.target
    <3>1. CASE n = rev + 1
      <4>1. chain[n] = o
        BY <2>2, <3>1
      <4>2. ASSUME n > 1
            PROVE  receipts'[chain[n - 1]].request.target = pointer.digest
        <5>1. PICK m \in 1 .. rev : m = n - 1 /\ m = rev
          BY <1>1, <3>1, <4>2
        <5>2. chain[m] = f[m] /\ receipts'[f[m]] = receipts[f[m]]
          BY <2>2, <2>3
        <5>3. receipts[f[m]].request.target = pointer.digest
          BY <1>1, <2>4, <3>1, <4>2, <5>1
        <5> QED BY <5>1, <5>2, <5>3
      <4>3. n - 1 = rev
        BY <1>1, <3>1
      <4>4. Applied(chain[n])'
        BY <1>4, <4>1 DEF Applied
      <4>5. receipts'[chain[n]].before = n - 1 /\ receipts'[chain[n]].after = n
        BY <1>4, <3>1, <4>1, <4>3
      <4>6. n > 1 => receipts'[chain[n]].from = receipts'[chain[n - 1]].request.target
        BY <1>4, <4>1, <4>2
      <4> QED BY <4>4, <4>5, <4>6
    <3>2. CASE n # rev + 1
      <4>1. n \in 1 .. rev
        BY <1>1, <3>2
      <4>2. chain[n] = f[n] /\ Applied(f[n])' /\ receipts'[f[n]] = receipts[f[n]]
        BY <2>2, <2>3, <4>1
      <4>3. receipts[f[n]].before = n - 1 /\ receipts[f[n]].after = n
        BY <2>1, <4>1
      <4>4. ASSUME n > 1
            PROVE  receipts'[chain[n]].from = receipts'[chain[n - 1]].request.target
        <5>1. PICK m \in 1 .. rev : m = n - 1
          BY <1>1, <4>1, <4>4
        <5>2. chain[m] = f[m] /\ receipts'[f[m]] = receipts[f[m]]
          BY <2>2, <2>3
        <5>3. receipts[f[n]].from = receipts[f[n - 1]].request.target
          BY <2>1, <4>1, <4>4
        <5> QED BY <4>2, <5>1, <5>2, <5>3
      <4>5. Applied(chain[n])'
        BY <4>2 DEF Applied
      <4>6. receipts'[chain[n]].before = n - 1 /\ receipts'[chain[n]].after = n
        BY <4>2, <4>3
      <4> QED BY <4>4, <4>5, <4>6
    <3> QED BY <3>1, <3>2
  <2>6. receipts'[chain[rev + 1]].request.target = pointer'.digest
    BY <1>2, <1>4, <2>2
  <2>7. ASSUME NEW e \in Operations, Applied(e)', receipts'[e].from # None
        PROVE  \E p \in Operations :
                 /\ Applied(p)'
                 /\ receipts'[p].after = receipts'[e].before
                 /\ receipts'[p].request.target = receipts'[e].from
    <3>1. CASE e = o
      <4>1. rev > 0 /\ rev \in 1 .. rev
        BY <1>1, <1>4, <2>7, <3>1 DEF WorldInv, PointerCounts, NoWorld
      <4>2. PICK n \in 1 .. rev : n = rev
        BY <4>1
      <4>3. Applied(f[n])' /\ receipts'[f[n]] = receipts[f[n]]
        BY <2>3
      <4>4. receipts[f[n]].after = n
        BY <2>1
      <4>5. receipts[f[n]].request.target = pointer.digest
        BY <2>4, <4>1, <4>2
      <4>6. f[n] \in Operations
        BY <2>1
      <4> QED BY <1>4, <3>1, <4>2, <4>3, <4>4, <4>5, <4>6 DEF Applied
    <3>2. CASE e # o
      <4>1. Applied(e) /\ receipts'[e] = receipts[e]
        BY <1>5, <2>7, <3>2
      <4>2. PICK p \in Operations :
              /\ Applied(p)
              /\ receipts[p].after = receipts[e].before
              /\ receipts[p].request.target = receipts[e].from
        BY <2>7, <4>1 DEF WorldInv, AuditChain
      <4> QED BY <1>5, <1>8, <4>1, <4>2
    <3> QED BY <3>1, <3>2
  <2>8. pointer'.revision = rev + 1
    BY <1>2
  <2>9. \E g \in [1 .. pointer'.revision -> Operations] :
          /\ \A n \in 1 .. pointer'.revision :
               /\ Applied(g[n])'
               /\ receipts'[g[n]].before = n - 1
               /\ receipts'[g[n]].after = n
               /\ n > 1 => receipts'[g[n]].from = receipts'[g[n - 1]].request.target
          /\ pointer' # NoWorld =>
               receipts'[g[pointer'.revision]].request.target = pointer'.digest
    <3>1. chain \in [1 .. pointer'.revision -> Operations]
      BY <2>2, <2>8
    <3>2. \A n \in 1 .. pointer'.revision :
            /\ Applied(chain[n])'
            /\ receipts'[chain[n]].before = n - 1
            /\ receipts'[chain[n]].after = n
            /\ n > 1 => receipts'[chain[n]].from = receipts'[chain[n - 1]].request.target
      BY <2>5, <2>8
    <3>3. receipts'[chain[pointer'.revision]].request.target = pointer'.digest
      BY <2>6, <2>8
    <3> QED BY <3>1, <3>2, <3>3
  <2> QED BY <2>7, <2>9 DEF AuditChain, NoWorld
<1>14. RollbackIsHistorical'
  <2> SUFFICES ASSUME NEW p \in Operations, Applied(p)',
                      receipts'[p].request.action = "rollback"
               PROVE  \E r \in Operations :
                        /\ Applied(r)'
                        /\ receipts'[r].request.action = "activate"
                        /\ receipts'[r].request.target = receipts'[p].request.target
    BY DEF RollbackIsHistorical
  <2>1. PICK r \in Operations :
          /\ Applied(r)
          /\ receipts[r].request.action = "activate"
          /\ receipts[r].request.target = receipts'[p].request.target
    <3>1. CASE p # o
      BY <1>5, <3>1 DEF WorldInv, RollbackIsHistorical
    <3>2. CASE p = o
      <4>1. status[q.target] = "superseded"
        BY <1>4, <3>2 DEF Move, TargetAccepted
      <4> QED BY <1>1, <1>4, <3>2, <4>1 DEF WorldInv, VersionsHaveReceipts
    <3> QED BY <3>1, <3>2
  <2> QED BY <1>5, <1>8, <2>1
<1>15. InvalidatedStaysDown'
  BY <1>1, <1>10 DEF WorldInv, WorldTypeOK, InvalidatedStaysDown
<1> QED BY <1>6, <1>7, <1>9, <1>11, <1>12, <1>13, <1>14, <1>15 DEF WorldInv

(* The closure of a deletion keeps the history and shortens nothing but the  *)
(* present chain.                                                            *)
LEMMA InvalidatePreserves ==
  ASSUME WorldInv, NEW D \in SUBSET Digests, InvalidateWorlds(D)
  PROVE  WorldInv'
<1>1. /\ UNCHANGED <<members, receipts, answers>>
      /\ erased' = erased \union D
      /\ pointer' = IF pointer.digest \in D THEN NoWorld ELSE pointer
      /\ \A d \in Digests : status'[d] = IF d \in D /\ status[d] = "active"
                                         THEN "superseded" ELSE status[d]
  BY DEF InvalidateWorlds
<1>2. NoWorld \in Pointer /\ NoWorld.digest = None /\ NoWorld.revision = 0
  BY DEF NoWorld, Pointer
<1>3. WorldTypeOK'
  <2>1. status' \in [Digests -> {"absent", "active", "superseded"}]
    BY DEF InvalidateWorlds, WorldInv, WorldTypeOK
  <2>2. pointer' \in Pointer /\ seen' \subseteq Pointer
    BY <1>1, <1>2 DEF InvalidateWorlds, WorldInv, WorldTypeOK
  <2> QED BY <1>1, <2>1, <2>2 DEF WorldInv, WorldTypeOK
<1>4. PointerCounts' /\ InvalidatedStaysDown'
  BY <1>1 DEF WorldInv, WorldTypeOK, PointerCounts, InvalidatedStaysDown
<1>5. VersionsHaveReceipts' /\ AnswersAreReceipts'
  BY <1>1 DEF WorldInv, VersionsHaveReceipts, AnswersAreReceipts, Applied
<1>6. PointerNamesTheActiveVersion'
  <2>1. CASE pointer.digest \in D
    BY <1>1, <1>2, <2>1 DEF WorldInv, PointerNamesTheActiveVersion
  <2>2. CASE pointer.digest \notin D
    BY <1>1, <2>2, NoneAssumption DEF WorldInv, PointerNamesTheActiveVersion
  <2> QED BY <2>1, <2>2
<1>7. \A o \in Operations : Applied(o)' = Applied(o) /\ receipts'[o] = receipts[o]
  BY <1>1 DEF Applied
<1>8. AuditChain' /\ RollbackIsHistorical'
  <2>1. CASE pointer' = pointer
    BY <1>7, <2>1, HistoryStays
  <2>2. CASE pointer' = NoWorld
    <3>1. pointer'.revision = 0
      BY <1>2, <2>2
    <3>2. PICK f : f \in [1 .. pointer'.revision -> Operations]
      <4>1. [n \in 1 .. pointer'.revision |-> None] \in [1 .. pointer'.revision -> Operations]
        BY <3>1
      <4> QED BY <4>1
    <3>3. \A n \in 1 .. pointer'.revision : FALSE
      BY <3>1
    <3> QED BY <1>7, <2>2, <3>2, <3>3, HistoryStays DEF AuditChain, NoWorld
  <2> QED BY <1>1, <2>1, <2>2
<1> QED BY <1>3, <1>4, <1>5, <1>6, <1>8 DEF WorldInv

-----------------------------------------------------------------------------
LEMMA WorldNextPreserves == WorldInv /\ [WorldNext]_worldVars => WorldInv'
<1> SUFFICES ASSUME WorldInv, [WorldNext]_worldVars PROVE WorldInv'
  OBVIOUS
<1>1. ASSUME NEW a \in Actors, NEW role \in Roles, NEW active \in BOOLEAN,
             ChangeMembership(a, role, active)
      PROVE  WorldInv'
  BY <1>1, MembershipPreserves
<1>2. ASSUME NEW o \in Operations, NEW q \in Requests, Transition(o, q)
      PROVE  WorldInv'
  BY <1>2, RequestsAreRequests, ReplayPreserves, AlreadyActivePreserves, MovePreserves
  DEF Transition, WorldInv
<1>3. ASSUME NEW D \in SUBSET Digests, InvalidateWorlds(D)
      PROVE  WorldInv'
  BY <1>3, InvalidatePreserves
<1>4. CASE UNCHANGED worldVars
  <2>1. UNCHANGED <<members, pointer, seen, status, erased, receipts, answers>>
    BY <1>4 DEF worldVars
  <2>2. WorldTypeOK' /\ AnswersAreReceipts'
    BY <2>1 DEF WorldInv, WorldTypeOK, AnswersAreReceipts
  <2>3. \A o \in Operations : Applied(o)' = Applied(o)
    BY <2>1 DEF Applied
  <2> QED BY <2>1, <2>2, <2>3, NothingApplied
<1> QED BY <1>1, <1>2, <1>3, <1>4 DEF WorldNext

(* The inductive invariant holds throughout.                                 *)
THEOREM WorldInvariance == WorldSpec => []WorldInv
BY WorldInitEstablishes, WorldNextPreserves, PTL DEF WorldSpec

(* Every variable keeps its type.                                            *)
THEOREM WorldTypes == WorldSpec => []WorldTypeOK
BY WorldInvariance, PTL DEF WorldInv

(* Exactly the pointed-at World is active.                                   *)
THEOREM PointerAlwaysNamesTheActiveVersion == WorldSpec => []PointerNamesTheActiveVersion
BY WorldInvariance, PTL DEF WorldInv

(* The receipts are a trail without gaps that ends at the present World.     *)
THEOREM AuditChainUnbroken == WorldSpec => []AuditChain
BY WorldInvariance, PTL DEF WorldInv

(* A World that a source deletion invalidated never becomes active again.    *)
THEOREM InvalidatedWorldsStayDown == WorldSpec => []InvalidatedStaysDown
BY WorldInvariance, PTL DEF WorldInv

(* A rollback never introduces a World.                                      *)
THEOREM RollbacksAreHistorical == WorldSpec => []RollbackIsHistorical
BY WorldInvariance, PTL DEF WorldInv

(* All callers of one operation are told the same.                           *)
THEOREM AnswersAlwaysAgree == WorldSpec => []AnswersAgree
<1>1. WorldInv => AnswersAgree
  BY DEF WorldInv, AnswersAreReceipts, AnswersAgree
<1> QED BY <1>1, WorldInvariance, PTL
=============================================================================
