------------------------- MODULE WorldPromotionProofs -------------------------
(***************************************************************************)
(* The composition implements both of its parts, for any number of         *)
(* sessions, sources, candidates and operations; promotions cannot         *)
(* deadlock on source locks; and what a promotion publishes is newest at   *)
(* its commit.  The last rests on CheckedSourcesStay: between the check    *)
(* and the commit the locks held keep every writer of the involved sources *)
(* out.                                                                    *)
(***************************************************************************)
EXTENDS WorldPromotion, SourceBindingProofs, WorldPointerProofs, FiniteSetTheorems,
        WellFoundedInduction

RequestWasSeen(p) ==
  promotion[p] # Closed =>
    /\ promotion[p].request \in Requests
    /\ promotion[p].request.action = "activate"

CandidateIsBound(p) ==
  promotion[p].phase = "locking" =>
    BoundDocuments(promotion[p].request.target) = Documents[promotion[p].request.target]

LocksInOrder(p) ==
  promotion[p].phase = "locking" =>
    \A s \in promotion[p].held, t \in Unlocked(p) : s < t

CheckedSourcesStay(p) ==
  promotion[p].phase = "checked" =>
    \/ receipts[promotion[p].operation] # None
    \/ \A doc \in Documents[promotion[p].request.target] :
         /\ doc[1] \in promotion[p].held
         /\ NewestVersions(doc[1]) = {doc[2]}

SessionInv(p) ==
  RequestWasSeen(p) /\ CandidateIsBound(p) /\ LocksInOrder(p) /\ CheckedSourcesStay(p)

PromotionInv == PromotionTypeOK /\ \A p \in Promotions : SessionInv(p)

-----------------------------------------------------------------------------
(* A session whose transaction is open. *)
LEMMA OpenSession ==
  ASSUME PromotionTypeOK, NEW p \in Promotions, RequestWasSeen(p),
         promotion[p].phase \in {"locking", "checked"} \/ promotion[p] # Closed
  PROVE  /\ promotion[p] # Closed
         /\ promotion[p] \in Open
         /\ promotion[p].request \in Requests
         /\ promotion[p].request.target \in Digests
         /\ promotion[p].operation \in Operations
         /\ promotion[p].held \subseteq Sources
<1>1. promotion[p] # Closed
  BY DEF Closed
<1>2. promotion[p] \in Open
  BY <1>1 DEF PromotionTypeOK
<1>3. promotion[p].request \in Requests
  BY <1>1 DEF RequestWasSeen
<1> QED BY <1>1, <1>2, <1>3 DEF Open, Requests

(* The documents of a candidate name sources and revisions. *)
LEMMA DocumentsNameSources ==
  ASSUME NEW d \in Digests, NEW doc \in Documents[d]
  PROVE  doc[1] \in Sources /\ doc[2] \in Revisions
BY DocumentsAssumption

(* What the bindings do while a promotion is open: none disappears, and a    *)
(* source somebody locked does not move.                                     *)
LEMMA LockedSourcesStay ==
  ASSUME BindingTypeOK, BindingStep, NEW s \in Sources
  PROVE  /\ Bound(s) \subseteq Bound(s)'
         /\ Locked(s) => NewestVersions(s)' = NewestVersions(s)
<1>1. CASE boundAt'[s] = boundAt[s] /\ resolutions'[s] = resolutions[s]
  BY <1>1, NewestUnchanged
<1>2. ASSUME NEW w \in Importers, NEW now \in Instants, RecordNew(w, now),
             ~Locked(import[w].source)
      PROVE  /\ Bound(s) \subseteq Bound(s)'
             /\ Locked(s) => NewestVersions(s)' = NewestVersions(s)
  <2>1. PICK t \in Sources, r \in Revisions :
          t = import[w].source /\ r = import[w].revision
    BY <1>2 DEF RecordNew, BindingTypeOK, Idle, Import
  <2>2. /\ Bound(t)' = Bound(t) \union {r}
        /\ s # t => boundAt'[s] = boundAt[s]
    BY <1>2, <2>1, NewOnTop
  <2>3. resolutions' = resolutions
    BY <1>2 DEF RecordNew
  <2>4. s # t => Bound(s)' = Bound(s) /\ NewestVersions(s)' = NewestVersions(s)
    BY <2>2, <2>3, NewestUnchanged
  <2> QED BY <1>2, <2>1, <2>2, <2>4
<1>3. ASSUME NEW w \in Importers, RecordResolution(w), ~Locked(import[w].source)
      PROVE  /\ Bound(s) \subseteq Bound(s)'
             /\ Locked(s) => NewestVersions(s)' = NewestVersions(s)
  <2>1. boundAt' = boundAt
    BY <1>3 DEF RecordResolution
  <2>2. s # import[w].source => resolutions'[s] = resolutions[s]
    BY <1>3 DEF RecordResolution, BindingTypeOK, Idle, Import
  <2>3. Bound(s)' = Bound(s)
    BY <2>1 DEF Bound
  <2> QED BY <1>3, <2>1, <2>2, <2>3, NewestUnchanged
<1> QED
  BY <1>1, <1>2, <1>3
  DEF BindingStep, ProviderRevises, Tombstone, ToggleConnection, BeginImport,
      ObserveBefore, ObserveAfter, ObserveVersion, AbandonImport, Record

(* What the World part does: a receipt stays, and what was seen stays seen.  *)
LEMMA ReceiptsStay ==
  ASSUME WorldTypeOK, NEW o \in Operations, NEW q, Transition(o, q)
  PROVE  /\ seen \subseteq seen'
         /\ \A p \in Operations : receipts[p] # None => receipts'[p] = receipts[p]
         /\ \A p \in Operations : p # o => receipts'[p] = receipts[p]
         /\ receipts[o] = None => receipts'[o].request = q
<1>1. CASE Replay(o, q)
  BY <1>1 DEF Replay
<1>2. CASE AlreadyActive(o, q)
  BY <1>2 DEF AlreadyActive, FirstCall, WriteReceipt, WorldTypeOK
<1>3. CASE Move(o, q)
  BY <1>3 DEF Move, FirstCall, WriteReceipt, WorldTypeOK
<1> QED BY <1>1, <1>2, <1>3 DEF Transition

(* Once the documents of a candidate are bound, its sources are known.       *)
LEMMA InvolvedSources ==
  ASSUME NEW p \in Promotions,
         BoundDocuments(promotion[p].request.target) =
           Documents[promotion[p].request.target]
  PROVE  Unlocked(p) =
           {doc[1] : doc \in Documents[promotion[p].request.target]} \ promotion[p].held
BY DEF Unlocked, Involved

-----------------------------------------------------------------------------
(* A session that takes no step is not hurt by the others' steps.            *)
LEMMA SessionStays ==
  ASSUME PromotionTypeOK, NEW p \in Promotions, SessionInv(p),
         promotion'[p] = promotion[p], seen \subseteq seen',
         \A o \in Operations : receipts[o] # None => receipts'[o] = receipts[o],
         \A s \in Sources :
           /\ Bound(s) \subseteq Bound(s)'
           /\ s \in Held(p) => NewestVersions(s)' = NewestVersions(s)
  PROVE  SessionInv(p)'
<1> USE DEF SessionInv
<1>1. RequestWasSeen(p)'
  BY DEF RequestWasSeen, Requests
<1>2. ASSUME promotion[p].phase \in {"locking", "checked"}
      PROVE  /\ promotion[p] # Closed
             /\ promotion[p].request.target \in Digests
             /\ promotion[p].operation \in Operations
             /\ Held(p) = promotion[p].held
  BY <1>2, OpenSession DEF Held
<1>3. ASSUME promotion[p].phase = "locking"
      PROVE  BoundDocuments(promotion[p].request.target)' =
               Documents[promotion[p].request.target]
  <2> DEFINE d == promotion[p].request.target
  <2>1. PICK e \in Digests : e = d
    BY <1>2, <1>3
  <2>2. BoundDocuments(e) = Documents[e]
    BY <1>3, <2>1 DEF CandidateIsBound
  <2>3. BoundDocuments(e)' = Documents[e]
    <3>1. \A doc \in Documents[e] : doc[2] \in Bound(doc[1])
      BY <2>2 DEF BoundDocuments
    <3>2. \A doc \in Documents[e] : doc[2] \in Bound(doc[1])'
      BY <3>1, DocumentsNameSources
    <3> QED BY <3>2 DEF BoundDocuments
  <2>4. BoundDocuments(d)' = BoundDocuments(e)'
    BY <2>1 DEF BoundDocuments
  <2> QED BY <2>1, <2>3, <2>4
<1>4. CandidateIsBound(p)'
  BY <1>3 DEF CandidateIsBound
<1>5. LocksInOrder(p)'
  <2> SUFFICES ASSUME promotion[p].phase = "locking"
               PROVE  Unlocked(p)' = Unlocked(p)
    BY DEF LocksInOrder
  <2>1. Unlocked(p) =
          {doc[1] : doc \in Documents[promotion[p].request.target]} \ promotion[p].held
    BY InvolvedSources DEF CandidateIsBound
  <2> QED BY <1>3, <2>1 DEF Unlocked, Involved
<1>6. CheckedSourcesStay(p)'
  <2> SUFFICES ASSUME promotion[p].phase = "checked"
               PROVE  \/ receipts'[promotion[p].operation] # None
                      \/ \A doc \in Documents[promotion[p].request.target] :
                           /\ doc[1] \in promotion[p].held
                           /\ NewestVersions(doc[1])' = {doc[2]}
    BY DEF CheckedSourcesStay
  <2>1. CASE receipts[promotion[p].operation] # None
    BY <1>2, <2>1
  <2>2. CASE \A doc \in Documents[promotion[p].request.target] :
               /\ doc[1] \in promotion[p].held
               /\ NewestVersions(doc[1]) = {doc[2]}
    BY <1>2, <2>2, DocumentsNameSources
  <2> QED BY <2>1, <2>2 DEF CheckedSourcesStay
<1> QED BY <1>1, <1>4, <1>5, <1>6

(* A closed session has nothing to keep. *)
LEMMA ClosedSession ==
  ASSUME NEW p \in Promotions, promotion[p] = Closed
  PROVE  SessionInv(p)
BY DEF SessionInv, RequestWasSeen, CandidateIsBound, LocksInOrder, CheckedSourcesStay, Closed

(* A step of the bindings, the memberships or a rollback, all sessions idle. *)
LEMMA OutsideSteps ==
  ASSUME PromotionInv, UNCHANGED promotion, seen \subseteq seen',
         \A o \in Operations : receipts[o] # None => receipts'[o] = receipts[o],
         \A s \in Sources :
           /\ Bound(s) \subseteq Bound(s)'
           /\ Locked(s) => NewestVersions(s)' = NewestVersions(s)
  PROVE  PromotionInv'
<1>1. \A p \in Promotions : SessionInv(p)'
  BY SessionStays DEF PromotionInv, Locked
<1>2. PromotionTypeOK'
  BY DEF PromotionInv, PromotionTypeOK, Held
<1> QED BY <1>1, <1>2 DEF PromotionInv

(* A step of one session that changes nothing but its own transaction. *)
LEMMA SessionMoves ==
  ASSUME PromotionInv, NEW p \in Promotions, NEW next \in {Closed} \union Open,
         promotion' = [promotion EXCEPT ![p] = next],
         UNCHANGED <<bindingVars, worldVars>>,
         next # Closed => \A q \in Promotions : q # p => next.held \intersect Held(q) = {},
         SessionInv(p)'
  PROVE  PromotionInv'
<1>1. /\ promotion'[p] = next
      /\ \A q \in Promotions : q # p => promotion'[q] = promotion[q]
  BY DEF PromotionInv, PromotionTypeOK
<1>2. UNCHANGED <<boundAt, resolutions, seen, receipts>>
  BY DEF bindingVars, worldVars
<1>3. ASSUME NEW q \in Promotions, q # p
      PROVE  SessionInv(q)'
  <2>1. \A s \in Sources : Bound(s)' = Bound(s) /\ NewestVersions(s)' = NewestVersions(s)
    BY <1>2, NewestUnchanged
  <2> QED BY <1>1, <1>2, <1>3, <2>1, SessionStays DEF PromotionInv
<1>4. PromotionTypeOK'
  <2>1. promotion' \in [Promotions -> {Closed} \union Open]
    BY DEF PromotionInv, PromotionTypeOK
  <2>2. \A q \in Promotions : q # p => Held(q)' = Held(q)
    BY <1>1 DEF Held
  <2>3. Held(p)' = IF next = Closed THEN {} ELSE next.held
    BY <1>1 DEF Held
  <2>4. \A q \in Promotions : q # p => Held(p)' \intersect Held(q)' = {}
    BY <2>2, <2>3
  <2>5. \A q, r \in Promotions : q # r /\ q # p /\ r # p => Held(q)' \intersect Held(r)' = {}
    BY <2>2 DEF PromotionInv, PromotionTypeOK
  <2> QED BY <2>1, <2>4, <2>5 DEF PromotionTypeOK
<1> QED BY <1>3, <1>4 DEF PromotionInv

-----------------------------------------------------------------------------
LEMMA BeginPromotionPreserves ==
  ASSUME PromotionInv, WorldTypeOK, NEW p \in Promotions, NEW o \in Operations,
         NEW q \in Requests, BeginPromotion(p, o, q)
  PROVE  PromotionInv'
<1> DEFINE next == [phase |-> IF receipts[o] = None THEN "locking" ELSE "checked",
                    operation |-> o, request |-> q, held |-> {}]
<1>1. next \in Open
  BY RequestsAreRequests DEF Open
<1>2. /\ promotion' = [promotion EXCEPT ![p] = next]
      /\ promotion'[p] = next
      /\ UNCHANGED <<bindingVars, worldVars>>
      /\ UNCHANGED <<boundAt, seen, receipts>>
      /\ q.action = "activate"
      /\ BoundDocuments(q.target) = Documents[q.target]
  BY DEF BeginPromotion, PromotionInv, PromotionTypeOK, bindingVars, worldVars
<1>3. SessionInv(p)'
  <2>1. RequestWasSeen(p)'
    BY <1>2 DEF RequestWasSeen, Requests
  <2>2. CandidateIsBound(p)'
    BY <1>2 DEF CandidateIsBound, BoundDocuments, Bound
  <2>3. LocksInOrder(p)'
    BY <1>2 DEF LocksInOrder
  <2>4. CheckedSourcesStay(p)'
    BY <1>2 DEF CheckedSourcesStay
  <2> QED BY <2>1, <2>2, <2>3, <2>4 DEF SessionInv
<1>4. \A r \in Promotions : next.held \intersect Held(r) = {}
  OBVIOUS
<1> HIDE DEF next
<1> QED BY <1>1, <1>2, <1>3, <1>4, SessionMoves

LEMMA LockSourcePreserves ==
  ASSUME PromotionInv, NEW p \in Promotions, LockSource(p)
  PROVE  PromotionInv'
<1>1. promotion[p].phase = "locking"
  BY DEF LockSource
<1>2. PICK s \in Unlocked(p) :
        /\ \A t \in Unlocked(p) : s <= t
        /\ ~Locked(s)
        /\ promotion' = [promotion EXCEPT ![p].held = @ \union {s}]
  BY DEF LockSource
<1> DEFINE next == [promotion[p] EXCEPT !.held = @ \union {s}]
<1>3. /\ promotion[p] \in Open
      /\ promotion[p].request.target \in Digests
      /\ promotion[p].held \subseteq Sources
      /\ SessionInv(p)
  BY <1>1, OpenSession DEF PromotionInv, SessionInv
<1>4. Unlocked(p) = {doc[1] : doc \in Documents[promotion[p].request.target]}
                      \ promotion[p].held
  BY <1>1, <1>3, InvolvedSources DEF SessionInv, CandidateIsBound
<1>5. Unlocked(p) \subseteq Sources
  BY <1>3, <1>4, DocumentsNameSources
<1>6. /\ next \in Open
      /\ next.phase = "locking"
      /\ next.request = promotion[p].request
      /\ next.operation = promotion[p].operation
      /\ next.held = promotion[p].held \union {s}
  BY <1>1, <1>3, <1>5 DEF Open
<1>7. /\ promotion' = [promotion EXCEPT ![p] = next]
      /\ promotion'[p] = next
      /\ UNCHANGED <<bindingVars, worldVars>>
      /\ UNCHANGED <<boundAt, seen, receipts>>
  BY <1>2 DEF LockSource, PromotionInv, PromotionTypeOK, bindingVars, worldVars
<1> HIDE DEF next
<1>8. SessionInv(p)'
  <2>1. RequestWasSeen(p)'
    BY <1>1, <1>3, <1>6, <1>7 DEF SessionInv, RequestWasSeen, Requests, Closed
  <2>2. BoundDocuments(promotion[p].request.target)' = Documents[promotion[p].request.target]
    BY <1>1, <1>3, <1>6, <1>7 DEF SessionInv, CandidateIsBound, BoundDocuments, Bound
  <2>3. CandidateIsBound(p)'
    BY <1>6, <1>7, <2>2 DEF CandidateIsBound
  <2>4. Unlocked(p)' = Unlocked(p) \ {s}
    BY <1>4, <1>6, <1>7, <2>2 DEF Unlocked, Involved
  <2>5. LocksInOrder(p)'
    <3>1. \A a \in promotion[p].held, t \in Unlocked(p) : a < t
      BY <1>1, <1>3 DEF SessionInv, LocksInOrder
    <3>2. \A t \in Unlocked(p) \ {s} : s < t
      BY <1>2, <1>5, SourcesAssumption
    <3> QED BY <1>6, <1>7, <2>4, <3>1, <3>2 DEF LocksInOrder
  <2>6. CheckedSourcesStay(p)'
    BY <1>6, <1>7 DEF CheckedSourcesStay
  <2> QED BY <2>1, <2>3, <2>5, <2>6 DEF SessionInv
<1>9. \A r \in Promotions : r # p => next.held \intersect Held(r) = {}
  <2>1. Held(p) = promotion[p].held
    BY <1>1 DEF Held, Closed
  <2> QED BY <1>2, <1>6, <2>1 DEF PromotionInv, PromotionTypeOK, Locked
<1> QED BY <1>6, <1>7, <1>8, <1>9, SessionMoves

LEMMA CheckSourcesPreserves ==
  ASSUME PromotionInv, NEW p \in Promotions, CheckSources(p)
  PROVE  PromotionInv'
<1> DEFINE next == [promotion[p] EXCEPT !.phase = "checked"]
<1>1. promotion[p].phase = "locking"
  BY DEF CheckSources
<1>2. /\ promotion[p] \in Open
      /\ promotion[p].request.target \in Digests
      /\ SessionInv(p)
  BY <1>1, OpenSession DEF PromotionInv, SessionInv
<1>3. /\ next \in Open
      /\ next.phase = "checked"
      /\ next.request = promotion[p].request
      /\ next.operation = promotion[p].operation
      /\ next.held = promotion[p].held
  BY <1>2 DEF Open
<1>4. /\ promotion' = [promotion EXCEPT ![p] = next]
      /\ promotion'[p] = next
      /\ UNCHANGED <<bindingVars, worldVars>>
      /\ UNCHANGED <<boundAt, resolutions, seen, receipts>>
  BY DEF CheckSources, PromotionInv, PromotionTypeOK, bindingVars, worldVars
<1> HIDE DEF next
<1>5. \A doc \in Documents[promotion[p].request.target] :
        doc[1] \in promotion[p].held /\ NewestVersions(doc[1]) = {doc[2]}
  <2>1. BoundDocuments(promotion[p].request.target) = Documents[promotion[p].request.target]
    BY <1>1, <1>2 DEF SessionInv, CandidateIsBound
  <2>2. {doc[1] : doc \in Documents[promotion[p].request.target]} \ promotion[p].held = {}
    BY <2>1, InvolvedSources DEF CheckSources
  <2> QED BY <2>1, <2>2 DEF CheckSources, DocumentsNewest
<1>6. SessionInv(p)'
  <2>1. RequestWasSeen(p)'
    BY <1>1, <1>2, <1>3, <1>4 DEF SessionInv, RequestWasSeen, Requests, Closed
  <2>2. CandidateIsBound(p)' /\ LocksInOrder(p)'
    BY <1>3, <1>4 DEF CandidateIsBound, LocksInOrder
  <2>3. \A s : NewestVersions(s)' = NewestVersions(s)
    BY <1>4, NewestUnchanged
  <2>4. CheckedSourcesStay(p)'
    BY <1>3, <1>4, <1>5, <2>3 DEF CheckedSourcesStay
  <2> QED BY <2>1, <2>2, <2>4 DEF SessionInv
<1>7. \A r \in Promotions : r # p => next.held \intersect Held(r) = {}
  BY <1>1, <1>3 DEF PromotionInv, PromotionTypeOK, Held, Closed
<1> QED BY <1>3, <1>4, <1>6, <1>7, SessionMoves

(* A session that closes, whatever it did to the World. *)
LEMMA ClosePreserves ==
  ASSUME PromotionInv, NEW p \in Promotions,
         promotion' = [promotion EXCEPT ![p] = Closed], UNCHANGED bindingVars,
         seen \subseteq seen',
         \A o \in Operations : receipts[o] # None => receipts'[o] = receipts[o]
  PROVE  PromotionInv'
<1>1. /\ promotion'[p] = Closed
      /\ \A q \in Promotions : q # p => promotion'[q] = promotion[q]
  BY DEF PromotionInv, PromotionTypeOK
<1>2. \A s \in Sources : Bound(s)' = Bound(s) /\ NewestVersions(s)' = NewestVersions(s)
  BY NewestUnchanged DEF bindingVars
<1>3. \A q \in Promotions : q # p => SessionInv(q)'
  BY <1>1, <1>2, SessionStays DEF PromotionInv
<1>4. SessionInv(p)'
  BY <1>1
  DEF SessionInv, RequestWasSeen, CandidateIsBound, LocksInOrder, CheckedSourcesStay, Closed
<1>5. PromotionTypeOK'
  <2>1. promotion' \in [Promotions -> {Closed} \union Open]
    BY DEF PromotionInv, PromotionTypeOK
  <2>2. \A q \in Promotions : Held(q)' \subseteq Held(q)
    BY <1>1 DEF Held
  <2> QED BY <2>1, <2>2 DEF PromotionInv, PromotionTypeOK
<1> QED BY <1>3, <1>4, <1>5 DEF PromotionInv

-----------------------------------------------------------------------------
(* Every step of the composition is a step of the bindings, or none.         *)
LEMMA StepsOfBindings == [Next]_vars => [BindingNext]_bindingVars
<1> SUFFICES ASSUME [Next]_vars PROVE [BindingNext]_bindingVars
  OBVIOUS
<1>1. CASE BindingStep
  BY <1>1 DEF BindingStep, BindingNext
<1>2. CASE UNCHANGED bindingVars
  BY <1>2
<1> QED
  BY <1>1, <1>2
  DEF Next, vars, MembershipStep, DeletionStep, Rollback, PromotionStep, BeginPromotion,
      LockSource, CheckSources, CommitPromotion, AbortPromotion

(* ... and a step of the World pointer, or none.                             *)
LEMMA StepsOfWorld == PromotionInv /\ [Next]_vars => [WorldNext]_worldVars
<1> SUFFICES ASSUME PromotionInv, [Next]_vars PROVE [WorldNext]_worldVars
  OBVIOUS
<1>1. CASE MembershipStep
  BY <1>1 DEF MembershipStep, WorldNext
<1>2. ASSUME NEW o \in Operations, NEW q \in Requests, Rollback(o, q)
      PROVE  [WorldNext]_worldVars
  BY <1>2 DEF Rollback, WorldNext
<1>3. ASSUME NEW p \in Promotions, CommitPromotion(p)
      PROVE  [WorldNext]_worldVars
  <2>1. promotion[p].operation \in Operations /\ promotion[p].request \in Requests
    BY <1>3, OpenSession DEF CommitPromotion, PromotionInv, SessionInv
  <2> QED BY <1>3, <2>1 DEF CommitPromotion, WorldNext
<1>4. CASE DeletionStep
  BY <1>4 DEF DeletionStep, CompiledFrom, WorldNext
<1>5. CASE UNCHANGED worldVars
  BY <1>5
<1> QED
  BY <1>1, <1>2, <1>3, <1>4, <1>5
  DEF Next, vars, BindingStep, PromotionStep, BeginPromotion, LockSource,
      CheckSources, AbortPromotion

LEMMA PromotionNextPreserves ==
  ASSUME PromotionInv, BindingTypeOK, WorldTypeOK, [Next]_vars
  PROVE  PromotionInv'
<1>1. CASE BindingStep
  <2>1. UNCHANGED <<promotion, seen, receipts>>
    BY <1>1 DEF BindingStep, worldVars
  <2> QED BY <1>1, <2>1, LockedSourcesStay, OutsideSteps
<1>2. ASSUME UNCHANGED <<bindingVars, promotion>>, seen \subseteq seen',
             \A o \in Operations : receipts[o] # None => receipts'[o] = receipts[o]
      PROVE  PromotionInv'
  <2>1. \A s \in Sources : Bound(s)' = Bound(s) /\ NewestVersions(s)' = NewestVersions(s)
    BY <1>2, NewestUnchanged DEF bindingVars
  <2> QED BY <1>2, <2>1, OutsideSteps
<1>3. CASE MembershipStep
  BY <1>2, <1>3 DEF MembershipStep, ChangeMembership
<1>4. ASSUME NEW o \in Operations, NEW q \in Requests, Rollback(o, q)
      PROVE  PromotionInv'
  BY <1>2, <1>4, ReceiptsStay DEF Rollback
<1>5. ASSUME NEW p \in Promotions, PromotionStep(p)
      PROVE  PromotionInv'
  <2>1. ASSUME NEW o \in Operations, NEW q \in Requests, BeginPromotion(p, o, q)
        PROVE  PromotionInv'
    BY <2>1, BeginPromotionPreserves
  <2>2. CASE LockSource(p)
    BY <2>2, LockSourcePreserves
  <2>3. CASE CheckSources(p)
    BY <2>3, CheckSourcesPreserves
  <2>4. CASE CommitPromotion(p)
    <3>1. promotion[p].operation \in Operations
      BY <2>4, OpenSession DEF CommitPromotion, PromotionInv, SessionInv
    <3> QED BY <2>4, <3>1, ReceiptsStay, ClosePreserves DEF CommitPromotion
  <2>5. CASE AbortPromotion(p)
    BY <2>5, ClosePreserves DEF AbortPromotion, worldVars
  <2> QED BY <1>5, <2>1, <2>2, <2>3, <2>4, <2>5 DEF PromotionStep
<1>6. CASE DeletionStep
  BY <1>2, <1>6 DEF DeletionStep, InvalidateWorlds
<1>7. CASE UNCHANGED vars
  BY <1>2, <1>7 DEF vars, worldVars
<1> QED BY <1>1, <1>3, <1>4, <1>5, <1>6, <1>7 DEF Next

THEOREM PromotionInvariance ==
  Spec => [](PromotionInv /\ BindingTypeOK /\ WorldTypeOK)
<1> DEFINE Joint == PromotionInv /\ BindingInv /\ WorldInv
<1>1. Init => Joint
  <2> SUFFICES ASSUME Init PROVE Joint
    OBVIOUS
  <2>1. \A p \in Promotions : promotion[p] = Closed
    BY DEF Init
  <2>2. PromotionTypeOK
    BY <2>1 DEF Init, PromotionTypeOK, Held
  <2>3. \A p \in Promotions : SessionInv(p)
    BY <2>1, ClosedSession
  <2> QED BY <2>2, <2>3, InitEstablishes, WorldInitEstablishes DEF Init, PromotionInv
<1>2. Joint /\ [Next]_vars => Joint'
  BY PromotionNextPreserves, StepsOfBindings, StepsOfWorld, BindingNextPreserves,
     WorldNextPreserves
  DEF BindingInv, WorldInv
<1>3. Joint => PromotionInv /\ BindingTypeOK /\ WorldTypeOK
  BY DEF BindingInv, WorldInv
<1> QED BY <1>1, <1>2, <1>3, PTL DEF Spec

(* The locks of a session are its own and every variable keeps its type.     *)
THEOREM PromotionTypes == Spec => []PromotionTypeOK
BY PromotionInvariance, PTL DEF PromotionInv

(* The composition implements the binding writer, so everything proved of    *)
(* SourceBinding holds while promotions run.                                 *)
THEOREM PromotionImplementsBinding == Spec => BindingSpec
<1>1. Init => BindingInit
  BY DEF Init
<1> QED BY <1>1, StepsOfBindings, PTL DEF Spec, BindingSpec

(* What promotions are checked against is the register of latest revisions:  *)
(* it is one to its readers while they run, too.                             *)
THEOREM PromotionImplementsRegister == Spec => BindingsAreARegister
BY PromotionImplementsBinding, BindingsImplementRegister, PTL

(* The composition implements the World pointer, so the audit chain and the  *)
(* rest of WorldPointer hold of current promotions too.                      *)
THEOREM PromotionImplementsWorld == Spec => WorldSpec
<1>1. Init => WorldInit
  BY DEF Init
<1> QED BY <1>1, StepsOfWorld, PromotionInvariance, PTL DEF Spec, WorldSpec

(* A candidate becomes the active World only while every document it was     *)
(* compiled from is its source's one newest binding.                         *)
THEOREM PublishesOnlyNewest == Spec => PublishesNewest
<1>1. PromotionInv /\ BindingTypeOK /\ WorldTypeOK /\ [Next]_vars =>
        [\A o \in Operations :
           receipts[o] = None /\ receipts'[o] # None =>
             \/ receipts'[o].request.action = "rollback"
             \/ \A doc \in Documents[receipts'[o].request.target] :
                  NewestVersions(doc[1]) = {doc[2]}]_vars
  <2> SUFFICES ASSUME PromotionInv, WorldTypeOK, Next, NEW o \in Operations,
                      receipts[o] = None, receipts'[o] # None
               PROVE  \/ receipts'[o].request.action = "rollback"
                      \/ \A doc \in Documents[receipts'[o].request.target] :
                           NewestVersions(doc[1]) = {doc[2]}
    OBVIOUS
  <2>1. ASSUME NEW e \in Operations, NEW q \in Requests, Rollback(e, q)
        PROVE  receipts'[o].request.action = "rollback"
    BY <2>1, ReceiptsStay DEF Rollback
  <2>2. ASSUME NEW p \in Promotions, CommitPromotion(p)
        PROVE  \A doc \in Documents[receipts'[o].request.target] :
                 NewestVersions(doc[1]) = {doc[2]}
    <3>1. promotion[p].operation \in Operations /\ promotion[p].request \in Requests
      BY <2>2, OpenSession DEF CommitPromotion, PromotionInv, SessionInv
    <3>2. promotion[p].operation = o /\ receipts'[o].request = promotion[p].request
      BY <2>2, <3>1, ReceiptsStay DEF CommitPromotion
    <3> QED BY <2>2, <3>2
      DEF CommitPromotion, PromotionInv, SessionInv, CheckedSourcesStay
  <2>3. CASE UNCHANGED receipts
    BY <2>3
  <2> QED
    BY <2>1, <2>2, <2>3
    DEF Next, BindingStep, MembershipStep, ChangeMembership, DeletionStep,
        InvalidateWorlds, PromotionStep,
        BeginPromotion, LockSource, CheckSources, AbortPromotion, worldVars
<1> QED BY <1>1, PromotionInvariance, PTL DEF Spec, PublishesNewest

-----------------------------------------------------------------------------
(* The sources after s in the lock order. *)
After(s) == {t \in Sources : s < t}

(* A session wants one source, after all it holds. *)
LEMMA WantsInOrder ==
  ASSUME PromotionInv, NEW p \in Promotions, NEW s \in Wants(p)
  PROVE  /\ s \in Sources
         /\ \A t \in Wants(p) : t = s
         /\ \A t \in Held(p) : t < s
<1>1. promotion[p].phase = "locking" /\ s \in Unlocked(p) /\ \A t \in Unlocked(p) : s <= t
  BY DEF Wants
<1>2. promotion[p].request.target \in Digests /\ SessionInv(p) /\ Held(p) = promotion[p].held
  BY <1>1, OpenSession DEF PromotionInv, SessionInv, Held
<1>3. Unlocked(p) \subseteq Sources
  <2>1. Unlocked(p) = {doc[1] : doc \in Documents[promotion[p].request.target]}
                        \ promotion[p].held
    BY <1>1, <1>2, InvolvedSources DEF SessionInv, CandidateIsBound
  <2> QED BY <1>2, <2>1, DocumentsNameSources
<1>4. \A t \in Wants(p) : t \in Unlocked(p) /\ t <= s /\ s <= t
  BY <1>1 DEF Wants
<1>5. \A t \in Wants(p) : t = s
  <2>1. \A t \in Unlocked(p) : t \in Nat
    BY <1>3, SourcesAssumption
  <2> QED BY <1>1, <1>4, <2>1
<1>6. \A t \in Held(p) : t < s
  BY <1>1, <1>2 DEF SessionInv, LocksInOrder
<1> QED BY <1>1, <1>3, <1>5, <1>6

(* Among any promotions one waits for none of the others: the one that wants *)
(* the last source cannot be kept waiting, for whoever holds that source     *)
(* would want a later one.                                                   *)
THEOREM NoLockCycles == Spec => []NoLockCycle
<1>1. PromotionInv => NoLockCycle
  <2> SUFFICES ASSUME PromotionInv, NEW W \in SUBSET Promotions, W # {},
                      \A p \in W : \E q \in W \ {p} : Wants(p) \intersect Held(q) # {}
               PROVE  FALSE
    BY DEF NoLockCycle
  <2> DEFINE Wanted == UNION {Wants(p) : p \in W}
             T == {After(s) : s \in Wanted}
  <2>1. \A s \in Wanted : \E p \in W : s \in Wants(p)
    OBVIOUS
  <2>2. Wanted \subseteq Sources
    BY <2>1, WantsInOrder
  <2>3. Wanted # {}
    OBVIOUS
  <2>4. T \subseteq FiniteSubsetsOf(Sources) /\ T # {}
    <3>1. \A s : After(s) \in SUBSET Sources
      BY DEF After
    <3>2. \A s : IsFiniteSet(After(s))
      BY <3>1, SourcesAssumption, FS_Subset
    <3> QED BY <2>3, <3>1, <3>2 DEF FiniteSubsetsOf
  <2>5. IsWellFoundedOn(StrictSubsetOrdering(Sources), FiniteSubsetsOf(Sources))
    BY FS_StrictSubsetOrderingWellFounded
  <2> HIDE DEF T
  <2>6. PICK x \in T : \A y \in T : <<y, x>> \notin StrictSubsetOrdering(Sources)
    BY <2>4, <2>5, WFMin
  <2> USE DEF T
  <2>7. PICK s \in Wanted : x = After(s)
    BY <2>6
  <2>8. PICK p \in W : s \in Wants(p)
    BY <2>1, <2>7
  <2>9. PICK q \in W \ {p} : Wants(p) \intersect Held(q) # {}
    BY <2>8
  <2>10. s \in Held(q)
    BY <2>8, <2>9, WantsInOrder
  <2>11. PICK t : t \in Wants(q)
    BY <2>9
  <2>12. s < t /\ s \in Sources /\ t \in Sources /\ t \in Wanted
    BY <2>8, <2>9, <2>10, <2>11, WantsInOrder
  <2>13. After(t) \subseteq After(s) /\ t \in After(s) /\ t \notin After(t)
    <3>1. s \in Nat /\ t \in Nat /\ \A u \in Sources : u \in Nat
      BY <2>12, SourcesAssumption
    <3>2. \A u \in Sources : t < u => s < u
      BY <2>12, <3>1
    <3>3. ~(t < t)
      BY <3>1
    <3> HIDE DEF T, Wanted
    <3> QED BY <2>12, <3>2, <3>3 DEF After
  <2>14. <<After(t), After(s)>> \in StrictSubsetOrdering(Sources)
    BY <2>13 DEF StrictSubsetOrdering, After
  <2> QED BY <2>6, <2>7, <2>12, <2>14
<1> QED BY <1>1, PromotionInvariance, PTL
=============================================================================
