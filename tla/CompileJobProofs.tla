--------------------------- MODULE CompileJobProofs ---------------------------
(***************************************************************************)
(* What a compile job promises, for any number of documents, turns, lost   *)
(* calls and crashes.                                                      *)
(*                                                                         *)
(* A turn decides from a snapshot, so the inductive invariant is about the *)
(* snapshots: none was taken of a job that had a package (FreshSnapshots), *)
(* every listing accounts for every document (ListingsAreComplete), a      *)
(* compile reads something (CompilesReadSomething), and while nobody       *)
(* answered it reads everything (NoOneAnswered).                           *)
(***************************************************************************)
EXTENDS CompileJob, TLAPS

FreshSnapshots ==
  \A w \in Workers : turn[w] # Idle =>
    turn[w].seen.state \notin Settled \union {"review_required"}

ListingsAreComplete ==
  \A w \in Workers : turn[w].phase = "listed" =>
    turn[w].ready \union turn[w].waiting \union turn[w].blocked = Documents

CompilesReadSomething ==
  \A w \in Workers : turn[w].phase \in {"compiling", "built"} => turn[w].ready # {}

NoOneAnswered ==
  asked = {} =>
    /\ job.answered = FALSE
    /\ \A w \in Workers :
         /\ turn[w] # Idle => turn[w].seen.answered = FALSE
         /\ turn[w].phase \in {"compiling", "built"} => turn[w].ready = Documents

CompileInv ==
  /\ TypeOK
  /\ FreshSnapshots
  /\ ListingsAreComplete
  /\ CompilesReadSomething
  /\ NoOneAnswered
  /\ PackagesAreNamed
  /\ NothingLeftOutUnasked

-----------------------------------------------------------------------------
LEMMA Ranks ==
  \A x \in States \ {"failed", "cancelled"} : Order[x] \in 1 .. 8
BY DEF States, Order

(* One write of a turn, the job's side of it.                                *)
LEMMA AdvanceKeeps ==
  ASSUME TypeOK, PackagesAreNamed, NothingLeftOutUnasked,
         NEW state \in States, NEW blocked \in SUBSET Documents,
         NEW candidate \in SUBSET Documents, Advance(state, blocked, candidate),
         state \in {"review_required", "ready"} => candidate # None,
         asked = {} => candidate \in {None, Documents}, UNCHANGED asked
  PROVE  /\ job' \in Job
         /\ job'.answered = job.answered
         /\ PackagesAreNamed'
         /\ NothingLeftOutUnasked'
<1>1. CASE Accepts(state, candidate)
  <2>1. job' = [job EXCEPT !.state = state, !.blocked = blocked, !.lapsed = FALSE,
                  !.candidate = IF candidate = None THEN @ ELSE candidate]
    BY <1>1 DEF Advance
  <2>2. /\ job' \in Job
        /\ job'.answered = job.answered
        /\ job'.state = state
        /\ job'.candidate = IF candidate = None THEN job.candidate ELSE candidate
    BY <2>1 DEF TypeOK, Job
  <2> QED BY <2>2 DEF PackagesAreNamed, NothingLeftOutUnasked
<1>2. CASE ~Accepts(state, candidate)
  BY <1>2 DEF Advance, TypeOK, PackagesAreNamed, NothingLeftOutUnasked
<1> QED BY <1>1, <1>2

(* One turn moves and the job keeps its promises. *)
LEMMA TurnMoves ==
  ASSUME CompileInv, NEW w \in Workers, NEW next \in {Idle} \union Turn,
         turn' = [turn EXCEPT ![w] = next],
         job' \in Job, job'.answered = job.answered, PackagesAreNamed',
         NothingLeftOutUnasked', UNCHANGED <<stored, stalled, asked>>,
         events' \in 0 .. MaxEvents,
         next # Idle =>
           /\ next.seen.state \notin Settled \union {"review_required"}
           /\ next.phase = "listed" =>
                next.ready \union next.waiting \union next.blocked = Documents
           /\ next.phase \in {"compiling", "built"} => next.ready # {}
           /\ asked = {} =>
                /\ next.seen.answered = FALSE
                /\ next.phase \in {"compiling", "built"} => next.ready = Documents
  PROVE  CompileInv'
<1> USE DEF CompileInv
<1>1. /\ turn'[w] = next
      /\ \A v \in Workers : v # w => turn'[v] = turn[v]
  BY DEF TypeOK
<1>2. TypeOK'
  BY DEF TypeOK
<1>3. FreshSnapshots'
  BY <1>1 DEF FreshSnapshots
<1>4. ListingsAreComplete'
  BY <1>1 DEF ListingsAreComplete, Idle
<1>5. CompilesReadSomething'
  BY <1>1 DEF CompilesReadSomething, Idle
<1>6. NoOneAnswered'
  BY <1>1 DEF NoOneAnswered, Idle
<1> QED BY <1>2, <1>3, <1>4, <1>5, <1>6

(* What is known of a turn that is not idle. *)
LEMMA TurnKnown ==
  ASSUME CompileInv, NEW w \in Workers, turn[w] # Idle
  PROVE  /\ turn[w] \in Turn
         /\ turn[w].seen \in Job
         /\ turn[w].ready \subseteq Documents
         /\ turn[w].waiting \subseteq Documents
         /\ turn[w].blocked \subseteq Documents
         /\ turn[w].seen.state \in States \ (Settled \union {"review_required"})
         /\ job \in Job
<1>1. turn[w] \in Turn
  BY DEF CompileInv, TypeOK
<1> QED BY <1>1 DEF CompileInv, TypeOK, FreshSnapshots, Turn, Job

(* A turn that ends after a write without a candidate. *)
LEMMA TurnEnds ==
  ASSUME CompileInv, NEW w \in Workers, End(w),
         NEW state \in States \ {"review_required", "ready"},
         NEW blocked \in SUBSET Documents, Advance(state, blocked, None),
         UNCHANGED <<stored, stalled, asked>>, events' \in 0 .. MaxEvents
  PROVE  CompileInv'
<1>1. /\ job' \in Job
      /\ job'.answered = job.answered
      /\ PackagesAreNamed'
      /\ NothingLeftOutUnasked'
  BY AdvanceKeeps DEF CompileInv, None
<1> QED BY <1>1, TurnMoves DEF End

(* A turn that writes nothing to the job. *)
LEMMA JobStays ==
  ASSUME CompileInv, UNCHANGED <<job, asked>>
  PROVE  job' \in Job /\ job'.answered = job.answered /\ PackagesAreNamed'
         /\ NothingLeftOutUnasked'
BY DEF CompileInv, TypeOK, PackagesAreNamed, NothingLeftOutUnasked

-----------------------------------------------------------------------------
LEMMA ReadJobPreserves ==
  ASSUME CompileInv, NEW w \in Workers, ReadJob(w)
  PROVE  CompileInv'
<1> DEFINE next == [phase |-> "read", seen |-> job, ready |-> {}, waiting |-> {},
                    blocked |-> {}, uploading |-> FALSE, owned |-> FALSE]
<1>1. next \in Turn
  BY DEF CompileInv, TypeOK, Turn
<1>2. /\ turn' = [turn EXCEPT ![w] = next]
      /\ UNCHANGED <<job, stored, stalled, events, asked>>
      /\ job.state \notin Settled \union {"review_required"}
  BY DEF ReadJob
<1>3. asked = {} => job.answered = FALSE
  BY DEF CompileInv, NoOneAnswered
<1>4. events' \in 0 .. MaxEvents
  BY <1>2 DEF CompileInv, TypeOK
<1>5. next \in {Idle} \union Turn
  BY <1>1
<1>6. /\ next.seen = job
      /\ next.phase = "read"
  OBVIOUS
<1> HIDE DEF next
<1> QED BY <1>2, <1>3, <1>4, <1>5, <1>6, JobStays, TurnMoves

LEMMA ListDocumentsPreserves ==
  ASSUME CompileInv, NEW w \in Workers, ListDocuments(w)
  PROVE  CompileInv'
<1> DEFINE old == turn[w].seen.blocked
           unread == {d \in Documents \ old : stored[d] \in {"missing", "uploaded"}}
           review == {d \in Documents \ old : stored[d] = "review"}
           next == [turn[w] EXCEPT
             !.phase = "listed",
             !.ready = {d \in Documents \ old : stored[d] = "read"},
             !.waiting = IF stalled THEN {} ELSE unread,
             !.blocked = old \union review \union (IF stalled THEN unread ELSE {}),
             !.uploading = ~stalled /\ \E d \in unread : stored[d] = "missing"]
<1>1. turn[w] # Idle /\ turn[w] \in Turn /\ old \subseteq Documents
  BY TurnKnown DEF ListDocuments, Idle, Job
<1>2. /\ turn' = [turn EXCEPT ![w] = next]
      /\ UNCHANGED <<job, stored, stalled, events, asked>>
  BY DEF ListDocuments
<1>3. /\ next \in Turn
      /\ next.phase = "listed"
      /\ next.seen = turn[w].seen
      /\ next.ready = {d \in Documents \ old : stored[d] = "read"}
      /\ next.waiting = IF stalled THEN {} ELSE unread
      /\ next.blocked = old \union review \union (IF stalled THEN unread ELSE {})
  BY <1>1 DEF Turn
<1> HIDE DEF next
<1>4. next.ready \union next.waiting \union next.blocked = Documents
  <2>1. \A d \in Documents : stored[d] \in {"missing", "uploaded", "read", "review"}
    BY DEF CompileInv, TypeOK
  <2>2. next.ready \union next.waiting \union next.blocked \subseteq Documents
    BY <1>1, <1>3
  <2>3. \A d \in Documents : d \in next.ready \union next.waiting \union next.blocked
    BY <1>3, <2>1
  <2> QED BY <2>2, <2>3
<1>5. /\ turn[w].seen.state \notin Settled \union {"review_required"}
      /\ asked = {} => turn[w].seen.answered = FALSE
  BY <1>1 DEF CompileInv, FreshSnapshots, NoOneAnswered
<1>6. events' \in 0 .. MaxEvents
  BY <1>2 DEF CompileInv, TypeOK
<1> QED BY <1>2, <1>3, <1>4, <1>5, <1>6, JobStays, TurnMoves

(* A turn about to compile has listed something readable, and everything if  *)
(* nobody answered.                                                          *)
LEMMA MayCompileKnows ==
  ASSUME CompileInv, NEW w \in Workers, MayCompile(w)
  PROVE  /\ turn[w] # Idle
         /\ turn[w].ready # {}
         /\ asked = {} => turn[w].ready = Documents
<1>1. turn[w].phase = "listed" /\ turn[w] # Idle
  BY DEF MayCompile, Idle
<1>2. turn[w].ready \union turn[w].blocked = Documents
  BY <1>1 DEF MayCompile, CompileInv, ListingsAreComplete
<1>3. asked = {} => turn[w].blocked = {}
  BY <1>1 DEF MayCompile, Answered, CompileInv, NoOneAnswered
<1> QED BY <1>1, <1>2, <1>3 DEF MayCompile

(* A turn that starts to compile, with or without the lease. *)
LEMMA CompilePreserves ==
  ASSUME CompileInv, NEW w \in Workers, MayCompile(w), NEW owned \in BOOLEAN,
         turn' = [turn EXCEPT ![w] = [@ EXCEPT !.phase = "compiling", !.owned = owned]],
         job' \in Job, job'.answered = job.answered, PackagesAreNamed',
         NothingLeftOutUnasked', UNCHANGED <<stored, stalled, events, asked>>
  PROVE  CompileInv'
<1> DEFINE next == [turn[w] EXCEPT !.phase = "compiling", !.owned = owned]
<1>1. /\ turn[w] # Idle /\ turn[w] \in Turn
      /\ turn[w].ready # {}
      /\ asked = {} => turn[w].ready = Documents
  BY MayCompileKnows, TurnKnown
<1>2. /\ next \in Turn
      /\ next.phase = "compiling"
      /\ next.seen = turn[w].seen
      /\ next.ready = turn[w].ready
  BY <1>1 DEF Turn
<1>3. turn' = [turn EXCEPT ![w] = next]
  OBVIOUS
<1> HIDE DEF next
<1>4. /\ turn[w].seen.state \notin Settled \union {"review_required"}
      /\ asked = {} => turn[w].seen.answered = FALSE
  BY <1>1 DEF CompileInv, FreshSnapshots, NoOneAnswered
<1>5. events' \in 0 .. MaxEvents
  BY DEF CompileInv, TypeOK
<1> QED BY <1>1, <1>2, <1>3, <1>4, <1>5, TurnMoves

(* A turn that compiled goes on to the second call. *)
LEMMA BuiltPreserves ==
  ASSUME CompileInv, NEW w \in Workers, turn[w].phase = "compiling", Go(w, "built"),
         job' \in Job, job'.answered = job.answered, PackagesAreNamed',
         NothingLeftOutUnasked', UNCHANGED <<stored, stalled, asked>>,
         events' \in 0 .. MaxEvents
  PROVE  CompileInv'
<1> DEFINE next == [turn[w] EXCEPT !.phase = "built"]
<1>1. turn[w] # Idle /\ turn[w] \in Turn
  BY TurnKnown DEF Idle
<1>2. /\ next \in Turn
      /\ next.phase = "built"
      /\ next.seen = turn[w].seen
      /\ next.ready = turn[w].ready
  BY <1>1 DEF Turn
<1>3. turn' = [turn EXCEPT ![w] = next]
  BY DEF Go
<1> HIDE DEF next
<1>4. /\ turn[w].seen.state \notin Settled \union {"review_required"}
      /\ turn[w].ready # {}
      /\ asked = {} => turn[w].seen.answered = FALSE /\ turn[w].ready = Documents
  BY <1>1 DEF CompileInv, FreshSnapshots, CompilesReadSomething, NoOneAnswered
<1> QED BY <1>2, <1>3, <1>4, TurnMoves

-----------------------------------------------------------------------------
LEMMA TurnStepPreserves ==
  ASSUME CompileInv, NEW w \in Workers, TurnStep(w)
  PROVE  CompileInv'
<1>1. CASE ReadJob(w)
  BY <1>1, ReadJobPreserves
<1>2. CASE ListDocuments(w)
  BY <1>2, ListDocumentsPreserves
<1>3. events \in 0 .. MaxEvents /\ (events > 0 => events - 1 \in 0 .. MaxEvents)
  BY EventsAssumption DEF CompileInv, TypeOK
<1>4. job.blocked \in SUBSET Documents
  BY DEF CompileInv, TypeOK, Job
<1>5. /\ "failed" \in States /\ "uploading" \in States /\ "reading" \in States
      /\ "structuring" \in States /\ "building_world" \in States
      /\ "review_required" \in States /\ "ready" \in States /\ "cancelled" \in States
  BY DEF States, Order
<1>6. CASE RefuseAuthority(w)
  BY <1>3, <1>4, <1>5, <1>6, TurnEnds DEF RefuseAuthority
<1>7. CASE DeferAuthority(w)
  <2>1. turn[w].seen.state \in States \ {"review_required", "ready"}
    BY <1>7, TurnKnown DEF DeferAuthority, Idle, Settled
  <2> QED BY <1>3, <1>4, <1>7, <2>1, TurnEnds DEF DeferAuthority
<1>8. CASE StopBlocked(w)
  <2>1. Phase(w) \in States \ {"review_required", "ready"}
    BY <1>5 DEF Phase
  <2>2. turn[w].blocked \in SUBSET Documents
    BY <1>8, TurnKnown DEF StopBlocked, Idle
  <2>3. CASE UNCHANGED job
    BY <1>3, <1>8, <2>3, JobStays, TurnMoves DEF StopBlocked, End
  <2> QED BY <1>3, <1>8, <2>1, <2>2, <2>3, TurnEnds DEF StopBlocked
<1>9. CASE Wait(w)
  <2>1. Phase(w) \in States \ {"review_required", "ready"}
    BY <1>5 DEF Phase
  <2>2. NewBlocked(w) \in SUBSET Documents
    BY <1>4, <1>9, TurnKnown DEF Wait, NewBlocked, Idle
  <2> QED BY <1>3, <1>9, <2>1, <2>2, TurnEnds DEF Wait
<1>10. CASE NothingRead(w)
  <2>1. turn[w].blocked \in SUBSET Documents
    BY <1>10, TurnKnown DEF NothingRead, Idle
  <2> QED BY <1>3, <1>5, <1>10, <2>1, TurnEnds DEF NothingRead
<1>11. CASE TakeLease(w)
  <2>1. NewBlocked(w) \in SUBSET Documents
    BY <1>4, <1>11, MayCompileKnows, TurnKnown DEF TakeLease, NewBlocked
  <2>2. CASE ~Accepts("structuring", None)
    BY <1>3, <1>5, <1>11, <2>1, <2>2, TurnEnds DEF TakeLease
  <2>3. CASE Accepts("structuring", None)
    <3>1. /\ job' \in Job
          /\ job'.answered = job.answered
          /\ PackagesAreNamed'
          /\ NothingLeftOutUnasked'
      BY <1>5, <1>11, <2>1, AdvanceKeeps DEF TakeLease, CompileInv, None
    <3>2. turn' = [turn EXCEPT ![w] = [@ EXCEPT !.phase = "compiling", !.owned = TRUE]]
      BY <1>11, <2>3 DEF TakeLease
    <3> QED BY <1>11, <3>1, <3>2, CompilePreserves DEF TakeLease
  <2> QED BY <2>2, <2>3
<1>12. CASE MeetLease(w)
  <2>1. /\ job' \in Job
        /\ job'.answered = job.answered
        /\ PackagesAreNamed'
        /\ NothingLeftOutUnasked'
    BY <1>12, JobStays DEF MeetLease
  <2>2. CASE Go(w, "compiling")
    <3>1. turn[w] \in Turn
      BY <1>12, MayCompileKnows, TurnKnown DEF MeetLease
    <3>2. [turn[w] EXCEPT !.phase = "compiling"] =
            [turn[w] EXCEPT !.phase = "compiling", !.owned = turn[w].owned]
          /\ turn[w].owned \in BOOLEAN
      BY <3>1 DEF Turn
    <3>3. turn' = [turn EXCEPT ![w] =
                     [@ EXCEPT !.phase = "compiling", !.owned = turn[w].owned]]
      BY <2>2, <3>2 DEF Go
    <3> QED BY <1>12, <2>1, <3>2, <3>3, CompilePreserves DEF MeetLease
  <2>3. CASE End(w)
    BY <1>3, <1>12, <2>1, <2>3, TurnMoves DEF MeetLease, End
  <2> QED BY <1>12, <2>2, <2>3 DEF MeetLease
<1>13. CASE DeferCompile(w)
  BY <1>3, <1>4, <1>5, <1>13, TurnEnds DEF DeferCompile
<1>14. CASE FailCompile(w)
  <2>1. turn[w].blocked \in SUBSET Documents
    BY <1>14, TurnKnown DEF FailCompile, Idle
  <2> QED BY <1>3, <1>5, <1>14, <2>1, TurnEnds DEF FailCompile
<1>15. ASSUME turn[w].phase \in {"compiling", "built"}
       PROVE  /\ turn[w].ready \in SUBSET Documents
              /\ turn[w].blocked \in SUBSET Documents
              /\ turn[w].ready # None
              /\ asked = {} => turn[w].ready \in {None, Documents}
  <2>1. turn[w] # Idle
    BY <1>15 DEF Idle
  <2>2. turn[w].ready # {} /\ (asked = {} => turn[w].ready = Documents)
    BY <1>15 DEF CompileInv, CompilesReadSomething, NoOneAnswered
  <2> QED BY <2>1, <2>2, TurnKnown DEF None
<1>16. CASE RecordCandidate(w)
  <2>1. /\ job' \in Job
        /\ job'.answered = job.answered
        /\ PackagesAreNamed'
        /\ NothingLeftOutUnasked'
    BY <1>4, <1>5, <1>15, <1>16, AdvanceKeeps DEF RecordCandidate, CompileInv
  <2> QED BY <1>3, <1>16, <2>1, BuiltPreserves DEF RecordCandidate
<1>17. ASSUME NEW state \in {"review_required", "ready"}, Settle(w, state)
       PROVE  CompileInv'
  <2>1. /\ job' \in Job
        /\ job'.answered = job.answered
        /\ PackagesAreNamed'
        /\ NothingLeftOutUnasked'
    BY <1>5, <1>15, <1>17, AdvanceKeeps DEF Settle, CompileInv
  <2> QED BY <1>3, <1>17, <2>1, TurnMoves DEF Settle, End
<1> QED
  BY <1>1, <1>2, <1>6, <1>7, <1>8, <1>9, <1>10, <1>11, <1>12, <1>13, <1>14, <1>16, <1>17
  DEF TurnStep

(* The customer and the world write the row, the store or the clock, but no  *)
(* state and no candidate.                                                   *)
LEMMA RowPreserves ==
  ASSUME CompileInv, UNCHANGED turn, TypeOK',
         job'.state = job.state, job'.candidate = job.candidate,
         asked \subseteq asked', asked' = {} => job'.answered = FALSE
  PROVE  CompileInv'
BY DEF CompileInv, FreshSnapshots, ListingsAreComplete, CompilesReadSomething,
       NoOneAnswered, PackagesAreNamed, NothingLeftOutUnasked

LEMMA NextPreserves == CompileInv /\ [Next]_vars => CompileInv'
<1> SUFFICES ASSUME CompileInv, [Next]_vars PROVE CompileInv'
  OBVIOUS
<1>1. ASSUME NEW w \in Workers, TurnStep(w) PROVE CompileInv'
  BY <1>1, TurnStepPreserves
<1>2. events \in 0 .. MaxEvents /\ (events > 0 => events - 1 \in 0 .. MaxEvents)
  BY EventsAssumption DEF CompileInv, TypeOK
<1>3. asked = {} => job.answered = FALSE
  BY DEF CompileInv, NoOneAnswered
<1>4. ASSUME NEW w \in Workers, LoseCall(w) PROVE CompileInv'
  <2>1. CASE turn[w].phase = "compiling" /\ Go(w, "built")
    BY <1>2, <1>4, <2>1, JobStays, BuiltPreserves DEF LoseCall
  <2>2. CASE End(w)
    BY <1>2, <1>4, <2>2, JobStays, TurnMoves DEF LoseCall, End
  <2> QED BY <1>4, <2>1, <2>2 DEF LoseCall
<1>5. ASSUME NEW w \in Workers, Crash(w) PROVE CompileInv'
  BY <1>2, <1>5, JobStays, TurnMoves DEF Crash, End
<1>6. CASE Answer
  <2>1. TypeOK'
    BY <1>2, <1>6 DEF Answer, CompileInv, TypeOK, Job
  <2>2. job'.state = job.state /\ job'.candidate = job.candidate
    BY <1>6 DEF Answer, CompileInv, TypeOK, Job
  <2>3. asked \subseteq asked' /\ asked' # {}
    BY <1>6 DEF Answer
  <2> QED BY <1>6, <2>1, <2>2, <2>3, RowPreserves DEF Answer
<1>7. CASE AnswerRetry
  <2>1. TypeOK'
    BY <1>2, <1>7 DEF AnswerRetry, CompileInv, TypeOK, Job
  <2>2. /\ job'.state = job.state
        /\ job'.candidate = job.candidate
        /\ job'.answered = FALSE
    BY <1>7 DEF AnswerRetry, CompileInv, TypeOK, Job
  <2> QED BY <1>7, <2>1, <2>2, RowPreserves DEF AnswerRetry
<1>8. CASE Cancel
  <2>1. "cancelled" \in States /\ job.blocked \in SUBSET Documents
    BY DEF States, CompileInv, TypeOK, Job
  <2>2. /\ job' \in Job
        /\ job'.answered = job.answered
        /\ PackagesAreNamed'
        /\ NothingLeftOutUnasked'
    BY <1>8, <2>1, AdvanceKeeps DEF Cancel, CompileInv, None
  <2>3. TypeOK'
    BY <1>8, <2>2 DEF Cancel, CompileInv, TypeOK
  <2> QED BY <1>8, <2>2, <2>3
    DEF Cancel, CompileInv, FreshSnapshots, ListingsAreComplete, CompilesReadSomething,
        NoOneAnswered
<1>9. ASSUME NEW d \in Documents, DocumentMoves(d) PROVE CompileInv'
  <2>1. TypeOK'
    BY <1>9 DEF DocumentMoves, CompileInv, TypeOK
  <2> QED BY <1>3, <1>9, <2>1, RowPreserves DEF DocumentMoves
<1>10. CASE StallTime
  <2>1. TypeOK'
    BY <1>10 DEF StallTime, CompileInv, TypeOK
  <2> QED BY <1>3, <1>10, <2>1, RowPreserves DEF StallTime
<1>11. CASE LeaseLapses
  <2>1. TypeOK' /\ job'.state = job.state /\ job'.candidate = job.candidate
        /\ job'.answered = job.answered
    BY <1>11 DEF LeaseLapses, CompileInv, TypeOK, Job
  <2> QED BY <1>3, <1>11, <2>1, RowPreserves DEF LeaseLapses
<1>12. CASE UNCHANGED vars
  <2>1. TypeOK'
    BY <1>12 DEF vars, CompileInv, TypeOK
  <2> QED BY <1>3, <1>12, <2>1, RowPreserves DEF vars
<1> QED
  BY <1>1, <1>4, <1>5, <1>6, <1>7, <1>8, <1>9, <1>10, <1>11, <1>12 DEF Next

LEMMA InitialJob == Init => CompileInv
<1> SUFFICES ASSUME Init PROVE CompileInv
  OBVIOUS
<1>1. "preflight" \in States
  BY DEF States, Order
<1>2. TypeOK
  <2>1. job \in Job
    BY <1>1 DEF Init, Job, None
  <2>2. /\ stored \in [Documents -> {"missing", "uploaded", "read", "review"}]
        /\ stalled \in BOOLEAN
        /\ turn \in [Workers -> {Idle} \union Turn]
        /\ asked \subseteq Documents
    BY DEF Init
  <2>3. events \in 0 .. MaxEvents
    BY EventsAssumption DEF Init
  <2> QED BY <2>1, <2>2, <2>3 DEF TypeOK
<1>3. \A w \in Workers : turn[w] = Idle
  BY DEF Init
<1>4. job.state = "preflight" /\ job.answered = FALSE /\ job.candidate = None
  BY DEF Init
<1> QED BY <1>2, <1>3, <1>4
  DEF CompileInv, FreshSnapshots, ListingsAreComplete, CompilesReadSomething,
      NoOneAnswered, PackagesAreNamed, NothingLeftOutUnasked, Idle

-----------------------------------------------------------------------------
(* The inductive invariant holds throughout.                                 *)
THEOREM CompileInvariance == Spec => []CompileInv
BY InitialJob, NextPreserves, PTL DEF Spec

(* Every variable keeps its type.                                            *)
THEOREM CompileTypes == Spec => []TypeOK
BY CompileInvariance, PTL DEF CompileInv

(* A job with a package to show names it.                                    *)
THEOREM PackagesAreAlwaysNamed == Spec => []PackagesAreNamed
BY CompileInvariance, PTL DEF CompileInv

(* Nothing is left out of a package before the customer answered.            *)
THEOREM NothingIsLeftOutUnasked == Spec => []NothingLeftOutUnasked
BY CompileInvariance, PTL DEF CompileInv

(* One write: forward only, and the recorded candidate stays. *)
LEMMA AdvanceForward ==
  ASSUME TypeOK, NEW state \in States, NEW blocked, NEW candidate,
         Advance(state, blocked, candidate)
  PROVE  /\ job.state \in Settled => UNCHANGED job
         /\ job'.state \notin {"failed", "cancelled"} => Order[job'.state] >= Order[job.state]
         /\ job.candidate # None => job'.candidate = job.candidate
<1>0. job.state \in States
  BY DEF TypeOK, Job
<1>1. CASE Accepts(state, candidate)
  <2>1. job' = [job EXCEPT !.state = state, !.blocked = blocked, !.lapsed = FALSE,
                  !.candidate = IF candidate = None THEN @ ELSE candidate]
    BY <1>1 DEF Advance
  <2>2. job'.state = state /\ job'.candidate = IF candidate = None THEN job.candidate ELSE candidate
    BY <2>1 DEF TypeOK, Job
  <2> QED BY <1>1, <2>2 DEF Accepts
<1>2. CASE UNCHANGED job
  BY <1>0, <1>2, Ranks
<1> QED BY <1>1, <1>2 DEF Advance

Forward ==
  /\ job.state \in Settled => UNCHANGED job
  /\ job'.state \notin {"failed", "cancelled"} => Order[job'.state] >= Order[job.state]
  /\ job.candidate # None => job'.candidate = job.candidate

(* No step takes a job back or replaces its candidate. *)
LEMMA StepsForward ==
  ASSUME CompileInv, [Next]_vars
  PROVE  Forward
<1>0. job \in Job /\ job.state \in States
  BY DEF CompileInv, TypeOK, Job
<1>1. ASSUME NEW state \in States, NEW blocked, NEW candidate,
             Advance(state, blocked, candidate)
      PROVE  Forward
  BY <1>1, AdvanceForward DEF CompileInv, Forward
<1>2. ASSUME job'.state = job.state, job'.candidate = job.candidate,
             job.state \in Settled => UNCHANGED job
      PROVE  Forward
  BY <1>0, <1>2, Ranks DEF Forward
<1>3. ASSUME UNCHANGED job PROVE Forward
  BY <1>2, <1>3
<1>4. CASE Answer \/ AnswerRetry \/ LeaseLapses
  BY <1>0, <1>2, <1>4 DEF Answer, AnswerRetry, LeaseLapses, Job, Settled
<1>5. /\ "failed" \in States /\ "uploading" \in States /\ "reading" \in States
      /\ "structuring" \in States /\ "building_world" \in States
      /\ "review_required" \in States /\ "ready" \in States /\ "cancelled" \in States
  BY DEF States, Order
<1>6. CASE Cancel
  <2>1. Advance("cancelled", job.blocked, None)
    BY <1>6 DEF Cancel
  <2> QED BY <1>1, <1>5, <2>1
<1>7. ASSUME NEW w \in Workers, TurnStep(w) PROVE Forward
  <2>1. CASE DeferAuthority(w)
    <3>1. turn[w].seen.state \in States
      BY <2>1, TurnKnown DEF DeferAuthority, Idle
    <3> QED BY <1>1, <2>1, <3>1 DEF DeferAuthority
  <2>2. CASE StopBlocked(w) \/ Wait(w)
    BY <1>1, <1>3, <1>5, <2>2 DEF StopBlocked, Wait, Phase
  <2>3. CASE RefuseAuthority(w) \/ NothingRead(w) \/ FailCompile(w)
    BY <1>1, <1>5, <2>3 DEF RefuseAuthority, NothingRead, FailCompile
  <2>4. CASE TakeLease(w) \/ DeferCompile(w)
    BY <1>1, <1>5, <2>4 DEF TakeLease, DeferCompile
  <2>5. CASE RecordCandidate(w)
    BY <1>1, <1>5, <2>5 DEF RecordCandidate
  <2>6. ASSUME NEW state \in {"review_required", "ready"}, Settle(w, state) PROVE Forward
    BY <1>1, <1>5, <2>6 DEF Settle
  <2>7. CASE ReadJob(w) \/ ListDocuments(w) \/ MeetLease(w)
    BY <1>3, <2>7 DEF ReadJob, ListDocuments, MeetLease
  <2> QED BY <1>7, <2>1, <2>2, <2>3, <2>4, <2>5, <2>6, <2>7 DEF TurnStep
<1>8. CASE UNCHANGED vars \/ StallTime \/ \E d \in Documents : DocumentMoves(d)
  <2>1. UNCHANGED job
    BY <1>8 DEF vars, StallTime, DocumentMoves
  <2> QED BY <1>3, <2>1
<1>9. ASSUME NEW w \in Workers, LoseCall(w) \/ Crash(w) PROVE Forward
  <2>1. UNCHANGED job
    BY <1>9 DEF LoseCall, Crash
  <2> QED BY <1>3, <2>1
<1> QED BY <1>4, <1>6, <1>7, <1>8, <1>9 DEF Next

(* A job only moves forward and a settled one stays what it is.              *)
THEOREM JobAlwaysAdvances == Spec => JobOnlyAdvances
<1>1. CompileInv /\ [Next]_vars =>
        [/\ job.state \in Settled => UNCHANGED job
         /\ job'.state \notin {"failed", "cancelled"} =>
              Order[job'.state] >= Order[job.state]]_vars
  BY StepsForward DEF Forward
<1> QED BY <1>1, CompileInvariance, PTL DEF Spec, JobOnlyAdvances

(* The candidate a job names is permanent.                                   *)
THEOREM CandidatesArePermanent == Spec => CandidateIsPermanent
<1>1. CompileInv /\ [Next]_vars =>
        [job.candidate # None => job'.candidate = job.candidate]_vars
  BY StepsForward DEF Forward
<1> QED BY <1>1, CompileInvariance, PTL DEF Spec, CandidateIsPermanent
=============================================================================
