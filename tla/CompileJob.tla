------------------------------ MODULE CompileJob ------------------------------
(***************************************************************************)
(* One durable compile job, the worker turns that drive it and the         *)
(* customer who answers for it.                                            *)
(*                                                                         *)
(* A turn reads the job, lists the object store, decides from that         *)
(* snapshot and writes through advance_foundation_compile_job, each an     *)
(* await apart from the next.  The scheduler and every open event stream   *)
(* start turns, so several run over one job at once; a turn can be killed  *)
(* anywhere and any of its calls can be lost.                              *)
(*                                                                         *)
(* Only the states the worker moves a job through are kept.  A candidate   *)
(* is named by the set of documents it was compiled from, which determines *)
(* its manifest digest; a compile needs one, so the empty set is no name.  *)
(***************************************************************************)
EXTENDS Integers

CONSTANTS
  Documents,  \* the documents of the job
  Workers,    \* turns that may run at once
  MaxEvents   \* bound: crashes, lost calls, deferrals and answers

ASSUME EventsAssumption == MaxEvents \in Nat

VARIABLES
  job,      \* the row of the job
  stored,   \* stored[d]: what the object store shows of document d
  stalled,  \* whether the documents had their time to arrive and be read
  turn,     \* turn[w]: the turn w is running
  events,   \* events that may still happen
  asked     \* documents that were listed as blocked when the customer answered (history)

vars == <<job, stored, stalled, turn, events, asked>>

Order == [preflight |-> 1, uploading |-> 2, sanitizing |-> 3, reading |-> 4,
          structuring |-> 5, building_world |-> 6, review_required |-> 7, ready |-> 8]
Settled == {"ready", "failed", "cancelled"}
(* From outside, sanitizing cannot be told from uploading: no turn reports it. *)
States == (DOMAIN Order \ {"sanitizing"}) \union {"failed", "cancelled"}

None == {}

Job == [state : States, blocked : SUBSET Documents, answered : BOOLEAN,
        candidate : SUBSET Documents, lapsed : BOOLEAN]
Idle == [phase |-> "idle"]
Turn == [phase : {"read", "listed", "compiling", "built"}, seen : Job,
         ready : SUBSET Documents, waiting : SUBSET Documents,
         blocked : SUBSET Documents, uploading : BOOLEAN, owned : BOOLEAN]

TypeOK ==
  /\ job \in Job
  /\ stored \in [Documents -> {"missing", "uploaded", "read", "review"}]
  /\ stalled \in BOOLEAN
  /\ turn \in [Workers -> {Idle} \union Turn]
  /\ events \in 0 .. MaxEvents
  /\ asked \subseteq Documents

Init ==
  /\ job = [state |-> "preflight", blocked |-> {}, answered |-> FALSE,
            candidate |-> None, lapsed |-> FALSE]
  /\ stored = [d \in Documents |-> "missing"]
  /\ stalled = FALSE
  /\ turn = [w \in Workers |-> Idle]
  /\ events = MaxEvents
  /\ asked = {}

-----------------------------------------------------------------------------
(* Mutant: progress may go back. *)
AcceptsAnyRank(state, candidate) ==
  /\ job.state \notin Settled
  /\ candidate = None \/ job.candidate \in {None, candidate}

(* Mutant: the recorded candidate may be replaced. *)
AcceptsAnyCandidate(state, candidate) ==
  /\ job.state \notin Settled
  /\ state \notin {"failed", "cancelled"} => Order[state] >= Order[job.state]

(* advance_foundation_compile_job: a settled job stays as it is, progress    *)
(* does not go back, and the trigger on the table refuses another candidate  *)
(* than the recorded one.  An equal rank counts as a change.                 *)
Accepts(state, candidate) ==
  /\ job.state \notin Settled
  /\ state \notin {"failed", "cancelled"} => Order[state] >= Order[job.state]
  /\ candidate = None \/ job.candidate \in {None, candidate}

Advance(state, blocked, candidate) ==
  IF Accepts(state, candidate)
  THEN job' = [job EXCEPT !.state = state, !.blocked = blocked, !.lapsed = FALSE,
                          !.candidate = IF candidate = None THEN @ ELSE candidate]
  ELSE UNCHANGED job

Go(w, phase) == turn' = [turn EXCEPT ![w].phase = phase]
End(w) == turn' = [turn EXCEPT ![w] = Idle]

(* A turn over a job that is neither settled nor waiting for a person. *)
ReadJob(w) ==
  /\ turn[w] = Idle
  /\ job.state \notin Settled \union {"review_required"}
  /\ turn' = [turn EXCEPT ![w] =
       [phase |-> "read", seen |-> job, ready |-> {}, waiting |-> {},
        blocked |-> {}, uploading |-> FALSE, owned |-> FALSE]]
  /\ UNCHANGED <<job, stored, stalled, events, asked>>

(* The authority behind the job is gone, or could not be asked ten times. *)
RefuseAuthority(w) ==
  /\ turn[w].phase = "read"
  /\ Advance("failed", job.blocked, None)
  /\ End(w)
  /\ UNCHANGED <<stored, stalled, events, asked>>

(* The authority store did not answer: the turn only moves the job to the   *)
(* back of the queue.                                                        *)
DeferAuthority(w) ==
  /\ events > 0
  /\ turn[w].phase = "read"
  /\ Advance(turn[w].seen.state, job.blocked, None)
  /\ End(w)
  /\ events' = events - 1
  /\ UNCHANGED <<stored, stalled, asked>>

(* A document blocked in the row the turn read stays blocked; one that was   *)
(* sent to an operator, or whose version is ambiguous ("review"), is blocked, *)
(* and after the stall time so is every unread one.                          *)
ListDocuments(w) ==
  LET old == turn[w].seen.blocked
      unread == {d \in Documents \ old : stored[d] \in {"missing", "uploaded"}}
      review == {d \in Documents \ old : stored[d] = "review"}
  IN  /\ turn[w].phase = "read"
      /\ turn' = [turn EXCEPT ![w] = [@ EXCEPT
           !.phase = "listed",
           !.ready = {d \in Documents \ old : stored[d] = "read"},
           !.waiting = IF stalled THEN {} ELSE unread,
           !.blocked = old \union review \union (IF stalled THEN unread ELSE {}),
           !.uploading = ~stalled /\ \E d \in unread : stored[d] = "missing"]]
      /\ UNCHANGED <<job, stored, stalled, events, asked>>

(* Mutant: a turn decides for the customer. *)
AnsweredAlways(w) == TRUE

Answered(w) == turn[w].blocked = {} \/ turn[w].seen.answered

Phase(w) == IF turn[w].uploading THEN "uploading" ELSE "reading"

(* The blocked set goes into the row when the turn found another one than    *)
(* it read.                                                                  *)
NewBlocked(w) ==
  IF turn[w].blocked # turn[w].seen.blocked THEN turn[w].blocked ELSE job.blocked

(* Blockers nobody answered for: recorded, unless the row already had them,  *)
(* and the turn stops.                                                       *)
StopBlocked(w) ==
  /\ turn[w].phase = "listed"
  /\ ~Answered(w)
  /\ \/ Advance(Phase(w), turn[w].blocked, None)
     \/ turn[w].blocked = turn[w].seen.blocked /\ UNCHANGED job
  /\ End(w)
  /\ UNCHANGED <<stored, stalled, events, asked>>

Wait(w) ==
  /\ turn[w].phase = "listed"
  /\ Answered(w)
  /\ turn[w].waiting # {}
  /\ Advance(Phase(w), NewBlocked(w), None)
  /\ End(w)
  /\ UNCHANGED <<stored, stalled, events, asked>>

NothingRead(w) ==
  /\ turn[w].phase = "listed"
  /\ Answered(w)
  /\ turn[w].waiting = {} /\ turn[w].ready = {}
  /\ Advance("failed", turn[w].blocked, None)
  /\ End(w)
  /\ UNCHANGED <<stored, stalled, events, asked>>

MayCompile(w) ==
  /\ turn[w].phase = "listed"
  /\ Answered(w)
  /\ turn[w].waiting = {} /\ turn[w].ready # {}

(* The lease is the move into `structuring', taken if the call changed it. *)
TakeLease(w) ==
  /\ MayCompile(w)
  /\ turn[w].seen.state # "structuring"
  /\ Advance("structuring", NewBlocked(w), None)
  /\ IF Accepts("structuring", None)
       THEN turn' = [turn EXCEPT ![w].phase = "compiling", ![w].owned = TRUE]
       ELSE End(w)
  /\ UNCHANGED <<stored, stalled, events, asked>>

(* A job read in `structuring' is taken over once its lease is old, and left *)
(* alone before.  The age is measured here against the time the turn read, so *)
(* it may pass the limit while the turn is listing.  Taking over writes      *)
(* nothing.                                                                  *)
MeetLease(w) ==
  /\ MayCompile(w)
  /\ turn[w].seen.state = "structuring"
  /\ Go(w, "compiling") \/ (~turn[w].seen.lapsed /\ End(w))
  /\ UNCHANGED <<job, stored, stalled, events, asked>>

(* The compiler's own listing says unread: deferred, at most ten times. *)
DeferCompile(w) ==
  /\ events > 0
  /\ turn[w].phase = "compiling"
  /\ Advance("structuring", job.blocked, None)
  /\ End(w)
  /\ events' = events - 1
  /\ UNCHANGED <<stored, stalled, asked>>

FailCompile(w) ==
  /\ turn[w].phase = "compiling"
  /\ Advance("failed", turn[w].blocked, None)
  /\ End(w)
  /\ UNCHANGED <<stored, stalled, events, asked>>

(* The compile succeeded: two advances follow, and neither answer is looked  *)
(* at.                                                                       *)
RecordCandidate(w) ==
  /\ turn[w].phase = "compiling"
  /\ Advance("building_world", job.blocked, turn[w].ready)
  /\ Go(w, "built")
  /\ UNCHANGED <<stored, stalled, events, asked>>

(* Mutant: only the first call carries the candidate. *)
SettleUnnamed(w, state) ==
  /\ turn[w].phase = "built"
  /\ Advance(state, turn[w].blocked, None)
  /\ End(w)
  /\ UNCHANGED <<stored, stalled, events, asked>>

Settle(w, state) ==
  /\ turn[w].phase = "built"
  /\ Advance(state, turn[w].blocked, turn[w].ready)
  /\ End(w)
  /\ UNCHANGED <<stored, stalled, events, asked>>

(* One of the two calls is lost. *)
LoseCall(w) ==
  /\ events > 0
  /\ \/ turn[w].phase = "compiling" /\ Go(w, "built")
     \/ turn[w].phase = "built" /\ End(w)
  /\ events' = events - 1
  /\ UNCHANGED <<job, stored, stalled, asked>>

Crash(w) ==
  /\ events > 0
  /\ turn[w] # Idle
  /\ End(w)
  /\ events' = events - 1
  /\ UNCHANGED <<job, stored, stalled, asked>>

-----------------------------------------------------------------------------
(* The customer continues without, or removes, what is listed as blocked. *)
Answer ==
  /\ events > 0
  /\ job.state \notin Settled
  /\ job.blocked # {}
  /\ job' = [job EXCEPT !.answered = TRUE, !.lapsed = FALSE]
  /\ asked' = asked \union job.blocked
  /\ events' = events - 1
  /\ UNCHANGED <<stored, stalled, turn>>

(* The customer asks for the blocked documents to be looked at again. *)
AnswerRetry ==
  /\ events > 0
  /\ job.state \notin Settled
  /\ job.blocked # {}
  /\ job' = [job EXCEPT !.answered = FALSE, !.blocked = {}, !.lapsed = FALSE]
  /\ events' = events - 1
  /\ UNCHANGED <<stored, stalled, turn, asked>>

Cancel ==
  /\ job.state \notin Settled
  /\ Advance("cancelled", job.blocked, None)
  /\ UNCHANGED <<stored, stalled, turn, events, asked>>

(* External: uploads arrive, readers finish or hand over to an operator, and *)
(* bindings of other revisions make the current version ambiguous, or settle *)
(* it again.                                                                 *)
DocumentMoves(d) ==
  /\ \/ stored[d] = "missing" /\ stored' = [stored EXCEPT ![d] = "uploaded"]
     \/ stored[d] # "missing" /\ \E s \in {"read", "review"} \ {stored[d]} :
          stored' = [stored EXCEPT ![d] = s]
  /\ UNCHANGED <<job, stalled, turn, events, asked>>

StallTime ==
  /\ ~stalled
  /\ stalled' = TRUE
  /\ UNCHANGED <<job, stored, turn, events, asked>>

LeaseLapses ==
  /\ job.state = "structuring"
  /\ ~job.lapsed
  /\ job' = [job EXCEPT !.lapsed = TRUE]
  /\ UNCHANGED <<stored, stalled, turn, events, asked>>

TurnStep(w) ==
  \/ ReadJob(w) \/ RefuseAuthority(w) \/ DeferAuthority(w) \/ ListDocuments(w)
  \/ StopBlocked(w) \/ Wait(w) \/ NothingRead(w) \/ TakeLease(w) \/ MeetLease(w)
  \/ DeferCompile(w) \/ FailCompile(w) \/ RecordCandidate(w)
  \/ \E state \in {"review_required", "ready"} : Settle(w, state)

Next ==
  \/ \E w \in Workers : TurnStep(w) \/ LoseCall(w) \/ Crash(w)
  \/ Answer \/ AnswerRetry \/ Cancel
  \/ \E d \in Documents : DocumentMoves(d)
  \/ StallTime \/ LeaseLapses

Spec == Init /\ [][Next]_vars

(* The scheduler starts turns for ever and the clock runs. *)
FairSpec ==
  /\ Spec
  /\ \A w \in Workers : WF_vars(TurnStep(w))
  /\ WF_vars(StallTime)
  /\ WF_vars(LeaseLapses)

-----------------------------------------------------------------------------
(* A job only moves forward, and a settled job stays what it is, whatever    *)
(* turn over an older snapshot is still running.                             *)
JobOnlyAdvances ==
  [][/\ job.state \in Settled => UNCHANGED job
     /\ job'.state \notin {"failed", "cancelled"} =>
          Order[job'.state] >= Order[job.state]]_vars

(* The candidate a job names is permanent: of two turns that compiled        *)
(* different documents, the second cannot replace what the first recorded.   *)
CandidateIsPermanent ==
  [][job.candidate # None => job'.candidate = job.candidate]_vars

(* A job that has a package to show names it, although either of the two     *)
(* calls that carry the name may be lost.                                    *)
PackagesAreNamed ==
  job.state \in {"review_required", "ready"} => job.candidate # None

(* As long as the customer answered nothing, no package leaves a document    *)
(* out: neither a stall nor a reader's failure decides for them.             *)
NothingLeftOutUnasked ==
  asked = {} => job.candidate \in {None, Documents}

(* What the worker says of a dead one: a job is not left for ever in the     *)
(* middle of a compile.                                                      *)
MidCompile == job.state \in {"structuring", "building_world"}
DeadWorkersStrandNothing == MidCompile ~> ~MidCompile
=============================================================================
