---------------------------- MODULE ConnectorSync ----------------------------
(***************************************************************************)
(* The sync of one OAuth connection through the durable job queue.         *)
(*                                                                         *)
(* An invocation of the worker route claims a job under a lease, loads the *)
(* provider page its cursor names (the first page observed there is stored *)
(* and replayed), records the removals of the rest of the page, imports a  *)
(* bounded number of files and reports one outcome.  Workers crash, outlive*)
(* their lease while another holds the job, and report late.  Every RPC is *)
(* one transaction on the job row, hence one action.                       *)
(*                                                                         *)
(* A cursor is a provider position and, inside a page that took more than  *)
(* one turn, how many of the stored page's items are behind it.            *)
(***************************************************************************)
EXTENDS Integers, FiniteSets

CONSTANTS
  Files, MaxFeed, Feed,  \* the provider's change feed (ChangeFeed)
  Jobs,         \* job ids, one per enqueued sync
  Workers,      \* concurrent invocations of the worker route
  PageSize,     \* items of a provider page
  ImportLimit,  \* imports of one turn
  MaxAttempts,  \* attempts after which a retry is dead
  MaxFaults     \* bound: crashes, leases outlived and quota waits

ASSUME BoundsAssumption ==
  /\ MaxFeed \in Nat
  /\ Feed \in [1 .. MaxFeed -> [file : Files, kind : {"file", "removal", "unsupported"}]]
  /\ PageSize \in Nat \ {0} /\ ImportLimit \in Nat \ {0}
  /\ MaxAttempts \in Nat \ {0} /\ MaxFaults \in Nat

VARIABLES
  published,   \* length of the feed the provider has published
  settled,     \* changes whose effect is durable
  checkpoint,  \* the connection's completed watermark, 0 before the first
  connection,  \* status of the OAuth connection
  jobs,        \* jobs[j]: row of the job queue
  pages,       \* pages[j][c]: page job j observed at provider position c
  worker,      \* worker[w]: the turn w is running
  faults       \* faults that may still happen

vars == <<published, settled, checkpoint, connection, jobs, pages, worker, faults>>

(* The checkpoint is the abstract feed's covered prefix. *)
Promise == INSTANCE ChangeFeed WITH covered <- checkpoint

Cursors == 0 .. MaxFeed
NoWorker == "nobody"
Absent == [state |-> "absent"]
NoPage == [items |-> {}, cursor |-> -1, complete |-> FALSE]
Idle == [phase |-> "idle"]

Job == [state : {"queued", "leased", "succeeded", "failed", "dead"}, attempt : Nat,
        at : Cursors, offset : 0 .. MaxFeed,
        holder : Workers \union {NoWorker}, unexpired : BOOLEAN]
Page == [items : SUBSET Promise!Positions, cursor : Cursors, complete : BOOLEAN]
Turn == [phase : {"claimed", "working", "flagging"}, job : Jobs, at : Cursors,
         done : 0 .. MaxFeed, from : 0 .. MaxFeed, imported : 0 .. ImportLimit]

TypeOK ==
  /\ published \in 0 .. MaxFeed
  /\ settled \subseteq 1 .. published
  /\ checkpoint \in Cursors
  /\ connection \in {"active", "reauthorization_required", "revoked"}
  /\ jobs \in [Jobs -> {Absent} \union Job]
  /\ pages \in [Jobs -> [Cursors -> {NoPage} \union Page]]
  /\ worker \in [Workers -> {Idle} \union Turn]
  /\ faults \in 0 .. MaxFaults

Init ==
  /\ published \in 0 .. MaxFeed
  /\ settled = {}
  /\ checkpoint = 0
  /\ connection = "active"
  /\ jobs = [j \in Jobs |-> Absent]
  /\ pages = [j \in Jobs |-> [c \in Cursors |-> NoPage]]
  /\ worker = [w \in Workers |-> Idle]
  /\ faults = MaxFaults

-----------------------------------------------------------------------------
Live(j) == jobs[j].state \in {"queued", "leased"}
Running(w, j) == worker[w] # Idle /\ worker[w].job = j

(* What a listing from position c shows when p changes are published: the    *)
(* latest change of each file, a page of them, and whether that is all.      *)
Listed(c, p) ==
  {i \in c + 1 .. p : ~\E k \in i + 1 .. p : Feed[k].file = Feed[i].file}

Rank(i, S) == Cardinality({k \in S : k <= i})

Listing(c, p) ==
  LET items == {i \in Listed(c, p) : Rank(i, Listed(c, p)) <= PageSize}
      complete == items = Listed(c, p)
  IN  [items |-> items, complete |-> complete,
       cursor |-> IF complete THEN p
                  ELSE CHOOSE i \in items : Rank(i, items) = PageSize]

Size(page) == Cardinality(page.items)
Item(page, n) == CHOOSE i \in page.items : Rank(i, page.items) = n

(* What the running turn w works on. *)
TurnPage(w) == pages[worker[w].job][worker[w].at]
Upcoming(w) == Item(TurnPage(w), worker[w].done + 1)

(* Mutant: completion does not compare the holder. *)
HoldsUnchecked(w) == jobs[worker[w].job].state = "leased"

(* The lease as completion sees it, and as the page RPC and the checkpoint   *)
(* trigger do.                                                               *)
Holds(w) == jobs[worker[w].job].state = "leased" /\ jobs[worker[w].job].holder = w
HoldsLive(w) == Holds(w) /\ jobs[worker[w].job].unexpired

-----------------------------------------------------------------------------
(* Mutant: two syncs of one connection may be live. *)
EnqueueAnother(j) ==
  /\ connection = "active"
  /\ jobs[j] = Absent
  /\ jobs' = [jobs EXCEPT ![j] =
       [state |-> "queued", attempt |-> 0, at |-> checkpoint, offset |-> 0,
        holder |-> NoWorker, unexpired |-> FALSE]]
  /\ UNCHANGED <<published, settled, checkpoint, connection, pages, worker, faults>>

(* One sync of a connection at a time, resumed from its checkpoint.  A live  *)
(* job is returned as it is.                                                 *)
Enqueue(j) ==
  /\ connection = "active"
  /\ jobs[j] = Absent
  /\ ~\E k \in Jobs : Live(k)
  /\ jobs' = [jobs EXCEPT ![j] =
       [state |-> "queued", attempt |-> 0, at |-> checkpoint, offset |-> 0,
        holder |-> NoWorker, unexpired |-> FALSE]]
  /\ UNCHANGED <<published, settled, checkpoint, connection, pages, worker, faults>>

(* Mutant: a leased job is never taken back. *)
ClaimableOnce(j) == jobs[j].state = "queued"

Claimable(j) ==
  \/ jobs[j].state = "queued"
  \/ jobs[j].state = "leased" /\ ~jobs[j].unexpired

Claim(w, j) ==
  /\ worker[w] = Idle
  /\ Claimable(j)
  /\ jobs' = [jobs EXCEPT ![j].state = "leased", ![j].holder = w,
                          ![j].unexpired = TRUE, ![j].attempt = @ + 1]
  /\ worker' = [worker EXCEPT ![w] =
       [phase |-> "claimed", job |-> j, at |-> jobs[j].at, done |-> jobs[j].offset,
        from |-> jobs[j].offset, imported |-> 0]]
  /\ UNCHANGED <<published, settled, checkpoint, connection, pages, faults>>

(* complete_foundation_job_batch: only the holder, and for a return to the   *)
(* queue or a success only under an unexpired lease.                         *)
HandBack(w, state, attempt, at, offset) ==
  /\ Holds(w)
  /\ state \in {"queued", "succeeded"} => HoldsLive(w)
  /\ jobs' = [jobs EXCEPT ![worker[w].job] =
       [state |-> state, attempt |-> attempt, at |-> at, offset |-> offset,
        holder |-> NoWorker, unexpired |-> FALSE]]

(* A report that ends the turn. *)
Complete(w, state, attempt, at, offset) ==
  /\ HandBack(w, state, attempt, at, offset)
  /\ worker' = [worker EXCEPT ![w] = Idle]

(* Outcomes that leave the cursor where it was. *)
CompleteInPlace(w, state, attempt) ==
  LET j == worker[w].job IN Complete(w, state, attempt, jobs[j].at, jobs[j].offset)

(* Mutant: the attempt after the last one is still made. *)
AfterRetryOnceMore(j) == IF jobs[j].attempt > MaxAttempts THEN "dead" ELSE "queued"

AfterRetry(j) == IF jobs[j].attempt >= MaxAttempts THEN "dead" ELSE "queued"

FailRevoked(w) ==
  /\ worker[w].phase = "claimed"
  /\ connection = "revoked"
  /\ CompleteInPlace(w, "failed", jobs[worker[w].job].attempt)
  /\ UNCHANGED <<published, settled, checkpoint, connection, pages, faults>>

(* The token refresh fails.  The worker whose attempt dies of it goes on to  *)
(* flag the connection.                                                      *)
FailRefresh(w) ==
  LET j == worker[w].job
  IN  /\ worker[w].phase = "claimed"
      /\ connection # "revoked"
      /\ \/ AfterRetry(j) = "queued" /\ CompleteInPlace(w, "queued", jobs[j].attempt)
         \/ /\ AfterRetry(j) = "dead"
            /\ HandBack(w, "dead", jobs[j].attempt, jobs[j].at, jobs[j].offset)
            /\ worker' = [worker EXCEPT ![w].phase = "flagging"]
      /\ UNCHANGED <<published, settled, checkpoint, connection, pages, faults>>

(* The connection is flagged by a second write, which may fail, and which    *)
(* may come when the next sync is under way already.                         *)
Flag(w) ==
  /\ worker[w].phase = "flagging"
  /\ connection' \in {connection} \union
       (IF connection = "revoked" THEN {} ELSE {"reauthorization_required"})
  /\ worker' = [worker EXCEPT ![w] = Idle]
  /\ UNCHANGED <<published, settled, checkpoint, jobs, pages, faults>>

(* Mutant: every turn reads the provider's page again. *)
LoadPageAnew(w) ==
  /\ worker[w].phase = "claimed"
  /\ HoldsLive(w)
  /\ connection = "active"
  /\ pages' = [pages EXCEPT ![worker[w].job][worker[w].at] =
                 Listing(worker[w].at, published)]
  /\ worker' = [worker EXCEPT ![w].phase = "working"]
  /\ UNCHANGED <<published, settled, checkpoint, connection, jobs, faults>>

(* The page stored at the cursor, or else the one the provider shows now or  *)
(* showed while this call was under way, stored for every later turn.        *)
LoadPage(w) ==
  LET j == worker[w].job
      c == worker[w].at
  IN  /\ worker[w].phase = "claimed"
      /\ HoldsLive(w)
      /\ connection = "active"
      /\ \/ pages[j][c] # NoPage /\ UNCHANGED pages
         \/ /\ pages[j][c] = NoPage
            /\ \E p \in c .. published : pages' = [pages EXCEPT ![j][c] = Listing(c, p)]
      /\ worker' = [worker EXCEPT ![w].phase = "working"]
      /\ UNCHANGED <<published, settled, checkpoint, connection, jobs, faults>>

(* Removals on the rest of the page that are not durable yet; all of them    *)
(* are recorded before anything is imported.                                 *)
PendingRemovals(w) ==
  {i \in TurnPage(w).items : /\ Rank(i, TurnPage(w).items) > worker[w].from
                             /\ Feed[i].kind = "removal"
                             /\ i \notin settled}

BatchDone(w) ==
  worker[w].done = Size(TurnPage(w)) \/ worker[w].imported = ImportLimit

RecordRemoval(w) ==
  /\ worker[w].phase = "working"
  /\ \E i \in PendingRemovals(w) :
       /\ \A k \in PendingRemovals(w) : i <= k
       /\ settled' = settled \union {i}
  /\ UNCHANGED <<published, checkpoint, connection, jobs, pages, worker, faults>>

Importing(w) ==
  /\ worker[w].phase = "working"
  /\ PendingRemovals(w) = {}
  /\ ~BatchDone(w)

(* Mutant: every refused import is skipped for good. *)
PassAnyItem(w) ==
  /\ Importing(w)
  /\ worker' = [worker EXCEPT ![w].done = @ + 1]
  /\ UNCHANGED <<published, settled, checkpoint, connection, jobs, pages, faults>>

(* A removal was recorded above; an unsupported item or a revision the       *)
(* provider has replaced is skipped for good.                                *)
PassItem(w) ==
  /\ Importing(w)
  /\ Feed[Upcoming(w)].kind # "file" \/ Promise!Superseded(Upcoming(w))
  /\ worker' = [worker EXCEPT ![w].done = @ + 1]
  /\ UNCHANGED <<published, settled, checkpoint, connection, jobs, pages, faults>>

Admissible(w) ==
  /\ Importing(w)
  /\ Feed[Upcoming(w)].kind = "file"
  /\ ~Promise!Superseded(Upcoming(w))
  /\ ~Promise!Tombstoned(Feed[Upcoming(w)].file)

AdmitFile(w) ==
  /\ Admissible(w)
  /\ settled' = settled \union {Upcoming(w)}
  /\ worker' = [worker EXCEPT ![w].done = @ + 1, ![w].imported = @ + 1]
  /\ UNCHANGED <<published, checkpoint, connection, jobs, pages, faults>>

(* Anything that fails on the way: configuration, the page, a removal, an    *)
(* import (a file whose tombstone exists among them).                        *)
Retry(w) ==
  LET j == worker[w].job
  IN  /\ \/ worker[w].phase = "claimed"
         \/ worker[w].phase = "working" /\ (PendingRemovals(w) # {} \/ Importing(w))
      /\ CompleteInPlace(w, AfterRetry(j), jobs[j].attempt)
      /\ UNCHANGED <<published, settled, checkpoint, connection, pages, faults>>

(* The intake quota is exhausted: the job waits with its retry budget whole. *)
Defer(w) ==
  /\ faults > 0
  /\ Admissible(w)
  /\ CompleteInPlace(w, "queued", 0)
  /\ faults' = faults - 1
  /\ UNCHANGED <<published, settled, checkpoint, connection, pages>>

Reporting(w) ==
  /\ worker[w].phase = "working"
  /\ PendingRemovals(w) = {}
  /\ BatchDone(w)

WholePage(w) == worker[w].done = Size(TurnPage(w))
FeedComplete(w) == WholePage(w) /\ TurnPage(w).complete

(* Mutant: a consumed page is kept as an offset. *)
ReportOffset(w) ==
  /\ Reporting(w)
  /\ ~FeedComplete(w)
  /\ Complete(w, "queued", 0, worker[w].at, worker[w].done)
  /\ UNCHANGED <<published, settled, checkpoint, connection, pages, faults>>

ReportProgress(w) ==
  /\ Reporting(w)
  /\ ~FeedComplete(w)
  /\ IF WholePage(w) THEN Complete(w, "queued", 0, TurnPage(w).cursor, 0)
     ELSE Complete(w, "queued", 0, worker[w].at, worker[w].done)
  /\ UNCHANGED <<published, settled, checkpoint, connection, pages, faults>>

(* The checkpoint moves in the transaction that completes the job. *)
ReportSuccess(w) ==
  /\ Reporting(w)
  /\ FeedComplete(w)
  /\ connection = "active"
  /\ Complete(w, "succeeded", jobs[worker[w].job].attempt, TurnPage(w).cursor, 0)
  /\ checkpoint' = TurnPage(w).cursor
  /\ UNCHANGED <<published, settled, connection, pages, faults>>

(* The database refuses what w reports: it no longer holds the job, its      *)
(* lease ran out, or the connection went away before the checkpoint.         *)
ReportRefused(w) ==
  /\ worker[w].phase \in {"claimed", "working"}
  /\ ~HoldsLive(w) \/ (Reporting(w) /\ FeedComplete(w) /\ connection # "active")
  /\ worker' = [worker EXCEPT ![w] = Idle]
  /\ UNCHANGED <<published, settled, checkpoint, connection, jobs, pages, faults>>

-----------------------------------------------------------------------------
(* The invocation is killed. *)
Crash(w) ==
  /\ faults > 0
  /\ worker[w] # Idle
  /\ worker' = [worker EXCEPT ![w] = Idle]
  /\ faults' = faults - 1
  /\ UNCHANGED <<published, settled, checkpoint, connection, jobs, pages>>

(* Time passes the lease, of a worker that is gone or of one that is slow. *)
LeaseExpires(j) ==
  /\ jobs[j].state = "leased"
  /\ jobs[j].unexpired
  /\ IF \E w \in Workers : Running(w, j) /\ jobs[j].holder = w
       THEN faults > 0 /\ faults' = faults - 1
       ELSE UNCHANGED faults
  /\ jobs' = [jobs EXCEPT ![j].unexpired = FALSE]
  /\ UNCHANGED <<published, settled, checkpoint, connection, pages, worker>>

Publish ==
  /\ published < MaxFeed
  /\ published' = published + 1
  /\ UNCHANGED <<settled, checkpoint, connection, jobs, pages, worker, faults>>

(* External: the owner revokes the connection, or authorizes it again. *)
ChangeConnection ==
  /\ \/ connection # "revoked" /\ connection' = "revoked"
     \/ connection = "reauthorization_required" /\ connection' = "active"
  /\ UNCHANGED <<published, settled, checkpoint, jobs, pages, worker, faults>>

TurnStep(w) ==
  \/ FailRevoked(w) \/ FailRefresh(w) \/ Flag(w) \/ LoadPage(w) \/ RecordRemoval(w)
  \/ PassItem(w) \/ AdmitFile(w) \/ Retry(w) \/ Defer(w)
  \/ ReportProgress(w) \/ ReportSuccess(w) \/ ReportRefused(w)

ClaimStep == \E w \in Workers, j \in Jobs : Claim(w, j)

Next ==
  \/ \E j \in Jobs : Enqueue(j) \/ LeaseExpires(j)
  \/ ClaimStep
  \/ \E w \in Workers : TurnStep(w) \/ Crash(w)
  \/ Publish
  \/ ChangeConnection

Spec == Init /\ [][Next]_vars

(* The scheduler calls the worker route every minute, a running turn goes on *)
(* unless it crashes, and leases run out.                                    *)
FairSpec ==
  /\ Spec
  /\ WF_vars(ClaimStep)
  /\ \A w \in Workers : WF_vars(TurnStep(w))
  /\ \A j \in Jobs : WF_vars(LeaseExpires(j))

-----------------------------------------------------------------------------
(* The checkpoint never covers a change that still needs work, and never     *)
(* moves back: crashes, stale workers and overlapping leases lose nothing.   *)
KeepsItsPromise == Promise!FeedSpec

(* Nothing behind the cursor of a live job needs work either: the cursor     *)
(* moves only in the call that reports the batch behind it, and an offset    *)
(* counts items of the page they were read from.                             *)
Behind(j) ==
  1 .. jobs[j].at \union
  {i \in pages[j][jobs[j].at].items :
     Rank(i, pages[j][jobs[j].at].items) <= jobs[j].offset}

CursorsLoseNothing ==
  \A j \in Jobs : Live(j) => \A i \in Behind(j) : Promise!NeedsNoWork(i)

(* A stored offset always finds its page, with items left on it: the worker  *)
(* never has to give a job up as SOURCE_CURSOR_STALE or for legacy review.   *)
OffsetsResume ==
  \A j \in Jobs :
    Live(j) /\ jobs[j].offset > 0 => jobs[j].offset < Size(pages[j][jobs[j].at])

(* Two syncs of one connection are never live together, so a checkpoint is   *)
(* never written from a cursor older than it.                                *)
CursorsAheadOfCheckpoint ==
  \A j \in Jobs : Live(j) => jobs[j].at >= checkpoint

(* The cursor of a job never moves back: a worker that outlived its lease    *)
(* cannot report over the progress of the one that took the job from it.     *)
CursorsOnlyAdvance ==
  [][\A j \in Jobs : Live(j) /\ Live(j)' =>
       \/ jobs'[j].at > jobs[j].at
       \/ jobs'[j].at = jobs[j].at /\ jobs'[j].offset >= jobs[j].offset]_vars

(* No claim looks at the attempt budget, and yet a job is claimed no more    *)
(* often without progress than the budget says, but for once for each fault, *)
(* once when the owner revokes the connection under a turn and once for each *)
(* sync that died before it, whose worker may flag the connection late.      *)
Flagging(w) == worker[w] # Idle /\ worker[w].phase = "flagging"

Buried ==
  {k \in Jobs : jobs[k].state = "dead" /\ ~\E w \in Workers : Flagging(w) /\ worker[w].job = k}

Spent == (MaxFaults - faults) + Cardinality(Buried) + (IF connection = "revoked" THEN 1 ELSE 0)

AttemptsArePaidFor ==
  \A j \in Jobs : jobs[j] # Absent => jobs[j].attempt <= MaxAttempts + Spent

(* Every job ends, whatever crashes: its lease runs out and it is claimed    *)
(* again until it succeeds, fails or is dead.                                *)
JobsEnd == \A j \in Jobs : Live(j) ~> ~Live(j)
=============================================================================
