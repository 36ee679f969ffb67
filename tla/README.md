# Tavonel Foundation: a TLA+ development

This directory specifies the protocols of the Tavonel SaaS foundation: a service that
connects a customer's file storage, imports its documents, compiles them into a manifest called
a *World*, and serves exactly one active World per collection. Almost every protocol of it lives
in PostgreSQL functions and triggers (`src/supabase/migrations/`), driven by stateless request
handlers and workers in TypeScript (`src/nextjs/lib/`, `src/nextjs/app/api/`). A handler can be
killed after any of its calls, calls can be lost or repeated, several invocations of one worker
overlap, and each call is one database transaction. That is the shape of every model here:

- one action per database call (or per provider answer a decision is taken from);
- the snapshot a handler took earlier is state of its own, so that what it decides from may be
  stale when its next call lands;
- a refused call raises and is rolled back, so a refusal is the absence of a step unless the
  caller does something about it;
- a request to something outside the database (a file store, a queue, a model provider) is no
  part of any transaction: it may be lost, land late, or have its reply lost.

## 1. Inventory

### Components and how they interact

| Component | State it keeps | Operations | Talks to | Hard behaviour | Modelled in |
|---|---|---|---|---|---|
| Durable job queue and connector sync | job rows (state, attempt, lease, cursor), stored pages, the connection's checkpoint | enqueue, claim, load page, admit an item, progress, defer, retry, complete | provider feed, source binding, intake | expired leases of workers that still run, crashes inside a batch, pages listed twice, late reports | `ConnectorSync`, `ChangeFeed` |
| Source binding | bindings of a logical source with their instants, tie resolutions, tombstones | snapshot, observe the provider, guarded write, resolve a tie, tombstone | provider, promotion (same advisory lock) | a newer revision bound while an older one downloads, ties, a standing clock, deletion during an import | `SourceBinding` |
| World activation and rollback | active pointer with a revision, version lifecycle, receipts | activate, roll back, replay, invalidate | membership, promotion, deletion closure | repeated calls, stale expectations (ABA), revoked callers, deletion of an active World | `WorldPointer` |
| World promotion | open transactions and the source locks they hold | lock sources, check currency, transition | the two above | check-then-act against importers, lock order | `WorldPromotion` |
| Compile jobs | job row (state, blockers, resolution, candidate digest) | advance, answer, cancel, a turn of the worker | object store, compiler, event streams | overlapping turns, snapshots that are stale when the advance lands, crashes between two advances | `CompileJob` |
| Processing credits, trials and billing events | reservations, balance, invoiced overage, trial and daily usage, sales and refunds | reserve, sweep lapsed holds, settle, grant, refund, subscription change | intake, payment provider | a settlement that meets a swept hold, a sale and its refund in the same moment, a trial at its limits | `ComputeLedger` |
| Intake admission and the disarming worker (CDR) | intake rows, stored source, queue message, disarmed versions with what was read of each | admit, upload, confirm, refuse, deliver, disarm, read or skip reading, settle, acknowledge | credits, object store, queue, readers | a crash between any two calls, an upload that lands late, a message delivered again, a source disarmed twice | `DocumentIntake` |
| Model spend, dispatch, circuit | reservations against two budgets, queue, ledger, circuit row | admit, mark, call, settle, park, reconcile, expire; open, probe, close | provider | a hold that expires during its call, two probes, an outcome that is out of date | `ModelSpend`, `ModelDispatch` |
| Source deletion, legal hold, sweeper | tombstones, inventory, attestations, rows per object, holds | request, attest, claim, remove, verify, record, hold, release | producers, Worlds, object store | a hold placed while a removal is under way, producers still writing, a store that answers wrongly | `SourceDeletion`; effects on bindings and Worlds in `SourceBinding`, `WorldPointer` |
| Workspace membership | members, owner, authority epoch | invite, change role, transfer, leave | every authorization | two owners leaving at once | seen by `WorldPointer`; planned |
| Change notification outbox | notifications, attempts | claim, send, settle, bury | mail | death after a send | planned |
| Intake approval, Dropbox reconciliation | approvals, path moves | -- | intake | -- | behind a rollout flag that is false at this commit |
| Reviews, retrieval, router, alerts, OAuth, ACL snapshots, enterprise, data gate, OCR, site | see `PROJECT.json` | -- | -- | little or no protocol of their own | not modelled |

`PROJECT.json` has the full list of components with their files, and the list of hazards: every
place found so far where an order nobody wrote a test for, a crash, a lost call or a stale read
could break something, with the line it bites at and the property that would show it.

### What makes each modelled component correct

- **Connector sync**: the checkpoint, from which the next sync reads, never passes over a change
  that still needs work and never moves back; neither does the cursor of a running job; every
  job ends, and is claimed no more often on the way than its attempts, its faults and a revocation
  account for.
- **Source binding**: the newest binding of a source is the most advanced revision ever bound,
  however late an importer writes; equal ones are resolved once; a deleted source stands still.
- **World pointer**: pointer, version lifecycle and receipts tell one history; a rollback
  introduces nothing; a World taken down by a deletion stays down; callers of one operation are
  all told the same.
- **Promotion**: at the commit that publishes, every document the candidate was compiled from is
  the newest of its source; promotions never wait for each other in a cycle.
- **Compile job**: the job only advances, its candidate is permanent and named whenever there is
  a package, and no document is left out before anybody answered for it.
- **Credits**: what was put in is in the balance, in an open hold or used, whatever order the
  sweep, the settlement, the renewal and the refund take; a trial consumes no more than it has.
- **Document intake**: a document is charged for what is on record about it, once, and a message
  is acknowledged only when that is done, or when no reader is named and the document is left
  disarmed, unread and not charged; a refused document costs nothing; a document that was
  stored is answered for or its message is with the dead letters, where a person finds it.
- **Model calls**: no budget is exceeded by holds and charges together; the provider is called at
  most once for a request, and time never gives back what a call may have spent; an open circuit
  is tried by one probe at a time and closed only by the one it waits for.
- **Source deletion**: under a legal hold nothing goes, not even by a removal sent before; a
  receipt of a removal is true for ever; an attested inventory has every object there is.

## 2. Modules

| Module | Stands for | State ↔ code |
|---|---|---|
| `ChangeFeed` | abstract specification: what a sync promises of one change feed | `covered` is the next sync's starting point |
| `ConnectorSync` | 0024-0029, 20260909202224, 20260909210203, the sync batch worker and `source-import.ts` up to one file's admission | `jobs` = `foundation_jobs`, `pages` = `foundation_connector_page_snapshots`, `checkpoint` = `foundation_connector_checkpoints`, `worker` = the running turn's local variables |
| `LatestRevision` | abstract specification: one latest revision per source, for whoever reads the bindings | `latest` is what `connector_source_newest_versions` lets a reader see, `Undecided` for an unresolved tie |
| `SourceBinding` | `importSourceObject`'s currency protocol and `record_connector_document_binding_after` | `boundAt` = binding rows, `resolutions` = tie resolutions, `tombstoned` = source deletions, `import` = an importer's local variables |
| `WorldPointer` | `transition_foundation_world_atomic` (20260920120000), the pointer part of `close_source_deletion_derived` (20260930010000) | `pointer` = `foundation_active_worlds`, `status` = `foundation_world_versions`, `receipts` = `foundation_world_transition_receipts`, `members` = `foundation_workspace_members`, `erased` = the worlds named by deletion receipts |
| `WorldPromotion` | `transition_foundation_world_atomic_current` and `assert_world_sources_current` (20261001170000) | extends `SourceBinding` and `WorldPointer`; `promotion` = open transactions with the advisory locks they hold |
| `CompileJob` | `advance_foundation_compile_job`, its triggers, `compile-job-worker.ts`, the blockers and cancel routes | `job` = `foundation_compile_jobs` row, `stored` = what the object store shows, `turn` = a turn's local variables |
| `ComputeLedger` | the reserve and settle functions and the billing event functions in their last versions (0033, 0036, 0045, 0046, 20260911120000, 20260911130000, with 0005 for refunds) | `hold` = reservation rows, `balance`, `overage`, `account`, `trial`, `daily` = the workspace's columns, `sale`, `refund` = the two transactions of a payment, `funds` = history of what was put in |
| `DocumentIntake` | 0032, 0051, `intake-admission.ts`, the upload half of `source-import.ts`, the settle route, and the queue worker of the CDR sidecar | extends `ComputeLedger`; `admission` = intake row, `object` = the stored source, `record` = the receipts and what is stored beside the disarmed version in use, `earlier` = what is stored beside the others, `message` = the queue's, `client`, `worker` = local variables |
| `PaidCalls` | abstract specification: the bill of a provider that has to be paid, one commitment per request | `stage` is what a reservation is to the bill: committed, in doubt, charged, returned or resolved |
| `ModelSpend` | the reservation functions of 20260920131000, 20261002110000, 20261002130000 | `row` = reservations, `turn` = tenants' last admissions, `held`, `spent` = the ledger |
| `ModelDispatch` | `model-provider-*.ts`: one governed call from the circuit's reading to its outcome | extends `ModelSpend`; `circuit`, `due` = the circuit row and its clock, `worker` = local variables, `calls`, `used` = history |
| `LawfulRemoval` | abstract specification: what the deletion of objects promises their holders and their auditors | `asked`, `open`, `done` are the attested, begun and purged inventory rows |
| `SourceDeletion` | 20260920132000, 20260921110000, 20260927102000, 20260927103000, 20260930010000, 20260930011000 and `source-deletion-*.ts` | `request` = tombstones, `row` = inventory rows, `attested`, `hold` = the workspace's hold, `stored`, `locked` = the store, `inventory`, `run` = local variables, `late` = requests nobody waits for |
| `MC*` | constants, symmetry and bounds for model checking | -- |
| `*Proofs` | theorems and their proofs | -- |

`PROJECT.json` maps every definition to the lines it translates. Definitions with a comment
beginning "Mutant:" are plausible mistakes in the definition that follows them; they are used by
no specification, and each property has one that breaks it (`PROJECT.json`, "mutants").

### Modelling choices a reader should know

- *Transactions.* Functions that take an advisory lock or lock their row `FOR UPDATE` for the
  whole transaction are one action. Promotion is the exception: it takes several locks one after
  another, so each acquisition, the check and the commit are actions of their own.
- *Provider and object store* are environments: they may move at any time. The provider's change
  feed is a constant; publishing it is an action. A page that is listed may be older than the
  moment it is stored.
- *Data.* A file, a document, a manifest digest, an operation id are model values. A compile
  candidate is named by the set of documents it was compiled from, since the digest is a function
  of the manifest. Revisions of a source are numbered in the provider's order.
- *Time.* Lease expiry, stall time and lapsed compile leases are actions. The database clock of
  the binding writer is any instant that is not refused: it may stand still or jump.
- *Roles.* "admin" stands for owner and administrator, which `WorldPointer`'s functions treat
  alike. Membership changes are more liberal than the code's, where the last owner stays.
- *Deletion.* The closure's preconditions (no live job or reservation at the inventory, no legal
  hold) are left out, so it may happen in more states than the code allows. `WorldPointer` lets
  any set of Worlds be invalidated; `WorldPromotion` those compiled from a deleted source, any
  subset of them, since a compile job may not have recorded its candidate.
- *Credits.* One workspace and one day. Subscription events that are out of date change nothing
  and are left out, as are the checks that bind an event to its checkout and the `purchase`
  action, which no caller uses. Nothing in the code takes a workspace off hold, so nothing here
  does. A billing event locks its own id only, so a sale and its refund take two steps each: the
  one that looks for the other and the one that commits.
- *Intake.* Documents of one workspace share only the ledger, which `compute_ledger` checks with
  two; `document_intake` follows one in all detail. A reading is the number of ranges stored; what
  comes of asking a reader is one of: text, a bad answer, no answer, or nobody was asked, because
  `FOUNDATION_OCR_URL` is not set or names no reader of this deployment (`SkipReading`,
  `ocr.ts:554-563`). That setting may change between any two deliveries. An acknowledged message
  is `acked`, or `skipped` when nobody was asked; the queue sees no difference. An upload may land
  after its client gave up. Text may be stored although the reply to storing it was lost, before or
  after the message is released.
- *Disarmed versions.* A delivery uses a version an earlier one disarmed, any of them, with what is
  stored beside it (`FindDisarmed`). Disarming is not deterministic, and a delivery whose listing
  fails, or that finds nothing of this provider and target, disarms again: to another version with
  nothing beside it, or to a refusal (`Sanitize`, `sanitize.ts:175-210`). After a first version a
  new one counts as one of the `MaxFaults`.
- *Model calls.* One provider and one budget period; price changes, the `enabled` switch and
  `runReservedModelProviderCall`, which nothing calls, are left out. A governed call's attempt
  receipt appears only as a call that may fail (`AttemptUnrecorded`). A probe is named by the
  circuit revision that admitted it.
- *Deletion of objects.* A failure of a removal that is no refusal by the store ends the sweeper's
  turn with the row as it stands. The inventory's two listings that have to be equal are one. A
  lock of the bucket lapses only when no request for its object is under way. The claim waits for
  imports of the workspace that hold an unexpired lease; leases of imports are not modelled, so an
  import that is under way never keeps a claim waiting, as if its lease had run out. Rows are claimed in
  any order, which allows more than the code's order by age. The derived rows (pointer, versions)
  are closed in `WorldPointer`.
- *Enabled only while a migration is missing.* The worker's fallback for a database without the
  candidate digest column (`compile-job-worker.ts:60-69`) is not modelled.

## 3. Runs

Every run finishes within five minutes on a laptop. "Bounds" lists what is limited and why the
interesting cases remain.

| Run (distinct states) | Checks | Bounds |
|---|---|---|
| `source_binding` (24,652) | `NewestIsMostAdvanced`, `ResolutionsAgree`, `TombstoneFreezesNewest`, `BindingsAreARegister` (refinement of `LatestRevision`) | one source, two importers, three revisions, four instants; sources are independent here, three revisions allow a tie of two below a newer one, and initial states include every tie the earlier writer could have left |
| `world_pointer` (125,356) | `PointerNamesTheActiveVersion`, `AuditChain`, `RollbackIsHistorical`, `InvalidatedStaysDown`, `AnswersAgree` | two Worlds, four operations, two actors, two changes of each membership: enough to activate, replace, restore and repeat a call, and to demote and restore a caller between a call and its repetition |
| `world_promotion` (786,903) | `PublishesNewest`, `NoLockCycle` | two sources, two candidates that share both, one importer, two sessions, two operations; the constraint `OneDisturbance` lets one thing go wrong around them (a deletion, a role change or a disconnection) and one source be revised |
| `connector_sync` (891,371) | `KeepsItsPromise` (refinement of `ChangeFeed`), `AttemptsArePaidFor`, `CursorsLoseNothing`, `OffsetsResume`, `CursorsAheadOfCheckpoint`, `CursorsOnlyAdvance` | five changes of three files (one is removed and comes back, one is unsupported), pages of two, one import a turn, two jobs, two workers, one fault |
| `connector_sync_live` (20,795) | `JobsEnd` under `FairSpec` | one job, one fault |
| `compile_job` (556,550) | `PackagesAreNamed`, `NothingLeftOutUnasked`, `JobOnlyAdvances`, `CandidateIsPermanent` | two documents, two turns at once, two events (crash, lost call, deferral or answer) |
| `compute_ledger` (2,143,388) | `CreditsConserved`, `TrialStaysBounded` | two documents of sizes 1 and 2, two sales of two plans, three amounts a settlement may say (nothing, within the reservation, beyond it), a trial of 2 credits and a day of 4, so that each limit can be met by the two documents together |
| `document_intake` (773,626) | `ChargedAsRecorded`, `AcknowledgedIsDone`, `RejectedCostNothing`, `StoredIsAnsweredFor` under `FairIntakeSpec` | one document read in two ranges, three deliveries of which the first may be deferred, two faults (a client that stops, a failed upload, a lost reply or acknowledgement, a failed listing of the disarmed versions); a reader may be named or not at every delivery |
| `model_dispatch` (4,401,301) | `BudgetHolds`, `CallsAreAccounted`, `OneProbe`, `ClosesOnProof`, `DispatchPaysOnce` (refinement of `PaidCalls`) | two requests of one tenant, two calls at once, budgets of 3 and 2 units for requests of 2 and 1, two slots of which the tenant gets one (so requests queue), a circuit that opens at two failures and takes four revisions: enough to open, probe, fail and probe again; one fault |
| `source_deletion` (5,473,016) | `HeldObjectsStay`, `PurgedIsGone`, `AttestedIsComplete`, `RemovalsAreLawful` (refinement of `LawfulRemoval`) | one source, uploaded or connected, its source object, its disarmed object and the World compiled from it; two sweepers, one hold, one fault |
| `compute_ledger_refund` (violation) | `RefundsAreConnected` | as `compute_ledger` |
| `compile_job_stranding` (violation) | `DeadWorkersStrandNothing` | one document, one turn at a time, one event |

`world_pointer`, `compute_ledger` and `document_intake` also check the type
invariant of their module; those of the other modules are proved for every value of the constants
(section 4), so their runs spend the time on the refinements instead.
`CHECK_DEADLOCK FALSE` stands where the system really may stop: all jobs enqueued and ended, all
operation ids used, a job settled, a document acknowledged, all requests settled, a source gone.

The bounds named in the modules are `MaxRevision`, `MaxInstant`, `MaxMembership`, `MaxFeed`,
`MaxFaults`, `MaxEvents`, `MaxHolds`, and the constraint `OneDisturbance`. Others are the code's
own constants made small: `PageSize` and `ImportLimit` (one import per turn makes a page of two
take two turns, which is what offsets are for), `MaxAttempts`, `TrialUnits`, `DailyUnits`,
`FileLimit`, `MaxDeliveries`, `Deferrals`, `Threshold`, `Budget`, `TenantBudget`, `Slots`,
`TenantSlots`. `Ranges`, `Reserved`, `Maximum`, `Grant`, `Actuals` and `Funds` are the data of an
instance. Two sources that share a World were also explored for `SourceDeletion`, to nine million
states and without a violation; that instance is too large to finish and is no run.

### Fairness

- `ConnectorSync!FairSpec`: the scheduler calls the worker route every minute, so a job that can
  be claimed is claimed (`WF(ClaimStep)`); a turn that is not killed goes on
  (`WF(TurnStep(w))`); a lease runs out (`WF(LeaseExpires(j))`). Faults are bounded, since a job
  that is killed for ever does not end, and so are deferrals, which return the retry budget.
  Nothing is assumed of the provider or the owner.
- `CompileJob!FairSpec`: the scheduler starts turns for ever, a turn goes on, the stall time and
  the compile lease run out. Nothing is assumed of customers, documents or lost calls.
- `DocumentIntake!FairIntakeSpec`: a worker ends its delivery (`WF(WorkerStep)`), because the
  consumer awaits its handler and a handler that is cut off gives its message back (`Retry`); and
  the queue hands every waiting message to a worker in its turn (`SF(Deliver(d))`: strong, since
  the one worker of the model is busy again and again with others). Nothing is assumed of clients.

### What the violations show

Two statements of the repository are not what the code does. Each is a run that asks for exactly
that statement, and an entry in `PROJECT.json` "findings" with the lines.

- **`RefundsAreConnected`**: a sale looks for a refund delivered before it, and a refund looks for
  its sale, but each transaction locks only its own event. Run at the same time neither sees the
  other: the refund is kept as pending after the sale has looked, and nobody looks again. The
  refunded credits stay in the balance, and the account is not put on hold.
- **`DeadWorkersStrandNothing`**: a worker that dies, or loses its call, between the advance to
  `building_world` and the one that settles the job leaves it there: later turns cannot take a
  lease backwards.

### Observations

Behaviour met while modelling that is worth a reader's attention. The models have these steps;
no property is stated about them, because the code makes no clear promise or another part of it
keeps the damage small. Migrations are named by their number.

Connector sync and compile jobs:

- The claim of a job never looks at the attempt budget (20260909210203:155, against the comment at
  0025:71-72): only outcomes a worker reports make a job `dead`, so a job that kills each of its
  workers is claimed for ever. `AttemptsArePaidFor` says what holds instead: attempts beyond the
  budget are at most one for each fault, one for a revocation and one for each earlier sync that
  died.
- A refresh that fails on the last attempt makes the job dead in one write and flags the connection
  for re-authorization in a second one (`sync-worker.ts:182-200`). The second may land after the next
  sync of the connection was enqueued, whose success is then refused until the owner comes back; its
  lease runs out and it is claimed again, and what it did is not lost.
- A deleted source's file stays in the feed and is refused for ever. The refusal is not among the
  permanent skips (`sync-worker.ts:59`), so the batch is retried until the job is dead, and the
  next sync starts at the same page.
- An advance to the rank a job is already at counts as changed (`compile-job-worker.ts:314`,
  against 306-307), so two turns may both compile. One candidate is recorded.
- A resolution is remembered on the job, not per document: a document blocked after it is left
  out without a question of its own (`compile-job-worker.ts:165` and `263`).
  `NothingLeftOutUnasked` is what does hold.
- A job answered with `retry` in `review_required` is taken by no later turn (0038:393).

World pointer: the closure of a deletion deletes the pointer row, so its revision starts again at
1 (20260930010000:477, against 20260920120000:3-8). `AuditChain` is stated so that it holds across
such a restart.

Intake and credits:

- An admission that lapsed may still be confirmed, so a trial can end up with more confirmed files
  than its limit.
- A workspace that once had a trial is judged by that trial, whatever it pays now (0051:121-141),
  while the message it gets says "Move to a paid plan." (`api-error-codes.ts:318`, `320`).
- A failed upload asks the store before it releases its hold. If the upload lands in between, the
  document is read without an open hold, its settlement is refused, and its message goes round
  until it is with the dead letters.
- When the reply to storing the assembled text is lost, the document may be recorded as released
  at no charge although the text is there.
- Where no reader is named, a document is released and its message acknowledged with no text, no
  receipt and no refusal on record. The worker's `README.md:5`, `wrangler.jsonc:25-26` and
  `sanitize.test.ts:86` and `405` mean it so. `AcknowledgedIsDone` says of this end that the source
  is disarmed and nothing was charged; that somebody has it read later is not part of the worker.
- A document that was charged and is delivered again after its reader was taken away, or disarmed
  again and then refused or read to another end, has its second settlement refused, and its
  message goes round until it is with the dead letters. The charge stands, on the version it was
  made for, which is why `ChargedAsRecorded` looks at all versions.

Model calls:

- Production callers make a new request key for every call, so nobody comes back for a queued
  request: it keeps the head of its tenant's queue until it expires after 15 minutes.
- A newer request may take the turn its tenant has come to, although the comment says that only
  the oldest competes.
- The branch of `mark_indeterminate` that restores an expired row cannot be reached: whoever
  doubts has marked before, and a marked row does not expire. The invariant of
  `ModelDispatchProofs` confirms it.

Source deletion:

- A source whose reservation lapsed before it was disarmed is invisible to the check that its
  producers are quiet. `AttestedIsComplete` excepts it (`lapsed`).
- A compile job stranded in `building_world` blocks the attestation of its sources for ever, and
  an import that never stored its bytes can never be attested.
- Objects of a World may be purged before the closure takes down its pointer.

## 4. Proofs

The theorems hold for every value of the constants under the named assumptions: the bounds are
natural numbers (`MaxRevisionAssumption`, `MaxInstantAssumption`, `EventsAssumption`,
`BoundsAssumption`, `DispatchAssumption`, `IntakeAssumption`), the amounts are natural numbers (`AmountsAssumption`,
`SpendAssumption`), sums range over finite sets (`DocumentsAssumption`, `SpendAssumption`),
sources have an order (`SourcesAssumption`) and `None` is no World (`NoneAssumption`). That is any
number of importers, sources, operations, actors, sessions, documents, jobs, workers, turns,
requests, sweepers, holds and faults. Each proof module has one inductive invariant, with one
lemma per action, or group of actions, that can disturb it.

**`SourceBindingProofs`** -- `BindingInv`. `NewestIsMostAdvanced` is not inductive: whether a write
is safe depends on what its importer saw. The strengthening says that the provider has reached
every bound revision (`OnlyProvidersRevisions`), that an import whose snapshot is still the newest
set has a revision no lower than anything bound, once it was observed as current
(`SnapshotSettles`), and that a source whose newest set is a tie has not moved since any import of
it began, because the guarded writer makes no ties (`TiesPrecedeImports`). Proved:
`NewestIsAlwaysMostAdvanced`, `ResolutionsAlwaysAgree`, `TombstonesFreeze`, `BindingTypes`, and the
refinement `BindingsImplementRegister`: seen by its readers a source has one latest revision,
`Undecided` while old bindings tie. An insert is an `Advance`, since by `SnapshotSettles` its
revision lies above everything bound; the resolution of a tie is a `Decide`; a replay, a refusal
and everything an importer does by itself is a stutter.

**`WorldPointerProofs`** -- `WorldInv`. A move extends the chain of receipts by its own, for which
it must know that the present pointer's last receipt installed the present World and that a
pointer naming a World has a revision (`PointerCounts`). A rollback's target is superseded, hence
some activation installed it (`VersionsHaveReceipts`). Answers agree since each is a function of
the receipt (`AnswersAreReceipts`). An invalidation empties the chain and leaves the receipts.
Proved: `AuditChainUnbroken`, `PointerAlwaysNamesTheActiveVersion`, `InvalidatedWorldsStayDown`,
`RollbacksAreHistorical`, `AnswersAlwaysAgree`, `WorldTypes`.

**`WorldPromotionProofs`** -- `PromotionInv`. The core is `CheckedSourcesStay`: between the check
and the commit the session holds the lock of every involved source, and every step of the bindings
leaves the newest set of a locked source alone (`LockedSourcesStay`). `LocksInOrder` says that
what a session holds comes before all it still wants; among waiting sessions, one that wants the
last source would be kept waiting by a session that wants a later one, which is impossible in a
finite set (the argument uses the library's well-foundedness of strict inclusion). Proved:
`PublishesOnlyNewest`, `NoLockCycles`, `PromotionTypes`, and that the composition implements both
of its parts (`PromotionImplementsBinding`, `PromotionImplementsWorld`), so that all theorems of
`SourceBinding` and `WorldPointer` hold while promotions run; `PromotionImplementsRegister` carries
the register of `LatestRevision` over to the composition in this way.

**`ConnectorSyncProofs`** -- `SyncInv`. A worker that lost its lease is told nothing, so nothing is
said of it but that what it did is durable: its page and everything behind it on that page need no
work (`TurnsLoseNothing`). A worker that holds its job works at the job's cursor
(`HoldersAreCurrent`); a page accounts for every change between its position and its own cursor
(`PagesCover`, from `ListingCovers`, which says what a listing leaves out); a live job has nothing
before its cursor that needs work (`JobsResume`), and there is one (`OneLiveJob`). So what a
report moves the cursor over, and what a completion makes the checkpoint, needs no work. Proved:
`CursorsNeverLose`, `OffsetsAlwaysResume`, `CursorsStayAhead`, `CursorsAlwaysAdvance`, `SyncTypes`,
and the refinement `SyncKeepsItsPromise`: every step is a step of `ChangeFeed` or a stutter.

The attempt budget needs a second invariant, `RetryInv`. No claim looks at the budget, so a claim
is paid for when the attempt before it is given up (`Pays`): a job in the queue is within its
budget, because only a report that found budget left puts it there; a lease whose holder is gone or
late cost a fault; and a turn whose success will be refused (`Doomed`) cost the owner's revocation
or the flag of a sync that died before. A dead job flags the connection once, by the worker it died
under (`FlagsAreOwn`), and is counted when that worker is through (`Buried`); TLC refuted the bound
without it. From it `AttemptsAreAlwaysPaidFor`, and the part of `JobsEnd` that needs no
fairness: `JobsComeNearer` gives a lexicographic measure (faults left, the flags still to come, the
connection's revocation, the cursor and its offset, the attempts used, and `AttemptLeft`, the steps
left of the attempt) that
no step of anyone raises while the job is live and that every step on the job lowers, and
`AttemptsEnd` bounds its components. What fairness adds, that a step on a live job is always taken
again, is what `connector_sync_live` checks.

**`CompileJobProofs`** -- `CompileInv`. A turn only starts on a job that is neither settled
nor waiting for a person (`FreshSnapshots`), a listing covers every document (`ListingsAreComplete`), what is
compiled is not empty (`CompilesReadSomething`), and while nobody has answered no snapshot says
otherwise (`NoOneAnswered`). Proved: `PackagesAreAlwaysNamed`, `NothingIsLeftOutUnasked`,
`JobAlwaysAdvances`, `CandidatesArePermanent`, `CompileTypes`.

**`DocumentIntakeProofs`** -- `LedgerInv` of `ComputeLedger`, then `IntakeInv` of `DocumentIntake`,
which is built on it. The ledger's books are inductive as they stand: every step changes the
balance, the invoiced credits and the funds by what it changes in the sums over the holds. The
work is in the sums. One hold changes a sum by the difference of its terms (`OneHoldChanges`), and
the sweep, which returns any number of lapsed holds in one step, adds to the balance exactly what
the sum loses (`SweepKeeps`). For the intake it has to be known what the worker relies on between
its calls (`WorkerKnows`): what it is about to settle is what is on record; if the document was
charged, then for another version than the one it is about to record a failure of
(`ChargedForAnother`); what it is about to acknowledge is done, or was disarmed and passed over.
Everybody else keeps this, since a hold that is over stays as it is and only a settlement charges
(`OverStays`, `NoneWorked`), and the worker keeps the promises since what is beside a version only
grows and no version is forgotten (`RecordsGrow`). Proved of the ledger:
`CreditsAlwaysConserved`, `TrialAlwaysStaysBounded`, `LedgerTypes` (no amount falls below zero); of
the intake: `ChargesAreRecorded`, `AcknowledgedIsAlwaysDone`, `RejectionsCostNothing`,
`IntakeConservesCredits`, `IntakeKeepsTrialBounded`, `IntakeTypes`.

Beyond what the runs state, three more things are proved of the intake. Every step of it is a step
of the ledger or leaves the ledger alone (`IntakeImplementsLedger`); its hypothesis, that nothing
and `Charge` are among the amounts `Actuals` the ledger is prepared for, is what the instance of the
run has too. What is over is over: no step changes a hold that was settled or given back, or takes
anything from what is on record beside any version (`ChargesAreFinal`). And nothing gets lost on the way: a stored source has a
message, the worker has the one document whose message it was given (`NoMessageIsLost`, with
`QueueInv`), and what is read was disarmed before (`OnlyDisarmedIsEverRead`).

`DeliveriesAdvance` and `DeliveriesAreBounded` are the part of `StoredIsAnsweredFor` that needs no
fairness. The measure of a message that waits or is being worked on is the number of its deliveries
and the calls its delivery has before it at most (`Left`). A delivery and each call of the worker
for a document take its message to its end, to one more delivery or to fewer calls, and no step of
anybody sets it back; deliveries never exceed `MaxDeliveries` nor calls `Ranges + 8`. So only a
worker that stops for ever, or a queue that passes a message over for ever, could keep a stored
document from being answered for. That they do not is the fairness assumption, and that step, with
`ENABLED`, is left to TLC. TLC confirmed all of these on the instance of `document_intake` before
they were proved.

**`ModelDispatchProofs`** -- `DispatchInv`. The ledger's two numbers are the sums over the rows, and
the rows fit the budgets (`SpendInv`, with lemmas on sums as above). Whoever calls has marked its
row first, and alone; a marked row never loses its mark, so time never refunds it (`CallsInv`). A
reading of the circuit at its present revision is the circuit, which is what makes the
compare-and-set sound, and a probe with time left is the one awaited (`CircuitInv`). Proved:
`BudgetsAlwaysHold`, `CallsStayAccounted`, `OneProbeAtATime`, `ClosingTakesProof`, `DispatchTypes`, and
the refinement `DispatchImplementsPaidCalls`. On the bill the queue, the slots, the circuit and the
order of tenants are gone: a request is committed, called and ended once. One reservation may do
several things to it, for it also sweeps: every lapsed commitment is returned or put in doubt in
the step that commits another (`Commit`), which is why the budgets hold of the rows after the
sweep. For the refinement the invariant also has to say that nothing is measured of a request that
was not called, that evidence leaves a row charged or returned and never open, and that a row in
doubt is not lapsed again.

**`SourceDeletionProofs`** -- `DeletionInv`. An object is written once, by one producer, so it is
enough to know that the producer of a recorded object has ended (`MadeOnce`) and that a source an
inventory was started for, or that is attested, stays quiet (`QuietInv`). Every request to the
store that may still remove something is answered for by the record of its start, which outlives
the claim and the sweeper (`SweepInv`); a hold is not confirmed while such a record is open
(`HoldsFindNoRemoval`). Proved: `HeldObjectsAlwaysStay`, `PurgedStaysGone`, `AttestedMissesNothing`,
`DeletionTypes`, and the refinement `DeletionImplementsRemoval`. To whoever holds the objects and
whoever audits the receipts, producers, inventories, claims and leases do not exist: a removal is
asked for when an attested inventory has its object, opened, carried out, withdrawn or closed. A
request that lands long after its sweeper is gone is still the `Remove` of an open removal. This
needs one more fact: a removal is only ever begun on an attested record, which the claim's read of
the attestation gives and which stays true, as attestations are never taken back.

**Only model-checked**: liveness under fairness (`JobsEnd`, `StoredIsAnsweredFor` and the violated
`DeadWorkersStrandNothing`), which is out of the proof system's reach. So is induction over data,
which is why the sums in the invariants are stated as cardinalities of sets of units (`Total`),
about which the library has theorems, and not as folds.

## 5. Not modelled, and why

See the components with status `not_modelled` in `PROJECT.json`, and the notes of those that are
`partly`. In short: pure computation (OCR, ranking, scoring), provider I/O (OAuth), pages, forms
and documentation, scripts that repair or generate content, append-only records without a protocol
(reviews, alerts, the job event ledger), and code behind a flag that is off at this commit (intake
approval, Dropbox reconciliation). These are most of the repository's lines; the protocols above
are few and dense. The compile itself, the readers, the file store and the providers' APIs are
environments.

Five hazards have no property; each has a note in `PROJECT.json`: the liveness of a compile job a
person answered, the sync that meets a deleted source's file, the capacity check before a compile
job is inserted, a notification's sender that dies, and two owners who leave at once.

## 6. Plan

Done: `SourceBinding`, `WorldPointer`, `WorldPromotion`, `ConnectorSync` with `ChangeFeed`,
`CompileJob`, `ComputeLedger`, `DocumentIntake`, `ModelSpend`, `ModelDispatch`, `SourceDeletion`,
and proofs about all of them.

What would come next, in this order:

1. `Membership`: the owner invariant under concurrent transfers and departures and the authority
   epoch, then `WorldPointer` against it.
2. `ChangeNotify`: claim, send, settlement and burial by attempt number.
3. `ConnectorSync` against `SourceDeletion`: a deleted source's file in the feed.
4. The enqueue side of `CompileJob` (workspace capacity, corpus slots) and the liveness of answered
   jobs, under an assumption on the person who answers.
