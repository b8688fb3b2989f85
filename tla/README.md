# A TLA+ verification of domainry-scheduler

`domainry-scheduler` turns published schedule definitions and owner-scoped
scheduled plans into *runs*, dispatches each run to a downstream owner under a
lease, retries what fails, and keeps evidence of what could not be delivered.
Several processes may poll the same database, operators intervene by HTTP, and in
SaaS mode Runtimes publish their definitions to whichever process answers. This
directory models the parts in which those actors meet, checks them with TLC on
small instances, and proves the central invariants with TLAPS for every instance.

`PROJECT.json` lists the components, the runs, the source lines of every
definition, the hazards and the theorems; this file explains them.

## 1. Inventory

| Component | State | Operations | What is hard | What makes it correct |
|---|---|---|---|---|
| Run store (`persistence/database/scheduler/run_store.go`) | definition rows (enabled, `next_run_at`), run rows (status, attempt, lease owner, fencing token, deadlines), dead letters, capacity guard row | `Claim`, `takeExpired`, `Renew`, `Accept`, `Fail`, `Retry`, `RequeueDeadLetter`, `Cancel`, `ResolveDeadLetter`, `Due`/`fastForwardMisfire`, `Reconcile`, `ReconcileScheduledPlan`, `DisableMissing`, `Reschedule` | processes race for windows and leases; callers hold stale copies; the backlog limit counts across processes | no window lost, settled runs final, bounded backlog, dead letters and runs agree |
| Trigger dispatch (`application/scheduler/service.go`: `Tick`, `TriggerNow`, `dispatch`, `dispatchClaimed`) | per goroutine: the batch, the run copy, the heartbeat | scan, claim, take over, dispatch, renew, settle | crash between effect and record; late answers; goroutines of one process share a worker id | only the current attempt settles; succeeded means delivered; every run is settled in the end |
| Definition publication (`definition_store.go`, `service.go`, `assembly/saas/database_service.go`) | publisher session row, cursor columns, snapshot and definition rows, execution projection | begin session, `SyncDefinitions`, converge, `ApplyDefinitionSnapshot`, hydrate | late, repeated and conflicting requests at several processes; reads of three statements; crash between commit and projection | sessions unique, older ones fenced, canonical and projected snapshots only move forward, projection catches up |
| Command receipts (`command_receipt_store.go`, `transport/http/module/adapter.go`) | receipt row per idempotency key | claim, run, complete, replay | repeated commands at concurrent handlers; statements with unknown outcome | at most once; all answers agree with the record |
| Service lifecycle (`service.go`: `Start`, `runWorker`, `Close`) | closed flag, owner context, live generation | start or join, end, close | contexts owned by different goroutines | one loop at a time, none after `Close` |
| Scheduled plans (`scheduled_plans.go`, `scheduled_plan_store.go`) | plan record with revision and status, its execution row | create, update, pause, resume, delete, project, hydrate | stale and repeated commands race; record and projection are up to six statements without a transaction | the record is one line of versions, answers are true, a restart repairs the projection, a completed plan is not revived |
| Retry policy (`domain/scheduler/service/retry_policy.go`) | none | `NextRetry` (the delay itself comes from the worker library) | — | a positive, bounded delay |
| SaaS assembly (`database_service.go`) | applications map, ready flag and worker per application, the process-wide mutex, the connection pool | open, hydrate, publish, tick, shut down | lazy opening under a mutex with database work inside; scans hold a connection and ask for another | one worker per application with durable definitions, shutdown ends |
| HTTP server, remote factory, server executable | none of their own | how requests begin, are repeated and given up; the pool's size and the order of shutdown | — | — |
| Executors, capability documents, migrations, module factory | none of their own | — | — | — |

How they interact: the service calls the run store and the definition store, each
call being one or more database statements; the store's rows are the only state
that processes share. The HTTP adapter calls the service; the SaaS assembly owns
one service per Runtime application. Downstream owners are called by `Dispatch`
and answer with a receipt.

## 2. Modules

| Module | Models | Proofs |
|---|---|---|
| `RunStore` | the run store as an open component: one action per transaction or autonomous statement, callers arbitrary and arbitrarily stale | `RunStoreProofs` |
| `TriggerDispatch` (extends `RunStore`) | actors that run `Tick` and `TriggerNow`, their heartbeats, crashes, operators and the clock | `TriggerDispatchProofs` |
| `DefinitionPublication` | fenced publication in SaaS mode, one step per statement | `DefinitionPublicationProofs` |
| `CommandReceipts` | `withCommandReceipt` and its store | `CommandReceiptsProofs` |
| `WorkerLifecycle` | `Start`, `runWorker`, `Close` | `WorkerLifecycleProofs` |
| `PlanRecord` | what the record of a scheduled plan promises (abstract) | — |
| `ScheduledPlans` | plan commands, their projection and hydration, one step per statement; implements `PlanRecord` | `ScheduledPlansProofs` |
| `InstantText` (extends `RunStore`) | how instants are written down and compared | `InstantTextProofs` |
| `Applications` | a SaaS process: applications, readiness, workers, connection pool, `Shutdown` | `ApplicationsProofs` |

`MCRunStore`, `MCTriggerDispatch` and `MCDefinitionPublication` give the constants
their values; the other modules are instantiated by their `.cfg` alone.

Two abstract specifications are implemented by detailed ones. `TriggerDispatch`
implements the open store, `StoreSpec`, with the identity mapping. `ScheduledPlans`
implements `PlanRecord!Spec` with `current <- plan` and `past <- stored`. Both are
checked by TLC and proved (`DispatcherUsesStore`, `RecordRefinement`).

**RunStore.** `StoreSpec` is also the abstract specification of what dispatch may do
to the database: `TriggerDispatch!Spec => StoreSpec` is checked as a property
with the identity mapping on the nine store variables. A due item of kind
`window` is one with an `ExpectedCursor`, kind `plain` a retry or a manual
trigger. `skipped` is a history variable: the windows a cursor move decided not
to run. Definition rows exist from the start. `TokenBound` caps the fencing
token, and with it the number of takeovers; nothing else bounds the store.
`PendingLimit` belongs to the owner, since each process sets its own at `Start`
(`service.go:496-501`). A schedule may end: `NextSchedule` is 0 after its last window,
and the claim then leaves the cursor where it is (`run_store.go:900-902`). `MaxAttempts`
and `NextSchedule` are constants although a new revision may change both
(`run_store.go:571-578`): `RetryBudget` speaks of one policy, `WindowsAccounted` of one
schedule. The misfire policy may change from row to row.

*Time.* Instants are small numbers that only schedules use. Whether a lease or a
retry delay has passed is membership in `elapsed`, because each process compares
the stored deadline with its own clock; in the open store it may pass at any
moment. In `TriggerDispatch` a lease passes by itself only when no live actor
attends to it (the heartbeat renews it at a fraction of its TTL), and under a live
holder only as a counted fault, `HeartbeatStalls`.

**TriggerDispatch.** An actor's `pc` follows the code: `due` (Due's rows are being
resolved), `items` (the loop over due items), `taking`/`reading` (the two statements
of `takeExpired`), `dispatching`, then `accepting` or `failing`. `Crash` stands
for the death of the process and for a cancelled context that keeps `Accept` and
`Fail` from the database. `schedule.NextSchedule` and `schedule.ResolveMisfire` come
from the SDK: they are constants with the assumptions the store relies on
(`ScheduleAssumption`, `MisfireAssumption`), and the MC module gives them the
behaviour that the repository's tests fix.

**DefinitionPublication.** A session is a generation and the process that drew its
nonce; a snapshot is a session, a revision and a content. `canonical` stands for
cursor columns, snapshot row and definition rows, which one transaction writes.
Reads see what is committed at their own statement, the weakest isolation of the
supported databases. `lock` is the publication row's lock between
`lockDefinitionSnapshotCursor` and the commit. The process-wide reconcile mutex
makes a process one sequential machine. Besides `Crash` there is `CallFails`: a
statement fails, or the request's context is cancelled, with the process up. The
transaction rolls back (a failed `COMMIT` of the projection may have taken effect), the
Runtime is told of a failure, and nothing projects what was committed until the next
publication or the next start. A hydration that fails leaves the process down. The
legacy path, a snapshot without a generation, which is not fenced (`service.go:249-277`,
`definition_store.go:555-582`), is left out, and with it a hydration without a snapshot
row, which returns at once.

**CommandReceipts.** A request is a key and a hash. A failing insert or update may
or may not have taken effect. `stranded` is a history variable: the keys that a
fault left executing.

**WorkerLifecycle.** A critical section of `lifecycleMu` is one step. Each caller of
`Start` has a context of its own; `context.AfterFunc` is the separate step `Signal`.

**ScheduledPlans.** One plan, since every statement names its id and owner. A handler is
a call under way in any process: a command, or the hydration of a process that opens the
application. Its `pc` follows the statements: `create` (insert) or `read`, `swap` (the
update with the revision predicate), `readback`, and the statements of `reconcileWith`:
`changed`, `stable`, `insert`, `again`. `answered` is a success after a projection,
`unchanged` the success of a status change that was in force already, which does not
project. Every call that fails or dies does so before or after a statement (`Fault`).
That includes a hydration: in Module mode `Start` discards its error and polls
(`service.go:533-536`), in SaaS mode the opening fails. `content` stands for all that an
update replaces; `request` is `request_sha256`. `stored` and `alone` are history
variables. `next_run_at` is left to `RunStore` and `TriggerDispatch`; of the workers
only the effect that matters here is modelled, that claiming a one-time plan disables
its row (`CompleteOnce`).

**InstantText.** A text is a sequence of characters given by their byte order; all that
precedes the fraction of a second is one character, because its format is fixed and
all instants are UTC. The comparison is by bytes (SQLite, PostgreSQL with the C
collation, MySQL binary); other collations are not considered.

**Applications.** `mu` is `DatabaseService.mu`, held from `Lookup` to `Open`. An
instance is one `databaseApplication` object. A database call is a step that needs a
free connection; only a retry scan of `Due` keeps one from step to step, so that the
free connections are those that no scan under way holds (`Free`). Nothing relates the
size of the pool, which is chosen once (`pool`), to the number of requests.
`launched` is `cancel # nil`. The unsynchronised read of `app.cancel` in `Shutdown` is
harmless, because the parent context is cancelled by then, whatever it returns.

Definitions introduced with "Faulty variant" are plausible mistakes in the
definition that follows. No specification uses them; put in its place, each makes
TLC report the property that `PROJECT.json` pairs it with.

## 3. Runs

| Run | Instance | Shows |
|---|---|---|
| `RunStore` | 1 definition, 3 windows and no more, 2 owners with backlogs 1 and 2, 2 attempts, token 3; 2 digits of a second | the store's invariants and `SettledIsFinal` whoever calls; `CursorsKeepTime` |
| `Dispatch` | 2 goroutines of one process, skip and bounded catch-up, 1 fault, 1 retry, cancel, resolve, trigger, reschedule (to instant 2, ahead of or behind the cursor) or new revision | the refinement `StoreSpec`, `OnlyLatestAttemptSettles`, `SucceededWasDelivered`, `CursorNeverRegresses` |
| `DispatchLiveness` | 2 processes, recurring definition and one-time plan, backlog 1, 1 fault | `EveryRunSettles`, `DueCursorMoves` |
| `Publication` | 2 processes, 2 generations, the first with 2 revisions, the second with 2 contents for one revision, 1 crash, 1 failing call | the safety of publication, `ProjectionCatchesUp` |
| `CommandReceipts` | 3 handlers, 2 keys, 2 hashes, 2 responses, 2 faults | at most once, answers on record, `ClaimedIsCompleted` |
| `WorkerLifecycle` | 2 callers, 2 closers, 3 generations | one loop, none after `Close`, `StopsForGood` |
| `ScheduledPlans` | 2 handlers, 2 contents (one with a one-time trigger, with which plans are created, enabled or disabled), 3 revisions, 2 faults | the refinement `RecordSpec`, `AnswersTakeEffect`, `SoloCallProjects`, `RevivedOnlyByRevision`, `RestartRepairs` |
| `Applications` | 2 applications, 2 requests, a pool of 1 or 2 connections, `Shutdown` at any moment | `OnlyRegisteredPolls`, `ShutdownEnds` |
| `LeaseAdopted`, `RequeuedFailure`, `StuckCursor`, `BacklogStarvation` | as named in section 5 | violations of what the documentation says |

*Why the bounds are enough.* Every race in this code is between two parties over one
row, so two actors and one definition reach it; three handlers let two replays race with
one execution. With two attempts and three tokens a run is claimed, taken over and taken
over once more, so that a holder, its successor and a late answer exist together;
attempts run out inside the bound. Backlogs of one and two over three windows, and of
one over two definitions, are hit and drained. Three generations let a lifecycle restart
twice. Three revisions let a plan be created, changed and changed again, so that a late
projection of each meets both others; two handlers are a command and its rival, or a
command and a hydration. Two faults are a crash that leaves the row behind and one more
failure before or after it. Two connections are the smallest pool in which a scan can
end. In a pool of one any scan has every connection: that of a worker, or of a request,
while another request keeps the mutex to open the second application; two connections
with three requests, checked as well (1.4 million states), show nothing else. Two digits
of a fraction show every case of dropped zeros: none, one and all. The limits of 64 in
the publication loops are 2, so that giving up happens. The proofs of section 4 remove
the bounds for every safety property; what rests on the bounds alone is liveness.
Symmetry is used in `Dispatch` only, which has no liveness property, over the actors,
which the specification only tests for equality.

*Deadlock* is checked everywhere but in `WorkerLifecycle`: a closed service whose
callers have gone is finished. (In `Applications` requests may still arrive after
`Shutdown`, as the code allows.)

*Fairness.* `TriggerDispatch`: weak fairness of an actor's own steps (the poll loop is
periodic and every database call and dispatch has a timeout), of the passing of
unattended deadlines and of the clock. Nothing is assumed of operators, restarts or
answers: a downstream that fails for ever is allowed. `DefinitionPublication`: calls
under way go on or fail, and a process that went down is started again by whoever
supervises it and hydrates its configured applications (`NewDatabaseService`); nothing
is assumed of Runtimes. `CommandReceipts`: handlers go on. `WorkerLifecycle`: worker
goroutines, `AfterFunc` callbacks and a `Close` under way go on; callers need not.
`ScheduledPlans`: of the calls under way and the processes that went down one goes on or
opens its application again, whichever; nothing is assumed of owners and workers.
`Applications`: `Shutdown` and the request that opens an application are strongly fair,
a cancelled worker ends, and workers that `Shutdown` closes are waited for. Go's mutex
hands itself over in turn once a waiter starves. `database/sql` gives a freed connection
to an arbitrary waiter, so that one that keeps asking is served with probability one,
not certainly. Nothing is assumed of scans, neither those of workers nor those of
requests.

*What the liveness properties leave open.* `ProjectionCatchesUp` holds of every call and
every start that no failing call interrupts, whatever failed before; after a call that
fails the rows may stay behind (section 5). `RestartRepairs` speaks of a start that no
further fault hits. `ShutdownEnds` assumes that the scans of requests leave a connection
free again and again; without that it fails (section 5).

`EveryRunSettles` holds in `DispatchLiveness` because the batch (3) has room for both
due rows and a retry. `BacklogStarvation` shows that this is needed.

## 4. Theorems

`RunStoreProofs`, for every set of definitions, plans and owners, every schedule that
satisfies `ScheduleAssumption`, every number of attempts and every limit:

- `StoreTypeCorrect`: `StoreTypeOK` is inductive by itself.
- `RowsStayConsistent`, `DeadLettersCorrect`, `RetryBudgetKept`: none of the three
  invariants is inductive alone. That a dead letter implies used-up attempts needs
  that the caller's copy of the attempt is the row's, which follows from
  `token = attempt` on leased rows (`RowsConsistent`) and the copy's own
  `attempt = token`; that an open dead letter belongs to a dead run needs that a
  leased row has no open one. Their conjunction with the types, `RowsInv`, is
  inductive and has one lemma per operation.
- `WindowsNeverLost`: inductive with the types. A claim moves the cursor from the
  claimed window to the next one, and `ScheduleAssumption` says that no window lies
  between; every other move records what it gives up.
- `BacklogNeverExceeded`: the backlog stays within the largest limit any process counts
  against. Inductive over `RowsInv`; a claim adds one run to `Pending` after
  `CapacityLeft` of its own process, a takeover adds none since its run was pending. The
  counting uses `FiniteSetTheorems`.
- `SettledStaysFinal`: an action property, from the guards of every operation.

`CommandReceiptsProofs`, for any number of handlers, keys, requests and faults:

- `ReceiptTypeCorrect`, `CommandsRunOnce`, `AnswersStayOnRecord`. The inductive
  invariant `ReceiptInv` adds two facts to the properties: the handlers that run or
  complete a key exclude each other and hold an executing receipt with their own
  hash, and a command that has no receipt, or whose handler has not run it yet, has
  not run at all. Without the first an answer could be recorded over another's;
  without the second a second execution could follow a crash.

`WorkerLifecycleProofs`, for any number of callers, closers and generations:

- `LifecycleTypeCorrect`, `OneLoopAtATime`, `NothingRunsAfterClose`. `OneWorkerLoop`
  follows from the inductive `LiveIsCurrent`: `workerDone` names the only live
  generation. `ClosedMeansStopped` needs in addition what a `Close` under way knows
  (`CloserKnows`): the service is closed, so no `Start` creates a generation any more,
  and the generation it waits for is the only one that may still run.

`TriggerDispatchProofs`, for any number of actors and processes, any batch limit, and
every schedule and misfire policy that `ScheduleAssumption` and `MisfireAssumption`
admit:

- `DispatcherUsesStore`, the refinement `Spec => StoreSpec`. `RunStore` lets callers
  write only with `HeldCopies`, copies that name an owner and whose attempt is their
  token. An actor's copy need not be one: `ReadTaken` may read a row that was settled
  or cancelled in between. The inductive invariant `DispatchInv` therefore says of an
  actor (`ActorInv`) that a copy which names an owner has `attempt = token`, and the
  lemma `LiveCopyIsHeld` that a copy under which a write can succeed names an owner,
  because the row it matches is leased. Two further parts are needed for Due: rows that
  were scanned are due at the actor's own `now`, so that the misfire policy is asked
  within its assumption, and they are resolved before `Tick` forgets its `now`.
- `StoreGuaranteesKept`: through the refinement, all that `RunStoreProofs` establishes
  (backlog, windows, retry budget, dead letters, final outcomes) holds of the
  dispatcher.
- `SuccessMeansDelivered`: with `ActorInv`'s last part, that an actor about to accept
  has its run in `delivered`, which never shrinks.
- `OnlyLatestSettles`: whoever changes a status by `Accept` or `Fail` has a live copy, and
  a live copy has the attempt of the row. The theorem says nothing about who works under
  that attempt: two actors may (section 5, `LeaseAdopted`).
- `WorkersMoveForward`: needs that every queued item asks for a cursor after its own window
  (`ForwardTriggers`), since the compare in `advanceCursorWith` ties the item's window to
  the cursor and not its `NextRunAt`.
- `DispatchTypes`.

`DefinitionPublicationProofs`, for any number of processes, generations, revisions,
contents, retries, crashes and failing calls:

- `PublicationTypes`, `NoTwoSessionsShareAGeneration`, `ProjectionIsExclusive`,
  `AcknowledgedStaysProjected`, `CanonicalForward`, `FencedSessions`,
  `ProjectionForward`. Snapshots are ordered by session and revision. The inductive
  invariant `PublicationInv` says that what was acknowledged is at most what is
  projected, and that at most what is canonical (`InOrder`); that the session in the row
  is the last one handed out (`ActiveIsLast`, which is inductive only together with
  `SessionsUnique`: without it, a second session of the current generation could be the
  one in the row); and of each process that a commit was checked against what was seen
  (`CommitChecked`), that the request of a call that projects is committed
  (`RequestCommitted`), and that the copy it gathered is at most the canonical snapshot,
  and equal to it under the lock (`CopyBehind`). Since a commit is a compare-and-swap on
  what was seen, the canonical snapshot only grows, and copies of it stay behind.

`ScheduledPlansProofs`, for any number of handlers, contents, revisions and faults:

- `RecordRefinement`, `AnsweredCommandsTakeEffect`, `SoloProjection`, `CompletionIsKept`,
  `PlansTypes`. The heart of the invariant `PlansInv` is `RecordInv`: each revision was
  given to one version. A handler's copy was on record once (`HoldsStored`), so when the
  `UPDATE` finds the copy's revision, the copy is the record, and what the handler checked
  on its copy holds of the record (`SwapReady`). `Effective` carries the effect of a
  command to its answer. `Solo` says what a handler without rivals knows of the row at
  each statement of `reconcileWith`; it is what `SoloCallProjects` needs, and it fails as
  soon as another call overlaps.

`ApplicationsProofs`, for any number of applications, requests, instances and
connections, however they relate:

- `WorkersAreRegistered`: `ApplicationsInv` says that whoever found an application
  missing holds the mutex until it has registered it, so that an application has one
  instance until `Shutdown` takes the map, and that `Shutdown` cancels before that, so
  that no worker starts afterwards.

`InstantTextProofs`, for the nine digits of RFC3339Nano and every horizon:

- `CursorTextsKeepTime`. The hypothesis `Digits = 9` is the program's own value; a proof for
  every number of digits would be an induction over them. Three lemmas carry it: equal
  texts have the same digits, those left out being zero, and nine digits determine a
  fraction (`TextsDiffer`); texts of different seconds differ first in the second, and
  those of one second are less than a second apart (`TextsInOrder`); the empty text comes
  first (`ZeroFirst`). It holds in every reachable state because cursors keep their type.

*Assumptions.* The proofs use the named assumptions of the modules only. About the SDK
they say that the next window, if there is one, is later and none lies between, and that
windows start
at the cursor, respect the batch and precede the next cursor; all others are types and
sizes of sets (`TokenBound` is at least 1: the first claim writes that token). Of the
database the step granularity of the modules assumes that a transaction is atomic and
that the capacity guard row serialises the counting transactions.

*Only model-checked.*

- Liveness: `EveryRunSettles`, `DueCursorMoves`, `ProjectionCatchesUp`,
  `ClaimedIsCompleted`, `StopsForGood`, `RestartRepairs`, `ShutdownEnds`. The
  prover supports neither fairness nor `ENABLED`.
- The properties of the runs in section 5, which do not hold.

Every inductive invariant was checked with TLC on the instance of the corresponding run
before it was proved.

## 5. What the models disagree about with the documentation

Each has a run whose violation is expected and an entry under `findings`.

1. `RequeuedFailure`: a requeued dead letter keeps its dead-letter row and its
   used-up attempts. When it fails again the insert of a second dead letter violates
   the primary key, `Fail` rolls back, the service drops the error, and the run is
   dispatched again each time its lease expires, without end.
2. `LeaseAdopted`: `takeExpired` reads the row back with a second statement. If the
   lease is taken over in between, the first worker returns with the second one's
   owner and token; both work under one lease.
3. `StuckCursor`: a cursor placed on a window that has a run already is never moved.
4. `BacklogStarvation`: due windows that a full backlog refuses use up the batch, so
   that the runs which fill the backlog are never retried.

The following are no disagreements with a documented promise, but a reader of the
models should know them; the properties are stated so that they allow them.

- *Plans whose projections overlap.* `reconcileWith` asks whether the stored revision
  differs, not whether it is older, and its second statement names the key only. A
  late projection may write an older version over a newer one, or mix an old
  definition with a new revision. A paused or deleted plan may then be polled until
  the next call projects it, which `SoloCallProjects` says repairs it. The opposite is not
  repaired: when a late projection of the paused version disables the row of a plan that
  was resumed meanwhile and leaves the resumed revision in it, no projection of that
  revision enables it again (`run_store.go:153-155`), only a new revision does.
  `RowFollows` is therefore one-sided: it says what a disabled plan's row must be, and not
  that an enabled plan's row is enabled, which completion of a one-time plan rules out.
- *A hydration that fails in Module mode.* `Start` discards its error; the rows stay as
  they are until the plan's next call or the next start.
- *A publication that fails after its commit.* The Runtime is told of a failure although
  its snapshot is canonical; the execution rows stay behind until it, or another, publishes
  again or a process starts.
- *A pause in force.* A pause or resume that finds its status on record at the expected
  revision is answered without projecting (`unchanged`). If the projection of the
  first attempt failed, the row stays behind although the owner is told otherwise.
- *The pool.* As many retry scans at once as there are connections (20 by default) wait
  for one another; workers have no timeout of their own there. `Shutdown` resolves it
  for the scans of workers, which it cancels, also while a request keeps the mutex until
  it gets a connection. It does not cancel requests: when scans that requests started
  (`database_service.go:443`) hold every connection and another request keeps the
  mutex, `Shutdown` waits for the mutex as long as they do. `ShutdownEnds` names that
  condition.
- *The text of instants.* `10Z` sorts after `10.5Z`: a deadline on a whole second
  counts as passed up to a second late, and one within a second may count as passed
  early. `CursorsKeepTime` bounds the error.
- *Readiness.* A process that opened an application before another process first
  published for it stays not ready, without a worker, until it is published to.
- *A comment.* `service.go:124-127` says that `ReconcileSnapshot` claims its generation
  before it waits; it claims none. The fence in the database orders publications
  (`CanonicalMovesForward`).

## 6. Not modelled, and why

- Authentication, routing, encoding, signing, URL checks, formatting, capability
  documents, migrations, configuration: no shared state, or static. The read routes
  of the HTTP adapter, and `Get`, `List` and the deletion receipt of plans, change
  nothing.
- The arithmetic of `NextRetry` and the SDK's schedule parsing: time enters only as
  the order of instants and as deadlines that pass.
- The publication of unfenced (legacy) snapshots.
- A definition published without any window left. Its cursor is the zero time, whose text
  precedes every other, so that every scan reads the row; what comes of it is up to the
  SDK's `ResolveMisfire`.
- A revision that changes the number of attempts or the schedule of a definition whose
  runs are under way (section 2).
- An error inside `Due` that aborts a whole tick: like a crash of the actor at that
  point, except that it costs no fault.
- Module-mode publication as a whole: it has no session and no fence. Its two statements
  in `disableMissingWith` are open actions of `RunStore`; what orders its callers is
  the generation counter of `Service.Reconcile` within one process.
- The claim's transaction split into guard, count and insert: the guard row's lock is
  taken as given.
- What transactions of claims and publications hold of the pool: they take one
  connection and need no second one, so they are single steps in `Applications`.
- Rows of other Runtimes: every statement is restricted to one `runtime_id`.

## 7. Plan

Done: the modules of section 2, their runs, and proofs of every safety property and
both refinements of the passing runs.

Left open:

1. Proofs: that a batch of `Due` respects its limit for any misfire policy.
2. Modelling: Module-mode publication, and the claim split into its statements.
