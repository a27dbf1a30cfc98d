# OmniPost: TLA+ models of the durable core

OmniPost is a TypeScript monorepo for scheduling social-media posts: a Fastify
API (`apps/api`), BullMQ workers (`apps/workers`), web clients, and packages for
providers, persistence, queues and observability. Most of it is request and
response over PostgreSQL. The part whose correctness depends on *order* is the
durable machinery underneath: sagas that survive a restart, a Redis lock between
sagas, a transactional outbox, the queue and workers that publish, and the bulk
scheduler built on all of them. That part is modelled here, in TLA+, checked
with TLC on small instances and, where the provers reach, proved with TLAPS for
all values of the constants.

Paths below are relative to `src/`.

## 1. Inventory

| Component | State it keeps | Operations | Interacts with | What is hard | What makes it correct | Here |
|---|---|---|---|---|---|---|
| **Saga engine** `apps/api/src/saga/SagaManager{,Execution,Lifecycle}.ts` | the `SagaInstance` row (truth), its event log, a Redis copy, `activeInstances`, `inFlight`, `parkedAt` | start, forward pass, compensation walk, retry scan, timeout checker, worker events, continue/compensate by an operator, boot, drain | lock store, event store, scheduler, queue, Redis, PostgreSQL | five threads share one object by reference across awaits; crash between any two; lost acknowledgements; stale copies; two horizons | endings are final and honest, undo only when the row says so and once only, direction of travel never lost, every saga ends | `SagaEngine`, `SagaStatus` |
| **Semantic lock** `infrastructure/saga/RedisSemanticLockStore.ts` | a key per aggregate, a holder set per saga, two TTLs | acquire (3 commands), releaseAllForSaga (n+2 commands) | saga engine, Redis | errors, crashes, expiries between commands | exclusion, release by the holder only, nothing left locked | `SemanticLock` |
| **Transactional outbox** `infrastructure/outbox/*`, `outbox/outboxAdminRoutes.ts`, `PrismaOutboxWriter` | `OutboxEvent` rows with lease, backoff and retry count, `OutboxDeadLetter` rows | write, claim, dispatch, mark, reschedule, archive, clean, re-drive, resolve | every API process's relay, PostgreSQL | relays of several processes, leases that lapse, a mark that fails after delivery, crashes inside a batch | nothing is lost or settled without cause, duplicates have causes, claims exclude, every event is settled | `Outbox`, `OutboxPromise` |
| **Post publishing saga** `packages/shared/src/saga.ts`, `saga/SagaIntegration.ts`, `CompletePostPublishingUseCase` | step data: jobs and channels enqueued; the post's status | reread, enqueue a job per channel, wait for the jobs, promote the post | engine, queue, post repository | jobs finish, fail, vanish and are shared with an earlier saga while the step counts them one by one | a promoted post went out on its channels; a saga fails only for a job that failed, or for another saga of the post | `PostPublishing` |
| **Publish worker** `apps/workers/src/publishHandler.ts` | `PublishLog` row per channel, `Thread` and `Tweet` rows per post | look up the log, load, log, publish, mark, log, notify | queue, providers, saga | redelivery around the provider's call; two attempts of a stalled job; rows shared between channels; deletion and restore | nothing goes out twice without a cause; a deletion is final; a recorded success stays recorded; every job ends | `PostPublishing` |
| **Queue adapter** `packages/adapters/queue-bullmq` | BullMQ's jobs | enqueue by id, read states, consume | saga, workers | ids outlive their jobs' usefulness, or do not live long enough | at least once, at most the attempts allowed | environment of `PostPublishing` and `BulkSchedule` |
| **Bulk scheduling** `packages/core/bulk-scheduling`, `apps/api/src/bulk-scheduling`, `PrismaBulkScheduleBatchRepository` | a batch, an item per row with its post's id | confirm, dispatch, sweep, process a row, fail a row, complete the batch | outbox, queue, posts | a retry meets what the last attempt left; callbacks detached from their job; counts across transactions | one post per row, none scheduled twice, endings honest and final, every row ends | `BulkSchedule` |
| Saga tenant resolution `saga/sagaTenant.ts` | account of a row | resolve, fail as system | engine | rows no tenant can be found for | such rows end | not modelled |
| Integration events `infrastructure/integration-events` | dedupe keys | publish, consume | outbox, BullMQ | duplicate consumption | handlers run once per event | not modelled: the API's boot gives the composed dispatcher no publisher |
| Dead-letter queue `packages/adapters/dead-letter-queue` | failed jobs | add, retry, drop | providers | | | not modelled: nothing starts its processing, so it is only written |
| Background scheduler `packages/observability/background-scheduler` | tasks, timers | register, tick, stop | engine, relay, cleaner | overlapping ticks | each task keeps its cadence | only as fairness |
| Circuit breaker `packages/adapters/external-apis/src/circuitBreaker.ts` | a registry of breakers | execute, evict | providers | | | not modelled: the state machine is the opossum library's |
| Event store, CQRS projections | event log | append, project | engine | | | the append is part of the engine's durable write |
| HTTP API, auth, billing, webhooks, analytics, AI, media | rows | CRUD | | little of their own concurrency | | out of scope |
| Frontends, UI packages, provider integrations | | | | presentation; third-party calls | | out of scope |

`PROJECT.json` lists the same components with their sources, and under `hazards`
everything found in this code that a test would hardly reach, each at its line.

## 2. Modules

```
SagaStatus      OutboxPromise                     abstract promises
    ^                ^                            (INSTANCE .. WITH, checked as PROPERTY)
SagaEngine        Outbox      SemanticLock    PostPublishing    BulkSchedule
    ^   ^           ^   ^         ^   ^          ^   ^            ^   ^
MC..  .._proofs   MC..  .._proofs MC.. .._proofs MC.. .._proofs   MC..  .._proofs

SagaEngine_proofs <- SagaRecords_proofs <- SagaDirection_proofs <- SagaUndo_proofs
```

The modules share no state; they meet at what one promises the next. `PostPublishing`
is what the waiting step of `SagaEngine` stands for, with the engine reduced to its
retries and its horizon; the lock that admits one saga of a post at a time there is
`SemanticLock`'s; the outbox seen from one row of `BulkSchedule` is open until it is
dispatched or dead, which is what `OutboxPromise` allows.

No module uses a RECURSIVE operator, so all can be proved about. `MUTANT of X`
operators are small plausible bugs of `X`: with one of them in place of `X` the
named property fails, which is how each property is known to say something.

### 2.1 SagaEngine

One saga, the one API process that advances it, its row, its Redis copy and the
process's memory.

| Model | Code |
|---|---|
| `row`, `audit` | the `SagaInstance` row; the kinds of saga event in the durable log |
| `cache` | `saga:<id>` in Redis |
| `heap`, `tracked`, `parked`, `ref` | the `SagaInstance` objects, `activeInstances`, `parkedAt`, and which object each thread holds: instances are shared **by reference**, and this is where several of the surprises come from |
| `claim` | the saga's `inFlight` entry: direction, coalesced rerun, pending walk |
| `queue` | work handed to `setImmediate` (a set: two equal dispatches are one, as the claim makes them) |
| `pc`, `tx` | for each of the five threads (`adv` pass or walk, `chk` timeout checker, `op` request, `boot` re-warm, `stop` drain) the await it stands at, and its outstanding write |
| `out`, `todo` | the last step's answer; the walk's remaining steps |
| `late` | horizons that have passed |
| `eff` | the world: each step's effect absent, present or undone. A failed step or undo may or may not have had its effect |
| `recorded` | ghost: what the row has ever recorded as done and as undone, and whether a pass has written over a failure (`reopened`) |
| `spent` | how often each kind of fault has happened |

A durable write (`persistSagaInstance`, `writeSagaState`) is three steps:
*requested* (the object has been mutated and the Redis copy serialised), *sent*
(`Capture`: the transaction's callback reads the columns from the object as it is
now), *settled* (`Commit` with its compare-and-swap and its event in one step,
`Refuse`, or `DbError`; a commit may also answer with an error). Every other thread
may run between them. `Overtakes` says whether the pool may serve writes out of order.
`BeginKind` is the flag of `beginCompensation`: an instance that reads FAILED makes the
turning back a write that may replace FAILED. An operator's re-drive hands it such an
instance, and so does a pass whose instance the timeout checker has marked in the
meantime. `FailAgain` is `failSaga` called again by the step loop's catch, over a copy
the first call has put back.

Actions, one per stretch between two awaits: `StartSaga`, `StartSettled`;
`DispatchForward`, `DispatchWalk`; the pass `LoadPass`, `ReadStatus`, `Execute`,
`Settle`, `PassWrote`, `PassFailed`, `PassRefused`; the walk `WalkStatus`,
`WalkLoad`, `WalkSync`, `Undo`, `WalkRecord`, `WalkFinish`, `WalkSettled`; the
horizons `CheckerTick`, `Liveness`, `FailSettled`; `ContinueSaga`,
`CompensateSaga`, `CompensateSettled`, `WorkerEvent`, `RetryScan`; `Boot`,
`RewarmSettled`, `Shutdown`, `ShutdownSettled`, `Crash`, `CacheExpires`, `Tick`.

Abstractions: time is the flags in `late` and a retry marker may be due at any
moment; one tick of the checker at a time; the fresh read of `Liveness` is atomic
with its decision; a write in flight at a crash is lost (one that would land later
is the same as one that landed before). Left out: tenant resolution and
`failSagaAsSystem`, the load limit of the boot pass, rows whose definition is not
registered, locks (own module), metrics and logs.

### 2.2 SagaStatus

The life of a row and nothing else: forward, turned back, ended; only a FAILED
saga may be turned back again, and nothing turns forward. `SagaEngine` implements
it with `status <- row.status` where no process is drained, as long as no pass has
written over a failure (sections 4 and 5 say under which conditions exactly, and why).

### 2.3 SemanticLock

Several sagas over several keys. `lock` and `holderSet` are the Redis keys,
`stamped` says which holder sets have a TTL, `past` which locked steps a saga has
been let past and still works behind, `lapsed` which locks ran out under it. A pass
(`pc`, `key`) rests, asks for a lock or is inside a step: `BeginStep` starts a step with
a lock or one without, `EndStep` ends it. `End` makes a saga's row an ending (`ended`)
wherever its pass is, for the timeout checker's `failSaga` does not wait for it: the
pass goes on with the step it is in, finds the ending when it writes the result, and
yields without a release (`Rests`). `raced` remembers the sagas that were ended while
their pass was taking a lock. `SetNX`, `Track`, `Stamp` are the three commands of
`acquire`; `Members`, `Release`, `Drop` those of `releaseAllForSaga`, which follows an
ending (the release script is atomic). `AcquireError` and
`ReleaseError` are the `CONNECTION_ERROR` results; what earlier commands did
stays; a `Crash` takes every pass and release under way. The single-key `release` has no
caller and is left out; TTL lengths are abstract.

### 2.4 Outbox, OutboxPromise

Events, and one relay per API process. `state`, `retry`, `waiting`, `claim`, `dead`
are the columns of the two tables, `pc`, `batch`, `snap`, `cur` a relay's poll:
the rows the claim returned, the retry counts *as returned*, and the row being
processed. Each statement or transaction and each dispatch is an action. Ghosts:
`seen` counts dispatches that resolved (0, 1, more), `excuse` the events a lapsed
lease, a crash before the mark or a failed mark has hit, `lapsed` those whose lease
ran out under a relay at work on them.

As in the code, `markPublished`, `releaseForRetry` and `archiveToDeadLetter` update
by id alone, whoever holds the claim. The order of a batch is free (RETURNING gives
none); a backoff may end and a lease run out at any moment; a dead letter sent
through again is a fresh event id. The composed dispatcher's second, BullMQ path is
not wired by the API and is left out, and so is a handler's own partial effect: a
dispatch resolves or throws.

`OutboxPromise` is what the writer of an event may rely on: pending until a dispatch
has resolved or an operator has it in the dead-letter table; never pending again.

### 2.5 PostPublishing

One existing draft and the sagas started for it, from their requests on.

| Model | Code |
|---|---|
| `saga` | per saga: the ending its row holds or `running`, and its pass: the step it stands at (`lock`, `pivot`, `enqueue`, `wait`, `promote`), the channels still to enqueue or to read, whether a failed or a pending job was counted, retries left |
| `post` | the Post row's status, and whether it, its project or its account is deleted |
| `job` | per channel, BullMQ's job `publish-<post>-<channel>`: state, failed attempts, stalls, holder of its lock |
| `log` | per channel, the `PublishLog` row of that dedupe key |
| `thread`, `tweet` | the post's `Thread` row and its `Tweet` rows: one set for all channels |
| `worker` | a slot that runs one attempt: the statement it stands before, and the fragments left |
| `live` | the world: how often the content went out on a channel (0, 1, more) |
| `skipped`, `closed`, `excuse` | ghosts: channels whose job was ended for a deletion; channels whose job ended for that or on a thread found published; channels hit by a fault between a publish and its record |

The saga: `Start`, `Lock`, `LockError`, `Reread`, `Enqueue`, `EnqueueError`, `Poll`,
`PollError`, `Promote`, `PromoteError`, `Horizon`. `Start` is the request, which reads
DRAFT; `Lock` is the create-post step, which asks for the post's lock and does *not* read
the post again, so a saga may wait there while another publishes the post and meet the
change only at the pivot's `Reread`. `StepFails` is the engine's answer to a failed step
(`Again`: a retry, or after the last one a compensation before the pivot and a failure
from it on), and `Goes` the write of a step's result, which an ending reached meanwhile
refuses. `Horizon` is the timeout checker: a pass that is inside the pivot or the
promotion goes through with that step, and so enqueues and promotes after the failure.
The attempt, one action per statement: `ReadLog`, `LoadPost`, `LogRunning`,
`FindThread`, `InsertThread`, `CreateTweet`, `CallProvider`, `MarkTweet`, `LogOutcome`.
The queue: `Take`, `Finish`, `Stall`, `Evict`. `Crash` takes any set of slots;
`Reschedule` and `Delete` are users.

Abstractions: what the content renders to is one choice for all channels (saga jobs
name no provider, so all render alike); the thirty minutes are a fault that may come
at any time, and the lock's own time with them; a saga that has ended gives the lock up at
once; backoffs and the job's delay are absent, for an attempt may be taken late
anyway; a post that is deleted stays in its status. Left out: the creation of a new post,
drafts, jobs without an account, the notification (it only makes the wait poll sooner),
unknown providers and rendering errors (they fail an attempt as an unreadable post does).

### 2.6 BulkSchedule

One confirmed batch. `item` and `batch` are the manifest's rows, `event` each row's
outbox event (`open`, `closed`), `letter` its dead letter (`unresolved`, `resolved` or
`retried` by an operator), `swept` what the sweep's query returned and it has not come to,
`job` the row's BullMQ job, `created` and `scheduled` its posts, `failing` the detached
`failed` callback. Actions: `Confirm`, `Dispatch`; `Sweep` and `Redrive`, `ResolveLetter`
and `RetryLetter`; the attempt `FindItem`, `CreatePost`, `PersistPost`, `LoadPost`,
`SavePost`, `CountPending`, `CommitItem`; the callback `FailCount`, `FailCommit`; the
queue `Take`, `Finish`, `Stall`, `Evict`; `Crash` takes slots and callbacks.

`Sweep` is the query: unresolved dead letters, in no order, `PerTick` of them at most (50
in the code). `Redrive` enqueues one of what it returned, and no part of the sweep resolves
a dead letter; only the operator's two routes do. A write may fail, or land and be answered
with an error, in each of `CreatePost`, `SavePost` and `CommitItem`.

A transaction is one step, except where it writes an item and counts the pending ones:
there the count sees what others have committed, so counting and committing are two
steps, and `Locked` keeps a second writer of the same row out between them. Ghosts name
what may be blamed: `excuse` (a fault between a change and its record), `overlap` (two
attempts at a time), `forgotten` (retention dropped a job whose row had ended), `lost`
(a callback that never ran to its end). Slots are numbered and the first free one takes
a job; that is a symmetry reduction, for slots differ in nothing.
Left out: the CSV, the read side (it derives COMPLETED from the items), and a row without
channels (it fails as any rejected row does).

## 3. Runs

All bounds are constants. `Allowed` (SagaEngine) is the set of fault counts a
behaviour may reach, so "one of any kind" is one run and not five.

| Run | Instance | Shows | States |
|---|---|---|---|
| `Saga_forward` | 4 steps (0, 1 compensable, 2 the pivot, 3 waiting), 1 retry, 1 worker event, writes out of order, no fault | types; FAILED has a cause; the pivot is final; no undo over a forward row; implements `SagaStatus` | 112 k |
| `Saga_faults` | 4 steps, waiting step, no retry, **one** fault of any kind: crash or drain, failed or unacknowledged write, failed read, lost Redis write or key, operator request; **and** a worker event before or after it | both endings honest; a resumed walk repeats no recorded undo; no step over an undone state; a parked saga is left alone until an operator or an event comes; endings are final | 1.10 M up to the names of the heap cells (`VIEW UpToNames`) |
| `Saga_live` | 3 steps, pivot 1, waiting 2, one crash or drain, fairness | every saga ends | 185 k |
| `Lock_safety` | 2 sagas, 2 keys, 1 lost connection or crash, 1 expiry, endings at any moment of a pass | exclusion of sagas that have not ended; release by the holder; undisturbed, an ended saga holds nothing | 2.28 M |
| `Outbox_safety` | 2 events, 2 relays, batch 2, 3 attempts, 1 failed statement, 1 crash, 1 lapse, 1 re-drive | duplicates and dead-lettered deliveries have causes; nothing stranded; a swallowed refusal is terminal; claims exclude; retries only grow; implements `OutboxPromise` | 584 k |
| `Outbox_live` | 2 events, 2 relays, batch 1, 2 attempts, 1 each of failure, crash, lapse, fairness | every event is settled | 212 k |
| `Publish_safety` | 2 channels, 2 slots, 2 sagas; a single, with one saga in schedule mode, **one** fault of any kind and 2 edits, or a thread of 1 with one fault or one edit; 2 attempts, 1 saga retry | types; a promoted post went out or has an excuse per channel; duplicates have causes; a failed job did not publish; undisturbed, a saga fails only for a failed job or beside a saga that published the post; a deletion is final; a recorded success stays | 2.57 M |
| `Publish_live` | 2 channels, 2 slots, 1 saga with 1 retry, thread, 1 fault, fairness | every saga and every job ends | 307 k |
| `Bulk` | 2 rows, 2 slots, 2 attempts, a sweep of 1 a tick, up to 2 posts a row, **two** faults of any kind, fairness | types; one post a row; none scheduled twice; the manifest's SCHEDULED and FAILED are honest; the batch completes honestly; endings are final; every row ends, while a tick of the sweep can hold all unresolved dead letters | 1.21 M (`FirstHit`) |
| `SagaBad_hung`, `PublishBad_thread`, `BulkBad_failed` | the smallest instance each | a violation each; section 5 | |

Why these are enough. Two compensable steps give a walk a middle; one step each at
and past the pivot gives both boundaries; two relays and two events give overlap
and an aborted batch. One fault at *every* await, against all five threads, is what
distinguishes the recovery paths; two independent faults mostly reach documented
non-guarantees. A worker's event is not a fault and comes on top of it, for it is what
meets a saga that a crash has parked. `Bulk` has two faults, because a row is lost only by
one to its event *and* one to its job; and a tick of one against two rows is the smallest
sweep that cannot take all there is. In `Lock_safety` lost connections and crashes draw on one budget of one. Two channels are what a shared thread takes, two attempts what a retry
takes, two sagas what a retained job id or a wait at the lock takes, two edits a deletion and a
restore (with a thread one edit or one fault is enough, `CONSTRAINT Edits`: what a deletion
does to a job, beside a fault or alone, does not depend on the rendering). `HeapAssumption` says the heap cells (7) never run out: TLC
evaluates it on every run. Sagas and relays stop in the end, so deadlock is not
checked. Symmetry is used for lock keys, sagas, events, relays, channels and slots, in runs
without liveness only. `Bulk` has liveness, so it breaks the symmetry of its rows by hand:
`ACTION_CONSTRAINT FirstHit` makes the first fault hit one chosen row. The module, its
fairness and its properties say the same of every row, so a behaviour that breaks one has,
with the rows' names exchanged, a counterpart among those that are left.

### Fairness

- `Saga_live`: each thread that can run does (the event loop), the scheduler
  re-runs the checker and the retry scan (`setInterval`), a dead process is
  restarted (the deployment's job, assumed by the boot pass), each horizon comes.
  Fairness is weak, per thread; nothing is assumed of steps' answers, operators,
  or events. Pivot 1 leaves one compensable step, so no walk is entered with an
  undo to run: an undo that fails for ever does *not* lead to an ending once the
  row is untracked, which is the finding of `SagaBad_hung`.
- `Outbox_live`: each relay polls and goes on with what it claimed, backoffs end,
  leases run out.
- `Publish_live`: the engine's polls and retries of a saga that has started, each
  worker slot, and the queue's stall check where the holder is dead. Providers owe
  nothing: they may refuse for ever.
- `Bulk`: the relay, for each event; the workers, the callbacks that have started and the
  stall check where the holder is dead, each as a whole. The sweep is fair as a whole and
  over *no row in particular*: its query has no order. Operators owe nothing. That is why
  `EveryRowEnds` asks that in the end no more dead letters are unresolved than one tick
  takes; without it the property is false (`StuckRowsAreRedriven`, section 5).

## 4. Theorems

For every value of the constants that satisfies the named assumptions.

**SagaEngine_proofs.** Assumed: `StepsAssumption`, `HeapAssumption`,
`AllowedAssumption`, `OvertakesAssumption`. `TypeOK` is not inductive, because a
thread's step is only well typed where its reference is: `IInv` adds `ThreadsOK`:
- `RefOK`: a thread with an outstanding write, or at a point that works on its copy,
  holds an object;
- `StepOK`: a step is run and settled only while one is left;
- `ReopenOK`: a write that may leave an ending is an operator's or a pass's turning back.

`Invariance`, `TypeCorrect`, and `EndingsFinal` (`EndingsAreFinal`: a row that shows an
ending is changed only if it is FAILED, by a turning back that asked to replace FAILED,
whether an operator's or that of a pass whose copy the checker had marked) follow,
with one lemma per group of actions. Lemmas about `Memory`, `Request`, `Leave`,
`Done` carry the heap argument: garbage collection never blanks a cell somebody holds.

The same module goes on to `ControlKept`, with `CInv == IInv /\ Order`: a thread's label, its claim, its
outstanding write's kind and the object it holds agree; a dead process holds nothing; a
parking, a boot's re-warm or a drain means a crash or a drain has been; the walk's steps
are below the pivot. Other steps are taken apart here once (`RequestEffect`,
`FreedEffect`, `LeaveEffect`), and fault counts only grow (`NextGrows`).

Three modules go on from there, each with the last one's invariant as its ground.

**SagaRecords_proofs.** A *set* of copies `G` is kept when every place that holds one
does (`CopiesIn`) and each of the engine's changes stays within it (`Keeps`);
`NextCopies` proves that for any `G`. With `G` the `Sound` copies (steps behind the
cursor are those recorded as succeeded, and are in the world; COMPLETED means all of
them) this is `RecordsHonest`, for every fault and operator request. What failSaga puts
back (`WasOK`) is the part that is not about one copy. `ParkedLeftAlone` rests on
`Parking`: nothing the checker or the drain may still write is a row the retry scan's
query would take. It ends where an operator or a worker's event comes (section 5).

**SagaDirection_proofs.** `DInv == RInv /\ (Steady => Dir)`. `Steady`: no database call
has failed, no operator has acted, nothing was drained, no pass has written over a failure
(section 5, `OnlyTheOperatorReopens`); and, where the pool may serve writes out of order, nothing
has crashed. Crashes (on a connection that keeps order),
lost cache writes, worker events, horizons and failing steps are in any number. Without
these conditions the properties are false, which TLC shows on the instances of the runs
(section 5). `Dir` is what has to be known of *every* write under way and *every* copy:
- `TurnedBack`, `Turning`: once an undo has run, or a walk is asked for, the row says so,
  the pivot is not out, and no pass is past its opening;
- `PassAbreast`, `ReadAbreast`, `TrackedAbreast`, `RowAbreast`, `OneCopy`: once the pivot
  may be out, every copy a pass could go on from knows it, or the write it opens with
  comes after one that ends the saga (`Doomed`);
- `ForwardWrites`, `BackWrites`, `EndWrites`, `Settling`, `InMemory`, `Rewarming`: which
  statuses the outstanding writes may still give the row, read through the shared object
  while they have not been sent (`Will`).

One lemma per action shows that it keeps `Dir`; two of them (`AsksDir`, `RestsDir`) carry
what every request for a write and every end of a turn have in common. From `DInv`:
`StepsRunOnCleanGround` (`NoStepOverUndoneState`), `NothingUndonePastPivot`
(`PivotIsFinal`), `UndoneOnlyWhenTurnedBack` (`UndoNeverOverForwardRow`),
`CompletedHonest` (`CompletedIsHonest`, with `Sound`), the action property
`NoTurningForward`, and the refinement `StatusImplemented`.

**SagaUndo_proofs.** `UInv == DInv /\ (Steady => Recall)`. That no undo is repeated is not
inductive: the walk joins the row's record to its copy once, when it starts, so what has to
be known is where a recorded undo can be lost *between* walks. `Recall` says:
- `Within`, `Outliving`: no copy in memory knows of an undo beyond what the row records and
  the running walk's copy knows, and the copies that outlive a walk (the tracked one,
  Redis's, the checker's) know of none the row does not record;
- `Covered`, `Persisted`: a walk's copy never knows less than the row, and between two
  writes knows no more, so its next undo is not a recorded one; `WalkWrites` ties what it
  sends to what it knows;
- `Clean`: a saga going forward has nothing recorded as undone;
- `RowKeeps`, `Overlaid`: where writes are served in order, none takes a recorded undo from
  a row still to be walked. The one write that would is the checker's of a copy loaded
  earlier: while it is out, the advancer's waits behind it and shares its copy.

`NextCopies` with `G` the copies within a given record does most of the work, with a lemma
per kind of turn and write. `ResumesRepeatNothing` (`ResumeRepeatsNoUndo`) follows.

The same module goes on to why a saga failed: `FInv == DInv /\ (Calm /\ Early => Blame)`,
where `Calm` is `Steady` with no crash and `Early` says that the saga's own horizon is
ahead (it never comes back, so once it has passed `FailureHasACause` holds for good).
`FailureHasACause` is not inductive, because the row fails by a write asked for long
before. `Blame` says that every copy that reads FAILED or COMPENSATING, in the row, in
Redis, in memory or under way, has recorded a failed step (`Charged`), and what that needs:
- `Accused`: a pass asks for its turning back, or its failing, over a copy with a failed
  step, and the row and the tracked copy have it by the time that write may land;
- `PassOpen`: no ending overtakes a pass, so the copy it answers for is the tracked one;
- `TurnedForCause`, `WalkEnds`: a saga that has turned back stays tracked until its walk
  has written the end, so what a walk loads, and may put back to COMPENSATING, is a copy
  that knows;
- `ChecksItsOwn`: before the horizon the checker fails only a saga that has turned back,
  on a private copy of the row.

`ChargedKept` shows that each change of a copy stays in `Charged`, `NextCopies` does the
rest for the copies, and one lemma per kind of turn keeps the others. `FailuresHaveCauses`
follows, for any number of worker events, lost cache writes and retries, in either order
of the writes.

**SemanticLock_proofs.** `IInv == TypeOK /\ Named /\ Orderly`: a saga that has not ended
and is past a key or on the way past it, and has not lost it to a TTL, is named by it
(`Named`); only an ended saga is being released, and a pass asks for one key (`Orderly`). Nothing is said of the keys an ended saga still works behind: the release may
have given them to another. `Exclusion` and `HoldersRelease` follow, for any number of
sagas, keys, errors, crashes and expiries. `LInv` adds where a saga's locks are listed
(`Listed`: in its holder set, under the key it asks for, or in what it is releasing), as
long as no bound has been drawn on and for sagas not in `raced`, whose acquire and release
overlapped: `NothingLeftLocked` (`EndedHoldsNothing`).

**Outbox_proofs.** Assumed: the relay's retry budget is at least 1 and no larger than
the column's (`RetryAssumption`; with a larger one a row could be stranded).
`IInv` says that an event nothing has happened to (`Untouched`: not in `excuse`) is
in one relay's hands at most, open under a live claim, and delivered only if it is
published or that relay is about to publish it. From it `TypeCorrect`,
`DuplicatesCaused`, `DeadLettersHonest`, `Unstranded`, `Swallowed`. `KeptOK`,
inductive relative to it, drops crashes and failed marks from the excuses:
`ClaimsExcluded` and `RetriesKept`. `PromiseKept` is the refinement: every step maps
to a step of `OutboxPromise` or to a stutter.

**BulkSchedule_proofs.** Assumed: `NoneAssumption`, `BoundsAssumption`. The properties
are not inductive, because each blames a ghost only after the harm is done; `IInv` says
what holds of a row *before*:
- nobody blamed (`AloneOK`, rows not in `overlap`): one attempt at most, it holds the job,
  what it carries is what the item says, and a scheduled post is the one the item names;
- no lost record either (`OnceOK`): at most one post, which the item names or the attempt
  is about to write there;
- nor a forgotten job (`ClosingOK`): a row that ended has a finished job, no callback still
  to come, or an attempt with nothing left to do; and a scheduled post is on record or
  about to be;
- `CountsOK`: whoever found no other row pending is right until it commits, because rows
  only stop being pending.

`RowKept` and `RowsKept` are the frame (a step at one row leaves what the others say);
`AttemptStep` reduces an attempt's step to what changes at its row; then one lemma per
action. `TypeCorrect`, `OnePost`, `NotTwice`, `ScheduledHonest`, `FailedHonest`,
`Completed` and the action property `EndingsKept` follow, for any number of rows, slots,
attempts and faults.

**PostPublishing_proofs.** Assumed: `NoneAssumption`, `BoundsAssumption`. Again the
properties blame a ghost, and `IInv` says what holds where nothing is to blame:
- `ChannelsOK`, for a channel not in `excuse`: one attempt at most, and it holds the job
  (`Alone`); before the provider's call nothing is out (`Fresh`); what is out is out once
  and on record, or about to be (`Recorded`); a job ended for a deletion is over, or about
  to be (`Dropped`);
- `RecordsOK`, for every channel: a recorded success is out, and a completed job's channel
  is out, or was ended for a deletion or for a thread found published (`Settled`);
- `SagasOK`: what a waiting step has counted as completed is settled, and so is every
  channel of a saga that promotes and of a published post. Any number of sagas may be on
  their way at a time, for the checker may fail one inside its pivot and so let the next
  past the lock; a channel that is out stays out, and `closed` keeps a channel whose job
  was queued afresh as long as somebody may have counted the job before;
- `CalmOK`: before the first fault and the first edit every active job has its attempt,
  every job a saga relies on exists, a failed saga has a failed job or another saga that
  has published the post (`Caused`), and one that was compensated has another that went
  past the lock.

`AttemptStep` reduces a statement of the handler to what is left to show at its channel,
`PassStep` a step of the saga to what its new state claims. `TypeCorrect`, `Promoted`,
`DuplicatesCaused`, `FailuresHonest`, `SagaFailuresHonest` and the action properties
`DeletionsFinal`, `SuccessKept` follow, for any number of channels, slots, sagas,
fragments, attempts, faults and edits.

Only model-checked: liveness (out of the prover's reach); what happens to
`ResumeRepeatsNoUndo` and to the direction of travel after a failed database call or a
drain, outside the theorems' condition, as far as the runs' single fault reaches; and
- `CompensatedIsHonest`, which is about steps a walk never visits: a copy from Redis may be
  older than the row in what it records as *run*, so a proof has to bound how many cache
  writes were lost since each step;
- `FailureHasACause` after a restart: the horizon is a ghost that a boot clears once it has
  read the row, so after two restarts a FAILED row may name none. `FailuresHaveCauses` is
  for a process that runs on.

## 5. Where code and documents disagree

Three are runs that TLC finds violated; `PROJECT.json` quotes the lines.

- `SagaBad_hung`: the timeout checker fails a saga while its pass turns back, through
  the same object. The pass puts COMPENSATING over the checker's FAILED before the
  checker's write reads its columns; that write commits COMPENSATING, and the checker,
  told it succeeded, stops tracking the saga. The walk goes on untracked; an undo
  fails; no horizon is asked about that row until a restart.
- `PublishBad_thread`: `Thread.postId` is unique, so the second channel of a threaded
  post meets the first channel's rows. Once those are PUBLISHED its job ends "Thread
  already fully published" with no call to its provider, and the post is promoted.
- `BulkBad_failed`: the post is scheduled, the write of the item fails, and the job's
  retry is refused by the domain because the post is SCHEDULED: the row reads FAILED.

The others are stated as definitions beside the properties, and are violated in runs
of the same shape when they are checked:

- The checker marks the shared instance FAILED while the pass awaits the write of its
  exhausted step. The checker's write or the pass's commits FAILED, and the turning back
  that follows sees an instance that reads FAILED and asks to replace it: the row leaves
  its ending with no operator (`OnlyTheOperatorReopens`; `SagaManagerExecution.ts:893`
  against its comment at 885-889). Where the pass's write came first, the checker's, refused
  by that ending, puts the shared copy back to RUNNING and stops tracking it, and the
  reopening write may commit RUNNING: a row neither tracked nor armed for a retry until a
  restart. So `EventuallyEnds` is content with a saga that has ended once
  (`recorded.reopened`).
- `handleEvent` does not look at `parkedAt`, so a worker's event that comes late advances
  a saga that a boot has parked for the operator (`NothingAdvancesParked`;
  `SagaManagerLifecycle.ts:1082` against `docs/security/MULTI_TENANT_GUARDS.md:1095`).
- The checker fails a saga whose pass is inside the locked step and releases its locks;
  another saga is let past, and both work on the aggregate (`NoTwoAtWork`;
  `SagaManagerExecution.ts:1497` against `SemanticLockPort.ts:4-5`).
- `acquire` never compares the holder, so the retry of a locked step is refused by its own
  saga's lock (`RefusedByAnother`; `RedisSemanticLockStore.ts:43` against
  `SemanticLockPort.ts:18-19`).
- Two dead letters and a tick that takes one: the query has no order and nothing resolves
  what it returned, so it may return the same row for ever; in the code fifty old dead
  letters hide a new one (`StuckRowsAreRedriven`;
  `BulkScheduleReconciliationService.ts:101` against lines 3 and 159-160, and recorded in
  `MASTER_PLAN.md:811` as DEF-112).
- A compensation whose first write failed is walked all the same, so an undo runs
  while the row reads RUNNING (`UndoNeverOverForwardRow` with failed writes;
  `SagaManagerExecution.ts:711` against `saga-compensation-integrity/spec.md:66`).
- An operator's re-drive persists the copy it loaded without merging the row's
  compensation record; a recorded undo is dispatched again (`RecordedUndoIsNotRepeated`;
  `SagaManagerLifecycle.ts:964` against the same spec, line 182). From an older copy
  still, a step recorded as done can be left out of the walk, which is why
  `CompensatedIsHonest` speaks of sagas no operator re-drove.
- The drain hands a saga whose tracked copy reads RUNNING back as PENDING and overwrites
  a row that has just turned back (`NeverTurnsForward`; `SagaManagerLifecycle.ts:1179`
  against lines 53 and 85 of the spec).
- The checker mutates the object a pass is writing; the pass's write commits FAILED
  without the FAILED event, and the checker's own is refused (`EndingsAreAudited`;
  `SagaManagerExecution.ts:1549` against the comment at 1675).

What the proofs assume is what TLC shows to be needed, on instances of the shape of
`Saga_faults` with one more fault or a retry:

- A begin-compensation write that fails, and then a crash: the walk has undone steps
  under a RUNNING row, and the boot resumes it forward (`NoStepOverUndoneState`,
  `CompletedIsHonest`; with a retry left, a failed write alone is enough).
- Where the pool overtakes, a crash: a boot's slow re-warm lands after a pass that has
  turned the saga back (`UndoNeverOverForwardRow`, `NeverTurnsForward`,
  `ImplementsSagaStatus`).
- An operator: a FAILED saga past the pivot may be re-driven (`PivotIsFinal`).
- A pass that writes over a failure (`OnlyTheOperatorReopens`): what the reopening write commits
  may be the RUNNING that the checker has put back (`ImplementsSagaStatus` exempts what
  follows such a write, and `Steady` excludes it).
- A boot after a parked saga has timed out clears `parked` from `late`, and with it the
  cause of the failure: `FailureHasACause` is for sagas that are not parked.

Seen while modelling, with no property of their own:

- A relay that has outlived its lease clears the next holder's claim, which is why
  `ClaimsExclude` and `RetriesOnlyGrow` end at the first such lapse of a row.
- `CompensatedIsHonest` holds while few Redis writes are lost (`Saga_faults` loses one,
  and runs with three pass). When Redis is down for a whole forward run, five writes
  here, and the timeout checker's write then commits COMPENSATING, the saga is untracked
  before its walk starts; the walk loads the copy of the cache, which has not seen the
  step, finds nothing to undo, and the row ends COMPENSATED over a step it records as
  done. No theorem states it for that reason.
- A failed write on some paths leaves a saga's row that this process no longer tracks,
  so `EventuallyEnds` of `SagaEngine` is claimed without failed writes.
- A saga in schedule mode ends COMPLETED when its jobs are enqueued, and nothing
  promotes its post later (`packages/shared/src/saga.ts:990`).
- The saga's jobs name no provider, so the handler's default `x` publishes them all
  (`publishHandler.ts:724`).
- BullMQ keeps finished jobs: a second saga of a post is answered with the first one's
  job. If that had failed, the second saga fails without an attempt.
- A crash between the handler's decision to end a job for a deletion and BullMQ's record
  of it lets the redelivery publish after a restore (`excuse` in `DeletionIsFinal`).
- Nothing but an operator resolves the dead letter of a bulk row, so the sweep enqueues
  it again each time the queue has forgotten the job (`forgotten`).
- A lock that a pass takes beside the checker's release, after its SMEMBERS, stays in
  Redis until its TTL: the pass that yields to the ending releases nothing (`raced`).
- A saga refused at the lock may wait through another's whole publish and then fail at
  the pivot's re-read, with no job of its own (the second disjunct of
  `SagaFailureIsHonest`).
- A row whose callback was lost has no dead letter, and the sweep, which
  `docs/features/bulk-scheduling-redesign.md:197` means to recover it, does not see it
  (`lost` in `EveryRowEnds`).

## 6. Not modelled, and why

The modules cover the code whose correctness depends on order. Most of the repository's
lines are elsewhere: HTTP routes, use cases that are one transaction each, UI, generated
types and tables, provider clients, scripts and seeds. They hold little state of their
own and no interleaving that a transaction does not already order; a model of one would
restate its guards. The map therefore names a small share of the lines, and is meant to.

- Circuit breaker: the states and counters are the opossum library's, which is not in the
  repository; the code here keeps a registry and its callers pass no fallback.
- Dead-letter queue: only ever written.
- Background scheduler: a map of timers. What depends on it is stated as fairness.
- Integration events: the second path has no publisher in the API's wiring.
- Saga tenant resolution: which account a row belongs to, with no step of its own but the
  terminal write `failSagaAsSystem`, which has the shape of `failSaga`.
- Event store and projections: the append is part of the saga's durable write.
- Mention ingest: polling of providers.

## 7. Plan

Done, in this order: SagaEngine, SagaStatus; SemanticLock; Outbox, OutboxPromise;
PostPublishing; BulkSchedule; the theorems of section 4. What would come next:

1. Two posts' sagas against one drained process, and `failSagaAsSystem`, in `SagaEngine`.
2. An abstract promise for `PostPublishing` (a channel is at most once out, where no
   fault falls between publish and record) and its refinement.
3. Proofs: `CompensatedIsHonest` of `SagaEngine` under a bound on lost cache writes; the
   direction of travel and the undo record through failed *reads*; `FailureHasACause`
   across restarts, with a cause that outlives a boot.
