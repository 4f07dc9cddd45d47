# Watukuy in TLA+

Watukuy polls APIs and turns what it finds into ordered, at-least-once events. This directory
holds TLA+ modules that model it, TLC configurations that check them on small instances, and
TLAPS proofs for instances of any size. Source paths below are relative to the repository.

## 1. The system

| Component | State | Operations | Talks to |
|---|---|---|---|
| **State store** (`src/core/store-types.ts`; memory, SQLite, Postgres, Redis under `src/stores`) | per `(poller, partition)`: lease and epoch counter, poller state (lane cursors, schedule, sequence, paused), item snapshot, outbox, parked rows, validators, log | acquire/renew/release the lease, `saveState`, `commitPoll`, `loadPending`, `ackEvents`, `recordAttempt`, `parkEvent`, `retryParked`, `discardParked`, `heldKeys`, `readLog`, `streamIdentities`, `clearItems`, `deleteKey`, `pruneLog` | called by runner, dispatcher, keeper, engine; every write of a run is fenced by owner and epoch |
| **Runner** (`src/core/runner.ts`) | in-memory cursor, sequence, state copy of one run | `runKey`: lease, re-read, drain, live, reconcile and backfill cycles, release; `runCycle`: fetch, diff, commit, drain, renew per page | store, dispatcher, keeper, HTTP client, cursor strategies, scheduler, hooks |
| **Dispatcher** (`src/core/dispatcher.ts`) | blocked groups, load window, worker queue of one drain | `drainOutbox` | store, consumer |
| **Lease keeper** (`src/core/lease-keeper.ts`) | timer, `lost` flag | heartbeat renewal, abort of the run when the lease is gone | store, runner's abort signal |
| **Engine** (`src/core/engine.ts`) | `nextDue`, `inflight`, timer, status | daemon loop, `tick`, `trigger`, `pause`, `resume`, `backfill`, `replay`, `resetCursor`, `parked.*`, `partitions.*`, `stop` | runner, store |
| **Scheduler** (`src/scheduler`) | persisted schedule | adaptive interval, pacing, backoff, circuit breaker, throttling | runner, engine |
| **Budgets** (`src/budget`) | token buckets, fair queue of waiters | `acquire`, `pump`, deadlines, aborts | HTTP client |
| **HTTP client** (`src/http`) | validators per URL | conditional requests, rate-limit headers, composed abort signals | runner, budgets, store |
| **Cursors** (`src/cursor`) | none | `initial`, `forFetch`, `advance`, `reached` per strategy | runner |
| **Diff, ids** (`src/diff`) | none | duplicates, created/updated/unchanged, deletes, deterministic ids | runner |
| **Consumers, sinks** (`src/core/consumers.ts`, `src/sinks`) | one event in flight, queue, puller | handler calls; backpressured iterator; signed webhooks | dispatcher |
| **OpenTelemetry** (`src/otel`) | open spans, circuit gauge | hooks | called by the runner |
| **NestJS** (`src/nestjs`) | the engine of an application | discovery, bootstrap, health, shutdown | engine, store |
| validation, poller definition, CLI, testing kit | configuration and glue; a virtual clock | | |

What is hard here: several instances share a store and are told apart only by a lease that may run
out under them; one instance may overlap with itself; every `await` between reading and writing is
a point where a crash, a takeover or an operator's call may happen; operators write without the
lease; workers outlive the drain that started them when a sibling throws; event ids repeat when an
item returns to an earlier value; the load window is finite; readers resume from a position in
something that changes. What makes each part correct is the list of guarantees G1 to G10 of
`docs/guarantees.md`; the hazards of `PROJECT.json` say where in the code each is at risk.

## 2. Modules

The core, with events and several instances:

* **`StateStore`** has the store's record for one key as variables and one operator per store
  method, translated from `memory-store.ts`. Maps keyed by event id are sets of rows, `Put`
  replaces by id. An event id is a record of item, version and type: as in the code, it has no
  sequence number. The lease has a `live` flag in place of `expiresAt`: the code compares the
  clock with `expiresAt` in `acquireLease` only. The poller state keeps the live cursor, the
  sequence and `paused`.
* **`Dispatcher`** is `drainOutbox` for a set `Run` of runs. `pc` says which `await` a run is at
  (`load`, `held`, `work`), `work[r][k]` what the worker of group `k` is doing (`queued`, `next`
  row, handler `delivered` or `failed`). Each store call and each handler call is an action. A
  worker that throws ends the drain, while the others go on (`WorkerThrows`), as with
  `Promise.all`.
* **`Runner`** composes the two with `runKey` and the live lane of `runCycle`: `Begin` (pre-check
  and `acquireLease`), `ReadState`, `Drain`, `Fetch`, `ProcessPage`, `Commit`, `Renew`,
  `SaveState`, `ReleaseRun`, and the failure paths `StepThrows`, `SaveFailure`,
  `CommitAnswerLost`, `ReleaseFails`, `AbortCycle`, `OpenCircuit`. Around it are the API (`Change`
  appends to a change feed), time (`Expire`, `Beat`), process ends (`Crash`), `StopEngine` and the
  operators (`Pause`, `Resume`, `OperatorRetries`, `OperatorDiscards`).

The store contract and the databases:

* **`StoreContract`** is the abstract specification of a store: the record of one key changes in
  whole operations only, fenced ones under the lease current at that moment. Its operators are
  those of the memory store, which runs each without interruption.
* **`SqliteStore`**, **`PostgresStore`**, **`RedisStore`** are the statements, transactions and Lua
  scripts of concurrent callers, and each is shown to implement `StoreContract` by a refinement
  mapping (`MCStores`; `SqliteProofs` and `StoreProofs` prove it): the committed tables of SQLite and
  Postgres, and for Redis the rows its readers decode from index, row hash and counters. In `SqliteStore` one
  operator stands for each statement of a transaction (`Run`), a transaction works on a copy of the
  committed rows behind the write lock, and `LeaseRow` and `StateRow` are the lease and the state
  that the contract sees. In `PostgresStore` a transaction's writes stay
  with its connection until `Commit`; what orders transactions are the row locks that `FOR UPDATE`,
  `INSERT`, `UPDATE` and `DELETE` take. The `DELETE` of `clearItems` removes the rows that were
  committed when it began: it is a step that begins (`ClearItems`) and one that ends (`ClearRows`,
  which waits for locked rows), and what commits in between (`Overtake`) is not among its rows, so
  that the contract of this store has a clear that leaves such items (`LateClear`). The other
  statements on several rows are whole steps: nobody but the holder of the key's row, or the operator
  himself, can add to their rows, and `pruneLog` leaves the newer ones alone. In `RedisStore` a script is one step and an operation of
  several commands is several.
* **`Hosting`**: replicas of a NestJS application over one Postgres database, with the bootstrap and
  shutdown hooks of `module.ts`, the health check, and the store's migrations on demand
  (`ensureReady`, `applyMigrations`, `close`).

Readers that resume from a position:

* **`FullScan`** is one lane that lists everything: the reconcile lane, or the live lane of a
  `snapshotDiff` poller. `Start` takes the lane's cursor up, `Fetch` and `NextOfIterable` get a
  page (and store its validator), `CommitPage` is `processPage` and its commit, `AfterPage` and
  `Deadline` what follows the drain, `Deletes` the end of a whole listing, `SaveState` the
  bookkeeping; `EndEarly` is a crash or any error, `Abort` a stop. Where `Runner` looks at who may
  write, `FullScan` looks at what a scan may conclude: one run at a time works on the key, and
  events are not modelled (a delete is the row leaving the snapshot, which is the same commit).
  The listing is stable: an item that exists is always on its page. `ScanParameters` has its
  constants.
* **`IdentityStream`** opens the step `Deletes` of `FullScan`: the snapshot is streamed in pages as
  each store does it, versions are loaded in chunks and the deletes committed, while an instance
  that took the lease over writes or an operator clears the snapshot.
* **`Keyset`** is the timestamp cursor in its cycle: watermark, tie-break, lag, overlap, a watermark
  the API names, single pages or an iterable, over an API whose changes are stamped when their
  transaction begins and listed when it commits.
* **`Replay`** is `replay()` with its lease, its pages of the log and its sequence numbers, beside
  runs of its own and of another instance.

One process around a run:

* **`Engine`** is the daemon: overlapping calls of `loop()`, microtasks, the timer, partitions that
  come and go, `start`, `stop` with its timeout, `trigger`, `pause`, `resume`, `partitions.remove`.
  Due times are "due" or "later"; an armed timer may fire at any moment. A refresh of the partitions
  may be refused or fail half-way (`PartlyRefreshed`), which rejects the `start()` or `loop()` that
  awaits it (`StartFails`, `LoopFails`), and a run may never end (`Hang`).
* **`Lanes`** is one key's live, reconcile and backfill lane: which cycles a run makes, what each
  stores from the copy the run read, and `trigger`, `backfill` and `resetCursor`, which read,
  compute and write without the lease. A cursor is the number of the last item taken.
* **`Scheduler`** has the pure functions of `scheduler.ts` as operators on integers (rounding and
  jitter included) and drives them by an API that limits the rate and says so. A live cycle (`Poll`
  to `Succeed`, `Throttled`, `Fail`, `Halt` or `Abandon`) makes up to `CycleRequests` requests
  (`Fetch`), which nothing paces, and the other lanes make theirs (`FetchElsewhere`).
* **`LeaseKeeper`** is the heartbeat against a clock, with slow, refused and unanswered renewals.
* **`Subscribe`** is the iterator between the dispatcher and a `for await` loop; **`WebhookSink`**
  one event's attempts through the webhook handler, its composed signal and its receiver.
* **`Telemetry`** is the span and gauge bookkeeping with the runner's order of hook calls, over a
  stored circuit that an earlier process may have left open and other instances change
  (`RunElsewhere`, `LoseLease`); **`Tick`** one serverless pass, in which each key it runs adds up to
  three entries, one per lane; **`Wiring`** what a NestJS application attaches to an engine, with
  wrappers, instances, their classes, and factories; **`VirtualClock`** the clock of the
  repository's tests.
* **`TokenBucket`** is the bucket of `src/budget/memory-store.ts` (and of the Redis script), with
  takes and peeks by any number of processes; it is also the abstract specification of what a
  budget promises. **`Budget`** is the manager of one process over that bucket
  (`src/budget/manager.ts`): `pc` says whether the grant loop awaits the store, `Execute` is the
  store's side of a take, and calls, aborts, deadlines and wake-ups interleave with it. The manager
  implements `BucketSpec`.

`MCRunner`, `MCFullScan`, `MCScan`, `MCStores`, `MCBudget`, `MCDaemon` and `MCPaging` instantiate
them for TLC. `MCScan` (both kinds of fetch), `MCStores` (the databases and their hosting),
`MCDaemon` (what surrounds a run in one process) and `MCPaging` (the schedule and the readers that
resume) hold several parts: a behaviour chooses one in its first state and takes only its steps, so
that one run checks them all and their state spaces add up and do not multiply. `RunnerProofs`,
`DeliveryProofs` (which extends it), `SqliteProofs`, `StoreProofs`, `FullScanProofs`,
`TokenBucketProofs`, `DaemonProofs` and `PagingProofs` hold the theorems.

Some variables are history, which the code does not have and the properties need: `invoked`,
`handled`, `retried`, `dropped`, `mishaps` of `Runner`; `during` of `FullScan`; `since`, `spent`,
`passed` of the budget; `committed`, `skipTo`, `seen`, `wanted`, `quiet` of `Lanes`; `until` and
`calm` of `Scheduler`; `rejected` of `Engine`; `unheard` of `Telemetry`; `visits` of `Tick`; `late` of
`PostgresStore`; `expected`, `replayed`, `queued` of `Replay`; `stable`, `ever`,
`lost` of `IdentityStream`; the counters of calls. Definitions whose comment starts with "Mutant"
are deliberately wrong variants of the definition that follows them; no specification uses them, and
substituting one for its original makes the property named for it in `PROJECT.json` fail.

Abstractions: the payload of an event; in `Runner` the schedule (a run may start whenever the key is
not paused, a row that was attempted may or may not be due); the poller keeps the replay log, so
`log` is every event ever committed; `ordering key = item identity` (the default). Tokens, costs,
weights and times are integers. In `Budget` requests, aborts and peeks arrive, and answers and
timers are late, until `SlowUntil`; from then on time waits for what is due. In `Scheduler` a
jittered value is any integer of its range.

## 3. Runs

Bounds: `MaxFeed` changes, and `MaxMishaps` for everything that goes wrong or that could repeat
for ever (crash, expiry, a handler or a store call that fails, abort, pause, an operator's call,
a poll with nothing to do). Two versions are enough for an update to overtake a creation; two runs
for a stale and a fresh holder; with two mishaps one can make a run stale and the other strike the
stale or the fresh one. Deadlock is not checked: when feed and mishaps are used up and all is
delivered, the system rests, and the other parts end at their bounds on time or calls.

| Run | Instance | Shows |
|---|---|---|
| `takeover` | 2 instances, 1 item that goes back to earlier values, 4 changes, window of 1 row, 2 mishaps | G1, G3, G4, unique sequence numbers, and no repeated id swallowed, when the lease changes hands anywhere |
| `overlap` | 2 runs of one instance, `halt`, fairness, 1 mishap | fencing (G5) when an instance takes its own lease over; every change is committed, every event settled |
| `fanout` | 2 items, 2 workers, 4 changes, 2 attempts, window of 2 rows, 2 mishaps | order between several workers; a window full of held rows starves nobody |
| `scan` | 2 items on 2 pages; single pages, invalid contents rejected, 304 answers, 2 mishaps, or an async iterable, fairness, 1 mishap | a scan that deletes deletes nothing that stayed listed and leaves nothing stale; the iterable's snapshot becomes the listing |
| `stores` | 2 engines and an operator, 1 item (2 items and 3 batches in Postgres), 5 calls; 2 replicas, 1 lost connection | each database store implements the contract; reads of several commands agree; tables exist before they are used |
| `budget` | 3 calls, 2 requesters, 2 lanes, either fairness, a cost above the burst, deadlines, 1 store error | the manager implements the bucket, loses no wake-up, keeps turns, settles every call |
| `daemon` | nine parts, bounds in `MCDaemon.cfg` | what one process does around a run |
| `paging` | 5 time units of polls of up to 3 requests against an API that allows 3 in 4 units, 3 failures in a row; 2 items that change at 5 times, lag, overlap, iterable; 4 identities in pages of 2; a log of up to 4 entries in pages of 1 | the schedule keeps to its bounds, to the quota and to Retry-After; resumed readers skip nothing, repeat nothing |
| `scanstop`, `subscribe`, `backfill`, `rescan` | one part each | the findings below |

`takeover` is cut off (`Explored`) where both the last change has come and the last mishap has
happened: either is explored to its end. With both, the disagreement on repeated ids below is
reached.

**Fairness** (`Fairness` in `Runner`): each run's own steps (`RunStep`), because the Node event
loop goes on with a promise that settled; `Begin` while there is something to do, because the
engine's loop starts every due key and polls repeat; `ExpireOrphan`, because a clock passes
`expiresAt` of a lease nobody renews; `Resume`, because only then can anything be asked for.
Mishaps are not fair, and finitely many. In `FullScan`, `WF(Cycle)`: the steps of a cycle follow
each other, and the lane becomes due again (`reconcile.every`). In `Budget`, `WF(Work)` and
`WF(Tick)`: the store answers, timers fire, time goes on. In `Engine`: microtasks run, awaits of
`loop()` and `start()` settle one way or the other, the armed timer fires, due times come, `stop()`
goes on when its runs have ended, and a run ends unless it hangs. In `Lanes`: a run goes on,
operators' calls go on, due times pass and due keys are run (which `Engine` shows). In `Subscribe`:
the application asks for the next event while it stays in its loop, which is what its promise is
about; an event is tried finitely often, so that in the end none waits.

The bounds of the scans: the page cap is not below the listing, or no scan would ever be whole; a
scan is cut short by the deadline, which takes the same path as the cap. Whether a 304 is met is
free, since loading or storing a validator may fail. Two pages let a scan fail in between, the third
page of `scanstop` is what the code needs to take two pages for the whole. Of the budgets: a period
of two time units makes one token accrue while calls wait; a cost of two with a burst of one raises
the capacity; three calls let one be granted, one expire and one be aborted while a take is under
way. Of `fanout`: a window of two rows and four changes, so that the rows of a parked item fill it and
the other item's lie behind them. Of the stores: five calls let an engine lose its lease between two
of them and the new holder commit, while the operator retries or deletes; the key has its row from
the start (`NewKeys`, see below); with two items one commit changes one and creates the other, and
a clear that waits for it removes the first only. Of the daemon: two overlapping calls of `loop()`
and two timers; one key suffices for the races of a key with itself, and the theorems hold for any
number of keys; three changes or failures, so that a rejected `start()` is followed by a trigger
and another mishap; three events of which two
wait while one is in the loop's body; a time to live of seven heartbeats' units, room for three lost
renewals; two definitions of one name, and two instances of one class besides another. Of the
schedule: one cycle that uses the quota up and the next one within the window. Of the
telemetry: two cycles, enough for one to be left open and the next to supersede it or to be lost
beside it, with any number of changes of the circuit between and before them. Of the readers: pages smaller than what is listed at one timestamp, a lag above delay plus
latency, and one or two writes between two pages.

**Properties.** Core: `NoEventLost` (G1), `CursorSound` (G4: snapshot and log agree with the feed up
to the saved cursor), `SequenceUnique`, `SingleFreshWriter` (G5: at most one run passes the fence,
and its copy of the state is the stored one), `DeliveryInOrder` (G3, up to events an operator put
back, `PutBack`, and pending rows that a later occurrence of the same id replaced, `Superseded`),
`RepeatsDelivered` (G1 for repeated ids, up to ids an operator put back), `NoKeyStarved` (G7: a
drain that has run its course leaves a row of a key that is neither held nor failing only if a key
failed in this very drain and rows of held and failing keys fill its window before it),
`EventuallyCommitted`, `EventuallySettled`.

* Scans: `NoFalseDelete` (a row leaves the snapshot only if its item was absent at some time during
  the cycle), `ScanComplete` (after a whole scan every row is a value its item had during the scan),
  `IterableMirrors` (the iterable's `Mirrors`: the snapshot becomes the listing once it rests).
* Stores: `Contract` (of `SqliteStore`), `PostgresImplementsContract` (with `LateClear`),
  `RedisImplementsContract`;
  `AnswersSound`: `FailsForCause` and `TablesFirst` of the migrations, `PendingSound` (rows Redis
  reads in three commands are exactly pending for a caller that still has the lease) and
  `IndexSound` of its structures.
* Budgets: `RateBounded` (G6: tokens of takes stamped since any moment are at most what the bucket
  can hold plus what the rate added), `BucketSpec`, `QueueSound` (`Attended`: while a call waits the
  loop runs, or a wake-up and the call's deadline timer are set; `PassedOnce`), `EverySettled`.
* Daemon: `OneRunPerKey`; `StaysAwake` (a running daemon falls asleep only by a rejected `start()` or
  `loop()`); `DaemonServes` (`DueKeyRuns`: a key that is due runs, unless the daemon was left asleep;
  `StopReturns`: unless a run it waits for hangs). Lanes:
  `LanesSound` (`LiveCovered`: no lane and no operator moves the live cursor past what was not
  committed; `BackfillSound`; `TriggerPrompt`). `PartsServed` is the liveness of `Lanes` and of
  `Subscribe`. Iterator: `IteratorSound` (`NoneForgotten`, `AckedWasHandled`). Heartbeat:
  `KeeperSound` (`LeaseKept`, `LossNoticed`, `NoStrayTimer`). Webhook: `SinkSound`
  (`AckedWasAccepted`, `NothingLeft`, `TriesVerify`). Telemetry: `TelemetrySound`
  (`SpansAccounted`, `StatusHonest`, `ChildrenAttached`, `GaugeAgrees`: from a transition this process
  told and saved until somebody else changes the circuit or a save fails). Serverless: `PassSound`
  (`PassComplete`: all keys or `timedOut`, and no lane of a key twice; `QuietAtReturn`). Clock: `ClockSound` (`NoneOverdue`, `FiresInOrder`). Wiring:
  `WiredExactly`.
* Schedule: `ScheduleInv` (`IntervalBounded`, `CircuitCounts`), `QuotaKept` (no cycle starts
  when the quota is used up, in a window in which only live cycles send requests, every response has
  headers and nothing but pacing makes a cycle due; so the limit is exceeded by less than the
  requests of one cycle, and not at all with one request per cycle), `RetryAfterHeeded`.
* Readers: `KeysetSound` (`NoneSkipped`: what was not taken lies in the range the next cycle asks
  for; `CaughtUp`; `WatermarkForward`), `StreamSound` (`StreamExact`, when pages and chunks
  interleave with writes; `DeletesExact`, for a pass that nobody wrote beside), `ReplaySound` (`SequencesGrow`, `ReplayExact`).

A property in whose place parentheses list others is their conjunction, with the part's type
invariant; each of the parts has a mutant of its own in `PROJECT.json`.

**Findings.**

1. `scanstop`: stopping the engine after two pages of an async iterable makes `runner.ts:551` take
   the listing for whole, and the rest is deleted, against `docs/how-it-works.md:60`.
2. `subscribe`: a `for await` statement calls `return()` when its body throws, and `return()` acks
   (`consumers.ts:102`), against `docs/delivery.md:114`.
3. `backfill`: a run under way overwrites the lane that `backfill()` wrote (`engine.ts:582`,
   `runner.ts:405`), against `docs/api.md:60`.
4. `rescan`: only the first request of a cycle asks for the overlap window (`runner.ts:430`), so a
   window longer than a page is not fetched again as a whole, against `docs/cursors.md:71`.

**Further disagreements** of code and docs, which the modules reproduce with other constants:

* A retry overwrites a newer pending row of the same id with the old sequence number
  (`memory-store.ts:292`), and the newest change is not delivered last, against
  `docs/guarantees.md:9`: `RepeatsDelivered` without its exception `PutBack`, with reverts.
* An item that returns to an earlier value while that event is still pending replaces its row
  (`memory-store.ts:207`): it is delivered once, after the changes that came between its two
  occurrences, where `docs/guarantees.md:23` promises observation order.
  `DeliveryInOrder` without its exception `Superseded` fails.
* Pacing puts a wait between cycles only: a live cycle makes up to `maxPagesPerCycle` requests, 50 by
  default, one after the other (`runner.ts:413`), the requests of the reconcile and backfill lanes
  are not paced and their headers not kept, a backoff or the probe after a halt is due when it is
  due, whatever pacing said (`runner.ts:295`), and a success without headers stores the old ones
  again (`runner.ts:366`, `:634`), which pace until their window ends. Each of these may exceed the API's
  quota although headers say what is left; `QuotaKept` is what remains.
* A drain whose window is full of a key that fails and waits for its retry returns at
  `dispatcher.ts:212` without widening, against the comment at `dispatcher.ts:86` ("behind a parked or
  retrying key"), and the other keys wait for a later drain. `NoKeyStarved` excepts this case, and
  this case only: held (parked) keys do not starve others.
* `start()` sets the status and then awaits partitions and stored states (`engine.ts:373`); if one of
  these awaits is rejected, the caller has an error, the status stays `running`, a second `start()`
  returns at once (`engine.ts:370`), and no loop is running. `loop()` awaits the same refresh
  (`engine.ts:400`), and its rejection, a malformed list or a store that cannot pause a vanished
  partition, is nobody's to handle (`void this.loop()`): by default Node ends the process; where the
  host keeps it alive, the timer that the call had cleared is not armed again. In both cases the end
  of a run or an operation wakes the daemon (`StaysAwake`).
* `stop()` aborts after its timeout and then waits without a limit (`engine.ts:460`), and closes the
  consumers only after that (`engine.ts:463`), where `docs/runbook.md:106` says that it "aborts what is
  left": a handler that ignores its signal, or `await engine.stop()` in the body of a `for await` over
  `subscribe()`, keeps it for ever (`Hang`).
* `resetCursor(..., { clearSnapshot: true })` clears the items without the lease (`engine.ts:697`). On
  Postgres a clear that waits for a commit removes the rows the commit changed and leaves those it
  added (`postgres-store.ts:533`): half a snapshot, against the whole operation of the other stores.
  `Contract` without `LateClear` fails.
* A request-scoped provider made by a factory is passed over without an error if the factory is an
  arrow or has no decorated methods of its own (`explorer.ts:152`), where the comment at
  `explorer.ts:59` and `docs/nestjs.md:80` have it rejected: its handlers stay unattached. A class
  provided twice has two instances and is refused as two handlers (`explorer.ts:80`, `:121`).
* The gauge tells what this process did: another instance that opens or closes the shared circuit, or
  an earlier process that left it open, is not heard of (`runner.ts:639`, `:706`).
* `parked.retry()` between `loadPending` and `heldKeys` lets a later event overtake the retried one
  (`docs/delivery.md:68`): `DeliveryInOrder` without its exception `PutBack` fails with one run and
  one attempt.
* The validator is stored before the page is committed (`client.ts:183`); a crash in between makes
  later requests 304, against `docs/how-it-works.md:72`: `Mirrors` fails with `Conditional`.
* A reconcile scan that failed between pages leaves its page cursor behind. A `reconcile.fetch` that
  goes by `ctx.cursor` then lists the rest only, with an empty `seen`, and the first pages are
  reported deleted, against `docs/cursors.md:140` ("always from 1"): `NoFalseDelete` fails with
  `FetchBy = "cursor"`. A fetch that goes by `ctx.page`, as the docs show, is not affected.
* A listed item whose content fails the schema is not `seen` and is reported deleted
  (`docs/cursors.md:225`): `NoFalseDelete` fails with `OnInvalid = "quarantine"` or `"skip"`.
* Full scans are bounded by `FULL_SCAN_PAGE_CAP` (`runner.ts:83`, `:422`), not by
  `maxPagesPerCycle` as `docs/cursors.md:163` and `docs/guarantees.md:91` say.
* A bucket with `burst = requests` lets almost twice `requests` pass in one period, where
  `docs/guarantees.md:49` calls `requests` per period a hard cap. `RateBounded` is what holds.
* A lag must exceed the longest transaction plus the time between the API's answer and the moment
  the strategy looks at the clock; `docs/cursors.md:67` names the transaction and clock skew only.
  `NoneSkipped` fails in `Keyset` with a lag of `Delay`. Lag with an iterable fetch skips what the
  lag held back on an earlier page (`timestamp.ts:169`). Tie-breaks are compared as strings
  (`timestamp.ts:178`), which is the API's order only if its ids are.
* A throttle in the reconcile or backfill lane leaves the schedule as it was (`runner.ts:692-721`),
  so it is not waited for, against `docs/how-it-works.md:104`. `Scheduler` models the live lane.
* `saveStateUnfenced` of Postgres locks nothing when the key has no row yet
  (`postgres-store.ts:506`): two first writers can overwrite each other's fields. With `NewKeys` the
  refinement fails.
* `trigger()` during a run is overwritten by the run's own schedule at its end, against
  `docs/runbook.md:12`; `TriggerPrompt` is about keys at rest.
* A drain that halts in the backfill lane marks the backfill done (`runner.ts:533`, `:613`) before
  its target, against `docs/how-it-works.md:115`; `BackfillSound` excepts halts.
* A halted or failed probe leaves the gauge at half-open while the stored circuit is open
  (`scheduler.ts:314`, `otel/hooks.ts:231`); `GaugeAgrees` only tells closed from not closed.
* `VirtualClock.advance()` called inside a callback of another advance can set time back, against
  its comment at `virtual-clock.ts:114`; the model's calls are awaited one after another.
* `docs/nestjs.md:42` says the module does not run `store.migrate()`; `module.ts:350` does. A
  shutdown during that migration stops an engine that is started right after.

Behaviour that is easy to miss and that the modules contain or exclude on purpose: the same owner may
take its own live lease, so a `replay()` or `tick()` beside the daemon fences its run out; `tick()`
rejects while its other workers go on (`QuietAtReturn` is about a tick that returns); `stop()` may
leave runs behind after its timeout; aborted cycles count as failed polls, and leave their span open
until the next cycle of the lane; `deleteKey` starts the epochs again, so that a run that survived
it may share an epoch with a new one (the store modules delete at any time; `Runner` does not); the engine never calls `pruneLog`; a concurrent second `next()` of an iterator
overwrites the first puller; the script behind `retryParked` of Redis moves the JSON that was read
before it (`redis-store.ts:457`, `scripts.ts:222`), so that a row parked again in between under
another number comes back under its old one (the batches of the run have one number for each
event); the entries of `tick()` are up to three for a key, and none for a run that lost its lease or
only drained; a `partitions()` that throws leaves the list as it was; renewals that arrive out of
order may set the expiry back.

## 4. Proofs

`RunnerProofs` and `DeliveryProofs` prove, for any sets of instances, runs, items and versions, any
page, batch and retry numbers, from the assumptions named in the modules (finitely many items,
positive sizes):

* **`TypeCorrect`**: `Spec => []TypeOK`. Not inductive alone: the page in hand must lie inside the
  feed (`PageInFeed`), or the version looked up for an event would be undefined.
* **`AtLeastOnce`**: `Spec => []NoEventLost`. A row leaves the outbox through an ack, a park or an
  overwrite. Parking and overwriting keep the id; for the ack the invariant adds
  `DeliveredHandled` (a row in a worker's hands after `delivered` has been handled), which needs
  `WorkersOutlive` (no worker is busy while a run loads new rows: workers abandoned by a throw
  belong to a run that only fails, releases and ends).
* **`Fencing`**: `Spec => []SingleFreshWriter`. Two runs pass the fence together only if they share
  an epoch, so the invariant adds `EpochsDistinct` (epochs come from the counter, one run each;
  the owner alone does not tell runs apart, an instance may start a second run of a key while the
  first still goes on). `PhaseStarts` (a run that has not read the state has not begun its cycle)
  keeps a run that fails before reading from saving what it never read. The proof sorts the steps
  into calm ones (neither the stored state nor the run's copy changes), fenced writes, which find
  no other copy that could still be written, and the begin and end of a run.
* **`SequencesUnique`**: `Spec => []SequenceUnique`, and **`AtomicCommit`**: `Spec => []CursorSound`.
  Both are about the moment of a commit, so the invariant (`CommitInv`) carries what a run with a
  page knows, under the fence, up to that moment (`PagesSound`): its page starts at the stored
  cursor (`PageAhead`), and its batch is what the page changes against the stored snapshot, numbered
  without gap or repeat above the stored sequence (`BatchReady`). A run that loses the fence may
  hold anything, and writes nothing. That the numbers of a batch are distinct is a fact about ranks
  in a finite set (`ChangedFinite` and the lemmas after it).
* **`OrderPerKey`**: `Spec => []DeliveryInOrder`. A handler is called for a row of a load that may be
  long out of date, so the invariant (`DeliveryInv`) says of every run, stale ones and abandoned
  workers included, what its rows were loaded with: for each of its rows, every earlier event of the
  item is among its rows too, or past, or parked with its key held while the run has not filtered
  held keys yet (`Preceded`). `Past` never ends, whatever others write (`EntriesKept`). The rows of
  the run that passes the fence are the newest of their ids (`RowsCurrent`), so that its ack by id
  takes no other occurrence with it; rows of the same id are parked alike (`ParkedAlike`).
* **`RepeatsArrive`**: `Spec => []RepeatsDelivered`, from `Accounted`: the newest occurrence of an id
  is handled, pending, parked or dropped, or an operator put the id back.

`SqliteProofs` proves, for any processes, items, batches and number of calls (`SqliteAssumption`:
batches are well-formed, names are distinct):

* **`TransactionsIsolated`**: `Spec => []TransactionsSound`. The committed rows are sound
  (`RowsSound`: types; a lease that is held has an epoch from the counter; every row came from a
  batch), and the transaction with the write lock has made of them exactly what the statements it
  has run make (`Stage`), past its fence under its own lease (`InTransaction`). The lease may run
  out at any time during a transaction, which is why every statement is shown to commute with the
  expiry (`RunDark`).
* **`SqliteImplementsContract`**: `Spec => Contract`, the contract being `StoreContract!Spec` over the
  committed rows. `BEGIN`, statements, rollbacks, lost fences and busy waits leave the committed
  rows alone and map to stuttering; each `COMMIT` is one operation of the contract, the four
  statements of `commitPoll` and the two of `parkEvent` included, and a fenced one is made by the
  holder of the lease at that moment.

`StoreProofs` takes the other stores of `MCStores`, for any owners, clients, replicas, batches and
bounds:

* **`MigrationsKept`**: `H!Spec => []MigrationsSound`. Who takes the tables to be there is right
  (`TablesThere`), whoever waits waits for a migration that is under way or was told how it ended
  (`WaitersTold`: `ensureReady` forgets a failed promise in a callback of its own, between which
  and the failure others may ask), and one migration at a time is past the advisory lock
  (`OneAtATime`).
* **`RedisImplements`**: `Spec => Contract` over what the readers decode. Index, row hash, counters and
  holds agree at every moment (`RowsSeen`), so a reader's outbox is the rows with their counters;
  each script is then one operation of the contract and each read a stutter. The calls of several
  commands carry what they read to a later command (`CallsOK`): a `pruneLog` under way removes
  exactly a prefix of the log however that has grown, and what a `retryParked` moves must still be
  what is parked (`RetriesFresh`). That last is a hypothesis of the theorem, for the code does not
  ensure it (section 3, the last paragraph); it holds if an event id has one number (`OneNumber`),
  as for pollers whose items do not return to an earlier value.
* **`RedisReadsSound`**: `Spec => []ReadsSound` under `OneNumber`. What the holder of the lease read in
  three commands is pending: nobody else removes rows or counts attempts (`Loads`), and no row is
  pending and parked at once (`Apart`).
* **`PostgresImplements`**: `Spec => Contract` over the committed tables, the most intricate of the
  three, since statements of several transactions interleave. `COMMIT` writes rows that were chosen
  statements ago, so the invariant says that they are still the right ones: no two transactions
  have locked the same row (`LocksApart`), each has locked what it will write (`Locked`), and past
  its first statement it has the key's row, an engine under its lease (`KeyHeld`), so that lease and
  state cannot change under it; hence what it will write is at every moment, of the rows as they
  are then, what its operation writes (`EngineStage`, `OperatorStage`). `retryParked` alone takes no
  notice of the key's row, and is kept apart from the engine by the locks on parked and outbox rows;
  a `parkEvent` that found no pending row is protected by the one it wrote. An `ackEvents` or
  `recordAttempt` that found no row writes nothing even if one is there when it commits, and maps
  to a `saveState` that changes nothing. The theorem assumes that an administrative write finds the
  key's row (`NewKeys = FALSE`): without it the refinement fails (section 3).
  A clear needs two facts more (`ClearInv`): the rows it has still to remove are there, and what is
  there otherwise is late; its end is then `LateClear`, which is the contract's own clear if nothing
  is late.
* **`StoresAnswer`**: the specification of the run implies all of these. It has no hypothesis: TLC
  checks of the run's constants what is assumed (`StoresAssumption`).

`DaemonProofs` begins with the engine, for any set of keys and any bounds (`EngineAssumption`):

* **`EngineTypeCorrect`**; **`DaemonStaysAwake`**: `Spec => []StaysAwake`. It is not inductive: a
  call of `loop()` clears the timer before it arms the next, so the invariant adds `TimerArmed`,
  which ties the armed timer to the calls that will still arm one. A rejection is the one step that
  takes a call away and arms nothing; `rejected` remembers it until something wakes the daemon.
* **`DaemonRunsOnce`**: `Spec => []OneRunPerKey`, which holds across overlapping calls because a call
  looks at the runs in flight and adds to them without an `await` in between.

It then takes the other parts of `MCDaemon`, each for any value of its constants that satisfies the
part's parameters (`LanesParameters`, ...), which `DaemonAssumption` lets TLC check of the run's:

* **`LanesKept`**: `L!Spec => []LanesSound`. What matters is the copy of the state that a run or an
  operator's call holds while others write. `CopiesSound` says of every copy that may still be
  written that it claims nothing that was not done: its live cursor lies within what was committed,
  and its backfill is marked done only past its target or after a halt. Copies that only a fenced
  run holds are left out, since they are never written. `OwedAtRest` ties a trigger to the due time
  of a key without a run.
* **`LeaseKeeping`**: `K!Spec => []KeeperSound`, by five parts: the timer is armed exactly while no
  renewal is awaited (`Beating`); the lease runs long enough for the beats that are still to come
  when renewals throw (`Held`), and for the renewal on its way (`Renewing`); a takeover is noticed
  at the latest by the next answer (`Noticing`); only a takeover is refused (`Unrefused`).
* **`IteratorKept`**: `U!Spec => []IteratorSound`. The events whose drains wait are exactly those of
  the queue and the one in the loop's hands, none twice, although `close` and `return` empty the
  queue from either end.
* **`SinkKept`**: `W!Spec => []SinkSound`: a success was accepted by the receiver
  (`SuccessAccepted`), the composed signal and its listener live exactly while the request does
  (`Composed`), and every try is signed again (`SignedAnew`), in time for its receiver (`InTime`).
* **`TelemetryKept`**: `T!Spec => []TelemetrySound`, from `CycleOwn` (the open span is the current
  cycle's), `CircuitKnown` (what a cycle knows of a circuit that only others without the lease could
  change) and `GaugeInCycle` (what the gauge shows between a probe and its outcome, unless `unheard`); the hooks are
  composed into one step per exit of a cycle, and `SpansTold` says what such a step adds.
* **`PassKept`**: `P!Spec => []PassSound`: the keys of a pass are in its queue, with a worker or
  visited (`Queued`, `Unserved`), a worker that stopped took nothing along (`Settled`), no two workers
  run one key, which has no entry yet (`Exclusive`), and what is counted are visits that have ended
  (`Accounted`).
* **`DaemonPartsSound`**: the specification of the whole run implies all six, and that the daemon
  stays awake and runs a key once at a time.

`PagingProofs` proves, for every configuration `definePoller()` accepts and every API that allows
at least one request per window (`SchedulerParameters`), every sequence of polls, headers, throttles, failures, halts and triggers:

* **`ScheduleSound`**: `Spec => []ScheduleInv` (types, `IntervalBounded`, `CircuitCounts`). The
  arithmetic (rounded growth, halving, clamping, the ceiling of pacing) is in lemmas of its own; the
  circuit needs no more than the count and its own value, but every way a poll can end must be
  looked at with both.
* **`ThrottleHonoured`**: `Spec => RetryAfterHeeded`, from `Remembered`: the time the last
  Retry-After named is not after `throttledUntil`, unless an operator triggered, and `isDue` waits
  for the latter.
* **`PacingKeepsQuota`**: `Spec => []QuotaKept`, from `Paced`: in a calm window whose quota is used up
  the cycle under way has heard so from its last response, or the next due time is not before the
  end of the window; and `CircuitFound`, what a cycle found in the store when it began.

and, for the readers that resume:

* **`KeysetKept`**: `K!Spec => KeysetSound` for pollers that are `Covered`: a lag above `Delay` plus
  `Latency` with single pages and no watermark from the API, or an overlap of at least that much
  with pages that hold everything asked for, or an iterable. These are the conditions under which
  the strategy skips nothing; section 3 says what happens without them. TLC checks that the
  pollers of the run are covered (`PollersCovered`); that of `rescan` is not. The invariant is
  `Clocked` (stamps, answers and the clock are at most a transaction and a cycle apart), `Reach`
  (what is committed and was not taken will be asked for) and `Walk` (so it is in the cycle under
  way, behind its position).
* **`StreamKept`**: `I!Spec => []StreamSound`. `Positioned` says for each store what its position
  means (rows not streamed yet lie after it, or behind its offset), `Compared` what chunks of
  versions were loaded, `Between` what others wrote meanwhile. The order of identities is that of
  integers, so that pages are intervals; that a page of the first rows ends before all others is by
  counting them.
* **`ReplayKept`**: `R!Spec => []ReplaySound`. The sequence numbers are `Numbered` in the log's order; a
  run of the replay's own instance shares its owner but not its epoch (`Epochs`), so that the fence
  tells them apart; what the replay has read is its part of the log (`Read`, `Paged`), and what it
  queued the part before its position (`Through`).
* **`PagingPartsSound`**: the specification of the whole run implies these and the schedule's.

`FullScanProofs` assumes `Paged`: the fetch goes by `ctx.page`, returns single pages, and no item
is quarantined or skipped (each of the three is needed: section 3). It proves, for any
items, pages, cap, changes and mishaps:

* **`ScansComplete`** and **`NothingDeletedFalsely`**, from `Position` (in a cycle without a 304
  the pages asked for are 1, 2, ... and the listing is done exactly after the last) and `Sight`
  (every item of a page already committed was seen, or was absent at some time during the cycle;
  what the snapshot has for a seen item is a value of the cycle).

`TokenBucketProofs` proves, for any rate, period, burst, costs and order of stamps:

* **`BudgetKept`**: `BucketSpec => []RateBounded`. The bound is not inductive: `Books` says that
  what was taken since the audit and what is left came out of one full bucket and what the rate
  added up to the bucket's own time, and that nothing counts before the bucket reaches the audit.
  Time is the callers' stamp: a take that the store runs late counts when it was stamped.

Model-checked only: `BucketSpec` and `QueueSound` of the budget's manager, which picks calls by a
fold over its queue (what a fold returns takes an induction over the sequence), and for the same
reason `WiredExactly` and `ClockSound`, which are about what a fold and a recursive search return; and
`NoKeyStarved`, which compares numbers of rows in a range of the sequence.
Liveness under fairness, ENABLED and induction over recursive definitions are out of TLAPS's reach.

## 5. Not modelled

* The **command line** (`src/cli`): it parses arguments, calls operations that are modelled, and
  formats what the store says.
* The **queue sinks** (`src/sinks/queues.ts`): for the dispatcher a handler that succeeds or throws.
* The **poller definition** beyond what `Scheduler` assumes of it: it validates a configuration.
* **Hashing, canonical JSON, redaction, problem documents, header and timestamp syntax, row
  encodings**: data that no property tells apart.
* The **custom cursor** strategy and the schemas of **validation**, which are the application's
  functions.
* Of the **testing kit** the fake API, the chaos points and the store contract suite; of the
  **OpenTelemetry hooks** counters, histograms and attributes.

Worth doing next: `LeaseKeeper` as a refinement of the untimed lease of `Runner`; a proof of
`NoKeyStarved`; Postgres with new keys, for callers that do not write
them at once.
