# Formal models of the Web Intelligence Agent service

The repository is an asyncio (FastAPI) service that accepts research requests,
runs each as one background task and serves its status, result and progress.
Several instances may run behind one Redis; without Redis a single process uses
an in-memory backend. The hard part of the code is the bookkeeping around
a task: idempotency keys, operation-id claims, owner leases, concurrency slots,
spend holds, cancellation, reconciliation, the progress stream, search budgets,
log events, and the shutdown that has to end all of it in time. That
bookkeeping is what is modelled here. Paths are relative to `src/`.

## Inventory

| Component | State it keeps | Operations | What makes it correct |
|---|---|---|---|
| Redis store (`app/storage.py`) | operation records, active index, owner leases, slot set, key and claim bindings | Lua scripts and single commands, each atomic | index and record change together, the ceiling holds, leases have one owner |
| Spend ledger (`app/storage.py`) | daily total, its window marker, reservations hash | reserve, reconcile, release (Lua) | total below the ceiling and equal to what is held today |
| Admission (`app/api.py` `start_research`, `_rollback_admission`) | local flags of the request | claim key, reserve spend, claim id, take slot, begin, save, or roll back | one admission per key; a request that is refused takes nothing of others and leaves nothing |
| Background task (`app/api.py`, `app/researcher_adapter.py` `_run_research`) | its position, the result in hand, `spend_reconciled`, the monitor task | saves, reports, research loop, early synthesis, handlers, finally block | one truthful terminal status; lease, slot and hold come back |
| Heartbeat monitor (`researcher_adapter.py` `monitor_memory`) | cancel cause | renew lease and slot, cancel the task | a task without lease does not write |
| Cancellation (`app/cancellation.py`, cancel endpoint) | registry of local tasks, pub/sub listener | local cancel, broadcast, status fallback | an answer "cancelled" is true |
| Reconciliation (`storage.py` `mark_stale_operations`, loop in `app/main.py`) | the ids of the current scan | read index, daily backfill, check-and-fail, unindex | takes only abandoned work, and takes all of it in the end |
| Startup and shutdown (`app/main.py` `lifespan`, `cancellation.py` `quiesce_tasks`, `researcher_adapter.py` `flush_pending_ingest_tasks`) | deadlines, the tasks and ingests waited for | cancel and wait, collect the ingests, wait again for what remains of the grace period, close | cleanup runs to its end; no ingest is scheduled after the collection; the service ends before the platform kills it |
| In-memory backend (`storage.py` `InMemoryStorage`) | bounded ordered maps, owners, slots, spend counter, event lists | the same operations, none of which suspends | work in progress is never evicted, stripped of its lease or run twice; the counter is a daily budget |
| Progress events and SSE (`app/progress_adapter.py`, `api.py` `get_research_events`) | Redis stream per operation, one generator per client | publish, read after a cursor, look up, wait, flush | announced results are stored; in order, once, complete; closes |
| Search budget, egress guard (`app/security.py`) | context variables, process-wide fallback stacks, one budget dict per run | enter, exit, check and count a search | no run searches more than its maximum; profiles and budgets of overlapping runs do not mix; a budget stop is true |
| Log exporter (`app/grafana_observability.py`) | bounded queue, counters, worker thread | emit, send, flush, stop | accepted events are sent or counted as failed, once; a flush that says so is true |
| Brain client, evidence extraction, schemas, model selection, metrics, auth | none that outlives a call, or write-only | - | data transformations, not modelled |

How they interact: an admission handler calls the store and the ledger one
await at a time and, when its record is saved, spawns the task in its own
process. The task calls the same store and ledger; the monitor runs beside it
and cancels it. A cancel request reaches the task directly, or over Redis
pub/sub through every instance's listener. Each instance's scan reads the index
other instances write. Clients poll the record and stream the events. Every run
enters the egress guard, which threads of the research library consult without
its context. The log exporter's thread runs beside the event loop. The shutdown
cancels the tasks, waits for them, and races their cleanup against the platform.

What is hard: every `await` is a point where another request, another instance,
a cancellation, a TTL or a crash can come in; a Redis call can take effect and
still raise; a cancellation is delivered late and can be swallowed
(`asyncio.wait_for` of Python 3.11 drops it when the inner work is done,
`except CancelledError: pass` around the monitor drops it too); leases run out
under workers that are alive; rollbacks act on flags that may be stale.
`PROJECT.json` lists these hazards at their lines.

## Modules

`Operations` declares the set `Op` of operation ids. The first two modules hold
the shared state, one operator per script, and are extended by the others.

- **`SpendLedger`**: `total`, `window`, `holds` are the three Redis keys of the
  ledger. `ReserveSpend`, `ReleaseSpend` and `ReconcileSpend` are the three Lua
  scripts, each with its clamps and its test of the window marker;
  `WindowExpires` and `HoldsExpire` are the TTLs. Windows are numbered where
  the code uses a time stamp. Amounts are naturals. `add_daily_spend` is out:
  its caller needs a metered request that reserved 0, which schema and
  settings exclude. **`DailyBudget`** is what the ledger promises: operations
  hold at most `Limit` together, once each, until the day ends.
- **`OperationStore`**: records (status, key), `activeOps`, `owners`, `slots`
  and `lapsedSlots` (members whose score has passed but which nobody reaped:
  they count again when a heartbeat revives them).
- **`Admission`** (extends both): `st[a]` is the storage call attempt `a` is
  about to make, `took[a]` its local flags, `idem`/`pending`/`opClaims` the
  bindings. `ClaimKey` ... `Save` are the calls of `start_research` in their
  order; `RollbackKey`, `RollbackIdRead`, `RollbackIdDelete`, `Release` are the
  calls of `_rollback_admission` in theirs, with its early return; the id
  claim's get-and-delete is two steps, as in the code. The task appears with
  what it does to the shared state. `AdmissionFault` and its siblings raise,
  with or without effect; `Crash` kills an instance;
  `PendingLapses`, `KeyLapses`, `IdClaimLapses`, `OwnerLapses`, `SlotLapses`,
  `LedgerLapses` are the TTLs. **`KeyedAdmission`** is what a key promises:
  attempts bind and unbind it until one is accepted, the one it is bound to;
  from then on it stays bound, accepts nobody else and answers with nothing but
  that operation, until it is forgotten. `Admission` implements it with
  `bound <- idem`, `accepted <- admitted`, `resolved <- answer`.
- **`ResearchTask`** (extends both): `task[o].at` is the await the task stands
  in, `cancel` a requested and not yet delivered cancellation, `monitor` and
  `cause` the heartbeat's. One action per await (`Start` ... `SaveHandler`,
  `AwaitIngest`, `Releases`), `Interrupt` for the delivery of a cancellation at
  each of them, `Heartbeat`, `MemoryExceeded`, the faults; `Cancel*` are the
  steps of a cancel request, `Listen` the pub/sub listener; `Scan`, `Backfill`,
  `Reap`, `Unindex` the reconciliation; `Quiesce` and `Dies` shutdown and
  crash. **`OperationLifecycle`** is what a polling client may rely on.
- **`OperationCache`**: the in-memory backend. Its methods do not suspend, so a
  whole request is one step (`RefuseEarly`, `RefuseId`, `RefuseLate`, `Admit`,
  told apart by how far it gets before it rolls back); the task's writes and
  releases are steps. Maps are sequences because their age order decides
  evictions. `spent` and `reserved` are the spend counter, shown to implement
  the same `DailyBudget` as the Redis scripts; `ResetSpendWindow` is the new
  day. `late` remembers operations that were evicted between the save of the
  result and the task's release of the lease. A task that writes the record of
  an operation evicted meanwhile begins a new one, without key (`NoKey`,
  `KeyKept`). `Without`, the `pop` of an
  entry, counts the places of what is kept where `SelectSeq` would recurse, so
  that it can be proved about; `MCOperationCache` assumes, and TLC evaluates,
  that the two agree on all short sequences (`WithoutSelects`).
- **`EventStream`**: `memory` says which backend it is. `published` and `first`
  are the Redis stream with its approximate trimming, or the in-memory list,
  which is not trimmed; `worker` the saves and reports of admission and task in
  their order, `client` one `event_generator` per connection with the cursor it
  holds. `Readmit` is the reuse of an operation a day later, when key and claim
  are gone and the stream is not. A result's status is always "completed" here;
  others fare alike. `Evict` is the in-memory backend dropping a finished
  operation with its events, possibly before the last report: that report begins
  a new list, whose ids start at 1 again. Events keep their place in
  `published`, and `base` says which place the ids of the current list count
  from (0 in Redis), so that `Past` is where a cursor points.
- **`SearchBudget`**: `Enter` and `Exit` are the two critical sections of
  `enforce_egress_protection`, in any order, on `depth`, `profiles` and
  `budgets` (the fallback stacks); `budget` is the dict of each run.
  `SearchInContext` is a search of the run's own coroutine, one step because
  nothing it reads can change meanwhile; a search of a worker thread without
  context takes the lock four times, `ThreadStarts`, `ThreadReadsProfile`,
  `ThreadReadsBudget`, `ThreadConsumes`, and may outlive its run.
- **`LogExporter`**: `LokiEmitter`. Every emitter runs on the event loop's
  thread, so an emit is two steps, the put and the count, both under the lock;
  the worker's loop condition is two unlocked reads, `CheckStopped` and
  `CheckEmpty`; `Get`, `Send`, `Count` (under the lock), `TaskDone`;
  `LastEvent`, `FlushAndStop`, `Exit` are the end of `ObserveASGI`'s lifespan.
  Events are alike, so the queue is its length.
- **`Shutdown`**: `lifespan` after its `yield`, with the time budgets of three
  files. `clock` counts from its beginning and stands still at a deadline until
  what is due has happened (`LifespanDue`, `TaskDue`); `waitUntil` is the
  deadline of the wait `phase` stands in, `drainUntil` that of the `wait_for`
  around the drain. A task is where its handlers or its finally block are, with
  the releases and the time left there; tasks in `Slow` have saves that may
  hang, since the Redis client has no socket timeout. Research answers a
  cancellation in one of three ways (`Answer`): it takes it; it drops it and ends
  with what it has (`wait_for` had the report, or a synthesis was interrupted);
  or it drops it and works on (the recall's `wait_for` had its answer, or memory
  or the search budget ran out at the same moment and a synthesis of up to 30
  seconds follows). `deaf` remembers who did the last. `ResearchTask` has each of
  these as an action; here only how long they take matters. `Unsubscribed` is the
  untimed `unsubscribe` of `cancellation_manager.shutdown`.
- `MC*` give the constants for TLC; `*Proofs` hold the theorems:
  `StorageProofs` those about the ledger and the store, which `AdmissionProofs`
  and `ResearchTaskProofs` extend, `ShutdownProofs` those of `Shutdown` and
  `LogExporter`. `FiniteSums` has the lemmas about sums over finite sets that
  the two budgets rest on.

Lines named in `PROJECT.json` (`map`) say which code each definition stands
for. Definitions introduced by a comment "Mutant" are plausible bugs, used to
show that the properties can fail.

## What the runs check

All runs that pass explore their state space completely. `CHECK_DEADLOCK FALSE`
everywhere: requests, tasks and windows are finite in number, so every system
here ends.

| Run | Properties | Instance |
|---|---|---|
| `MCSpendLedger` | `WithinLimit`, `TotalIsHeld`, `ImplementsBudget` | 3 operations, amounts 1 and 2, ceiling 3, 3 windows |
| `MCAdmission` | `TypeOK`, `OneAdmissionPerKey`, `SlotsWithinCeiling`, `NoConcurrentExecution`, `NothingLeft`, `AdmittedKeysStayBound`, `ImplementsKeyedAdmission` | a request, its retry on another instance, the same operation under a second key, one operation id; ceiling 1; one fault, one TTL, one crash |
| `MCResearchTask` | `CancelledReplyHolds`, `ActiveIsIndexed`, `CleanedUp`, `ImplementsLifecycle` | one metered operation, a local and a broadcast cancel, a scan on the other instance, shutdown, crash, one fault |
| `MCResearchTaskLive` | `ReapedOnlyAbandoned`, `StoredResultStays`, `EventuallyEnded`, `EventuallyReleased`, `CancelsAnswered` | one unmetered operation, a local cancel, a scan, shutdown, crash, one TTL that passes under live work; fair |
| `MCOperationCache` | `NoDuplicateWork`, `WorkIsKept`, `RepeatedOnlyIfForgotten`, `ImplementsBudget` | 2 operations, 3 keys, cache of 1, 2 reservations, 2 slots, budget for one, 5 tasks |
| `MCEventStream` | `AnnouncedWasStored`, `EachOnceInOrder`, `ClosedIsComplete`, `StreamsClose` | either backend, one client, 2 runs of the operation, stream cap 4, one fault; fair |
| `MCSearchBudget` | `StacksMatchGuards`, `SearchesWithinMaximum`, `OwnOrRefused`, `BudgetStopIsTrue` | two research runs with budgets 1 and 2, a Brain request, two worker threads |
| `MCLogExporter` | `ExporterTypeOK`, `Conserved`, `FlushedIsDelivered`, `EndedIsEmpty`, `AcceptedIsDelivered` | queue of 2, 5 events and the last one; fair |
| `MCShutdown` | `WithinGrace`, `CleanupCompletes`, `SnapshotIsComplete`, `ShutdownEnds` | a prompt task, one whose saves may hang, research that may survive its cancellation, ingests that may hang, scaled durations; fair |

What they show, beyond types:

- The counter is exactly the sum of today's holds, through retries and window
  changes, and the ledger is a daily budget.
- A key admits one attempt, whatever a late rollback, a lost answer, a crash or
  an expired admission lease does in between; from then on the key stays bound,
  no late rollback unbinds it, and who is answered is answered with the admitted
  operation; two tasks never run one operation unless its lease ran out.
  Requests that were refused leave no slot, lease or hold.
- Clients see an operation go from queued to running to a terminal status and
  never back; an answer "cancelled" of a request that waited for the task is
  true and stays true; a scan never fails work whose worker kept its lease, and
  never a stored result; a task that ran its finally block has released
  everything.
- Every operation ends and is released if one scanning instance stays up.
- The bounded in-memory maps never evict or repeat running work, and its lease
  stays, but for an operation that was evicted before its earlier task gave the
  lease back (`late`).
- A stream sends each event once and in order, all that preceded the terminal
  status, announces nothing that was not stored, and closes unless the
  operation was evicted or, in memory, its task was cancelled before its first
  step.
- Guards may be left in any order: the stacks always describe the active ones.
  A thread without context works under its own run's profile and budget or is
  refused, however the reads of one check are spread over other guards'
  entries and exits; a run never searches more than its maximum, and is stopped
  for its budget only when that is used up.
- No log event is lost or counted twice; the worker drains the queue before it
  ends, wherever the stop falls between its two reads; a flush that answers
  TRUE is right.
- The shutdown ends within the grace period whatever tasks and ingests hang. A
  task that the shutdown found in its saves, handlers or releases, or whose
  research took the cancellation or ended, finishes its cleanup before the
  service closes if its saves are answered, and schedules no ingest after the
  pending ones were collected. The code does not achieve this for research that
  drops the cancellation and works on.

Conditions that belong to the statements: `NothingLeft`, `CleanedUp` and
`StoredResultStays` are about calls that answer (a call that raises leaves its
resource to the TTL, and a save that took effect and raised is followed by
"failed"); `ActiveIsIndexed` and `ReapedOnlyAbandoned` exempt operations whose
worker outlived its lease (`unleased`): such a worker can save "running" between
the scan's failing write and its `SREM`, and stays out of the index until the
daily backfill. For the same reason `ImplementsLifecycle` is about behaviours in
which no worker outlives its lease: a late "running" over the scan's "failed" is
a step back. Its run has no lapses; the theorem says so (`WorkersKeepLeases`).
`ClosedIsComplete` is about reads that answered. `OwnOrRefused` and
`SearchesWithinMaximum` speak of a run inside its guard: threads that outlive it
are nobody's. `BudgetStopIsTrue` exempts refusals while another budget was
active: they set the flag of a dict that is thrown away (see below).
`CleanupCompletes` and `SnapshotIsComplete` exempt the tasks in `Slow`, whose
hanging save outlasts the wait, and those in `deaf`, whose research works on
after the cancellation: no timeout of the shutdown covers what they still do, and
they may store a result, and schedule an ingest, after the collection (see
below). `StreamsClose` exempts evicted operations and, in memory, tasks cancelled
before their first step, whose record stays "queued" for good.

### Bounds

`MaxFaults`, `MaxLapses`, `MaxWindow`, `MaxTasks`, `MaxEvents` and `MaxRuns`
bound what may happen how often; each run is small, and each bound is at least
what the known races need: one fault, one lapse, two attempts on a key and
a third from outside, two cancels, and a scan on another instance. One
operation is enough in `ResearchTask` because operations share nothing there but the
total of the ledger and the index, whose scripts treat each operation alone.
The cap of 1000 events becomes 4, the five reads of the grace period one, the
cache of 500 one, the 10000 reservations two, the ceiling of 3 slots one or two,
the log queue two: the boundaries, not the sizes, are what the code decides on.
The theorems below hold for all sizes. `MCOperationCache` needs its five tasks:
with fewer, no operation is evicted, forgotten and admitted again while its
first task is still to release the lease. `MCShutdown` scales the code's 30, 3,
20, 6, 1 and 2 seconds (grace, margin, drain, ingest, release, log flush) to 14,
3, 8, 3, 1, 2, and gives a save and the unsubscribe 1 each, such that the quiesce time plus the ingest wait exceeds the drain
budget: with the code's own numbers (10 + 6 < 20) the drain never times out, and
the second attempt of `lifespan` would go unchecked. The proofs cover both, and
every other choice that keeps `TimingAssumption`.
Every attempt of `MCAdmission` names one operation, so a slot refusal does not
leave an id claim without a record there, and a key is bound to that operation or
to none: the run shows when keys are bound, unbound and answered, and only the
proofs cover a retry that names another operation.

### Fairness

`ResearchTask!Fairness`: weak fairness of the steps of each task (the research
loop has its duration limit, synthesis, ingest and releases have timeouts),
of each cancel request, and of the expiry of leases and slots of ended
tasks; and, for the scanning instances, of the scan's steps, with strong
fairness of the daily backfill (a marker with a TTL of a day, which comes free
again and again). Faults, crashes, shutdowns, cancellations and the heartbeat
are not fair. That a task's step is taken in the end assumes that its storage
calls answer: the Redis client has no socket timeout (`api.py:207-212` says so of
the releases, which have their own; the saves have none), so a save that hangs
for ever is outside the liveness runs, and `MCResearchTaskLive` has no calls that
raise (`MaxFaults = 0`). `EventStream!Fairness`: the task's awaits, the scan of abandoned
work, and the generator of an open connection. `LogExporter`: the worker, a
thread whose get and whose HTTP client have timeouts, and the return from emit,
which does not block; not the end of the service. `Shutdown`: time passes, the
event loop runs what is due, and tasks run what follows their research but for
the saves of slow ones; the unsubscribe is answered in `MaxUnsubscribe`; when the
platform asks for the end, whether research ends and whether an ingest ever does
is left open.

### Runs that find a disagreement

Each checks one statement of a comment or of the API description that the code
does not keep; `PROJECT.json` (`findings`) quotes it.

- `MCRecordKeepsItsKey`: `release_operation_id` reads and deletes in two calls;
  a retry's claim is deleted, another key claims the id and, when the retry has
  ended, writes over its record.
- `MCStoredResultIsFinal`: a cancellation delivered at the report that follows
  the save of the result turns the stored result into "cancelled".
- `MCLostLeaseWritesNothing`: the research loop has returned, the heartbeat finds
  the lease lost and cancels the task, `wait_for` (`researcher_adapter.py:1197`)
  has the report and drops the cancellation, and the task saves the result as
  "completed". (A lease lost during early synthesis is a second, longer way: the
  cancellation is swallowed there, `researcher_adapter.py:1167`.)

Also seen while modelling, without a run of its own:

- A request with another key for a running operation reserves (granted, the
  operation holds already), is refused at the id claim, and its rollback
  releases the hold of the running work (`api.py:173`); `Admission` and
  `OperationCache` model it, `WithinLimit` and `ImplementsBudget` hold with it.
- A rollback releases its key first; a retry on the same instance is admitted
  and takes the same slot member and lease, which the rollback then removes
  (`api.py:164-173`). For the same reason a refused retry of forgotten running
  work takes its slot in the in-memory backend: the exception in `WorkIsKept`.
- In the in-memory backend the key of an evicted operation stays reserved, and a
  retry gets 409 "admission is pending" instead of its operation, although
  `storage.py:425-427` keeps keys "so a retry of evicted work still resolves to
  its original operation".
- Eviction pops the owner of a finished operation whose task may still wait for
  its ingest; if a bound also dropped its key, the operation runs again, and the
  old task's release, which compares the instance id both share, clears the
  lease of the new one, although `storage.py:565-566` says it cannot: the
  exception `late`.
- A search refused while budgets overlap sets `exhausted` on a throw-away dict
  (`security.py:299-311`); the run is not told why its searches fail.
- A retry under key `k1` can be answered with an operation recorded under `k2`
  (the idempotency hit returns any id with a record).
- Research that drops the shutdown's cancellation and works on outlasts the
  10 seconds of `quiesce_tasks`: after the recall (`researcher_adapter.py:1031`)
  comes the whole research, after a memory or search-budget stop
  (`researcher_adapter.py:1212-1228`) up to 30 seconds of synthesis. Its result can
  be saved, and its ingest scheduled, after the snapshot that cancelling and
  awaiting first "makes complete" (`cancellation.py:248-251`).
- `main.py:30-36` calls `cancellation_manager.shutdown()` "already bounded
  elsewhere"; the `unsubscribe` it awaits (`cancellation.py:319-320`) has no timeout.
- An event stream that is open when the in-memory backend evicts the finished
  operation is never closed by the server. If the operation was evicted before its
  terminal report, that report is the first of a new list, and a cursor into the
  old one skips it (`storage.py:523-526`).
- A task of the in-memory backend that is cancelled before its first step leaves
  its owner entry and its slot for good (nothing expires there), so the scan never
  fails its "queued" record (`storage.py:534`) and its streams stay open.
- When an operation id is used again after a day, its streams replay the
  terminal event of the earlier run, and no longer wait for the new one.

## What is proved

TLAPS proves these for every number of attempts, keys, operations, instances,
events and tasks, every ceiling, every duration and every bound, from the named
assumptions on the constants: `LedgerAssumption`, `StoreAssumption`,
`AdmissionAssumption` (types of the request functions, null values outside their
sets, positive ceilings and amounts), `OperationsAssumption` (finitely many
operation ids: they are strings of bounded length; without it a sum of holds
means nothing), `TaskAssumption` (types; at least one spend window),
`CacheAssumption` (positive bounds, finitely many operation ids),
`ExporterAssumption` (a positive capacity), `StreamAssumption` (a positive cap;
the grace period may be zero), `BudgetAssumption` (finitely many runs, maxima of
at least one, no profile is the one that denies all), `TimingAssumption` (what the comments
at the time constants ask of them; the code's 30, 3, 20, 6, 1 and 2 seconds
satisfy it for saves that take less than 2, and an unsubscribe that takes at most
1).

| Theorem | Statement |
|---|---|
| `StorageProofs!LedgerTypeCorrect` | `LedgerSpec => []LedgerTypeOK` (the total is never negative) |
| `StorageProofs!LedgerWithinLimit` | `LedgerSpec => []WithinLimit` |
| `StorageProofs!LedgerTotalIsHeld` | `LedgerSpec => []TotalIsHeld` |
| `StorageProofs!LedgerRefinement` | `LedgerSpec => ImplementsBudget` |
| `AdmissionProofs!TypeCorrect` | `Spec => []TypeOK` |
| `AdmissionProofs!OneAdmission` | `Spec => []OneAdmissionPerKey` |
| `AdmissionProofs!AdmittedKeysBound` | `Spec => AdmittedKeysStayBound` |
| `AdmissionProofs!OneExecution` | `Spec => []NoConcurrentExecution` |
| `AdmissionProofs!SlotCeiling` | `Spec => []SlotsWithinCeiling` |
| `AdmissionProofs!NothingIsLeft` | `Spec => []NothingLeft` |
| `AdmissionProofs!AdmissionRefinement` | `Spec => ImplementsKeyedAdmission` |
| `ResearchTaskProofs!TaskTypeCorrect` | `Spec => []TypeOK` |
| `ResearchTaskProofs!CancelledReplyIsTrue` | `Spec => []CancelledReplyHolds` |
| `ResearchTaskProofs!OnlyAbandonedReaped` | `Spec => []ReapedOnlyAbandoned` |
| `ResearchTaskProofs!ActiveIndexed` | `Spec => []ActiveIsIndexed` |
| `ResearchTaskProofs!TaskCleansUp` | `Spec => []CleanedUp` |
| `ResearchTaskProofs!ResultStays` | `Spec => StoredResultStays` |
| `ResearchTaskProofs!LifecycleImplemented` | `Spec /\ []WorkersKeepLeases => ImplementsLifecycle` |
| `OperationCacheProofs!CacheTypeCorrect` | `Spec => []TypeOK` |
| `OperationCacheProofs!NoWorkTwice` | `Spec => []NoDuplicateWork` |
| `OperationCacheProofs!WorkKept` | `Spec => []WorkIsKept` |
| `OperationCacheProofs!RepeatsForgottenOnly` | `Spec => []RepeatedOnlyIfForgotten` |
| `OperationCacheProofs!CacheBudgetImplemented` | `Spec => ImplementsBudget` |
| `EventStreamProofs!TypeCorrect` | `Spec => []TypeOK` |
| `EventStreamProofs!AnnouncedStored` | `Spec => []AnnouncedWasStored` |
| `EventStreamProofs!OnceInOrder` | `Spec => []EachOnceInOrder` |
| `EventStreamProofs!ClosedComplete` | `Spec => []ClosedIsComplete` |
| `SearchBudgetProofs!TypeCorrect` | `Spec => []TypeOK` |
| `SearchBudgetProofs!StacksMatch` | `Spec => []StacksMatchGuards` |
| `SearchBudgetProofs!WithinMaximum` | `Spec => []SearchesWithinMaximum` |
| `SearchBudgetProofs!OwnWork` | `Spec => []OwnOrRefused` |
| `SearchBudgetProofs!BudgetStop` | `Spec => []BudgetStopIsTrue` |
| `ShutdownProofs!ExporterTypeCorrect` | `ExporterSpec => []ExporterTypeOK` |
| `ShutdownProofs!EventsConserved` | `ExporterSpec => []Conserved` |
| `ShutdownProofs!FlushDelivers` | `ExporterSpec => []FlushedIsDelivered` |
| `ShutdownProofs!WorkerEndsEmpty` | `ExporterSpec => []EndedIsEmpty` |
| `ShutdownProofs!TypeCorrect` | `Spec => []TypeOK` |
| `ShutdownProofs!EndsWithinGrace` | `Spec => []WithinGrace` |
| `ShutdownProofs!CleanupsComplete` | `Spec => []CleanupCompletes` |
| `ShutdownProofs!SnapshotComplete` | `Spec => SnapshotIsComplete` |

The argument. Types first: one lemma per storage call says what it leaves in
its domain, then one step per action.

**Budgets.** `WithinLimit` is inductive given the types. `TotalIsHeld` needs
`HoldsKnown`: a hold names a window that was opened, so the marker of the next
window, which is new, brings no old hold back; and it needs that changing one
hold changes the sum by the difference (`SumChanges`). The library's sum takes
the members in an arbitrary order by a recursive function; `FiniteSums` shows
that it exists, and that any member can be taken out of it, by looking at a
smallest counterexample, since induction over an operator is not at hand. Each
script is then a `Take`, a `GiveBack`, a `NewDay` or no step of `DailyBudget`.
The in-memory counter goes the same way (`SpentInv`).

**Admission.** `OneAdmissionPerKey` is not inductive: a second attempt could be
admitted under a
key whose token it holds or which is unbound, so `KeyInv` adds that the key of
every admitted attempt, while remembered, is bound to its operation and has no
pending token. A claim is then refused, a rollback, which needs the token,
does nothing, and a save, which needs it too, cannot be a second one.
`AdmittedKeysStayBound` follows from `KeyInv` and what each call does to
`admitted`. The refinement needs more: a key bound anew was not settled
(`ReboundUnsettled`), and what an attempt is answered is what its key is bound to
at that call (`ClaimRefines`, `SaveRefines`); all other calls change neither
(`SilentRefines`). `NoConcurrentExecution` needs `LeaseInv`: whoever
queues, runs, or holds the lease by its flags is the one the owner key names
(unless it ran out), and no two attempts do so for one operation. The ceiling
needs `CeilingHolds`: the set of members is finite and within it, which the
reaping in `AcquireSlot` keeps. `NothingLeft` needs `TakenInv`: undisturbed by
faults, TTLs and crashes, whatever is held, some attempt's flags say so, and who
has ended has no flags. That fails only if a release is skipped; the one place
that skips releases is the early return of the rollback, and an attempt that has
its token flag still is the one admitting (`TokenInv`), so it does not return there.

**Task.** Per operation, `OpInv` says what the record, lease, slot, hold and
index can be at each await. `LeaseInv`: a task keeps its lease until it releases it
unless it outlived it, so a scan, which looks at the lease and writes in one
script, finds no such task (`ReapedInv`), and what it unindexes is
over (`ScanInv`, `IndexInv`). `CancelledInv`: only the handler writes
"cancelled", and nothing is written after it; so what a request was told stays
true. `ResultInv` and `QueuedInv` say where a task can be that has stored its
result, or nothing yet: with them each write is a step of the lifecycle.
`HoldInv` and `CleanInv` follow the finally block, where `settled` says that the
hold is gone. Cancellations and the monitor, which interrupt every await, only
change where the block is left to (`NextInv`). Each action is shown once to keep
`OpInv` of the operation it is about and to leave that of the others.

**In-memory backend.** Maps are sequences, the invariants are about their sets
of entries (`WithoutSet` by a bijection of places, `NewestSet`): an operation has
one entry and one claim (`EntriesUnique`, `ClaimsUnique`). Only
terminal entries are evicted, so a live entry of running work stays (`CachedInv`);
the owner map loses an operation by its own release, by its own eviction, or by
the release of an earlier task, which only `late` operations have (`LeaseInv`).
`BoundInv` says what remembers an admitted operation: its key and its claim, bound
to each other, until one was pushed out. A request that passes both finds only
forgotten operations (`OnlyForgottenPass`), which gives
`RepeatedOnlyIfForgotten`, and the slot of running work (`SlotInv`): a refused
request can take it away only if it passed both.

**Exporter.** Its invariant counts: the queue's own `unfinished_tasks` is the queue
plus the event in the worker's hand (`UnfinishedInv`); delivered, queued and held
events add up to the accepted ones and the one that was put and is not yet
counted, which the worker cannot have counted before emit lets go of the lock
(`ConservedInv`); after the stop nothing comes in, and the worker only looks at
the queue for the last time after the stop (`StopInv`). The properties follow.

**Shutdown.** The invariant is about time. `ClockInv` says that in each phase the
clock has not passed that phase's deadline, and how the deadlines relate: this
gives `EndsWithinGrace` without a word about tasks. `CleanupInv` says that a
prompt task that is not over is waited for, and that what its position still
costs at most (saves, ingest wait, releases) ends strictly before the wait does
(`InTime`; strictly, because a timer and a deadline that are due at once may run
in either order). A cancellation starts a handler afresh, so the lemmas state
how much every position may have left (`BoundedInv`), and that `QuiesceWait`
covers the longest of them; research that works on is in none of these positions,
which is why `deaf` tasks are exempt; `TimingAssumption` is what that arithmetic needs.

**Stream.** A client is only as good as its writer: `StoredInv` says that a task
about to announce finds a terminal status, and that every terminal status and
every terminal event has been stored; all writers keep it (`Writes`). Of a
generator, `ClientInv` keeps that what it sent is increasing and that the cursor
is past all of it (`Behind`), in a list begun anew too, where it may point past
the end; that nothing held up to the cursor is missing unless a read failed or the
list the cursor is of was evicted (`Gapless`); and, once closed, nothing up to what
was due, because its last read reached the end of the stream. `Join` is the fact about sequences this rests on.

**Search budgets.** `StacksMatchGuards` is inductive once `Pushed` and `Popped`
say what a push and a search-from-the-top removal do to the number of
occurrences of an entry (the removal by a bijection of positions). What a thread
reads follows: its own run's profile and dict are on the stacks while that run is
active, so the read answers them or the refusal. `RequestInv` carries this across
the lock's releases between the reads, since a run that was left is not entered
again; `OverlapInv` explains a refusal by another active budget; `CountInv` keeps
what is issued and what remains of a run together within its maximum.

The types of the ledger, the task, the in-memory backend, the shutdown, the
stream and the search budgets are proved and not checked by a run.

Only model-checked is all liveness (`EventuallyEnded`, `EventuallyReleased`,
`CancelsAnswered`, `AcceptedIsDelivered`, `StreamsClose`, `ShutdownEnds`): the
prover cannot reason about fairness and `ENABLED`. Every other property of the
passing runs is a theorem, `ImplementsLifecycle` under the premise above.

## What is not modelled

The research itself (GPT Researcher, evidence, citations, input files): one
nondeterministic outcome. Request validation and gateway configuration: one
choice, "rejected". Durations outside the shutdown: timeouts may fire or not.
Clock skew between instances: slot scores use the Redis clock. Degraded mode
(Redis unreachable at startup, fallback to the in-memory backend): it is decided
once at start, then `OperationCache` applies. Startup connects and scans once,
which is a scan like any other. `delete_operation` and `get_progress_events` have
no caller. Which URLs and addresses the egress guard calls safe, how log events
and Brain records are rendered and redacted: functions of their input, without
state. Metrics, authentication, read endpoints.

## Plan

Done: `SpendLedger`, `OperationStore`, `Admission`, `ResearchTask`,
`OperationCache` with its spend counter, `EventStream` with eviction,
`SearchBudget`, `LogExporter`, `Shutdown`, the abstract specifications, and the
proofs above: every safety property, action property and refinement the runs
check. Next, in this order:

1. The refinement of `OperationLifecycle` for workers that outlive their lease:
   a weaker lifecycle that names the late "running", and a theorem without
   `WorkersKeepLeases`.
2. The composition of admission and task: that the states `ResearchTask`
   starts from are those `Admission` leaves.
3. The rendering of Brain records (`app/brain_memory.py`), as functions checked
   against what the README promises of them.
