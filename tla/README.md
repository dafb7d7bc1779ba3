# TLA+ models of busybee's engine, state workers, queue apply and crowd loader

These modules model the workflow engine of busybee: the engine controller in
`src/go.mod` (lines 685-1627), the earlier engine it replaces (21-684), the state worker's `transaction` (1628-1905),
the storage batches that apply `QueueAdd` to a Raft shard
(`src/pkg/storage/batch.go`), and the KV crowd loader (`src/unnamed/part_000`).
`PROJECT.json` lists the components, the runs, the mutants, the map from every
definition to the source lines it translates, the findings and the hazards.

## The system and how its parts interact

* The **engine** (`StartInstance`, `StopInstance`, `handleEvent`) drives a
  workflow instance through None → Starting → Running → Stopping → Stopped.
  It does this by issuing storage commands and reacting to the events the
  storage writes back. Failed steps are retried through the retry channels:
  new, complete and stopping. Those retries and the `Duration` stop run on a
  timer wheel. Every `InstanceStarted` worker-state event starts a state
  worker, registered under `"workflowID/index"`. A `stopWorker` timer removes
  the worker again when its time is over.
* A **state worker** ticks over its queue partition. Each tick does the
  following:
  * it fetches a batch of events and starts a `transaction`;
  * it applies timer items, user events and crowd updates to the per-step
    bitmaps;
  * it commits the new crowds and the consumed offset together, or it aborts
    on the first error.
* The engine's commands reach the shard's apply loop. There `queueBatch`
  assigns queue offsets and writes the items, and it runs the queue GC when
  the queue grows past `countToClean`.
* The **earlier engine** (go.mod 21-684) keys instances by instance ID. It
  also routes user events itself: `Step` finds the shard whose range
  `[start, end)` holds the user. It takes the ranges from `eng.rangeCache`,
  and on a miss it computes them from the instance's crowd. The stopped event
  sets the cache to the empty `stoppedRange`.
* The **kvLoader** reads a large crowd bitmap back page by page with
  `BMRange`.

## Modules

| Module | Models | State ↔ code |
|---|---|---|
| `Transaction` | `transaction` (go.mod 1660-1905) | The record `tran` holds `stepCrowds` (a sequence, so that entries past the step list can exist), `changes`, `crowdChanged`, `err` and `changedCrowds`. Operators translate `start`, `stepChanged`, `maybeTriggerDirectSteps`, `removeFromStep`, `moveToStep`, `addChanged`, `doUpdateCrowd` and `reset`. |
| `ShardSpec` | What a shard promises (spec §4). | The committed step crowds are what the committed prefix of the queue yields, each event applied atomically. This is the abstract specification. |
| `StateWorker` | The worker loop around a transaction. | `queue`, `committed`, `wSteps`, `tran`, `items`, `fetchEnd` and `phase`. Each item handler is one action. `CommitTick`, `AbortTick`, `Crash` and `Restart` are the tick's end and the worker's crash or rebuild. `Shard == INSTANCE ShardSpec WITH steps <- wSteps, offset <- committed` is the refinement mapping. |
| `MCStateWorker` | Model values and the workflows the runs use. | One workflow has a timer step, a direct step and a conditional step. A small set of users and crowd updates. |
| `QueueBatch` | `batch.Add/Execute/Reset` and `queueBatch` (batch.go). | The stored items, the meta keys (max offset and removed offset), the consumer offsets, the reused buffer's length and Raft's committed log. `QueueBatchType` is the queueBatch struct, and `addReq` is `queueBatch.addReq`. `addReq` returns the batch and the response that `BatchAdd` appends. The apply loop (`Propose`, `Restart`) and the consumers are spec_modelled. |
| `Engine` | The engine controller. | The following correspond to the code: <ul><li>`cur` is the workflow's last instance.</li><li>`shardInst` is the worker-state records in storage.</li><li>`events` is the storage event queue.</li><li>`timers` is the pending retry and Duration entries.</li><li>`registry` is `eng.workers`.</li><li>`running` is the started workers.</li><li>`stpc` and `stbase` are each `StartInstance` call between its reads and its command, and the last instance it read.</li><li>`base` records which instance's crowd each start subtracted.</li></ul> There is one action per handler: `doStartInstanceEvent`, `doStartedInstanceEvent`, `doStoppingInstanceEvent`, `doStoppedInstanceEvent`, `doStartInstanceStateEvent`, `doInstanceStateRemovedEvent`, the retries and `stopWorker`. `Created` is the store's idempotent create (spec 4.1), which is spec-modelled. `CreateShards` is the handler's create loop over it. A failed storage call is `NotApplied`. With `LateSuccess` it may still be applied. |
| `HandlerLoop` | The new engine's handler goroutine (`handleEvent`), as far as Durations go, with `stopInstanceC`. | `replay` is the Running events that the store replays, and `expired` is whether each Duration was already over. `hpc` is the handler, either in its `select` or blocked sending a workflow id. `stopC` is `stopInstanceC`, with capacity `StopCap`, which is 1024 in the code. `timers` is the pending `addToInstanceStop` callbacks of the timer wheel. `stopped` is the successful StopInstance commands. The actions are `doStartedInstanceEvent`, the handler's own `addToInstanceStop`, a timer callback, and `doStopInstance`, whose failure schedules a retry. |
| `EngineQuery` | `InstanceCountState` and `InstanceStepState` (go.mod 1055-1133) beside the engine. | It EXTENDS `Engine` and adds one API caller. `qpc` is where the caller is, `qinst` is the instance `loadRunningInstance` returned, `qfrom` is `getInstanceWorkers`' `from`, and `qseen` is the worker-state records read so far. `LoadRunningInstance` and `GetInstanceWorkers` (one action per `Scan` page) interleave with every engine step. The aggregation arithmetic is left out, because the result is the set of records read. |
| `EngineV1` | The earlier engine (go.mod 21-684), for one created instance. | The store's side: `inst`, `states` and `events`. The engine's side: `retries` (the retry channels and `stopInstanceC`), `cache` (`eng.rangeCache`), `workers` (`eng.workers`) and `wtimers` (the `stopWorker` callbacks). `elapsed` says the Duration has passed. `meta` is the instance's metadata key. `apc` is a `StartInstance` call between its reads and its command. `dpc` is a `DeleteInstance` call between its check and its delete. `spc`, `su`, `sranges` and `sres` are one `Step` call: its miss, its read of the start key, the Load and the Store of `addShardRangesToCache`, and `doStep`. `ShardRanges` and `FindRange` are the range loop and the search, with `Maximum()+1` taken modulo `2^Width`. `BMSplit` (the `Shards` operator) is not in the sources, so it follows spec §4.4: runs of `MaxPerShard` users in ascending order. |
| `KVLoader` | `kvLoader.Get`. | `stored`, `bm`, `start` and `total`. `start` is computed modulo `2^Width`, as the uint32 sum is. |

Panics and `log.Fatal` end the worker or the process. They are modelled as a
restart from the persisted state, because that is what Raft replay and the
worker rebuild do.

## Runs

Each run's cfg file is `<Module>_<run>.cfg`, except the StateWorker runs, which
use `MCStateWorker_<run>.cfg`.

Passing runs:

* **flow** (`MCStateWorker`) checks `TypeOK`, `CrowdPartition` and `ShardRefinement`. There are 3 users, 3 events, batches of 2, crowd updates and a crash.
  * The step crowds stay a partition of the shard's users.
  * The detailed worker implements `ShardSpec`.
  * Every queued event is eventually committed.
* **recover** (`MCStateWorker`) checks `QueueDrained`. This is the one run that checks it, because only with an expression failure can the stale slice, the index panic and the sticky error occur. It adds crowd updates and one expression failure, so the index panic happens. The rebuilt worker still drains the queue.
* **apply** (`QueueBatch`) checks `TypeOK`, `AckedItemsKept` and `AllApplied`. There are two partitions and one request per batch, and no GC. Acknowledged items stay at their offsets, and every committed request is applied, even after the reuse panic's restart.
* **gc** (`QueueBatch`) checks `AckedItemsKept` and `GCSafety`. There is one partition, with `countToClean = 1`. The GC deletes only offsets that every live consumer has committed.
* **lifecycle** (`Engine`) checks `TypeOK`, `NoOrphanWorker`, `StartCompletes`, `StopCompletes` and `WorkersStopped`. There is one instance, with a Duration and every failure mode on.
  * Start and stop complete through their retries.
  * A running worker is always registered.
  * The workers of a stopped instance are stopped.
* **restart** (`EngineQuery`) checks `RunningHasShards`, `NoOrphanWorker`, `PlacementFree`, `StartCompletes`, `StopCompletes` and `WorkersStopped`. `PlacementFree` says that the placement event the handler takes next is for a key that `eng.workers` does not hold, so the fatal "start a exists state worker" (go.mod 1324) is not reached. With two instances, this needs the removed and stopped events to clear the registry before the next instance's placements. There are two instances in turn, started by two concurrent `StartInstance` calls, with failures but no Duration and no late success, and a count or step query runs beside them. A Running instance has every worker state.
* **route** (`EngineV1`) checks `TypeOK`, `RoutingComplete`, `StartCompletes` and `DurationEnds`. It covers every crowd over IDs 0..2 of a 2-bit width, shards of up to two users, Step calls for every ID, a Duration, a DeleteInstance call, and one storage failure.
  * Once the Duration passes, the instance ends Stopped and no worker of it is left. This holds even for a worker that a late placement event starts after the stopped event: its `stopWorker` still removes it.
  * A Step for a user of the crowd always finds a range.
  * Every start leaves Starting through its retries.
* **pages** (`KVLoader`) checks `LoadsAll` and `GetReturns`. It uses ids 0..6 of a 3-bit width and pages of 2, over every stored bitmap. Get returns exactly the stored bitmap, and it returns.

Violation runs. Each shows a bug, and PROJECT.json's findings say what the trace shows:

* **reuse** (`NoApplyPanic`): the reused `queueBatch` cut its offset buffer to length 0 (batch.go 249). Every later batch with stored meta panics.
* **stalestop** (`Engine`, `OnlyAskedStops`): the Duration timer is keyed by workflow ID, so it stops the next instance (go.mod 1433).
* **stalecache** (`EngineV1`, `CacheInvalidated`): a Step that missed the range cache computes the ranges. The instance stops, and the stopped event stores `stoppedRange`. The Step's Store then puts the live ranges back (go.mod 444). From then on, every Step of the stopped instance goes to shards that have no worker. This happens also when the instance was Running before the stop.
* **partial** (`EngineQuery`, `QueryComplete`): one instance with two shards and no failures. A query reads the instance as Running, and then StopInstance's Stopping event removes the worker states. The query's scan finds none, and it returns success with counts of 0 (go.mod 1072). Spec §7 says a query returns an error, never partial data. The same two reads let a query read the next instance's states, because the scan is keyed by workflow ID.

### Further reproductions

These cfgs are kept beside the runs. Each shows one more finding with
`tlc -config <cfg> <module>`, and each has a finding in PROJECT.json:

* `QueueBatch_gcfatal.cfg` (AllApplied): `log.Fatalf` after `RangeDelete` runs whatever the error (batch.go 224). The entry is replayed and fails forever.
* `MCStateWorker_back.cfg` (CrowdPartition): a direct chain back into `from` loses a user (go.mod 1797).
* `MCStateWorker_timer.cfg` (CrowdPartition): a timer's selection is not cut to its step (go.mod 1792).
* `MCStateWorker_panic.cfg` (NoIndexPanic): the index-out-of-range panic (go.mod 1736).
* `QueueBatch_mixed.cfg` (AckedItemsKept): two partitions in one batch share offsets (batch.go 170).
* `MCStateWorker_stale.cfg` (ShardRefinement): `reset()` keeps `stepCrowds` after a tick that aborted with only a crowd update (go.mod 1887).
* `Engine_loadfail.cfg` (RunningHasShards): a `loadBM` error schedules the complete retry (go.mod 1385). The instance becomes Running without worker states.
* `Engine_staleworker.cfg` (NoOrphanWorker): an old `stopWorker` timer deletes the next instance's worker from `eng.workers` (go.mod 1355).
* `EngineV1_overflow.cfg` (RoutingComplete): the crowd may hold the largest ID. `Maximum()+1` wraps to 0, and the last shard's users are routed nowhere (go.mod 442).
* `Engine_startrace.cfg` (SubtractsPrevious): two `StartInstance` calls read the last instance before either command (go.mod 876). The first starts an instance, which runs and is stopped. The store then accepts the second command, whose crowd was reduced by the older instance only, so the users the first instance processed enter again.
* `EngineV1_delete.cfg` (StartedKeepsMeta): DeleteInstance checks that the start key is absent, and then deletes the metadata in a second call (go.mod 196). A StartInstance between the two starts the instance. The metadata is deleted anyway, and StopInstance, which reads the metadata first, fails with "not create" from then on.
* `HandlerLoop_selfblock.cfg` (AllStopped): `doStartedInstanceEvent` sends on `stopInstanceC` from the handler goroutine, which is that channel's only reader (go.mod 1427). If more stops are pending than the channel holds, the send blocks forever. The run scales the capacity down to 2 and uses 3 replayed workflows. In the code this needs more than 1024 pending stops, for example after a restart replays many instances whose Duration has expired. With `StopCap = 3` the same model stops every workflow. The fairness is weak fairness on every step, because Go's `select` picks among the ready cases at random.
* `EngineV1_stray.cfg` (WorkersStopped, no Duration): StopInstance is accepted while the instance is starting. The placement events then come after the stopped event, and the workers they start are never stopped (go.mod 514). Whether the store accepts that stop is not in the sources.
* `Engine_late.cfg` (RunningHasShards): a StartedInstance applied after its call failed. Its retry hits the next instance (go.mod 1554).
* `KVLoader_maxid.cfg` (GetReturns): `bm.Maximum()+1` wraps when id 2^32-1 is stored, and Get never returns (part_000 52).
* `MCStateWorker_errors.cfg` passes. It shows that without crowd updates, aborted ticks keep the refinement.

Every property of a passing run has a mutant in PROJECT.json. A mutant is a
plausible slip in the mapped code, such as an off-by-one, a dropped retry, a
missing reset or a skipped load, and TLC finds the mutant violating the
property under the run's own cfg.

## Bounds and why they are enough

* **StateWorker**: 3 steps, 3 users, 3 events, batches of 2 or 3, at most 1 crash and 1-2 errors. These are the smallest values at which the following happen:
  * a batch holds two kinds of item;
  * a chain of direct steps exists;
  * an aborted tick is followed by another tick.
* **QueueBatch**: 2 partitions, 2 consumers, 3 requests and an offset width of 3 bits.
  * Three requests give a second and a third batch on one partition, which is where the reused buffer bites.
  * The width makes `low+1` wrap within reach.
* **EngineQuery**: one caller, which queries again and again. A single caller is enough, because queries do not interact with each other. Its partial run needs no failure and only one instance.
* **Engine**: 1-3 workers per instance, 1-2 instances and up to 2 concurrent `StartInstance` calls (`Starters`). Two calls over two instances are what the stale subtraction and a double start need. Each failure budget is at most 3 (`MaxFailures`). Every failing call site can fail once, and a stale timer of one instance can meet the next instance.
* **EngineV1**: every crowd over 3 IDs, cut into 1 or 2 shards, so a crowd with a gap and a crowd starting at ID 0 both occur. One Step caller, one StartInstance and one DeleteInstance caller, which is enough to race the handler and each other. One failure, so a start, a stop or a worker can fail and be retried. The races need no failure. Two failures give the same results in twice the time.
* **KVLoader**: all bitmaps over 7 or 8 ids, with pages of 2. A bitmap of more than one page exists, and the largest id is reachable. `MaxTotal` caps the ids read, so that a wrapping loop is not mere stuttering.

## Fairness

* StateWorker has weak fairness on the worker step. The worker goroutine ticks forever.
* Engine has weak fairness on `HandleEvent`, on every timer, and on the passing of the Duration. The event loop and the timer wheel run forever, and a timer that is due fires.
* KVLoader has weak fairness only on a page coming back. Store errors are not assumed to happen.
* Failures are bounded by constants. This is what makes retries eventually succeed. The code has no such bound; an always-failing store would retry forever.
* The query caller has no fairness, because callers are not bound to query.
* In EngineV1, the Duration is one deadline for the instance's stop and the workers' StopAt. `doStartInstanceEvent` computes the StopAt again on each retry, and `doStartedInstanceEvent` counts from StartedAt. Those times differ by retry intervals that no property tells apart.
* EngineV1 has weak fairness on `HandleEvent`, on each retry and on the Duration stop, on each `stopWorker`, on the passing of the Duration, and on the later steps of a Step call once it has started. It has none on the API calls (`StartInstance`, `DeleteInstance`, `StopInstance`) or on a new Step call.
* `Engine` cfgs set `CHECK_DEADLOCK FALSE`, because the engine goes idle once the last instance is stopped.

## Not modelled

* In the earlier engine:
  * `Create`, `Update` and `CreateInstance`, which only write metadata before the instance exists (Init is a created instance);
  * its queries;
  * `doStopInstanceStateEvent`, which only a shard moving to another node triggers.
* `UpdateWorkflow` and `UpdateCrowd`. They change the workers' step definitions and total crowd through queue events. Their allocation (`BMAlloc`), the crowd loaders, and the worker's handling of the events are not in the sources. The hazards of go.mod 1000, 1030 and 1044 say what can go wrong there.
* `TenantInit`, cron, the snapshot payload and the queries' arithmetic. These are data over the modelled state.
* The GC's use of the applying replica's clock (batch.go 203). The model has one replica. Every GC apply ends in `log.Fatalf` anyway.
* The worker's notification callbacks, and the timer's last-trigger time (go.mod 1716). The model lets a timer fire at any tick.
* The capacities of the channels other than `stopInstanceC`. `HandlerLoop` models that one, and `HandlerLoop_selfblock.cfg` reproduces its self-send deadlock. The run list is full, so no run checks it.
* The double `w.stop()` race between `doStoppedInstanceEvent` and `stopWorker`. `stateWorker.stop()` is not in the sources.
* The "BUG: start a exists state worker" fatal (go.mod 1324). It is kept as a guard. The restart run checks `PlacementFree`, which says the guard always holds. With one instance, the store's idempotent create already rules out a placement for a registered key. So the lifecycle run does not check it, and the hazard list does not count it.

## Plan for later work

* Model `UpdateWorkflow` and `UpdateCrowd` as engine actions that send to the running workers.
* Add the timer's trigger time to `StateWorker`, so that `partial_failure` at go.mod 1716 can be checked.
* Compose Engine and StateWorker, so that a stopped worker's last tick is checked against the instance's stop.
* Replace the remaining mutant of the spec-modelled `CommitTick`, which is `TypeOK` in flow. No mutant of mapped transaction code takes a state outside its type.
