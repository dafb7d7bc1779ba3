------------------------------ MODULE EngineV1 ------------------------------
(***************************************************************************)
(* The earlier engine of core/engine.go (go.mod 21-684), for one created   *)
(* instance: its lifecycle by instance ID (StartInstance, StopInstance,    *)
(* the storage events and the two retry channels), the workers it runs for *)
(* the instance's shards, and the routing of Step: a user event is sent to *)
(* the shard whose range [start, end) holds the user, the ranges coming    *)
(* from eng.rangeCache, which Step fills on a miss and which the stopped   *)
(* event and stopWorker set to the empty stoppedRange.                     *)
(*                                                                         *)
(* Step runs on the API caller's goroutine, the handlers on handleEvent's, *)
(* doStep on the store's apply.  The store's commands, its events and      *)
(* bbutil.BMSplit are not in the sources; they follow the spec (sections   *)
(* 4.4, 6): a command is a state transition that is a no-op when it does  *)
(* not apply, events come in commit order, every shard is placed on this   *)
(* node.  With a Duration, time is abstracted to one flag: whether the    *)
(* Duration since the start has passed (the workers' StopAt and the       *)
(* instance's StartedAt + Duration are one deadline).                     *)
(***************************************************************************)
EXTENDS Naturals, Sequences, SequencesExt, FiniteSets

CONSTANTS
    Width,        \* bits of a user ID (uint32 in the code)
    Ids,          \* user IDs a crowd may hold
    MaxPerShard,  \* instance.MaxPerShard
    StepUsers,    \* user IDs the API caller sends events for
    MaxFailures,  \* bound on failed storage calls in a behaviour
    HasDuration   \* instance.Snapshot.Duration > 0

ASSUME /\ Width \in Nat \ {0} /\ MaxPerShard \in Nat \ {0}
       /\ Ids \subseteq 0..(2^Width - 1) /\ StepUsers \subseteq 0..(2^Width - 1)
       /\ MaxFailures \in Nat /\ HasDuration \in BOOLEAN

VARIABLES
    crowd,     \* instance.Crowd, set by CreateInstance
    inst,      \* the store: "created", "starting", "running" or "stopped"
    states,    \* the store: shards whose WorkflowInstanceState exists
    events,    \* eventC: storage events not yet handled
    retries,   \* timer-wheel callbacks pending: "new", "complete", "stop"
    cache,     \* eng.rangeCache entry of the instance
    meta,      \* the instance's metadata key (uint64Key(id)) exists
    workers,   \* eng.workers: shards whose worker is stored and running
    wtimers,   \* shards whose stopWorker is scheduled on the timer wheel
    elapsed,   \* the Duration since the start has passed
    failures,  \* storage calls that failed so far
    spc,       \* the Step call: "idle", "get", "fill", "store" or "send"
    su,        \* event.UserID of the Step call
    sranges,   \* the ranges maybeLoadInstanceStateShardRanges computed
    sres,      \* what the last Step call returned
    apc,       \* the StartInstance call: "idle", or "exec" after its reads
    dpc        \* the DeleteInstance call: "idle", or "delete" after its read

vars == <<crowd, inst, states, events, retries, cache, meta, workers, wtimers,
          elapsed, failures, spc, su, sranges, sres, apc, dpc>>

LOCAL FS == INSTANCE FiniteSetsExt

\* bbutil.BMSplit(bm, maxPerShard): the crowd in ascending order cut into
\* runs of MaxPerShard users (spec 4.4).
Shards ==
    LET s == SetToSortSeq(crowd, <)
    IN [i \in 1..((Len(s) + MaxPerShard - 1) \div MaxPerShard) |->
           Range(SubSeq(s, (i - 1) * MaxPerShard + 1,
                        FS!Min({i * MaxPerShard, Len(s)})))]

\* Mutant: the range ends at the shard's largest user, not one past it.
ShardRangesNoPlusOne ==
    [i \in DOMAIN Shards |-> <<FS!Min(Shards[i]), FS!Max(Shards[i]) % 2^Width>>]

\* addShardRangesToCache's loop: {shard.Minimum(), shard.Maximum() + 1},
\* a uint32 sum.
ShardRanges ==
    [i \in DOMAIN Shards |-> <<FS!Min(Shards[i]), (FS!Max(Shards[i]) + 1) % 2^Width>>]

\* The worker's matches(instanceID, userID): state.Start <= user < state.End
\* of the state doStartInstanceEvent built (spec_modelled).
Matches(i, u) == ShardRanges[i][1] <= u /\ u < ShardRanges[i][2]

\* Step's search of the ranges: the first with start <= UserID < end, or
\* start = end = 0 when there is none.
FindRange(rs, u) ==
    LET hit == {i \in DOMAIN rs : rs[i][1] <= u /\ u < rs[i][2]}
    IN IF hit = {} THEN <<0, 0>> ELSE rs[FS!Min(hit)]

Miss == [hit |-> FALSE, ranges |-> <<>>]
Hit(rs) == [hit |-> TRUE, ranges |-> rs]
StoppedRange == Hit(<<>>)     \* the nil stoppedRange: len(ranges) == 0

CanFail == failures < MaxFailures

Init ==
    /\ crowd \in (SUBSET Ids) \ {{}}
    /\ inst = "created"
    /\ states = {}
    /\ events = <<>>
    /\ retries = {}
    /\ cache = Miss
    /\ meta = TRUE
    /\ workers = {}
    /\ wtimers = {}
    /\ elapsed = FALSE
    /\ failures = 0
    /\ spc = "idle"
    /\ su = 0
    /\ sranges = <<>>
    /\ sres = "none"
    /\ apc = "idle"
    /\ dpc = "idle"

(***************************************************************************)
(* Store commands (spec_modelled)                                          *)
(***************************************************************************)

\* StartedInstance: starting -> running, with its event.
Started(evs) ==
    IF inst = "starting"
    THEN inst' = "running" /\ events' = Append(evs, [type |-> "Started", idx |-> 0])
    ELSE UNCHANGED inst /\ events' = evs

\* CreateInstanceStateShard for shards 1..j: each absent state is created
\* and its placement event emitted, in shard order.
Created(j) == {i \in 1..j : i \notin states}
LoadedEvents(j) ==
    SelectSeq([n \in 1..j |-> [type |-> "StateLoaded", idx |-> n]],
              LAMBDA e : e.idx \in Created(j))

\* StopInstance by instance ID: a started instance is stopped, with its
\* event; otherwise a no-op.
StopCmd(evs) ==
    IF inst \in {"starting", "running"}
    THEN inst' = "stopped" /\ events' = Append(evs, [type |-> "Stopped", idx |-> 0])
    ELSE UNCHANGED inst /\ events' = evs

\* The variables of the Step call, of the Duration's timers and of the
\* StartInstance and DeleteInstance calls.
stepVars == <<spc, su, sranges, sres>>
timing == <<wtimers, elapsed>>
apiVars == <<meta, apc, dpc>>

(***************************************************************************)
(* Handlers                                                                *)
(***************************************************************************)

\* Mutant: a failed StartedInstance is logged and not rescheduled.
ShardCompleteNoRetry(evs, rt) ==
    \/ /\ CanFail /\ failures' = failures + 1 /\ retries' = rt
       /\ events' = evs /\ UNCHANGED inst
    \/ /\ Started(evs) /\ retries' = rt /\ UNCHANGED failures

\* doCreateInstanceStateShardComplete: StartedInstance, rescheduled
\* through retryCompleteInstanceC on error.
ShardComplete(evs, rt) ==
    \/ /\ CanFail
       /\ failures' = failures + 1
       /\ retries' = rt \cup {"complete"}
       /\ events' = evs
       /\ UNCHANGED inst
    \/ /\ Started(evs)
       /\ retries' = rt
       /\ UNCHANGED failures

\* Mutant: the shard loop runs one index past the shards.
DoStartInstanceEventPastEnd(evs, rt) ==
    /\ cache' = IF cache.hit THEN cache ELSE Hit(ShardRanges)
    /\ \E j \in 0..(Len(Shards) + 1) :
          /\ states' = states \cup Created(j)
          /\ IF j < Len(Shards) + 1
             THEN /\ CanFail /\ failures' = failures + 1
                  /\ retries' = rt \cup {"new"}
                  /\ events' = evs \o LoadedEvents(j)
                  /\ UNCHANGED inst
             ELSE ShardComplete(evs \o LoadedEvents(j), rt)
    /\ UNCHANGED <<crowd, workers, timing, stepVars, apiVars>>

\* doStartInstanceEvent: addShardRangesToCache (Load, then Store when
\* absent), then one state per shard; the first failed write (at shard
\* j+1) schedules the whole start again through retryNewInstanceC.
DoStartInstanceEvent(evs, rt) ==
    /\ cache' = IF cache.hit THEN cache ELSE Hit(ShardRanges)
    /\ \E j \in 0..Len(Shards) :
          /\ states' = states \cup Created(j)
          /\ IF j < Len(Shards)
             THEN /\ CanFail
                  /\ failures' = failures + 1
                  /\ retries' = rt \cup {"new"}
                  /\ events' = evs \o LoadedEvents(j)
                  /\ UNCHANGED inst
             ELSE ShardComplete(evs \o LoadedEvents(j), rt)
    /\ UNCHANGED <<crowd, workers, timing, stepVars, apiVars>>

\* doStartInstanceStateEvent: a key already in eng.workers is a fatal
\* "BUG" (a guard here: a state is placed once); a passed StopAt returns;
\* newStateWorker failing is logged and the shard gets no worker;
\* otherwise the worker is stored and run, and with a StopAt stopWorker
\* is scheduled for it.
DoStartInstanceStateEvent(i, evs) ==
    /\ i \notin workers
    /\ IF HasDuration /\ elapsed
       THEN UNCHANGED <<workers, wtimers, failures>>
       ELSE \/ /\ CanFail
               /\ failures' = failures + 1
               /\ UNCHANGED <<workers, wtimers>>
            \/ /\ workers' = workers \cup {i}
               /\ wtimers' = IF HasDuration THEN wtimers \cup {i} ELSE wtimers
               /\ UNCHANGED failures
    /\ events' = evs
    /\ UNCHANGED <<crowd, inst, states, retries, cache, elapsed, stepVars, apiVars>>

\* doStoppedInstanceEvent: stoppedRange is stored for the instance, and
\* every worker of the instance goes through stopWorker (deleted, stopped,
\* stoppedRange stored again).  Their scheduled stopWorker stays.
DoStoppedInstanceEvent(evs) ==
    /\ cache' = StoppedRange
    /\ workers' = {}
    /\ events' = evs
    /\ UNCHANGED <<crowd, inst, states, retries, failures, timing, stepVars, apiVars>>

\* doStartedInstanceEvent: with no Duration it returns at once; otherwise
\* addToInstanceStop runs when the Duration since StartedAt has passed (at
\* once when it already has).
DoStartedInstanceEvent(evs) ==
    /\ events' = evs
    /\ retries' = IF HasDuration THEN retries \cup {"stop"} ELSE retries
    /\ UNCHANGED <<crowd, inst, states, cache, workers, failures, timing, stepVars, apiVars>>

\* Mutant: a failed StopInstance is logged and not rescheduled.
DoStopInstanceNoRetry(rt) ==
    /\ \/ CanFail /\ failures' = failures + 1 /\ retries' = rt
          /\ events' = events /\ UNCHANGED inst
       \/ StopCmd(events) /\ retries' = rt /\ UNCHANGED failures
    /\ UNCHANGED <<crowd, states, cache, workers, timing, stepVars, apiVars>>

\* doStopInstance: the StopInstance command, rescheduled through
\* addToInstanceStop after retryInterval on error.
DoStopInstance(rt) ==
    /\ \/ /\ CanFail
          /\ failures' = failures + 1
          /\ retries' = rt \cup {"stop"}
          /\ events' = events
          /\ UNCHANGED inst
       \/ /\ StopCmd(events)
          /\ retries' = rt
          /\ UNCHANGED failures
    /\ UNCHANGED <<crowd, states, cache, workers, timing, stepVars, apiVars>>

(***************************************************************************)
(* The API calls                                                           *)
(***************************************************************************)

\* StartInstance(id), its reads: an instance whose start key exists
\* returns nil, a missing metadata key is an error; otherwise the call
\* goes on with the instance it read.  Calls that end here change nothing.
StartRead ==
    /\ apc = "idle"
    /\ inst = "created"
    /\ meta
    /\ apc' = "exec"
    /\ UNCHANGED <<crowd, inst, states, events, retries, cache, meta, workers,
                   failures, timing, stepVars, dpc>>

\* StartInstance(id), its StartingInstance command, which writes the
\* start key and emits the loaded event, or fails.
StartExec ==
    /\ apc = "exec"
    /\ apc' = "idle"
    /\ \/ /\ CanFail /\ failures' = failures + 1
          /\ UNCHANGED <<inst, events>>
       \/ /\ inst' = "starting" /\ UNCHANGED failures
          /\ events' = Append(events, [type |-> "Loaded", idx |-> 0])
    /\ UNCHANGED <<crowd, states, retries, cache, meta, workers, timing,
                   stepVars, dpc>>

\* DeleteInstance(id), its read of the start key: a started instance is
\* an error ("already started"); otherwise the call goes on to delete.
DeleteCheck ==
    /\ dpc = "idle"
    /\ inst = "created"
    /\ meta
    /\ dpc' = "delete"
    /\ UNCHANGED <<crowd, inst, states, events, retries, cache, meta, workers,
                   failures, timing, stepVars, apc>>

\* DeleteInstance(id), its Delete of the metadata key, or its failure.
DeleteExec ==
    /\ dpc = "delete"
    /\ dpc' = "idle"
    /\ \/ CanFail /\ failures' = failures + 1 /\ UNCHANGED meta
       \/ meta' = FALSE /\ UNCHANGED failures
    /\ UNCHANGED <<crowd, inst, states, events, retries, cache, workers,
                   timing, stepVars, apc>>

\* StopInstance(id): the instance must have its metadata key and its
\* start key; the StopInstance command stops it and emits the stopped
\* event.
StopInstance ==
    /\ meta
    /\ inst \in {"starting", "running"}
    /\ StopCmd(events)
    /\ UNCHANGED <<crowd, states, retries, cache, meta, workers, failures,
                   timing, stepVars, apc, dpc>>

\* The end of a Step call with what it returned.
Return(r) == spc' = "idle" /\ sres' = r

\* Step's routing over the ranges it got: none means the instance stopped
\* and Step returns nil; a user in no range is an error; otherwise the
\* StepInstanceStateShard command is proposed.
Route(rs, u) ==
    \/ rs = <<>> /\ Return("stopped")
    \/ rs # <<>> /\ FindRange(rs, u) = <<0, 0>> /\ Return("notfound")
    \/ rs # <<>> /\ FindRange(rs, u) # <<0, 0>> /\ spc' = "send" /\ UNCHANGED sres

\* Step called for user u: maybeLoadInstanceStateShardRanges returns the
\* cached ranges, or reads the instance on a miss.
StepCall ==
    /\ spc = "idle"
    /\ \E u \in StepUsers :
          /\ su' = u
          /\ IF cache.hit THEN Route(cache.ranges, u) ELSE spc' = "get" /\ UNCHANGED sres
    /\ UNCHANGED <<crowd, inst, states, events, retries, cache, workers,
                   failures, timing, sranges, apiVars>>

\* The read of the start key: an error or a missing key is returned;
\* otherwise the ranges are computed from the instance's crowd.
StepGet ==
    /\ spc = "get"
    /\ \/ /\ CanFail /\ failures' = failures + 1
          /\ Return("error") /\ UNCHANGED sranges
       \/ /\ inst = "created" /\ UNCHANGED failures
          /\ Return("notstarted") /\ UNCHANGED sranges
       \/ /\ inst # "created" /\ UNCHANGED failures
          /\ sranges' = ShardRanges
          /\ spc' = "fill" /\ UNCHANGED sres
    /\ UNCHANGED <<crowd, inst, states, events, retries, cache, workers,
                   timing, su, apiVars>>

\* addShardRangesToCache, its Load: a cached entry is returned.
StepFill ==
    /\ spc = "fill"
    /\ IF cache.hit THEN Route(cache.ranges, su) ELSE spc' = "store" /\ UNCHANGED sres
    /\ UNCHANGED <<crowd, inst, states, events, retries, cache, workers,
                   failures, timing, su, sranges, apiVars>>

\* addShardRangesToCache, its Store of the ranges computed, which then
\* route the event.
StepStore ==
    /\ spc = "store"
    /\ cache' = Hit(sranges)
    /\ Route(sranges, su)
    /\ UNCHANGED <<crowd, inst, states, events, retries, workers, failures,
                   timing, su, sranges, apiVars>>

\* The proposal fails, or doStep applies it: the first worker matching
\* the user takes the event, errWorkerNotFound when there is none.
DoStep ==
    /\ spc = "send"
    /\ \/ CanFail /\ failures' = failures + 1 /\ Return("error")
       \/ (\E i \in workers : Matches(i, su)) /\ Return("ok") /\ UNCHANGED failures
       \/ (~\E i \in workers : Matches(i, su)) /\ Return("noworker") /\ UNCHANGED failures
    /\ UNCHANGED <<crowd, inst, states, events, retries, cache, workers,
                   timing, su, sranges, apiVars>>

(***************************************************************************)
(* The steps of the system                                                 *)
(***************************************************************************)

\* handleEvent taking the next storage event (doEvent).
HandleEvent ==
    /\ events # <<>>
    /\ LET e == Head(events)
           evs == Tail(events)
       IN \/ e.type = "Loaded" /\ DoStartInstanceEvent(evs, retries)
          \/ e.type = "StateLoaded" /\ DoStartInstanceStateEvent(e.idx, evs)
          \/ e.type = "Started" /\ DoStartedInstanceEvent(evs)
          \/ e.type = "Stopped" /\ DoStoppedInstanceEvent(evs)

\* handleEvent taking what a timer-wheel callback sent: the retries after
\* retryInterval, the stop once the Duration has passed.
FireRetry(r) ==
    /\ r \in retries
    /\ r = "stop" => elapsed
    /\ \/ r = "new" /\ DoStartInstanceEvent(events, retries \ {r})
       \/ r = "complete"
          /\ ShardComplete(events, retries \ {r})
          /\ UNCHANGED <<crowd, states, cache, workers, timing, stepVars, apiVars>>
       \/ r = "stop" /\ DoStopInstance(retries \ {r})

\* Mutant: stopWorker stops the worker but leaves its key in eng.workers.
StopWorkerNoDelete(i) ==
    /\ i \in wtimers
    /\ elapsed
    /\ wtimers' = wtimers \ {i}
    /\ cache' = StoppedRange
    /\ UNCHANGED <<crowd, inst, states, events, retries, workers, elapsed,
                   failures, stepVars, apiVars>>

\* stopWorker on the timer goroutine at the worker's StopAt: the worker is
\* deleted from eng.workers and stopped, and stoppedRange is stored for
\* the instance.
StopWorker(i) ==
    /\ i \in wtimers
    /\ elapsed
    /\ wtimers' = wtimers \ {i}
    /\ workers' = workers \ {i}
    /\ cache' = StoppedRange
    /\ UNCHANGED <<crowd, inst, states, events, retries, elapsed, failures,
                   stepVars, apiVars>>

\* Time passes the Duration of the started instance.
Elapse ==
    /\ HasDuration
    /\ inst # "created"
    /\ ~elapsed
    /\ elapsed' = TRUE
    /\ UNCHANGED <<crowd, inst, states, events, retries, cache, workers,
                   wtimers, failures, stepVars, apiVars>>

StepSteps == StepCall \/ StepGet \/ StepFill \/ StepStore \/ DoStep

RetryKinds == {"new", "complete", "stop"}
ShardSlots == 1..Cardinality(Ids)      \* a bound on the shard indexes

ApiSteps == StartRead \/ StartExec \/ DeleteCheck \/ DeleteExec

Next ==
    \/ ApiSteps
    \/ StopInstance
    \/ HandleEvent
    \/ \E r \in RetryKinds : FireRetry(r)
    \/ \E i \in ShardSlots : StopWorker(i)
    \/ Elapse
    \/ StepSteps

\* handleEvent takes every ready channel, the timer wheel runs every
\* callback, time passes the Duration, and a Step call that started
\* returns.
Fairness ==
    /\ WF_vars(HandleEvent)
    /\ \A r \in RetryKinds : WF_vars(FireRetry(r))
    /\ \A i \in ShardSlots : WF_vars(StopWorker(i))
    /\ WF_vars(Elapse)
    /\ WF_vars(StepGet \/ StepFill \/ StepStore \/ DoStep)

Spec == Init /\ [][Next]_vars /\ Fairness

(***************************************************************************)
(* Properties                                                              *)
(***************************************************************************)

TypeOK ==
    /\ crowd \subseteq Ids
    /\ inst \in {"created", "starting", "running", "stopped"}
    /\ states \subseteq DOMAIN Shards
    /\ events \in Seq([type : {"Loaded", "StateLoaded", "Started", "Stopped"},
                       idx : 0..Len(Shards)])
    /\ retries \subseteq RetryKinds
    /\ cache \in {Miss, StoppedRange, Hit(ShardRanges)}
    /\ workers \subseteq DOMAIN Shards
    /\ wtimers \subseteq DOMAIN Shards
    /\ elapsed \in BOOLEAN
    /\ failures \in 0..MaxFailures
    /\ meta \in BOOLEAN
    /\ spc \in {"idle", "get", "fill", "store", "send"}
    /\ apc \in {"idle", "exec"}
    /\ dpc \in {"idle", "delete"}
    /\ sres \in {"none", "ok", "stopped", "notfound", "noworker", "error", "notstarted"}

\* Spec 8 (routing completeness: every user of an instance's crowd is in
\* exactly one shard's [start, end)), about Step's search of the ranges
\* that addShardRangesToCache built from BMSplit: a Step for a user of the
\* crowd never ends in "instance state range not found".
RoutingComplete == spc = "idle" /\ sres = "notfound" => su \notin crowd

\* Spec 4.4 (the range cache is invalidated when the instance stops),
\* about doStoppedInstanceEvent's Store of stoppedRange and Step's
\* addShardRangesToCache (a Load, then a Store): once the cache holds the
\* stopped range it keeps it.
CacheInvalidated == [][cache = StoppedRange => cache' = StoppedRange]_vars

\* Every started instance leaves Starting, through the retries of
\* doStartInstanceEvent and doCreateInstanceStateShardComplete.
StartCompletes == inst = "starting" ~> inst # "starting"

\* Once the instance is stopped, no worker of it runs on this node any
\* more (doStoppedInstanceEvent stops them all).
WorkersStopped == inst = "stopped" ~> workers = {}

\* Spec 6 (Running --Duration expires--> Stopping; a StopAt removes the
\* worker from the registry), about doStartedInstanceEvent's
\* addToInstanceStop, doStopInstance's retry and stopWorker at each
\* worker's StopAt: once the Duration has passed, the instance ends
\* stopped with no worker of it left in eng.workers, for good, whatever
\* the order of the stop, the placement events and the timers.
DurationEnds == elapsed ~> [](inst = "stopped" /\ workers = {})

\* DeleteInstance's check of the start key ("instance already started"):
\* the metadata of a started instance is never deleted, so StopInstance,
\* which reads it first, can still stop the instance.
StartedKeepsMeta == inst # "created" => meta

====
