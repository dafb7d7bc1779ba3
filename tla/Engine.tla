------------------------------- MODULE Engine -------------------------------
(***************************************************************************)
(* The engine controller of core/engine.go for one workflow: the instance  *)
(* lifecycle Starting -> Running -> Stopping -> Stopped driven by storage  *)
(* events, the retries the timer wheel feeds back into the handler loop,   *)
(* the Duration timers, and the registry of the state workers this node    *)
(* runs for the instance's shards (keyed "workflowID/index").              *)
(*                                                                         *)
(* The handler goroutine (handleEvent) takes one storage event or one      *)
(* retry at a time; stopWorker runs on the timer wheel's goroutine.  The   *)
(* storage commands and the events they emit are not in the sources: they  *)
(* follow the spec (sections 4.1, 6): each command is a state-transition   *)
(* verb keyed by the workflow ID that is a no-op when it does not apply,   *)
(* and the replicated store emits its events in commit order.  Instances   *)
(* of the workflow are numbered 1..MaxInst; an instance number on an event *)
(* or a timer that the code keys by workflow ID only is a history field.   *)
(* Every shard is placed on this node.                                     *)
(***************************************************************************)
EXTENDS Naturals, Sequences, FiniteSets

CONSTANTS
    W,            \* instance.Workers: shards of an instance
    MaxInst,      \* bound on the instances started
    MaxFailures,  \* bound on failed storage calls in a behaviour
    HasDuration,  \* the workflow has a Duration (so workers get a StopAt)
    LoadFails,    \* loadBM of doStartInstanceEvent may fail
    LateSuccess,  \* a lifecycle command reported failed may have been applied
    Starters      \* StartInstance calls that may run at the same time

ASSUME /\ W \in Nat \ {0} /\ MaxInst \in Nat \ {0} /\ MaxFailures \in Nat
       /\ HasDuration \in BOOLEAN /\ LoadFails \in BOOLEAN
       /\ LateSuccess \in BOOLEAN /\ Starters \in Nat \ {0}

Idx == 0..(W - 1)
Inst == 1..MaxInst
InstStates == {"None", "Starting", "Running", "Stopping", "Stopped"}
EventRecs == [type : {"Starting", "Running", "Stopping", "Stopped",
                      "WorkerRunning", "WorkerRemoved"},
              inst : Inst, idx : Idx]
TimerRecs == [kind : {"new", "complete", "stopping", "stop", "stopWorker"},
              inst : Inst, idx : Idx]
Event(t, k, i) == [type |-> t, inst |-> k, idx |-> i]
Timer(kd, k, i) == [kind |-> kd, inst |-> k, idx |-> i]

VARIABLES
    cur,        \* the current instance key: [id, state], id 0 = none
    shardInst,  \* shardInst[i]: instance whose worker state i is stored, 0 = none
    events,     \* the storage event stream not yet handled (eventC)
    timers,     \* callbacks scheduled on the timer wheel
    registry,   \* eng.workers: registry[i] = instance of the worker under key i
    running,    \* <<instance, index>> of every worker whose loop still runs
    elapsed,    \* elapsed[k]: instance k's Duration (its StopAt) has passed
    failures,   \* storage calls that failed so far
    stopAsked,  \* history: instances a StopInstance call or own timer targeted
    stpc,       \* stpc[c]: StartInstance call c is "idle" or at its command
    stbase,     \* stbase[c]: the last instance call c read (0 = none)
    base        \* history: base[k] = the instance whose crowd k's start
                \* subtracted (0 = none)

startVars == <<stpc, stbase, base>>
vars == <<cur, shardInst, events, timers, registry, running, elapsed,
          failures, stopAsked, startVars>>

Callers == 1..Starters

Init ==
    /\ cur = [id |-> 0, state |-> "None"]
    /\ shardInst = [i \in Idx |-> 0]
    /\ events = <<>>
    /\ timers = {}
    /\ registry = [i \in Idx |-> 0]
    /\ running = {}
    /\ elapsed = [k \in Inst |-> FALSE]
    /\ failures = 0
    /\ stopAsked = {}
    /\ stpc = [c \in Callers |-> "idle"]
    /\ stbase = [c \in Callers |-> 0]
    /\ base = [k \in Inst |-> 0]

CanFail == failures < MaxFailures

(***************************************************************************)
(* Storage commands (spec_modelled)                                        *)
(***************************************************************************)

\* The store's create of a worker state: only an absent state is written,
\* and only a written one emits its placement event (spec 4.1).
Created(idxs) == {i \in idxs : shardInst[i] = 0}

\* Mutant: the creation loop runs one index too far.
CreateShardsOffByOne(k, j) ==
    LET made == {i \in 0..j : i \notin Idx \/ shardInst[i] = 0}
    IN <<made, SelectSeq([n \in 1..(j + 1) |-> Event("WorkerRunning", k, n - 1)],
                         LAMBDA e : e.idx \in made)>>

\* Mutant: a retried creation emits the placement of states that exist.
CreateShardsReemit(k, j) ==
    LET made == Created(0..(j - 1))
    IN <<made, [n \in 1..j |-> Event("WorkerRunning", k, n - 1)]>>

\* The create loop of doStartInstanceEvent over indexes 0..j-1, in index
\* order; the store (Created) decides which states are written.
CreateShards(k, j) ==
    LET made == Created(0..(j - 1))
    IN <<made, SelectSeq([n \in 1..j |-> Event("WorkerRunning", k, n - 1)],
                         LAMBDA e : e.idx \in made)>>

\* Mutant: the removal loop stops one index early.
RemoveShardsOffByOne(r) == {i \in 0..(r - 2) : shardInst[i] # 0}

\* RemoveInstanceStateShard for indexes 0..r-1: the stored states removed.
RemoveShards(r) == {i \in 0..(r - 1) : shardInst[i] # 0}

\* StartedInstance: Starting -> Running, with its event.
Started(evs) ==
    IF cur.state = "Starting"
    THEN /\ cur' = [cur EXCEPT !.state = "Running"]
         /\ events' = Append(evs, Event("Running", cur.id, 0))
    ELSE /\ UNCHANGED cur
         /\ events' = evs

\* StopInstance: Running -> Stopping, with its event.
StopCmd(evs) ==
    IF cur.state = "Running"
    THEN /\ cur' = [cur EXCEPT !.state = "Stopping"]
         /\ events' = Append(evs, Event("Stopping", cur.id, 0))
    ELSE /\ UNCHANGED cur
         /\ events' = evs

\* StoppedInstance: Stopping -> Stopped, with its event.
StoppedCmd(evs) ==
    IF cur.state = "Stopping"
    THEN /\ cur' = [cur EXCEPT !.state = "Stopped"]
         /\ events' = Append(evs, Event("Stopped", cur.id, 0))
    ELSE /\ UNCHANGED cur
         /\ events' = evs

\* A lifecycle command that returned an error and was not applied.  With
\* LateSuccess the store may instead apply it after the call gave up: the
\* callers then take the command's own step.
NotApplied(evs) == UNCHANGED cur /\ events' = evs

\* The placement-removed events of the states in gone, in index order.
RemovedEvents(gone) ==
    SelectSeq([n \in 1..W |-> Event("WorkerRemoved", shardInst[n - 1], n - 1)],
              LAMBDA e : e.idx \in gone)

(***************************************************************************)
(* Handlers.  evs and tm are the event stream and the timers after the     *)
(* event or the retry being handled was taken out.                         *)
(***************************************************************************)

\* Mutant: a failed StartedInstance is not rescheduled.
ShardCompleteNoRetry(k, evs, tm) ==
    \/ /\ CanFail /\ failures' = failures + 1 /\ timers' = tm
       /\ (NotApplied(evs) \/ (LateSuccess /\ Started(evs)))
    \/ /\ Started(evs) /\ timers' = tm /\ UNCHANGED failures

\* doCreateInstanceStateShardComplete: StartedInstance by workflow ID,
\* rescheduled through retryCompleteInstanceC on error.
ShardComplete(k, evs, tm) ==
    \/ /\ CanFail
       /\ failures' = failures + 1
       /\ timers' = tm \cup {Timer("complete", k, 0)}
       /\ (NotApplied(evs) \/ (LateSuccess /\ Started(evs)))
    \/ /\ Started(evs)
       /\ timers' = tm
       /\ UNCHANGED failures

\* doStartInstanceEvent with doCreateInstanceState: a loadBM error
\* schedules the *complete* retry; the states are then created one index
\* at a time, and the first failed write (at index j) schedules the whole
\* start again through retryNewInstanceC.
DoStartInstanceEvent(k, evs, tm) ==
    /\ \/ /\ LoadFails /\ CanFail
          /\ failures' = failures + 1
          /\ timers' = tm \cup {Timer("complete", k, 0)}
          /\ events' = evs
          /\ UNCHANGED <<startVars, cur, shardInst>>
       \/ \E j \in 0..W :
            LET c == CreateShards(k, j)
            IN /\ shardInst' = [i \in Idx |-> IF i \in c[1] THEN k ELSE shardInst[i]]
               /\ IF j < W
                  THEN /\ CanFail
                       /\ failures' = failures + 1
                       /\ timers' = tm \cup {Timer("new", k, 0)}
                       /\ events' = evs \o c[2]
                       /\ UNCHANGED cur
                  ELSE ShardComplete(k, evs \o c[2], tm)
    /\ UNCHANGED <<startVars, registry, running, elapsed, stopAsked>>

\* doCreateInstanceStateShardComplete taken from retryCompleteInstanceC.
DoComplete(k, evs, tm) ==
    /\ ShardComplete(k, evs, tm)
    /\ UNCHANGED <<startVars, shardInst, registry, running, elapsed, stopAsked>>

\* doStartedInstanceEvent: with a Duration, addToInstanceStop for the
\* workflow ID after the rest of it (at once when it already passed).
DoStartedInstanceEvent(k, evs, tm) ==
    /\ timers' = IF HasDuration THEN tm \cup {Timer("stop", k, 0)} ELSE tm
    /\ events' = evs
    /\ UNCHANGED <<startVars, cur, shardInst, registry, running, elapsed, failures, stopAsked>>

\* doStopInstance: StopInstance by workflow ID, rescheduled on error.
DoStopInstance(k, evs, tm) ==
    /\ stopAsked' = stopAsked \cup {k}
    /\ \/ /\ CanFail
          /\ failures' = failures + 1
          /\ timers' = tm \cup {Timer("stop", k, 0)}
          /\ (NotApplied(evs) \/ (LateSuccess /\ StopCmd(evs)))
       \/ /\ StopCmd(evs)
          /\ timers' = tm
          /\ UNCHANGED failures
    /\ UNCHANGED <<startVars, shardInst, registry, running, elapsed>>

\* Mutant: doRetryStoppingInstance drops the retry.
RetryStoppingDropped(k, tm) == tm

\* doRetryStoppingInstance: the whole stopping again after retryInterval.
RetryStopping(k, tm) == tm \cup {Timer("stopping", k, 0)}

(***************************************************************************)
(* doStoppingInstanceEvent with doSaveSnapshot and                         *)
(* doInstanceStoppingComplete: the history snapshot, the removal of each   *)
(* index's state, then StoppedInstance; the first call that fails          *)
(* schedules the whole stopping again.  p is that call: 0 the snapshot,    *)
(* 1..W the removal of index p-1, W+1 StoppedInstance, W+2 none.  The      *)
(* snapshot is data only (it is idempotent: an existing one is kept).      *)
(***************************************************************************)
DoStopping(k, evs, tm) ==
    \E p \in 0..(W + 2) :
        LET gone == RemoveShards(IF p = 0 THEN 0 ELSE IF p <= W THEN p - 1 ELSE W)
            evs2 == evs \o RemovedEvents(gone)
        IN /\ shardInst' = [i \in Idx |-> IF i \in gone THEN 0 ELSE shardInst[i]]
           /\ IF p <= W + 1
              THEN /\ CanFail
                   /\ failures' = failures + 1
                   /\ timers' = RetryStopping(k, tm)
                   /\ IF p = W + 1 THEN (NotApplied(evs2) \/ (LateSuccess /\ StoppedCmd(evs2)))
                                   ELSE UNCHANGED cur /\ events' = evs2
              ELSE /\ StoppedCmd(evs2)
                   /\ timers' = tm
                   /\ UNCHANGED failures
           /\ UNCHANGED <<startVars, registry, running, elapsed, stopAsked>>

\* doStoppedInstanceEvent: every registered worker of the workflow, of
\* whatever instance, is passed to stopWorker (deleted and stopped).
DoStoppedInstanceEvent(evs, tm) ==
    /\ running' = running \ {<<registry[i], i>> : i \in Idx}
    /\ registry' = [i \in Idx |-> 0]
    /\ events' = evs
    /\ timers' = tm
    /\ UNCHANGED <<startVars, cur, shardInst, elapsed, failures, stopAsked>>

\* doStartInstanceStateEvent: a key already in eng.workers is a fatal
\* "BUG" (a guard here; PlacementFree checks that no run reaches it); a
\* passed StopAt returns; otherwise the worker is stored and run and, with
\* a StopAt, stopWorker is scheduled for it.
DoStartInstanceStateEvent(k, i, evs, tm) ==
    /\ registry[i] = 0
    /\ IF HasDuration /\ elapsed[k]
       THEN UNCHANGED <<startVars, registry, running>> /\ timers' = tm
       ELSE /\ registry' = [registry EXCEPT ![i] = k]
            /\ running' = running \cup {<<k, i>>}
            /\ timers' = IF HasDuration THEN tm \cup {Timer("stopWorker", k, i)}
                                        ELSE tm
    /\ events' = evs
    /\ UNCHANGED <<startVars, cur, shardInst, elapsed, failures, stopAsked>>

\* Mutant: the key is deleted but the worker is not stopped.
DoInstanceStateRemovedNoStop(i, evs, tm) ==
    /\ registry' = [registry EXCEPT ![i] = 0]
    /\ UNCHANGED running
    /\ events' = evs
    /\ timers' = tm
    /\ UNCHANGED <<startVars, cur, shardInst, elapsed, failures, stopAsked>>

\* doInstanceStateRemovedEvent: the worker under the key, if any, is
\* deleted and stopped.
DoInstanceStateRemovedEvent(i, evs, tm) ==
    /\ registry' = [registry EXCEPT ![i] = 0]
    /\ running' = running \ {<<registry[i], i>>}
    /\ events' = evs
    /\ timers' = tm
    /\ UNCHANGED <<startVars, cur, shardInst, elapsed, failures, stopAsked>>

(***************************************************************************)
(* The steps of the system.                                                *)
(***************************************************************************)

\* StartInstance call c, up to its command: loadBM, loadInstance (a last
\* instance that is not Stopped returns nil), the old instance's loadBM
\* and AndNot, AllocID and putBM.  The call keeps the instance it read;
\* calls that return before the command change nothing.
StartRead(c) ==
    /\ stpc[c] = "idle"
    /\ cur.state \in {"None", "Stopped"}
    /\ cur.id < MaxInst
    /\ stpc' = [stpc EXCEPT ![c] = "cmd"]
    /\ stbase' = [stbase EXCEPT ![c] = cur.id]
    /\ UNCHANGED <<cur, shardInst, events, timers, registry, running, elapsed,
                   failures, stopAsked, base>>

\* StartInstance call c, its StartingInstance command: the store makes the
\* new instance current when there is none or the last one is Stopped
\* (a no-op otherwise); a failed command changes nothing.
StartCmd(c) ==
    /\ stpc[c] = "cmd"
    /\ stpc' = [stpc EXCEPT ![c] = "idle"]
    /\ \/ /\ CanFail
          /\ failures' = failures + 1
          /\ UNCHANGED <<cur, events, base>>
       \/ /\ cur.state \in {"None", "Stopped"} /\ cur.id < MaxInst
          /\ cur' = [id |-> cur.id + 1, state |-> "Starting"]
          /\ events' = Append(events, Event("Starting", cur.id + 1, 0))
          /\ base' = [base EXCEPT ![cur.id + 1] = stbase[c]]
          /\ UNCHANGED failures
       \/ /\ ~(cur.state \in {"None", "Stopped"} /\ cur.id < MaxInst)
          /\ UNCHANGED <<cur, events, base, failures>>
    /\ UNCHANGED <<shardInst, timers, registry, running, elapsed, stopAsked,
                   stbase>>

\* StopInstance: the StopInstance command for the current instance.
StopInstance ==
    /\ cur.state = "Running"
    /\ StopCmd(events)
    /\ stopAsked' = stopAsked \cup {cur.id}
    /\ UNCHANGED <<startVars, shardInst, timers, registry, running, elapsed, failures>>

\* handleEvent taking the next storage event (doEvent).
HandleEvent ==
    /\ events # <<>>
    /\ LET e == Head(events)
           evs == Tail(events)
       IN \/ e.type = "Starting" /\ DoStartInstanceEvent(e.inst, evs, timers)
          \/ e.type = "Running" /\ DoStartedInstanceEvent(e.inst, evs, timers)
          \/ e.type = "Stopping" /\ DoStopping(e.inst, evs, timers)
          \/ e.type = "Stopped" /\ DoStoppedInstanceEvent(evs, timers)
          \/ e.type = "WorkerRunning" /\ DoStartInstanceStateEvent(e.inst, e.idx, evs, timers)
          \/ e.type = "WorkerRemoved" /\ DoInstanceStateRemovedEvent(e.idx, evs, timers)

\* Time passes instance k's Duration.
Elapse(k) ==
    /\ HasDuration
    /\ k <= cur.id
    /\ ~elapsed[k]
    /\ elapsed' = [elapsed EXCEPT ![k] = TRUE]
    /\ UNCHANGED <<startVars, cur, shardInst, events, timers, registry, running, failures, stopAsked>>

\* A timer callback whose channel handleEvent then takes: the retries fire
\* after retryInterval, the Duration stop once the Duration has passed.
FireTimer(t) ==
    /\ t \in timers
    /\ t.kind # "stopWorker"
    /\ t.kind = "stop" => elapsed[t.inst]
    /\ LET tm == timers \ {t}
       IN \/ t.kind = "new" /\ DoStartInstanceEvent(t.inst, events, tm)
          \/ t.kind = "complete" /\ DoComplete(t.inst, events, tm)
          \/ t.kind = "stopping" /\ DoStopping(t.inst, events, tm)
          \/ t.kind = "stop" /\ DoStopInstance(t.inst, events, tm)

\* Mutant: stopWorker deletes the key but does not stop the worker.
StopWorkerNoStop(t) ==
    /\ t \in timers
    /\ t.kind = "stopWorker"
    /\ elapsed[t.inst]
    /\ timers' = timers \ {t}
    /\ registry' = [registry EXCEPT ![t.idx] = 0]
    /\ UNCHANGED <<startVars, cur, shardInst, events, running, elapsed, failures, stopAsked>>

\* stopWorker on the timer goroutine at the worker's StopAt: it deletes the
\* key "workflowID/index", whatever worker is stored under it now, and
\* stops the worker it was scheduled for.
StopWorkerFires(t) ==
    /\ t \in timers
    /\ t.kind = "stopWorker"
    /\ elapsed[t.inst]
    /\ timers' = timers \ {t}
    /\ registry' = [registry EXCEPT ![t.idx] = 0]
    /\ running' = running \ {<<t.inst, t.idx>>}
    /\ UNCHANGED <<startVars, cur, shardInst, events, elapsed, failures, stopAsked>>

Next ==
    \/ \E c \in Callers : StartRead(c) \/ StartCmd(c)
    \/ StopInstance
    \/ HandleEvent
    \/ \E t \in timers : FireTimer(t)
    \/ \E t \in timers : StopWorkerFires(t)
    \/ \E k \in Inst : Elapse(k)

\* handleEvent's select takes every ready channel eventually, the timer
\* wheel runs every callback, and time passes every Duration.
Fairness ==
    /\ WF_vars(HandleEvent)
    /\ \A t \in TimerRecs : WF_vars(FireTimer(t)) /\ WF_vars(StopWorkerFires(t))
    /\ \A k \in Inst : WF_vars(Elapse(k))

Spec == Init /\ [][Next]_vars /\ Fairness

(***************************************************************************)
(* Properties                                                              *)
(***************************************************************************)

TypeOK ==
    /\ cur \in [id : 0..MaxInst, state : InstStates]
    /\ shardInst \in [Idx -> 0..MaxInst]
    /\ events \in Seq(EventRecs)
    /\ timers \subseteq TimerRecs
    /\ registry \in [Idx -> 0..MaxInst]
    /\ running \subseteq Inst \X Idx
    /\ elapsed \in [Inst -> BOOLEAN]
    /\ failures \in 0..MaxFailures
    /\ stopAsked \subseteq Inst
    /\ stpc \in [Callers -> {"idle", "cmd"}]
    /\ stbase \in [Callers -> 0..MaxInst]
    /\ base \in [Inst -> 0..MaxInst]

\* The lifecycle of the spec (Starting --all shards created--> Running):
\* while an instance is Running, the worker state of every index exists
\* and belongs to it.  doStartInstanceEvent, its retries, the stopping
\* retries and StartedInstance must agree for this to hold.
RunningHasShards ==
    cur.state = "Running" => \A i \in Idx : shardInst[i] = cur.id

\* Every worker whose loop runs is the one eng.workers holds under its
\* key: a worker dropped from the registry can no longer be stopped by a
\* removed or stopped event (doInstanceStateRemovedEvent,
\* doStoppedInstanceEvent and stopWorker all find workers by key).
NoOrphanWorker ==
    \A w \in running : registry[w[2]] = w[1]

\* doStartInstanceStateEvent ends the process with "BUG: start a exists
\* state worker" when the key is in eng.workers: the placement event the
\* handler takes next is for a key no worker holds.  The removed events,
\* the stopped event and stopWorker must clear a key before a later
\* instance, or a retried start, places the index again.
PlacementFree ==
    events # <<>> /\ Head(events).type = "WorkerRunning"
        => registry[Head(events).idx] = 0

\* A Running instance is moved to Stopping only on a stop request meant
\* for it: a StopInstance call, or its own Duration having passed
\* (doStartedInstanceEvent -> addToInstanceStop -> doStopInstance).
OnlyAskedStops ==
    [][cur.state = "Running" /\ cur'.state = "Stopping" => cur.id \in stopAsked']_vars

\* Every instance that starts reaches Running, through the retries of
\* doStartInstanceEvent and doCreateInstanceStateShardComplete.
StartCompletes ==
    \A k \in Inst : cur = [id |-> k, state |-> "Starting"]
                       ~> cur = [id |-> k, state |-> "Running"]

\* Every instance that stops reaches Stopped, through the retries of
\* doStoppingInstanceEvent.
StopCompletes ==
    \A k \in Inst : cur = [id |-> k, state |-> "Stopping"]
                       ~> cur = [id |-> k, state |-> "Stopped"]

\* Instance k is over: Stopped, or followed by a newer instance.
Over(k) == k < cur.id \/ (k = cur.id /\ cur.state = "Stopped")

\* Once an instance is over, every worker it had on this node is
\* eventually stopped (by the removed events, the stopped event or
\* stopWorker).
WorkersStopped ==
    \A k \in Inst : Over(k) ~> \A i \in Idx : <<k, i>> \notin running

\* Spec 3 (StartInstance subtracts the previous stopped instance's crowd,
\* so a restarted workflow never re-enters users already processed),
\* about StartInstance's read of the last instance and its later
\* StartingInstance command: the crowd of every instance was reduced by
\* the crowd of the instance just before it.
SubtractsPrevious == \A k \in 1..cur.id : base[k] = k - 1

====
