----------------------------- MODULE StateWorker -----------------------------
(***************************************************************************)
(* The state worker of one crowd shard: the single-writer loop that runs   *)
(* one transaction per tick over the shard's committed step crowds.  A     *)
(* tick fetches the next items of the shard's input queue from the         *)
(* committed offset (a timer trigger first when one fires), applies them   *)
(* one by one through the transaction (Transaction), and then either       *)
(* commits the new crowds together with the offset in one storage command, *)
(* or, when an expression failed, commits nothing.  The process may crash  *)
(* at any point and the worker is rebuilt from the committed state.        *)
(*                                                                         *)
(* The worker loop and the expression evaluator are not part of the       *)
(* sources at hand; they follow the spec (4.2, 4.3, 7).  The transaction   *)
(* operations they call are those of core/transaction.go.                  *)
(***************************************************************************)
EXTENDS Transaction

CONSTANTS
    Data, Expr, TimerTo, CrowdUpdates, InitCrowd, MaxEvents,
    BatchMax,       \* most items one fetch returns
    MaxErrors,      \* bound on expression failures in a behaviour
    MaxCrashes,     \* bound on process crashes in a behaviour
    TimerFromStep   \* TRUE: a timer's expression selects users of its own step only

ASSUME /\ Expr \in [StepIdx -> [Data -> 0..N]]
       /\ TimerTo \in [StepIdx -> StepIdx]
       /\ InitCrowd \subseteq Users
       /\ CrowdUpdates \subseteq SUBSET Users
       /\ {MaxEvents, BatchMax, MaxErrors, MaxCrashes} \subseteq Nat
       /\ TimerFromStep \in BOOLEAN

VARIABLES
    queue,      \* the shard's input queue partition (all items ever appended)
    committed,  \* the committed consumer offset
    wSteps,     \* the worker's (and the store's) committed step crowds
    wTotal,     \* the worker's total crowd
    tran,       \* the transaction
    items,      \* items of the current tick not yet applied
    fetchEnd,   \* offset of the last item fetched for the current tick
    phase,      \* "idle" between ticks, "tick" inside one
    errors,     \* expression failures so far
    crashes,    \* crashes so far
    panicked    \* history: a tick indexed past the step list

vars == <<queue, committed, wSteps, wTotal, tran, items, fetchEnd, phase,
          errors, crashes, panicked>>

Shard == INSTANCE ShardSpec WITH steps <- wSteps, offset <- committed

UserEvents == Shard!UserEvents
CrowdEvents == Shard!CrowdEvents
TimerSteps == Shard!TimerSteps
TimerItems == [kind : {"timer"}, step : TimerSteps]

UnionOf(st) == UNION {st[s] : s \in StepIdx}

Init ==
    /\ queue = <<>>
    /\ committed = 0
    /\ wSteps = [s \in StepIdx |-> IF s = 1 THEN InitCrowd ELSE {}]
    /\ wTotal = InitCrowd
    /\ tran = newTransaction
    /\ items = <<>>
    /\ fetchEnd = 0
    /\ phase = "idle"
    /\ errors = 0
    /\ crashes = 0
    /\ panicked = FALSE

\* An event is appended to the shard's input partition.
Produce ==
    /\ Len(queue) < MaxEvents
    /\ \E e \in UserEvents \cup CrowdEvents : queue' = Append(queue, e)
    /\ UNCHANGED <<committed, wSteps, wTotal, tran, items, fetchEnd, phase,
                   errors, crashes, panicked>>

(***************************************************************************)
(* A tick starts: fetch from the committed offset (all available items up  *)
(* to BatchMax, never none when some are available), a timer trigger in   *)
(* front when one fires, and start() the transaction.                      *)
(***************************************************************************)
StartTick ==
    LET avail == Len(queue) - committed
    IN /\ phase = "idle"
       /\ \E k \in IF avail = 0 THEN {0} ELSE 1..IF avail < BatchMax THEN avail ELSE BatchMax,
             timer \in SUBSET TimerItems :
             /\ Cardinality(timer) <= 1
             /\ k > 0 \/ timer # {}
             /\ items' = (IF timer = {} THEN <<>> ELSE <<CHOOSE x \in timer : TRUE>>)
                         \o SubSeq(queue, committed + 1, committed + k)
             /\ fetchEnd' = committed + k
       /\ tran' = start(tran, wTotal, wSteps)
       /\ phase' = "tick"
       /\ UNCHANGED <<queue, committed, wSteps, wTotal, errors, crashes, panicked>>

\* An expression fails: the error is sticky for the rest of the tick.
ExecuteFails ==
    /\ errors < MaxErrors
    /\ tran' = [tran EXCEPT !.err = TRUE]
    /\ errors' = errors + 1

Consume(newTran) ==
    /\ tran' = newTran
    /\ UNCHANGED errors

\* doStepTimerEvent: the timer step's expression selects a bitmap.
TimerSelection(s) ==
    IF TimerFromStep THEN SUBSET (tran.steps[s] \cup (Users \ tran.total))
    ELSE SUBSET Users

DoTimerItem ==
    LET s == Head(items).step
    IN /\ phase = "tick"
       /\ items # <<>>
       /\ Head(items).kind = "timer"
       /\ \/ tran.err /\ Consume(tran)
          \/ ~tran.err /\ ExecuteFails
          \/ ~tran.err /\ \E S \in TimerSelection(s) :
                Consume(stepChanged(tran, s, TimerTo[s], [users |-> S, bulk |-> TRUE]))
       /\ items' = Tail(items)
       /\ UNCHANGED <<queue, committed, wSteps, wTotal, fetchEnd, phase, crashes, panicked>>

\* The process dies and the worker is rebuilt from the committed state.
Restart ==
    /\ tran' = newTransaction
    /\ items' = <<>>
    /\ fetchEnd' = committed
    /\ phase' = "idle"
    /\ wTotal' = UnionOf(wSteps)
    /\ UNCHANGED <<queue, committed, wSteps, errors>>

(***************************************************************************)
(* doStepUserEvents for one event: the first slice entry holding the user  *)
(* names the step whose expression runs; an entry past the N steps makes   *)
(* tran.w.state.States[idx] index out of range, a runtime panic.           *)
(***************************************************************************)
DoUserItem ==
    LET e == Head(items)
        slot == UserSlot(tran, e.user)
    IN /\ phase = "tick"
       /\ items # <<>>
       /\ e.kind = "user"
       /\ \/ /\ tran.err \/ slot = 0
             /\ Consume(tran)
             /\ items' = Tail(items)
             /\ UNCHANGED <<fetchEnd, phase, crashes, wTotal, panicked>>
          \/ /\ ~tran.err /\ slot = N + 1
             /\ Restart
             /\ panicked' = TRUE
             /\ UNCHANGED crashes
          \/ /\ ~tran.err /\ slot \in StepIdx
             /\ \/ ExecuteFails
                \/ Expr[slot][e.data] = 0 /\ Consume(tran)
                \/ Expr[slot][e.data] # 0 /\
                   Consume(stepChanged(tran, slot, Expr[slot][e.data],
                                       [users |-> {e.user}, bulk |-> FALSE]))
             /\ items' = Tail(items)
             /\ UNCHANGED <<fetchEnd, phase, crashes, wTotal, panicked>>
       /\ UNCHANGED <<queue, committed, wSteps>>

DoCrowdItem ==
    /\ phase = "tick"
    /\ items # <<>>
    /\ Head(items).kind = "crowd"
    /\ tran' = doUpdateCrowd(tran, Head(items).crowd)
    /\ items' = Tail(items)
    /\ UNCHANGED <<queue, committed, wSteps, wTotal, fetchEnd, phase, errors,
                   crashes, panicked>>

\* Mutant: the offset is only committed when the crowds changed.
CommitTickOnlyOnChange ==
    /\ phase = "tick"
    /\ items = <<>>
    /\ ~tran.err
    /\ IF tran.crowdChanged
       THEN /\ wSteps' = [s \in StepIdx |-> tran.steps[s]]
            /\ wTotal' = tran.total
            /\ committed' = fetchEnd
       ELSE UNCHANGED <<wSteps, wTotal, committed>>
    /\ tran' = reset(tran)
    /\ phase' = "idle"
    /\ UNCHANGED <<queue, items, fetchEnd, errors, crashes, panicked>>

\* Mutant: the committed offset is one past the last fetched item.
CommitTickPastFetch ==
    /\ phase = "tick"
    /\ items = <<>>
    /\ ~tran.err
    /\ IF tran.crowdChanged
       THEN /\ wSteps' = [s \in StepIdx |-> tran.steps[s]]
            /\ wTotal' = tran.total
       ELSE UNCHANGED <<wSteps, wTotal>>
    /\ committed' = fetchEnd + 1
    /\ tran' = reset(tran)
    /\ phase' = "idle"
    /\ UNCHANGED <<queue, items, fetchEnd, errors, crashes, panicked>>

(***************************************************************************)
(* End of a tick without error: when the crowds changed, replace the       *)
(* committed crowds by the first N entries of the slice, and commit the    *)
(* offset in the same command; then reset() the transaction.              *)
(***************************************************************************)
CommitTick ==
    /\ phase = "tick"
    /\ items = <<>>
    /\ ~tran.err
    /\ IF tran.crowdChanged
       THEN /\ wSteps' = [s \in StepIdx |-> tran.steps[s]]
            /\ wTotal' = tran.total
       ELSE UNCHANGED <<wSteps, wTotal>>
    /\ committed' = fetchEnd
    /\ tran' = reset(tran)
    /\ phase' = "idle"
    /\ UNCHANGED <<queue, items, fetchEnd, errors, crashes, panicked>>

\* End of a tick with the sticky error: nothing is committed.  The
\* remaining items only return early, so they are dropped at once.
AbortTick ==
    /\ phase = "tick"
    /\ tran.err
    /\ items' = <<>>
    /\ tran' = reset(tran)
    /\ phase' = "idle"
    /\ UNCHANGED <<queue, committed, wSteps, wTotal, fetchEnd, errors, crashes, panicked>>

Crash ==
    /\ crashes < MaxCrashes
    /\ crashes' = crashes + 1
    /\ Restart
    /\ UNCHANGED panicked

WorkerStep ==
    StartTick \/ DoTimerItem \/ DoUserItem \/ DoCrowdItem \/ CommitTick \/ AbortTick

Next == Produce \/ WorkerStep \/ Crash

\* The worker goroutine runs its loop for as long as it lives.
Spec == Init /\ [][Next]_vars /\ WF_vars(WorkerStep)

(***************************************************************************)
(* Properties                                                              *)
(***************************************************************************)

TypeOK ==
    /\ queue \in Seq(UserEvents \cup CrowdEvents)
    /\ committed \in 0..Len(queue)
    /\ wSteps \in [StepIdx -> SUBSET Users]
    /\ wTotal \in SUBSET Users
    /\ tran \in TranType
    /\ phase \in {"idle", "tick"}
    /\ fetchEnd \in committed..Len(queue)
    /\ errors \in 0..MaxErrors
    /\ crashes \in 0..MaxCrashes
    /\ panicked \in BOOLEAN

\* Spec 8.1, about stepChanged/doUpdateCrowd and the commit: in the
\* committed state every user of the shard's total crowd is in exactly one
\* step, and no step holds a user outside it.
CrowdPartition ==
    /\ \A s, r \in StepIdx : s # r => wSteps[s] \cap wSteps[r] = {}
    /\ UnionOf(wSteps) = wTotal

\* Spec 4.2/4.3/8.5, about the whole tick (start, the item handlers,
\* reset, the commit): every commit moves the shard to the state that
\* applying the committed items, in queue order, to the previous committed
\* state gives.
ShardRefinement == Shard!Spec

\* Spec 4.2, about the worker loop: every queued event is eventually
\* consumed and its offset committed.
QueueDrained ==
    \A i \in 1..MaxEvents : (Len(queue) >= i) ~> (committed >= i)

\* Spec 4.3 (stepCrowds are copied from the worker's state at tick start),
\* about reset() and start(): a tick never reaches a slice entry past the
\* step list.
NoIndexPanic == ~panicked

=============================================================================
