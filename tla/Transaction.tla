----------------------------- MODULE Transaction -----------------------------
(***************************************************************************)
(* The transaction of a state worker (core/transaction.go): the scratch    *)
(* copy of one shard's per-step crowds that one tick of the worker         *)
(* mutates.  Every operator here maps a transaction record to a new one;   *)
(* the worker module (StateWorker) owns the variable and decides when      *)
(* each operator runs.                                                     *)
(*                                                                         *)
(* Steps are named by their index 1..N in the workflow snapshot (names are *)
(* unique, so a name and its index are interchangeable); index 1 is the    *)
(* code's index 0, the step that receives the initial and the newly added  *)
(* crowd.  A bitmap is a set of user ids.                                  *)
(*                                                                         *)
(* tran.stepCrowds is a Go slice that start() appends to and reset() only  *)
(* truncates when the tick recorded changes.  Only its first N entries are *)
(* ever read or written by step index; the entries after them are read by  *)
(* the membership scan of doStepUserEvents alone, and doUpdateCrowd        *)
(* intersects them all with the same set.  So the model keeps the first N  *)
(* entries in `steps` and only the union of the later ones in `extra`:     *)
(* that is all any operation can tell apart.                               *)
(***************************************************************************)
EXTENDS Naturals, Sequences, FiniteSets

CONSTANTS
    Users,      \* user ids of the instance (this shard's and others')
    N,          \* number of steps of the workflow snapshot
    Kind,       \* Kind[s]: Execution.Type of step s
    DirectTo    \* DirectTo[s]: w.directSteps[s], the step a direct step moves to

StepIdx == 1..N

ExecTypes == {"Timer", "Direct", "Conditional"}

ASSUME /\ N \in Nat \ {0}
       /\ Kind \in [StepIdx -> ExecTypes]
       /\ DirectTo \in [StepIdx -> StepIdx]

Edges == StepIdx \X StepIdx

\* A `who`: the single user of a user event, or the bitmap of a timer step.
Who == [users : SUBSET Users, bulk : BOOLEAN]

NoChanges == [e \in Edges |-> {}]

\* The transaction record.  `steps` is <<>> once the slice was truncated.
TranType ==
    [total : SUBSET Users,
     steps : Seq(SUBSET Users),
     extra : SUBSET Users,
     changes : [Edges -> SUBSET Users],
     err : BOOLEAN,
     crowdChanged : BOOLEAN]

\* newTransaction(): an empty slice, no changes, no error.
newTransaction ==
    [total |-> {}, steps |-> <<>>, extra |-> {}, changes |-> NoChanges,
     err |-> FALSE, crowdChanged |-> FALSE]

HasChanges(t) == \E e \in Edges : t.changes[e] # {}

(***************************************************************************)
(* start(w): copy the worker's total and step crowds into the transaction, *)
(* appending them to whatever the slice still holds.                       *)
(***************************************************************************)
start(t, wTotal, wSteps) ==
    IF t.steps = <<>>
    THEN [t EXCEPT !.total = wTotal, !.steps = wSteps, !.extra = {}]
    ELSE [t EXCEPT !.total = wTotal,
                   !.extra = @ \cup UNION {wSteps[i] : i \in StepIdx}]

\* Mutant: the user is never taken out of the step it leaves.
removeFromStepNoop(t, idx, who) == t

\* removeFromStep: the `changed` it returns is FALSE on both branches.
removeFromStep(t, idx, who) ==
    [t EXCEPT !.steps[idx] = @ \ who.users]

\* moveToStep: returns the new transaction and `changed`; a single user
\* always reports a change, a bitmap only when the step's crowd grew.
moveToStep(t, idx, who) ==
    << [t EXCEPT !.steps[idx] = @ \cup who.users],
       IF who.bulk THEN ~(who.users \subseteq t.steps[idx]) ELSE TRUE >>

\* addChanged: merge the users into the record of edge (from, to).
addChanged(t, from, to, who) ==
    [t EXCEPT !.changes[<<from, to>>] = @ \cup who.users,
              !.crowdChanged = TRUE]

\* The hops a direct chain starting at step s records, and where it ends.
RECURSIVE DirectHops(_)
DirectHops(s) ==
    IF Kind[s] = "Direct" THEN {<<s, DirectTo[s]>>} \cup DirectHops(DirectTo[s])
    ELSE {}

RECURSIVE ChainEnd(_)
ChainEnd(s) == IF Kind[s] = "Direct" THEN ChainEnd(DirectTo[s]) ELSE s

(***************************************************************************)
(* maybeTriggerDirectSteps(idx, ctx): idx is the index of ctx.to.  If it   *)
(* is direct, record every hop, take the users out of it and put them in   *)
(* the step the chain ends at.                                             *)
(***************************************************************************)
maybeTriggerDirectSteps(t, idx, to, who) ==
    IF Kind[to] # "Direct" THEN t
    ELSE LET hops == DirectHops(to)
             t1 == [t EXCEPT !.changes = [e \in Edges |->
                        IF e \in hops THEN @[e] \cup who.users ELSE @[e]],
                             !.crowdChanged = TRUE]
         IN moveToStep(removeFromStep(t1, idx, who), ChainEnd(to), who)[1]

(***************************************************************************)
(* stepChanged(ctx): a bitmap is first cut to this shard's total crowd;    *)
(* then the steps are visited in index order, the `from` branch taking     *)
(* precedence over the `to` branch.                                        *)
(***************************************************************************)
RECURSIVE VisitSteps(_, _, _, _, _)
VisitSteps(t, idx, from, to, who) ==
    IF idx > N THEN t
    ELSE LET moved == moveToStep(t, idx, who)
             t1 == IF idx = from THEN removeFromStep(t, idx, who)
                   ELSE IF idx = to /\ moved[2]
                        THEN maybeTriggerDirectSteps(
                                 addChanged(moved[1], from, to, who), idx, to, who)
                   ELSE IF idx = to THEN moved[1]
                   ELSE t
         IN VisitSteps(t1, idx + 1, from, to, who)

stepChanged(t, from, to, who) ==
    LET w == IF who.bulk THEN [who EXCEPT !.users = @ \cap t.total] ELSE who
    IN VisitSteps(t, 1, from, to, w)

\* Mutant: the users new to the total go to the last step.
doUpdateCrowdToLastStep(t, newTotal) ==
    IF t.err THEN t
    ELSE [t EXCEPT !.total = newTotal,
                   !.steps = [i \in DOMAIN @ |->
                                 IF i = N THEN (@[i] \cup (newTotal \ t.total)) \cap newTotal
                                 ELSE @[i] \cap newTotal],
                   !.extra = @ \cap newTotal,
                   !.crowdChanged = TRUE]

\* Mutant: only the first step is cut to the new total.
doUpdateCrowdNoCut(t, newTotal) ==
    IF t.err THEN t
    ELSE [t EXCEPT !.total = newTotal,
                   !.steps = [i \in DOMAIN @ |->
                                 IF i = 1 THEN (@[i] \cup (newTotal \ t.total)) \cap newTotal
                                 ELSE @[i]],
                   !.crowdChanged = TRUE]

(***************************************************************************)
(* doUpdateCrowd: users new to the total go to the first step, and every   *)
(* entry of the slice is cut to the new total.                             *)
(***************************************************************************)
doUpdateCrowd(t, newTotal) ==
    IF t.err THEN t
    ELSE LET newAdded == newTotal \ t.total
         IN [t EXCEPT !.total = newTotal,
                      !.steps = [i \in DOMAIN @ |->
                                    IF i = 1 THEN (@[i] \cup newAdded) \cap newTotal
                                    ELSE @[i] \cap newTotal],
                      !.extra = @ \cap newTotal,
                      !.crowdChanged = TRUE]

\* Mutant: the scan runs one entry past the slice; a user in no entry
\* reaches stepCrowds[len(stepCrowds)], an index out of range.
UserSlotPastEnd(t, u) ==
    IF \E i \in DOMAIN t.steps : u \in t.steps[i]
    THEN CHOOSE i \in DOMAIN t.steps :
             /\ u \in t.steps[i]
             /\ \A j \in 1..(i - 1) : u \notin t.steps[j]
    ELSE N + 1

\* The slot doStepUserEvents finds a user in: the first step containing it,
\* N+1 when only a later slice entry does, 0 when no entry does.
UserSlot(t, u) ==
    IF \E i \in DOMAIN t.steps : u \in t.steps[i]
    THEN CHOOSE i \in DOMAIN t.steps :
             /\ u \in t.steps[i]
             /\ \A j \in 1..(i - 1) : u \notin t.steps[j]
    ELSE IF u \in t.extra THEN N + 1 ELSE 0

\* Mutant: the error is not cleared.
resetKeepsErr(t) ==
    [t EXCEPT !.total = {}, !.steps = IF HasChanges(t) THEN <<>> ELSE @,
              !.extra = IF HasChanges(t) THEN {} ELSE @,
              !.changes = NoChanges, !.crowdChanged = FALSE]

\* Mutant: the slice is never truncated.
resetNeverTruncates(t) ==
    [t EXCEPT !.total = {}, !.changes = NoChanges, !.err = FALSE,
              !.crowdChanged = FALSE]

(***************************************************************************)
(* reset(): the total is released (cleared); the slice is released and     *)
(* truncated only when the tick recorded a change.                         *)
(***************************************************************************)
reset(t) ==
    [t EXCEPT !.total = {},
              !.steps = IF HasChanges(t) THEN <<>> ELSE @,
              !.extra = IF HasChanges(t) THEN {} ELSE @,
              !.changes = NoChanges,
              !.err = FALSE,
              !.crowdChanged = FALSE]

=============================================================================
