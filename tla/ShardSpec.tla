------------------------------ MODULE ShardSpec ------------------------------
(***************************************************************************)
(* What one crowd shard of a running workflow instance promises (spec      *)
(* sections 3, 4.2, 4.3, 8.1, 8.5): its committed state is a partition of  *)
(* its crowd over the steps, and every commit applies the next timer       *)
(* trigger and the next items of its input queue, in queue order, with the *)
(* intended meaning of each item:                                          *)
(*   - a user event moves its user, if it sits in some step and that       *)
(*     step's expression selects a target, to the target, following the    *)
(*     chain of direct steps to its end;                                   *)
(*   - a crowd update puts the users new to the shard into the first step  *)
(*     and drops the users no longer in it from every step;                *)
(*   - a timer of step s moves users of s to its target (chain followed).  *)
(* The detailed worker (StateWorker) is checked to implement this module.  *)
(***************************************************************************)
EXTENDS Naturals, Sequences, FiniteSets

CONSTANTS
    Users, N, Kind, DirectTo,
    Data,          \* the values a user event's data can take
    Expr,          \* Expr[s][d]: target of step s's expression for data d, 0 = none
    TimerTo,       \* TimerTo[s]: target of timer step s
    CrowdUpdates,  \* the new shard crowds an UpdateCrowd event can carry
    InitCrowd,     \* the shard's crowd when the instance started
    MaxEvents      \* bound on the number of queued events

VARIABLES queue, offset, steps

StepIdx == 1..N

UserEvents == [kind : {"user"}, user : Users, data : Data]
CrowdEvents == [kind : {"crowd"}, crowd : CrowdUpdates]
Events == UserEvents \cup CrowdEvents

TimerSteps == {s \in StepIdx : Kind[s] = "Timer"}

RECURSIVE End(_)
End(s) == IF Kind[s] = "Direct" THEN End(DirectTo[s]) ELSE s

Total(st) == UNION {st[s] : s \in StepIdx}

Move(st, from, S, to) ==
    [s \in StepIdx |-> IF s = to THEN st[s] \cup S
                       ELSE IF s = from THEN st[s] \ S ELSE st[s]]

ApplyEvent(st, e) ==
    IF e.kind = "crowd"
    THEN LET added == e.crowd \ Total(st)
         IN [s \in StepIdx |-> IF s = 1 THEN (st[s] \cup added) \cap e.crowd
                               ELSE st[s] \cap e.crowd]
    ELSE IF \E s \in StepIdx : e.user \in st[s] /\ Expr[s][e.data] # 0
    THEN LET s == CHOOSE s \in StepIdx : e.user \in st[s]
         IN Move(st, s, {e.user}, End(Expr[s][e.data]))
    ELSE st

RECURSIVE ApplyEvents(_, _)
ApplyEvents(st, es) ==
    IF es = <<>> THEN st ELSE ApplyEvents(ApplyEvent(st, Head(es)), Tail(es))

Init ==
    /\ queue = <<>>
    /\ offset = 0
    /\ steps = [s \in StepIdx |-> IF s = 1 THEN InitCrowd ELSE {}]

Produce ==
    /\ Len(queue) < MaxEvents
    /\ \E e \in Events : queue' = Append(queue, e)
    /\ UNCHANGED <<offset, steps>>

\* One commit: an optional timer trigger, then the next k queued items.
Commit ==
    \E k \in 0..(Len(queue) - offset) :
        /\ offset' = offset + k
        /\ \/ steps' = ApplyEvents(steps, SubSeq(queue, offset + 1, offset + k))
           \/ \E s \in TimerSteps : \E S \in SUBSET steps[s] :
                steps' = ApplyEvents(Move(steps, s, S, End(TimerTo[s])),
                                     SubSeq(queue, offset + 1, offset + k))
        /\ UNCHANGED queue

Next == Produce \/ Commit

Spec == Init /\ [][Next]_<<queue, offset, steps>>

\* Every user of the shard sits in exactly one step.
Partition ==
    \A s, r \in StepIdx : s # r => steps[s] \cap steps[r] = {}

=============================================================================
