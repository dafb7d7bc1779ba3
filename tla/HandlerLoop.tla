---------------------------- MODULE HandlerLoop ----------------------------
(***************************************************************************)
(* The new engine's handler goroutine (handleEvent, go.mod 1262-1297) as   *)
(* far as the Duration of a workflow goes, with the buffered channel       *)
(* stopInstanceC it reads.  The same goroutine also writes that channel:   *)
(* doStartedInstanceEvent calls addToInstanceStop directly when the        *)
(* Duration is already over (go.mod 1425-1428), while the timer wheel     *)
(* calls it for the other workflows and for the retries of doStopInstance. *)
(* The capacity of stopInstanceC (1024 in the code) is the constant        *)
(* StopCap; the model scales it down together with the number of replayed *)
(* workflows.                                                              *)
(***************************************************************************)
EXTENDS Naturals, Sequences

CONSTANTS
    Wfs,          \* workflows whose Running event the store replays
    StopCap,      \* capacity of stopInstanceC
    MaxFailures   \* bound on failed StopInstance commands

ASSUME StopCap \in Nat \ {0} /\ MaxFailures \in Nat

VARIABLES
    replay,    \* workflows whose Running event is still in eventC
    expired,   \* expired[w]: the Duration of w was over when it was handled
    hpc,       \* "select", or the workflow the handler is sending to stopC
    stopC,     \* stopInstanceC, a FIFO of workflow ids
    timers,    \* workflows with a scheduled addToInstanceStop callback
    stopped,   \* workflows whose StopInstance command succeeded
    failures

vars == <<replay, expired, hpc, stopC, timers, stopped, failures>>

Init ==
    /\ replay = Wfs
    /\ expired \in [Wfs -> BOOLEAN]
    /\ hpc = "select"
    /\ stopC = <<>>
    /\ timers = {}
    /\ stopped = {}
    /\ failures = 0

\* addToInstanceStop: a blocking send on stopInstanceC.
CanSend == Len(stopC) < StopCap

\* The select of handleEvent takes a Running event off eventC and runs
\* doStartedInstanceEvent: an expired Duration sends on stopInstanceC from
\* the handler itself, any other schedules the timer wheel.
DoStartedInstanceEvent(w) ==
    /\ hpc = "select"
    /\ w \in replay
    /\ replay' = replay \ {w}
    /\ IF expired[w]
         THEN hpc' = w /\ UNCHANGED timers
         ELSE timers' = timers \cup {w} /\ UNCHANGED hpc
    /\ UNCHANGED <<expired, stopC, stopped, failures>>

\* The handler's own send completes when stopInstanceC has room; until then
\* the handler goroutine, the channel's only reader, is blocked.
AddToInstanceStop ==
    /\ hpc \in Wfs
    /\ CanSend
    /\ stopC' = Append(stopC, hpc)
    /\ hpc' = "select"
    /\ UNCHANGED <<replay, expired, timers, stopped, failures>>

\* A timer wheel callback sends on stopInstanceC; it blocks while full.
TimerFire(w) ==
    /\ w \in timers
    /\ CanSend
    /\ stopC' = Append(stopC, w)
    /\ timers' = timers \ {w}
    /\ UNCHANGED <<replay, expired, hpc, stopped, failures>>

\* The select takes an id off stopInstanceC and runs doStopInstance: a
\* failed StopInstance command schedules a retry on the timer wheel.
DoStopInstance ==
    /\ hpc = "select"
    /\ stopC # <<>>
    /\ stopC' = Tail(stopC)
    /\ \/ /\ failures < MaxFailures
          /\ failures' = failures + 1
          /\ timers' = timers \cup {Head(stopC)}
          /\ UNCHANGED stopped
       \/ /\ stopped' = stopped \cup {Head(stopC)}
          /\ UNCHANGED <<timers, failures>>
    /\ UNCHANGED <<replay, expired, hpc>>

Next ==
    \/ \E w \in Wfs : DoStartedInstanceEvent(w) \/ TimerFire(w)
    \/ AddToInstanceStop
    \/ DoStopInstance

\* Go's select picks among the ready cases at random, and the timer wheel
\* keeps firing: every step that stays enabled is eventually taken.
Spec ==
    /\ Init /\ [][Next]_vars
    /\ \A w \in Wfs : WF_vars(DoStartedInstanceEvent(w)) /\ WF_vars(TimerFire(w))
    /\ WF_vars(AddToInstanceStop)
    /\ WF_vars(DoStopInstance)

TypeOK ==
    /\ replay \subseteq Wfs
    /\ expired \in [Wfs -> BOOLEAN]
    /\ hpc \in Wfs \cup {"select"}
    /\ stopC \in Seq(Wfs) /\ Len(stopC) <= StopCap
    /\ timers \subseteq Wfs
    /\ stopped \subseteq Wfs
    /\ failures \in 0..MaxFailures

\* Every replayed workflow with a Duration is eventually stopped: the
\* handler that both reads and writes stopInstanceC never waits on itself.
AllStopped == <>(stopped = Wfs)
=============================================================================
