----------------------------- MODULE EngineQuery -----------------------------
(***************************************************************************)
(* The engine's aggregation queries, InstanceCountState and                *)
(* InstanceStepState, run on the API caller's goroutine beside the         *)
(* engine's handler loop.  Both read the workflow's current instance       *)
(* (loadRunningInstance: an error unless it is Running), then read the     *)
(* worker-state records with getInstanceWorkers, and aggregate the records *)
(* they got.  The reads are separate store calls with no lock or snapshot  *)
(* between them; the records are scanned by workflow ID and index, not by  *)
(* instance.  One caller is modelled, calling again and again; what it     *)
(* aggregates (counts, bitmaps) is left out: the query's result is the set *)
(* of records it read.                                                     *)
(***************************************************************************)
EXTENDS Engine

LOCAL INSTANCE FiniteSetsExt

VARIABLES
    qpc,        \* "idle", "scan" (between the scans) or "done" (returned)
    qinst,      \* the instance loadRunningInstance returned
    qfrom,      \* getInstanceWorkers' `from`: the index the next scan starts at
    qseen       \* qseen[i]: instance of the record of index i read, 0 = none

qvars == <<qpc, qinst, qfrom, qseen>>
allVars == <<vars, qvars>>

QInit ==
    /\ Init
    /\ qpc = "idle"
    /\ qinst = 0
    /\ qfrom = 0
    /\ qseen = [i \in Idx |-> 0]

\* loadRunningInstance reads the current instance; a call that finds it not
\* Running returns an error and changes nothing, so only the successful
\* read is a step.
LoadRunningInstance ==
    /\ qpc \in {"idle", "done"}
    /\ cur.state = "Running"
    /\ qpc' = "scan"
    /\ qinst' = cur.id
    /\ qfrom' = 0
    /\ qseen' = [i \in Idx |-> 0]
    /\ UNCHANGED vars

\* One Scan of getInstanceWorkers over [from, Workers) with limit Workers:
\* an error returns it; an empty page ends the loop and the query returns
\* the records read; otherwise the page's records are kept and `from`
\* moves one past the last index read.
GetInstanceWorkers ==
    LET page == {i \in Idx : i >= qfrom /\ shardInst[i] # 0}
    IN /\ qpc = "scan"
       /\ \/ /\ qpc' = "idle"
             /\ UNCHANGED <<qinst, qfrom, qseen>>
          \/ /\ page = {}
             /\ qpc' = "done"
             /\ UNCHANGED <<qinst, qfrom, qseen>>
          \/ /\ page # {}
             /\ qseen' = [i \in Idx |-> IF i \in page THEN shardInst[i] ELSE qseen[i]]
             /\ qfrom' = Max(page) + 1
             /\ UNCHANGED <<qpc, qinst>>
       /\ UNCHANGED vars

QNext ==
    \/ Next /\ UNCHANGED qvars
    \/ LoadRunningInstance
    \/ GetInstanceWorkers

\* Callers are not bound to query, so the queries get no fairness.
QSpec == QInit /\ [][QNext]_allVars /\ Fairness

(***************************************************************************)
(* Properties                                                              *)
(***************************************************************************)

\* Spec 7 (user-visible failure: aggregation queries return an error if
\* any shard's state cannot be read, never partial data), about
\* InstanceCountState and InstanceStepState: a query that returns has read
\* the worker state of every index, each of the instance it loaded.
QueryComplete ==
    qpc = "done" => \A i \in Idx : qseen[i] = qinst
====
