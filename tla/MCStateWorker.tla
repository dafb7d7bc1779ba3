---------------------------- MODULE MCStateWorker ----------------------------
(***************************************************************************)
(* Instances of the state worker for TLC.  Three users, two of them in the *)
(* shard at start; a three-step workflow.                                  *)
(*                                                                         *)
(* Flow: step 1 (conditional) sends a user whose event carries d1 to step  *)
(* 2, a direct step that passes it on to step 3, a timer step whose timer  *)
(* sends its users back to step 1.                                         *)
(*                                                                         *)
(* Back: step 1 sends d1 users to step 3; step 3 (conditional) sends d1    *)
(* users to step 2, a direct step whose chain ends at step 3 again.  The   *)
(* direct step is listed before the step that routes into it.             *)
(*                                                                         *)
(* Relay: step 1 sends d1 users to step 2, step 2 sends them to step 3,    *)
(* whose timer sends its users back to step 2.                             *)
(***************************************************************************)
EXTENDS StateWorker

CONSTANTS u1, u2, u3, d1, d2

MCUsers == {u1, u2, u3}
MCData == {d1, d2}
MCInitCrowd == {u1, u2}

FlowKind == <<"Conditional", "Direct", "Timer">>
FlowDirectTo == <<1, 3, 3>>
FlowExpr == <<[d \in MCData |-> IF d = d1 THEN 2 ELSE 0],
              [d \in MCData |-> 0],
              [d \in MCData |-> 0]>>
FlowTimerTo == <<1, 1, 1>>

BackKind == <<"Conditional", "Direct", "Conditional">>
BackDirectTo == <<1, 3, 3>>
BackExpr == <<[d \in MCData |-> IF d = d1 THEN 3 ELSE 0],
              [d \in MCData |-> 0],
              [d \in MCData |-> IF d = d1 THEN 2 ELSE 0]>>

\* Relay: two conditional steps and a timer step whose timer sends its
\* users to step 2.
RelayKind == <<"Conditional", "Conditional", "Timer">>
RelayExpr == <<[d \in MCData |-> IF d = d1 THEN 2 ELSE 0],
               [d \in MCData |-> IF d = d1 THEN 3 ELSE 0],
               [d \in MCData |-> 0]>>
RelayTimerTo == <<2, 2, 2>>

\* Crowd updates: one that admits u3 and drops u1, one that restores all.
MCCrowdUpdates == {{u2, u3}, {u1, u2, u3}}
NoCrowdUpdates == {}

=============================================================================
