------------------------------ MODULE KVLoader ------------------------------
(***************************************************************************)
(* kvLoader.Get (crowd package): the crowd bitmap stored under one key is  *)
(* read page by page with BMRange commands, each returning at most `limit` *)
(* ids from `start` on, until a page comes back empty; the next page       *)
(* starts one past the largest id read so far, computed as a uint32.       *)
(*                                                                         *)
(* The stored bitmap is chosen in Init among all subsets of Ids, so a run  *)
(* checks the loop on every bitmap over the id range.  BMRange is the      *)
(* storage command of the spec (section 6): the smallest `limit` ids at or *)
(* above start.  The log line after the loop is left out.                  *)
(***************************************************************************)
EXTENDS Naturals, FiniteSets

CONSTANTS
    Width,      \* bits of a user id (uint32 in the code)
    Limit,      \* limit: ids per BMRange page (80000 in the code)
    Ids,        \* the ids a stored bitmap may hold
    MaxTotal    \* bound on `total`, the ids read: at least Cardinality(Ids)

ASSUME /\ Width \in Nat \ {0} /\ Limit \in Nat \ {0}
       /\ Ids \subseteq 0..(2^Width - 1)
       /\ MaxTotal \in Nat /\ MaxTotal >= Cardinality(Ids)

IdMod == 2^Width

VARIABLES
    stored,     \* the bitmap stored under the key
    bm,         \* the bitmap built so far
    start,      \* req.Start of the next page
    total,      \* total: ids read by all pages so far
    pc          \* "loop", "done" (returned bm) or "error" (returned err)

vars == <<stored, bm, start, total, pc>>

\* The storage's BMRange: the smallest Limit ids of the bitmap >= start.
RECURSIVE Smallest(_, _)
Smallest(S, n) ==
    IF n = 0 \/ S = {} THEN {}
    ELSE LET m == CHOOSE x \in S : \A y \in S : x <= y
         IN {m} \cup Smallest(S \ {m}, n - 1)

BMRange(s) == Smallest({x \in stored : x >= s}, Limit)

MaxOf(S) == CHOOSE x \in S : \A y \in S : y <= x

Init ==
    /\ stored \in SUBSET Ids
    /\ bm = {}
    /\ start = 0
    /\ total = 0
    /\ pc = "loop"

\* Mutant: the next page starts two past the largest id read.
NextStartSkip(b) == (MaxOf(b) + 2) % IdMod

\* Mutant: the next page starts at the largest id read, not one past it.
NextStartSame(b) == MaxOf(b) % IdMod

\* start = bm.Maximum() + 1, a uint32 sum.
NextStart(b) == (MaxOf(b) + 1) % IdMod

\* The BMRange ExecCommand returns an error: Get returns it.
FetchFails ==
    /\ pc = "loop"
    /\ pc' = "error"
    /\ UNCHANGED <<stored, bm, start, total>>

\* A page comes back: an empty one ends the loop, any other is added and
\* moves start.  Past MaxTotal ids read the model does not follow the
\* loop further.
FetchPage ==
    LET values == BMRange(start)
    IN /\ pc = "loop"
       /\ IF values = {}
          THEN /\ pc' = "done"
               /\ UNCHANGED <<stored, bm, start, total>>
          ELSE /\ total + Cardinality(values) <= MaxTotal
               /\ total' = total + Cardinality(values)
               /\ bm' = bm \cup values
               /\ start' = NextStart(bm \cup values)
               /\ UNCHANGED <<stored, pc>>

Next == FetchPage \/ FetchFails

\* Get runs its loop on the caller's goroutine until it returns; a store
\* that keeps answering is assumed, its errors are not.
Spec == Init /\ [][Next]_vars /\ WF_vars(FetchPage)

(***************************************************************************)
(* Properties                                                              *)
(***************************************************************************)

\* Spec 1 (the loader resolves LoaderMeta to the bitmap), about the paging
\* of Get: a Get that returns a bitmap returns exactly the stored one.
LoadsAll == pc = "done" => bm = stored

\* About the loop of Get: every call returns, with the bitmap or an error.
GetReturns == <>(pc # "loop")
====
