----------------------------- MODULE QueueBatch -----------------------------
(***************************************************************************)
(* The QueueAdd batch of the storage (pkg/storage/batch.go): the shard's   *)
(* apply loop feeds the committed QueueAdd requests of its Raft log into   *)
(* one reused `batch` holding one `queueBatch`, calls Execute, which       *)
(* writes the items and the partition's max/removed offsets in one write   *)
(* batch (after a garbage-collection check), and then Reset.               *)
(*                                                                         *)
(* The apply loop is beehive's and not part of the sources: it follows     *)
(* the spec (section 6, "The store batches these into one Raft proposal").  *)
(* A runtime panic or log.Fatalf ends the process; on restart the batch    *)
(* object is new and the log is applied again from the applied index.      *)
(*                                                                         *)
(* Bytes are abstracted: the stored meta value of a partition is <<>>      *)
(* (absent) or <<maxOffset, removedOffset>>; the queueBatch's reused       *)
(* maxAndCleanOffsetValue buffer is represented by its length only, which  *)
(* decides whether goetty's fixed-width codecs panic.                      *)
(***************************************************************************)
EXTENDS Naturals, Sequences, FiniteSets

CONSTANTS
    Queues,        \* partition keys whose items live in the shard
    Consumers,     \* consumers (of any group) with a committed-offset key
    MaxItems,      \* most items one QueueAdd request carries
    MaxReqs,       \* bound on the QueueAdd requests proposed to the shard
    BatchMax,      \* most requests the apply loop puts in one batch
    CountToClean,  \* countToClean (4096 in the code)
    Width          \* bits of an offset (uint64 in the code)

ASSUME /\ {MaxItems, MaxReqs, BatchMax, CountToClean, Width} \subseteq Nat \ {0}
       /\ 2^Width > MaxReqs * MaxItems

UMax == 2^Width - 1             \* math.MaxUint64
MaxOff == MaxReqs * MaxItems    \* the largest offset a run can append
Offs == 1..MaxOff
ItemIds == (1..MaxReqs) \X (1..MaxItems)   \* item i of the r-th request
Nil == <<0, 0>>                            \* no item at this key
Requests == [q : Queues, n : 1..MaxItems]
Pairs == [q : Queues, off : 0..UMax, id : ItemIds]

VARIABLES
    log,           \* committed QueueAdd requests of the shard's Raft log
    applied,       \* applied index, persisted with each write batch
    meta,          \* meta[q]: stored maxAndCleanOffset value of partition q
    stored,        \* stored[q][o]: the item stored under itemKey(q, o)
    committedOff,  \* committedOff[q][c]: offset in consumer c's key of q
    alive,         \* alive[q][c]: now - lastTS < maxConsumerAlive
    qb,            \* the queueBatch object of the apply loop
    batchEnd,      \* log index of the last request added to the batch
    resps,         \* responses of the requests in the batch
    ack,           \* ack[r]: the offset returned to request r, 0 = none yet
    deleted,       \* history: offsets removed by RangeDelete
    panicked       \* history: the apply loop panicked

vars == <<log, applied, meta, stored, committedOff, alive, qb, batchEnd,
          resps, ack, deleted, panicked>>

(***************************************************************************)
(* queueBatch: newQueueBatch, add, exec, reset                             *)
(***************************************************************************)

\* The queueBatch struct; the key slices are the partition they were built
\* for, the reused byte buffers are left out.
QueueBatchType ==
    [loaded : BOOLEAN, maxOffset : 0..UMax, removedOffset : 0..UMax,
     queueKey : SUBSET Queues, valLen : {0, 16}, pairs : Seq(Pairs)]

\* Mutant: the value buffer is allocated with length 0 (capacity 16).
NewQueueBatchEmptyBuf ==
    [loaded |-> FALSE, maxOffset |-> 0, removedOffset |-> 0, queueKey |-> {},
     valLen |-> 0, pairs |-> <<>>]

\* newQueueBatch(): the value buffer is allocated with 16 bytes.
NewQueueBatch ==
    [loaded |-> FALSE, maxOffset |-> 0, removedOffset |-> 0, queueKey |-> {},
     valLen |-> 16, pairs |-> <<>>]

\* reset(): every slice, the value buffer included, is cut to length 0.
resetQB(b) ==
    [loaded |-> FALSE, maxOffset |-> 0, removedOffset |-> 0, queueKey |-> {},
     valLen |-> 0, pairs |-> <<>>]

\* add(): the first request loads the partition's offsets; copy() into a
\* zero-length buffer copies nothing and Byte2UInt64 of it panics.
AddPanics(b, r) == ~b.loaded /\ meta[r.q] # <<>> /\ b.valLen = 0

\* Mutant: the stored offsets are not read when the batch is loaded.
addNoLoad(b, r, idx) ==
    LET ld == IF b.loaded THEN b ELSE [b EXCEPT !.queueKey = {r.q}, !.loaded = TRUE]
    IN [ld EXCEPT !.maxOffset = (@ + r.n) % (UMax + 1),
                  !.pairs = @ \o [i \in 1..r.n |->
                      [q |-> r.q, off |-> (ld.maxOffset + i) % (UMax + 1), id |-> <<idx, i>>]]]

\* add(): every item gets the next offset and a pair keyed by the
\* request's own partition key.
add(b, r, idx) ==
    LET ld == IF b.loaded THEN b
              ELSE [b EXCEPT !.queueKey = {r.q}, !.loaded = TRUE,
                             !.maxOffset = IF meta[r.q] # <<>> THEN meta[r.q][1] ELSE @,
                             !.removedOffset = IF meta[r.q] # <<>> THEN meta[r.q][2] ELSE @]
    IN [ld EXCEPT !.maxOffset = (@ + r.n) % (UMax + 1),
                  !.pairs = @ \o [i \in 1..r.n |->
                      [q |-> r.q, off |-> (ld.maxOffset + i) % (UMax + 1), id |-> <<idx, i>>]]]

\* addReq() for a QueueAdd request: add() it, then answer with the batch's
\* maxOffset, the offset of the request's last item.
addReq(b, r, idx) ==
    LET nb == add(b, r, idx) IN <<nb, nb.maxOffset>>

LoadedQueue(b) == CHOOSE q \in b.queueKey : TRUE

\* exec(): the scan keeps the smallest offset of a live consumer.
Low(q) ==
    LET live == {committedOff[q][c] : c \in {x \in Consumers : alive[q][x]}}
    IN IF live = {} THEN UMax ELSE CHOOSE v \in live : \A w \in live : v <= w

CleanDue(b) ==
    /\ b.maxOffset > 0
    /\ (b.maxOffset - b.removedOffset) % (UMax + 1) > CountToClean
    /\ Low(LoadedQueue(b)) > b.removedOffset

\* Mutant: the deleted range ends one offset later.
RangeDeletedPastLow(b) ==
    {o \in Offs : b.removedOffset <= o /\ o < (Low(LoadedQueue(b)) + 2) % (UMax + 1)}

\* RangeDelete(itemKey(removedOffset), itemKey(low+1)): uint64 wrap included.
RangeDeleted(b) ==
    {o \in Offs : b.removedOffset <= o /\ o < (Low(LoadedQueue(b)) + 1) % (UMax + 1)}

\* wb.Set of every pair, in order.
RECURSIVE WritePairs(_, _)
WritePairs(st, ps) ==
    IF ps = <<>> THEN st
    ELSE WritePairs([st EXCEPT ![Head(ps).q][Head(ps).off] = Head(ps).id], Tail(ps))

(***************************************************************************)
(* The apply loop                                                          *)
(***************************************************************************)

Init ==
    /\ log = <<>>
    /\ applied = 0
    /\ meta = [q \in Queues |-> <<>>]
    /\ stored = [q \in Queues |-> [o \in Offs |-> Nil]]
    /\ committedOff = [q \in Queues |-> [c \in Consumers |-> 0]]
    /\ alive = [q \in Queues |-> [c \in Consumers |-> TRUE]]
    /\ qb = NewQueueBatch
    /\ batchEnd = 0
    /\ resps = <<>>
    /\ ack = [r \in 1..MaxReqs |-> 0]
    /\ deleted = [q \in Queues |-> {}]
    /\ panicked = FALSE

\* A client's QueueAdd is committed to the shard's log.
Propose ==
    /\ Len(log) < MaxReqs
    /\ \E r \in Requests : log' = Append(log, r)
    /\ UNCHANGED <<applied, meta, stored, committedOff, alive, qb, batchEnd,
                   resps, ack, deleted, panicked>>

\* The process ends (panic or log.Fatalf); the restarted apply loop has a
\* new batch object and applies the log again from the applied index.
Restart ==
    /\ qb' = NewQueueBatch
    /\ batchEnd' = applied
    /\ resps' = <<>>
    /\ UNCHANGED <<log, applied, meta, committedOff, alive, ack>>

\* batch.Add with queueBatch.addReq: the response is the batch's maxOffset.
BatchAdd ==
    LET idx == batchEnd + 1
        r == log[idx]
    IN /\ batchEnd < Len(log)
       /\ batchEnd - applied < BatchMax
       /\ \/ /\ AddPanics(qb, r)
             /\ Restart
             /\ panicked' = TRUE
             /\ UNCHANGED <<stored, deleted>>
          \/ /\ ~AddPanics(qb, r)
             /\ qb' = addReq(qb, r, idx)[1]
             /\ resps' = Append(resps, addReq(qb, r, idx)[2])
             /\ batchEnd' = idx
             /\ UNCHANGED <<log, applied, meta, stored, committedOff, alive, ack,
                            deleted, panicked>>

\* Mutant: the applied index is set one past the batch.
WriteBatchPastEnd(q) ==
    /\ meta' = IF qb.maxOffset > 0
               THEN [meta EXCEPT ![q] = <<qb.maxOffset, qb.removedOffset>>]
               ELSE meta
    /\ stored' = WritePairs(stored, qb.pairs)
    /\ ack' = [r \in 1..MaxReqs |->
                 IF applied < r /\ r <= batchEnd THEN resps[r - applied] ELSE ack[r]]
    /\ applied' = batchEnd + 1
    /\ qb' = resetQB(qb)
    /\ resps' = <<>>

\* The end of exec, s.Write(wb) and batch.Reset: the meta value and the
\* pairs are written in one write batch with the applied index, every
\* request of the batch gets its response, and the batch is reset.
WriteBatch(q) ==
    /\ meta' = IF qb.maxOffset > 0
               THEN [meta EXCEPT ![q] = <<qb.maxOffset, qb.removedOffset>>]
               ELSE meta
    /\ stored' = WritePairs(stored, qb.pairs)
    /\ ack' = [r \in 1..MaxReqs |->
                 IF applied < r /\ r <= batchEnd THEN resps[r - applied] ELSE ack[r]]
    /\ applied' = batchEnd
    /\ qb' = resetQB(qb)
    /\ resps' = <<>>

(***************************************************************************)
(* queueBatch.exec.  Its first check (an odd number of pair slices) never  *)
(* holds.  When the GC check finds a range to clean, RangeDelete runs on   *)
(* the store at once and log.Fatalf ends the process whatever it returned. *)
(* Otherwise the meta value is encoded into the buffer, which panics when  *)
(* the buffer has length 0, and the pairs go to the write batch, which is  *)
(* then written.                                                           *)
(***************************************************************************)
exec(q) ==
    \/ /\ CleanDue(qb)
       /\ stored' = [stored EXCEPT ![q] = [o \in Offs |->
                        IF o \in RangeDeleted(qb) THEN Nil ELSE @[o]]]
       /\ deleted' = [deleted EXCEPT ![q] = @ \cup RangeDeleted(qb)]
       /\ Restart
       /\ UNCHANGED panicked
    \/ /\ ~CleanDue(qb)
       /\ qb.maxOffset > 0 /\ qb.valLen = 0
       /\ Restart
       /\ panicked' = TRUE
       /\ UNCHANGED <<stored, deleted>>
    \/ /\ ~CleanDue(qb)
       /\ qb.maxOffset = 0 \/ qb.valLen = 16
       /\ WriteBatch(q)
       /\ UNCHANGED <<log, batchEnd, committedOff, alive, deleted, panicked>>

\* batch.Execute, when the apply loop ends a batch: exec of each batch
\* type on one write batch (the queueBatch is the only one, and its error
\* return is never taken).
Execute ==
    /\ batchEnd > applied
    /\ exec(LoadedQueue(qb))

\* A consumer fetches or commits: its key gets a new timestamp and an
\* offset no smaller than before and no larger than the stored maxOffset.
ConsumerCommit ==
    \E q \in Queues, c \in Consumers :
        \E o \in committedOff[q][c]..(IF meta[q] = <<>> THEN 0 ELSE meta[q][1]) :
            /\ committedOff' = [committedOff EXCEPT ![q][c] = o]
            /\ alive' = [alive EXCEPT ![q][c] = TRUE]
            /\ UNCHANGED <<log, applied, meta, stored, qb, batchEnd, resps, ack,
                           deleted, panicked>>

\* A consumer's timestamp becomes older than maxConsumerAlive.
ConsumerExpire ==
    \E q \in Queues, c \in Consumers :
        /\ alive[q][c]
        /\ alive' = [alive EXCEPT ![q][c] = FALSE]
        /\ UNCHANGED <<log, applied, meta, stored, committedOff, qb, batchEnd,
                       resps, ack, deleted, panicked>>

ApplyStep == BatchAdd \/ Execute

Next == Propose \/ ApplyStep \/ ConsumerCommit \/ ConsumerExpire

\* The shard's apply loop runs for as long as the replica lives.
Spec == Init /\ [][Next]_vars /\ WF_vars(ApplyStep)

(***************************************************************************)
(* Properties                                                              *)
(***************************************************************************)

TypeOK ==
    /\ log \in Seq(Requests)
    /\ applied \in 0..Len(log)
    /\ batchEnd \in applied..Len(log)
    /\ meta \in [Queues -> {<<>>} \cup ((0..UMax) \X (0..UMax))]
    /\ stored \in [Queues -> [Offs -> ItemIds \cup {Nil}]]
    /\ committedOff \in [Queues -> [Consumers -> 0..UMax]]
    /\ alive \in [Queues -> [Consumers -> BOOLEAN]]
    /\ qb \in QueueBatchType
    /\ ack \in [1..MaxReqs -> 0..UMax]
    /\ panicked \in BOOLEAN

\* Spec 6 (append returns the new maxOffset), about add/exec/reset and the
\* reload after a restart: every item of an acknowledged QueueAdd is
\* stored at the offset its response names, in its own partition, and is
\* never overwritten; only a GC RangeDelete may remove it.
AckedItemsKept ==
    \A r \in 1..Len(log) : ack[r] # 0 =>
        \A i \in 1..log[r].n :
            LET o == ack[r] - log[r].n + i
            IN /\ o \in Offs
               /\ stored[log[r].q][o] = <<r, i>> \/ o \in deleted[log[r].q]

\* Spec 8.4 (queue GC safety), about exec's scan and RangeDelete: an item
\* is deleted only when every live consumer of its partition has
\* committed an offset at or beyond it.
GCSafety ==
    [][\A q \in Queues : \A o \in deleted'[q] \ deleted[q] :
          \A c \in Consumers : alive[q][c] => o <= committedOff[q][c]]_vars

\* Spec 6 (either all apply or none; retried until applied), about the
\* apply loop, exec and the restart: every committed QueueAdd is applied.
AllApplied ==
    \A i \in 1..MaxReqs : (Len(log) >= i) ~> (applied >= i)

\* Spec 6 (the queue primitive), about add() and exec() after reset():
\* applying a batch never panics.
NoApplyPanic == ~panicked

=============================================================================
