-------------------------- MODULE InterventionQueue --------------------------
(* The priority queue of interventions, packages/core/src/intervention/      *)
(* performance/queue.ts: a heap for each priority, batches that a processor  *)
(* takes asynchronously, and a timer for the next batch.  Requests are       *)
(* numbered in the order of enqueue; several may come in one millisecond, as *)
(* enqueueBatch makes them.  Statistics and events are left out.             *)
EXTENDS Integers, Sequences, FiniteSets, SequencesExt

CONSTANTS
    PriorityOf,  \* the requests' priorities, 1 for critical to 4 for low
    MaxSize,     \* config.maxSize
    BatchSize    \* config.batchSize

ASSUME QueueAssumption ==
    /\ PriorityOf \in Seq(1..4)
    /\ MaxSize \in Nat \ {0} /\ BatchSize \in Nat \ {0}

VARIABLES
    heaps,       \* priority -> its heap, an array
    addedAt,     \* request -> millisecond of its enqueue
    clock,
    enqueued,    \* requests given to enqueue so far: 1 to enqueued
    fate,        \* request -> where it is
    isProcessing,
    batchTimer,
    stopped      \* stop or clear was called

queueVars == <<heaps, addedAt, clock, enqueued, fate, isProcessing, batchTimer, stopped>>

QueueRequests == DOMAIN PriorityOf

Fates == {"new", "refused", "queued", "batch", "done", "dropped", "failed", "taken", "cleared"}

QueueTypeOK ==
    /\ \A p \in 1..4 : Range(heaps[p]) \subseteq {r \in QueueRequests : PriorityOf[r] = p}
    /\ addedAt \in [QueueRequests -> Nat] /\ clock \in Nat
    /\ enqueued \in 0..Len(PriorityOf)
    /\ fate \in [QueueRequests -> Fates]
    /\ isProcessing \in BOOLEAN /\ batchTimer \in BOOLEAN /\ stopped \in BOOLEAN

QueueInit ==
    /\ heaps = [p \in 1..4 |-> <<>>]
    /\ addedAt = [r \in QueueRequests |-> 0]
    /\ clock = 0 /\ enqueued = 0
    /\ fate = [r \in QueueRequests |-> "new"]
    /\ isProcessing = FALSE /\ batchTimer = FALSE /\ stopped = FALSE

QueueSize(hs) == Len(hs[1]) + Len(hs[2]) + Len(hs[3]) + Len(hs[4])

-----------------------------------------------------------------------------
(* The heap; compare, within a priority, is by the time of enqueue           *)

Swap(heap, i, j) == [heap EXCEPT ![i] = heap[j], ![j] = heap[i]]

BeforeReversed(at, r, q) == at[r] > at[q]

Before(at, r, q) == at[r] < at[q]

(* One turn of the loop of heapifyUp, of which i is the index. *)
UpTurn(at, s) ==
    LET parent == s.i \div 2 IN
    IF s.i > 1 /\ Before(at, s.heap[s.i], s.heap[parent])
    THEN [heap |-> Swap(s.heap, s.i, parent), i |-> parent]
    ELSE s

(* After i turns the index is at the root, or the loop was left. *)
HeapifyUp(at, heap, i) ==
    LET turn[n \in 0..i] == IF n = 0 THEN [heap |-> heap, i |-> i] ELSE UpTurn(at, turn[n - 1])
    IN turn[i].heap

(* The child that comes first, or i when it comes before both. *)
Largest(at, heap, i) ==
    LET left == IF 2 * i <= Len(heap) /\ Before(at, heap[2 * i], heap[i]) THEN 2 * i ELSE i
        right == 2 * i + 1
    IN IF right <= Len(heap) /\ Before(at, heap[right], heap[left]) THEN right ELSE left

DownTurn(at, s) ==
    LET largest == Largest(at, s.heap, s.i) IN
    IF largest = s.i THEN s ELSE [heap |-> Swap(s.heap, s.i, largest), i |-> largest]

(* From the root the index is a leaf, or the loop was left, after as many    *)
(* turns as the heap is long.                                                *)
HeapifyDown(at, heap) ==
    LET turn[n \in 0..Len(heap)] ==
          IF n = 0 THEN [heap |-> heap, i |-> 1] ELSE DownTurn(at, turn[n - 1])
    IN turn[Len(heap)].heap

Push(at, heap, r) == HeapifyUp(at, Append(heap, r), Len(heap) + 1)

(* The last takes the place of the first. *)
Pop(at, heap) ==
    IF Len(heap) = 1 THEN <<>>
    ELSE HeapifyDown(at, [Front(heap) EXCEPT ![1] = heap[Len(heap)]])

(* The first priority that has a request. *)
Dequeue(at, hs) ==
    LET p == CHOOSE q \in 1..4 : hs[q] # <<>> /\ \A k \in 1..(q - 1) : hs[k] = <<>> IN
    [request |-> hs[p][1], heaps |-> [hs EXCEPT ![p] = Pop(at, @)]]

TakeInto(at, taken) ==
    IF QueueSize(taken.heaps) = 0 THEN taken
    ELSE LET first == Dequeue(at, taken.heaps)
         IN [requests |-> taken.requests \cup {first.request}, heaps |-> first.heaps]

(* dequeueBatch: what n calls of dequeue return, and what they leave. *)
DequeueBatch(at, hs, n) ==
    LET turn[k \in 0..n] ==
          IF k = 0 THEN [requests |-> {}, heaps |-> hs] ELSE TakeInto(at, turn[k - 1])
    IN turn[n]

-----------------------------------------------------------------------------
(* The queue                                                               *)

MoveAll(f, rs, place) == [r \in QueueRequests |-> IF r \in rs THEN place ELSE f[r]]

MayProcess == ~isProcessing

(* processBatch up to its await, with the times of enqueue, the queue and    *)
(* the fates so far.                                                         *)
ProcessBatch(at, hs, f) ==
    LET batch == DequeueBatch(at, hs, BatchSize) IN
    IF MayProcess /\ batch.requests # {}
    THEN /\ heaps' = batch.heaps
         /\ fate' = MoveAll(f, batch.requests, "batch")
         /\ isProcessing' = TRUE
    ELSE heaps' = hs /\ fate' = f /\ UNCHANGED isProcessing

ScheduleBatchWhenFull(at, hs, f) ==
    IF ~batchTimer /\ QueueSize(hs) >= BatchSize
    THEN ProcessBatch(at, hs, f) /\ UNCHANGED batchTimer
    ELSE heaps' = hs /\ fate' = f /\ UNCHANGED <<batchTimer, isProcessing>>

(* A timer that is set comes before the check for a full batch. *)
ScheduleBatch(at, hs, f) ==
    IF ~batchTimer /\ QueueSize(hs) >= BatchSize
    THEN ProcessBatch(at, hs, f) /\ UNCHANGED batchTimer
    ELSE heaps' = hs /\ fate' = f /\ batchTimer' = TRUE /\ UNCHANGED isProcessing

(* dropLowestPriority drops nothing. *)
IsFull == QueueSize(heaps) >= MaxSize

HeapOf(r) == PriorityOf[r]

Enqueue ==
    LET r == enqueued + 1
        at == [addedAt EXCEPT ![r] = clock]
    IN
    /\ enqueued < Len(PriorityOf)
    /\ enqueued' = r
    /\ addedAt' = at
    /\ IF IsFull
       THEN fate' = [fate EXCEPT ![r] = "refused"] /\ UNCHANGED <<heaps, isProcessing, batchTimer>>
       ELSE ScheduleBatch(at, [heaps EXCEPT ![HeapOf(r)] = Push(at, @, r)],
                          [fate EXCEPT ![r] = "queued"])
    /\ UNCHANGED <<clock, stopped>>

(* dequeue by another caller. *)
TakeOne ==
    /\ QueueSize(heaps) > 0
    /\ heaps' = Dequeue(addedAt, heaps).heaps
    /\ fate' = [fate EXCEPT ![Dequeue(addedAt, heaps).request] = "taken"]
    /\ UNCHANGED <<addedAt, clock, enqueued, isProcessing, batchTimer, stopped>>

BatchTimerFires ==
    /\ batchTimer
    /\ batchTimer' = FALSE
    /\ ProcessBatch(addedAt, heaps, fate)
    /\ UNCHANGED <<addedAt, clock, enqueued, stopped>>

InBatch == {r \in QueueRequests : fate[r] = "batch"}

(* The rest of processBatch.  pendingBatch is always empty, so what failed   *)
(* is not found there, and is dropped.                                       *)
BatchReturns ==
    /\ isProcessing
    /\ \E failed \in SUBSET InBatch :
         fate' = MoveAll(MoveAll(fate, InBatch, "done"), failed, "dropped")
    /\ isProcessing' = FALSE
    /\ UNCHANGED <<heaps, addedAt, clock, enqueued, batchTimer, stopped>>

BatchThrows ==
    /\ isProcessing
    /\ fate' = MoveAll(fate, InBatch, "failed")
    /\ isProcessing' = FALSE
    /\ UNCHANGED <<heaps, addedAt, clock, enqueued, batchTimer, stopped>>

StartQueue ==
    /\ ScheduleBatch(addedAt, heaps, fate)
    /\ UNCHANGED <<addedAt, clock, enqueued, stopped>>

StopQueue ==
    /\ batchTimer' = FALSE /\ stopped' = TRUE
    /\ UNCHANGED <<heaps, addedAt, clock, enqueued, fate, isProcessing>>

ClearQueue ==
    /\ heaps' = [p \in 1..4 |-> <<>>]
    /\ fate' = MoveAll(fate, {r \in QueueRequests : fate[r] = "queued"}, "cleared")
    /\ stopped' = TRUE
    /\ UNCHANGED <<addedAt, clock, enqueued, isProcessing, batchTimer>>

MillisecondPasses ==
    /\ enqueued > 0 /\ addedAt[enqueued] = clock
    /\ clock' = clock + 1
    /\ UNCHANGED <<heaps, addedAt, enqueued, fate, isProcessing, batchTimer, stopped>>

QueueNext ==
    \/ Enqueue \/ TakeOne \/ BatchTimerFires \/ BatchReturns \/ BatchThrows
    \/ StartQueue \/ StopQueue \/ ClearQueue \/ MillisecondPasses

QueueSpec == QueueInit /\ [][QueueNext]_queueVars

-----------------------------------------------------------------------------
(* A request that was accepted is in one heap, once, until a batch, a caller *)
(* or clear takes it: no order of pushes, pops and swaps loses or doubles    *)
(* one, and the limit is on all heaps together.                              *)
HeapsHoldTheQueued ==
    /\ \A r \in QueueRequests :
         Cardinality(UNION {{p} \X {i \in DOMAIN heaps[p] : heaps[p][i] = r} : p \in 1..4})
           = IF fate[r] = "queued" THEN 1 ELSE 0
    /\ QueueSize(heaps) <= MaxSize

ComesFirst(at, r, q) ==
    \/ PriorityOf[r] < PriorityOf[q]
    \/ PriorityOf[r] = PriorityOf[q] /\ at[r] <= at[q]

LeavesInTurn ==
    \A r, q \in QueueRequests :
      fate[r] \in {"new", "queued"} /\ fate'[r] \in {"batch", "taken"} /\ fate'[q] = "queued" =>
        ComesFirst(addedAt', r, q)

(* What leaves the queue, one by one or in a batch, is at least as urgent as *)
(* all that stays, and of the same priority nothing that stays came in an    *)
(* earlier millisecond: the request that fills a batch waits its turn too.   *)
UrgentFirst == [][LeavesInTurn]_queueVars

(* One batch is with the processor at a time, whatever timers and enqueues   *)
(* ask for another meanwhile.                                                *)
OneBatch ==
    /\ ~isProcessing => InBatch = {}
    /\ Cardinality(InBatch) <= BatchSize

(* A queue that nobody stopped and that has neither a timer nor a batch was  *)
(* left so by an earlier batch: one that was busy when the next was asked    *)
(* for, or that could not take all.                                          *)
LeftBehindByABatch ==
    QueueSize(heaps) > 0 /\ ~batchTimer /\ ~isProcessing /\ ~stopped =>
      \E r \in QueueRequests : fate[r] \in {"done", "dropped", "failed"}

(* No request is lost but by a batch or clear, and only a batch leaves some  *)
(* waiting for nothing.                                                      *)
QueueInv ==
    /\ QueueTypeOK
    /\ HeapsHoldTheQueued
    /\ OneBatch
    /\ LeftBehindByABatch
=============================================================================
