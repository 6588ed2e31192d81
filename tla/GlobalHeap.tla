----------------------------- MODULE GlobalHeap -----------------------------
(***************************************************************************)
(* The small-block side of the global heap (src/src/global_heap.cpp): per  *)
(* (arena, class) a spin lock, the partial and full slab lists, and the    *)
(* lock-free pending queue that takes frees when the lock is contended.    *)
(*                                                                         *)
(* Each thread runs one operation at a time: AllocateBatch (labels ab_.),  *)
(* DeallocateBatchClass (db_.), DeferBinToPending (defer) or the draining  *)
(* half of PurgePageCache (pg_.).  The labels home and relist are the two  *)
(* halves of one iteration of ProcessPendingListLocked and of              *)
(* ProcessBatchLocked.  A step is an atomic operation on shared memory,    *)
(* or the part of a critical section up to the next place where another    *)
(* thread breaking the lock discipline would be noticed.                   *)
(*                                                                         *)
(* Lists are sets (see Slab).  Loops over arenas, classes and lists take   *)
(* their iterations in any order; the code's ascending order is one.       *)
(* PageHeapAllocate and PageHeapFree are atomic here: they take a span     *)
(* that is in no use and give it back.  PageHeap models them.              *)
(***************************************************************************)
EXTENDS Slab

CONSTANTS
  Threads,
  NoThread,      \* value of a class lock nobody holds
  FeedMaxList,   \* kFeedMaxList: longest remainder that is parked again
  NoSpan

ASSUME HeapAssumption ==
  /\ NoThread \notin Threads
  /\ NoSpan \notin Spans
  /\ FeedMaxList \in Nat

VARIABLES
  lock,       \* class_locks_: the holder, by key
  slabs,      \* the spans that are slabs now
  hdr,        \* the slab header of each span
  partial,    \* partial_slabs_, by key
  full,       \* full_slabs_, by key
  pending,    \* pending_returns_, by key
  pc,         \* where each thread is
  own,        \* key of the calling thread's arena and requested class
  key,        \* key whose lock is held or whose list is being returned
  target,     \* target_count
  result,     \* result: the batch AllocateBatch has collected
  actual,     \* actual_count
  left,       \* keys the steal loop or the purge loop has still to visit
  todo,       \* blocks the thread has still to return, by key
  cur,        \* slab: the slab being extracted from or returned to
  was_full,   \* was_full
  ret         \* label after the current ProcessPendingListLocked

heapVars == <<lock, slabs, hdr, partial, full, pending>>
batchVars == <<own, target, result, actual, left>>
listVars == <<key, todo, cur, was_full, ret>>

NoBlocks == [k \in Keys |-> {}]

NoKey == <<0, CHOOSE c \in Classes : TRUE>>

Goto(t, label) == pc' = [pc EXCEPT ![t] = label]

(* The first n blocks of list P, at least one: any such subset. *)
FirstOf(P, n) ==
  {S \in SUBSET P : Cardinality(S) = IF Cardinality(P) <= n
                                     THEN Cardinality(P) ELSE n}

HeapInit ==
  /\ lock = [k \in Keys |-> NoThread]
  /\ slabs = {}
  /\ hdr = [s \in Spans |-> NoSlab]
  /\ partial = [k \in Keys |-> {}]
  /\ full = [k \in Keys |-> {}]
  /\ pending = [k \in Keys |-> {}]
  /\ own = [t \in Threads |-> NoKey]
  /\ key = [t \in Threads |-> NoKey]
  /\ target = [t \in Threads |-> 0]
  /\ result = [t \in Threads |-> {}]
  /\ actual = [t \in Threads |-> 0]
  /\ left = [t \in Threads |-> {}]
  /\ todo = [t \in Threads |-> NoBlocks]
  /\ cur = [t \in Threads |-> NoSpan]
  /\ was_full = [t \in Threads |-> FALSE]
  /\ ret = [t \in Threads |-> "idle"]

(* Fault: the lock is taken without looking at it. *)
SpinLockBlind(t, k) == lock' = [lock EXCEPT ![k] = t]

(* ScopedSpinLock: spin until the class lock is free, and take it. *)
SpinLock(t, k) ==
  /\ lock[k] = NoThread
  /\ lock' = [lock EXCEPT ![k] = t]

(* The failing test_and_set of a try-lock. *)
Busy(k) == lock[k] # NoThread
-----------------------------------------------------------------------------
(* ProcessPendingListLocked and ProcessBatchLocked, one block per round,   *)
(* under the lock of key[t].                                               *)

(* Hand thread t the list P of key k to put back into its slabs, then go   *)
(* to label next.                                                          *)
Process(t, k, P, next) ==
  /\ todo' = [todo EXCEPT ![t][k] = P]
  /\ ret' = [ret EXCEPT ![t] = IF P = {} THEN "idle" ELSE next]
  /\ Goto(t, IF P = {} THEN next ELSE "home")

(* Fault: the test comes after the block is back. *)
WasFullLate(b) == IsFull(Deallocate(hdr[b[1]], b))

WasFull(b) == IsFull(hdr[b[1]])

(* First half of a round: slab->Deallocate(block). *)
ReturnBlock(t) ==
  /\ pc[t] = "home"
  /\ \E b \in todo[t][key[t]] :
       /\ todo' = [todo EXCEPT ![t][key[t]] = @ \ {b}]
       /\ was_full' = [was_full EXCEPT ![t] = WasFull(b)]
       /\ hdr' = [hdr EXCEPT ![b[1]] = Deallocate(@, b)]
       /\ cur' = [cur EXCEPT ![t] = b[1]]
  /\ Goto(t, "relist")
  /\ UNCHANGED <<lock, slabs, partial, full, pending, batchVars, key, ret>>

(* Second half: a slab that was full becomes partial, and one that is now  *)
(* empty leaves its list and its span goes to PageHeapFree.                *)
RelistSlab(t) ==
  LET k == key[t]
      s == cur[t]
      partial1 == IF was_full[t] THEN partial[k] \cup {s} ELSE partial[k]
  IN
  /\ pc[t] = "relist"
  /\ full' = IF was_full[t] THEN [full EXCEPT ![k] = @ \ {s}] ELSE full
  /\ IF IsEmpty(hdr[s])
     THEN /\ partial' = [partial EXCEPT ![k] = partial1 \ {s}]
          /\ slabs' = slabs \ {s}
          /\ hdr' = [hdr EXCEPT ![s] = NoSlab]
     ELSE /\ partial' = [partial EXCEPT ![k] = partial1]
          /\ UNCHANGED <<slabs, hdr>>
  /\ cur' = [cur EXCEPT ![t] = NoSpan]
  /\ was_full' = [was_full EXCEPT ![t] = FALSE]
  /\ ret' = [ret EXCEPT ![t] = IF todo[t][k] = {} THEN "idle" ELSE @]
  /\ Goto(t, IF todo[t][k] = {} THEN ret[t] ELSE "home")
  /\ UNCHANGED <<lock, pending, batchVars, key, todo>>

(* Fault: the queue is read with a load, not emptied by an exchange. *)
DrainByLoad(t, from, next) ==
  /\ pc[t] = from
  /\ Process(t, key[t], pending[key[t]], next)
  /\ UNCHANGED <<heapVars, batchVars, key, cur, was_full>>

(* DrainPendingReturns: take the whole pending queue of key[t]. *)
DrainPendingReturns(t, from, next) ==
  /\ pc[t] = from
  /\ pending' = [pending EXCEPT ![key[t]] = {}]
  /\ Process(t, key[t], pending[key[t]], next)
  /\ UNCHANGED <<lock, slabs, hdr, partial, full, batchVars, key, cur, was_full>>

(* Fault: a plain store of the list as the new head. *)
PushByStore(t, k) ==
  /\ pending' = [pending EXCEPT ![k] = todo[t][k]]
  /\ todo' = [todo EXCEPT ![t][k] = {}]

(* The lock-free hand-off of the list of key k to its pending queue. *)
PushPending(t, k) ==
  /\ pending' = [pending EXCEPT ![k] = @ \cup todo[t][k]]
  /\ todo' = [todo EXCEPT ![t][k] = {}]

Unlock(t, from, next) ==
  /\ pc[t] = from
  /\ lock' = [lock EXCEPT ![key[t]] = NoThread]
  /\ key' = [key EXCEPT ![t] = NoKey]
  /\ Goto(t, next)
  /\ UNCHANGED <<slabs, hdr, partial, full, pending, batchVars, todo, cur,
                 was_full, ret>>
-----------------------------------------------------------------------------
(* AllocateBatch(class_index, target_count, actual_count, arena_index)     *)

AllocateBatchCall(t, k, n) ==
  /\ own' = [own EXCEPT ![t] = k]
  /\ target' = [target EXCEPT ![t] = n]
  /\ Goto(t, "ab_lock")
  /\ UNCHANGED <<heapVars, result, actual, left, listVars>>

AcquireClassLock(t) ==
  /\ pc[t] = "ab_lock"
  /\ SpinLock(t, own[t])
  /\ Goto(t, "ab_feed")
  /\ UNCHANGED <<slabs, hdr, partial, full, pending, batchVars, listVars>>

(* 1) Direct feed from the arena's own pending queue.  A short remainder   *)
(* is parked again, a long one is put back into the slabs.                 *)
DirectFeed(t) ==
  LET k == own[t]  P == pending[k] IN
  /\ pc[t] = "ab_feed"
  /\ pending' = [pending EXCEPT ![k] = {}]
  /\ left' = [left EXCEPT ![t] = {<<a, k[2]>> : a \in Arenas} \ {k}]
  /\ key' = [key EXCEPT ![t] = k]
  /\ \E S \in FirstOf(P, target[t]) :
       /\ result' = [result EXCEPT ![t] = S]
       /\ actual' = [actual EXCEPT ![t] = Cardinality(S)]
       /\ IF Cardinality(P \ S) \in 1 .. FeedMaxList
          THEN /\ todo' = [todo EXCEPT ![t][k] = P \ S]
               /\ Goto(t, "ab_repark")
               /\ UNCHANGED ret
          ELSE Process(t, k, P \ S, "ab_steal")
  /\ UNCHANGED <<lock, slabs, hdr, partial, full, own, target, cur, was_full>>

Repark(t) ==
  /\ pc[t] = "ab_repark"
  /\ PushPending(t, own[t])
  /\ Goto(t, "ab_steal")
  /\ UNCHANGED <<lock, slabs, hdr, partial, full, batchVars, key, cur,
                 was_full, ret>>

(* Fault: a busy foreign lock is tried again. *)
RetryBusy(t, k) == Busy(k) /\ UNCHANGED <<left, lock, key, pc>>

SkipBusy(t, k) ==
  /\ Busy(k)
  /\ left' = [left EXCEPT ![t] = @ \ {k}]
  /\ UNCHANGED <<lock, key, pc>>

(* 2) Cross-arena steal: one try-lock per foreign arena. *)
TrySteal(t) ==
  /\ pc[t] = "ab_steal"
  /\ actual[t] < target[t]
  /\ \E k \in left[t] :
       \/ SkipBusy(t, k)
       \/ /\ SpinLock(t, k)
          /\ left' = [left EXCEPT ![t] = @ \ {k}]
          /\ key' = [key EXCEPT ![t] = k]
          /\ Goto(t, "ab_take")
  /\ UNCHANGED <<slabs, hdr, partial, full, pending, own, target, result,
                 actual, todo, cur, was_full, ret>>

(* Take what is still needed of the foreign queue, put the rest back. *)
TakeStolen(t) ==
  LET k == key[t]  P == pending[k] IN
  /\ pc[t] = "ab_take"
  /\ pending' = [pending EXCEPT ![k] = {}]
  /\ \E S \in FirstOf(P, target[t] - actual[t]) :
       /\ result' = [result EXCEPT ![t] = @ \cup S]
       /\ actual' = [actual EXCEPT ![t] = @ + Cardinality(S)]
       /\ Process(t, k, P \ S, "ab_release")
  /\ UNCHANGED <<lock, slabs, hdr, partial, full, own, target, left, key, cur,
                 was_full>>

ReleaseForeign(t) == Unlock(t, "ab_release", "ab_steal")

(* 3) Nothing was fed or stolen: extract from a partial slab, or from a    *)
(* new one; AllocateNewSlab may find no memory.                            *)
PickSlab(t) ==
  LET k == own[t] IN
  /\ pc[t] = "ab_steal"
  /\ actual[t] >= target[t] \/ left[t] = {}
  /\ left' = [left EXCEPT ![t] = {}]
  /\ key' = [key EXCEPT ![t] = k]
  /\ \/ /\ result[t] # {}
        /\ Goto(t, "ab_unlock")
        /\ UNCHANGED <<slabs, hdr, partial, cur>>
     \/ /\ result[t] = {}
        /\ \E s \in partial[k] : cur' = [cur EXCEPT ![t] = s]
        /\ Goto(t, "ab_extract")
        /\ UNCHANGED <<slabs, hdr, partial>>
     \/ /\ result[t] = {} /\ partial[k] = {}
        /\ \E s \in Spans \ slabs :
             /\ slabs' = slabs \cup {s}
             /\ hdr' = [hdr EXCEPT ![s] = Create(s, k)]
             /\ partial' = [partial EXCEPT ![k] = @ \cup {s}]
             /\ cur' = [cur EXCEPT ![t] = s]
        /\ Goto(t, "ab_extract")
     \/ /\ result[t] = {} /\ partial[k] = {}
        /\ Goto(t, "ab_unlock")
        /\ UNCHANGED <<slabs, hdr, partial, cur>>
  /\ UNCHANGED <<lock, full, pending, own, target, result, actual, todo,
                 was_full, ret>>

(* ExtractBlocksFromSlab, one block per step. *)
ExtractBlock(t) ==
  LET s == cur[t] IN
  /\ pc[t] = "ab_extract"
  /\ actual[t] < target[t]
  /\ ~IsFull(hdr[s])
  /\ \E b \in Allocatable(s, hdr[s]) :
       /\ hdr' = [hdr EXCEPT ![s] = Allocate(@, b)]
       /\ result' = [result EXCEPT ![t] = @ \cup {b}]
       /\ actual' = [actual EXCEPT ![t] = @ + 1]
  /\ UNCHANGED <<lock, slabs, partial, full, pending, pc, own, target, left,
                 listVars>>

ExtractDone(t) ==
  LET s == cur[t]  k == own[t] IN
  /\ pc[t] = "ab_extract"
  /\ actual[t] >= target[t] \/ IsFull(hdr[s])
  /\ IF IsFull(hdr[s])
     THEN /\ partial' = [partial EXCEPT ![k] = @ \ {s}]
          /\ full' = [full EXCEPT ![k] = @ \cup {s}]
     ELSE UNCHANGED <<partial, full>>
  /\ cur' = [cur EXCEPT ![t] = NoSpan]
  /\ Goto(t, "ab_unlock")
  /\ UNCHANGED <<lock, slabs, hdr, pending, batchVars, key, todo, was_full, ret>>

ReleaseClassLock(t) == Unlock(t, "ab_unlock", "refill")
-----------------------------------------------------------------------------
(* DeallocateBatchClass(class_index, head) and DeferBinToPending           *)

(* SplitListByArena: route every block of a class c list by the arena of   *)
(* its own slab.                                                           *)
SplitListByArena(c, S) ==
  [k \in Keys |-> IF k[2] = c THEN {b \in S : hdr[b[1]].arena = k[1]} ELSE {}]

(* Start returning the class c blocks S: from label db_next or defer. *)
ReturnCall(t, c, S, label) ==
  /\ todo' = [todo EXCEPT ![t] = SplitListByArena(c, S)]
  /\ Goto(t, label)
  /\ UNCHANGED <<heapVars, batchVars, key, cur, was_full, ret>>


Contended(t, k) ==
  /\ Busy(k)
  /\ Goto(t, "db_push")
  /\ UNCHANGED <<lock, ret>>

(* Try the class lock of the next list: contended lists are pushed.  The   *)
(* push is a step of its own, so the lock may be free again by then.       *)
TryClassLock(t) ==
  /\ pc[t] = "db_next"
  /\ \E k \in Keys :
       /\ todo[t][k] # {}
       /\ key' = [key EXCEPT ![t] = k]
       /\ \/ Contended(t, k)
          \/ /\ SpinLock(t, k)
             /\ ret' = [ret EXCEPT ![t] = "db_drain"]
             /\ Goto(t, "home")
  /\ UNCHANGED <<slabs, hdr, partial, full, pending, batchVars, todo, cur,
                 was_full>>

PushContended(t) ==
  /\ pc[t] = "db_push"
  /\ PushPending(t, key[t])
  /\ key' = [key EXCEPT ![t] = NoKey]
  /\ Goto(t, "db_next")
  /\ UNCHANGED <<lock, slabs, hdr, partial, full, batchVars, cur, was_full, ret>>

DrainAfterBatch(t) == DrainPendingReturns(t, "db_drain", "db_unlock")

ReleaseBatchLock(t) == Unlock(t, "db_unlock", "db_next")

DeferBinToPending(t) ==
  /\ pc[t] = "defer"
  /\ \E k \in Keys : todo[t][k] # {} /\ PushPending(t, k)
  /\ UNCHANGED <<lock, slabs, hdr, partial, full, pc, batchVars, key, cur,
                 was_full, ret>>
-----------------------------------------------------------------------------
(* PurgePageCache, step 1: drain every pending queue under its lock. *)

PurgeCall(t) ==
  /\ left' = [left EXCEPT ![t] = Keys]
  /\ Goto(t, "pg_next")
  /\ UNCHANGED <<heapVars, own, target, result, actual, listVars>>

PurgeLock(t) ==
  /\ pc[t] = "pg_next"
  /\ \E k \in left[t] :
       /\ SpinLock(t, k)
       /\ key' = [key EXCEPT ![t] = k]
       /\ left' = [left EXCEPT ![t] = @ \ {k}]
  /\ Goto(t, "pg_drain")
  /\ UNCHANGED <<slabs, hdr, partial, full, pending, own, target, result,
                 actual, todo, cur, was_full, ret>>

PurgeDrain(t) == DrainPendingReturns(t, "pg_drain", "pg_unlock")

PurgeUnlock(t) == Unlock(t, "pg_unlock", "pg_next")

(* One step of a thread inside the global heap. *)
HeapStep(t) ==
  \/ ReturnBlock(t) \/ RelistSlab(t)
  \/ AcquireClassLock(t) \/ DirectFeed(t) \/ Repark(t)
  \/ TrySteal(t) \/ TakeStolen(t) \/ ReleaseForeign(t)
  \/ PickSlab(t) \/ ExtractBlock(t) \/ ExtractDone(t) \/ ReleaseClassLock(t)
  \/ TryClassLock(t) \/ PushContended(t)
  \/ DrainAfterBatch(t) \/ ReleaseBatchLock(t) \/ DeferBinToPending(t)
  \/ PurgeLock(t) \/ PurgeDrain(t) \/ PurgeUnlock(t)
=============================================================================
