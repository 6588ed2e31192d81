------------------------------ MODULE TLSCache ------------------------------
(***************************************************************************)
(* The small-block path of the allocator: every thread's TLSCache          *)
(* (src/src/tls_cache.h, tls_cache.cpp) on top of the global heap, as      *)
(* fast_malloc and fast_free drive it.                                     *)
(*                                                                         *)
(* A thread id stands for a live thread with a cache of its own; label     *)
(* "dead" means no cache.  A thread that starts again is a new thread that *)
(* got a fresh or recycled cache: the constructor runs either way.         *)
(* Clients are correct: a block is freed once, by any thread, after it was *)
(* returned by malloc.                                                     *)
(***************************************************************************)
EXTENDS GlobalHeap

CONSTANTS
  CacheLimit,     \* CACHE_LIMITS, by class
  InitialRefill,  \* kInitialRefill
  DeferMaxBin,    \* kDeferMaxBin
  NoClass         \* the abstract class of a span that is not a slab

ASSUME CacheAssumption ==
  /\ CacheLimit \in [Classes -> Nat \ {0}]
  /\ InitialRefill \in Nat \ {0}
  /\ DeferMaxBin \in Nat
  /\ NoClass \notin Classes

VARIABLES
  user,        \* the blocks the program holds
  bin,         \* bins_: list, count and next_refill, by thread and class
  arena,       \* arena_index_
  next_arena,  \* next_arena_ modulo NUM_ARENAS
  flush,       \* classes FlushToGlobalHeap has still to visit
  back         \* label after the current operation

cacheVars == <<user, bin, arena, next_arena, flush, back>>
vars == <<heapVars, pc, batchVars, listVars, cacheVars>>

EmptyBin == [list |-> {}, count |-> 0, next_refill |-> 0]

(* What happens to a bin: a block leaves or enters, its list is replaced,  *)
(* or the size of its next refill is.                                      *)
Pop(x, b) == [x EXCEPT !.list = @ \ {b}, !.count = @ - 1]

Push(x, b) == [x EXCEPT !.list = @ \cup {b}, !.count = @ + 1]

Relink(x, list, n) == [x EXCEPT !.list = list, !.count = n]

Ramp(x, n) == [x EXCEPT !.next_refill = n]

(* Half the cache limit, at least one: the refill cap and the overflow     *)
(* batch size.                                                             *)
HalfLimit(c) == IF CacheLimit[c] \div 2 = 0 THEN 1 ELSE CacheLimit[c] \div 2

Init ==
  /\ HeapInit
  /\ pc = [t \in Threads |-> "dead"]
  /\ user = {}
  /\ bin = [t \in Threads |-> [c \in Classes |-> EmptyBin]]
  /\ arena = [t \in Threads |-> 0]
  /\ next_arena = 0
  /\ flush = [t \in Threads |-> {}]
  /\ back = [t \in Threads |-> "idle"]

GetNextArena == IF next_arena + 1 = NumArenas THEN 0 ELSE next_arena + 1

(* The first allocation of a thread: GetSlow constructs a cache, which     *)
(* draws the next arena.                                                   *)
GetSlow(t) ==
  /\ pc[t] = "dead"
  /\ arena' = [arena EXCEPT ![t] = next_arena]
  /\ next_arena' = GetNextArena
  /\ bin' = [bin EXCEPT ![t] = [c \in Classes |-> EmptyBin]]
  /\ back' = [back EXCEPT ![t] = "idle"]
  /\ Goto(t, "idle")
  /\ UNCHANGED <<heapVars, batchVars, listVars, user, flush>>

(* fast_malloc, cache hit. *)
AllocateBlock(t, c) ==
  /\ pc[t] = "idle"
  /\ \E b \in bin[t][c].list :
       /\ bin' = [bin EXCEPT ![t][c] = Pop(@, b)]
       /\ user' = user \cup {b}
  /\ UNCHANGED <<heapVars, pc, batchVars, listVars, arena, next_arena, flush,
                 back>>

(* fast_malloc, cache miss: size the refill, ramp next_refill up, and call *)
(* AllocateBatch.                                                          *)
RefillTarget(t, c) ==
  LET want == IF bin[t][c].next_refill = 0 THEN InitialRefill
              ELSE bin[t][c].next_refill
  IN IF want > HalfLimit(c) THEN HalfLimit(c) ELSE want

AllocateBlockSlow(t, c) ==
  LET n == RefillTarget(t, c) IN
  /\ pc[t] = "idle"
  /\ bin[t][c].list = {}
  /\ bin' = [bin EXCEPT ![t][c] =
                Ramp(@, IF n * 2 <= HalfLimit(c) THEN n * 2 ELSE HalfLimit(c))]
  /\ AllocateBatchCall(t, <<arena[t], c>>, n)
  /\ UNCHANGED <<user, arena, next_arena, flush, back>>

(* Fault: the block handed to the caller is still counted in the bin. *)
CountAllRefilled(t) == actual[t]

(* What the bin counts after a refill. *)
Refilled(t) == actual[t] - 1

(* The rest of AllocateBlockSlow: null when the batch is empty, else one   *)
(* block to the caller and the others to the bin.                          *)
Refill(t) ==
  LET c == own[t][2] IN
  /\ pc[t] = "refill"
  /\ \/ result[t] = {} /\ UNCHANGED <<user, bin>>
     \/ \E b \in result[t] :
          /\ user' = user \cup {b}
          /\ bin' = [bin EXCEPT ![t][c] = Relink(@, result[t] \ {b}, Refilled(t))]
  /\ result' = [result EXCEPT ![t] = {}]
  /\ actual' = [actual EXCEPT ![t] = 0]
  /\ target' = [target EXCEPT ![t] = 0]
  /\ own' = [own EXCEPT ![t] = NoKey]
  /\ Goto(t, "idle")
  /\ UNCHANGED <<heapVars, left, listVars, arena, next_arena, flush, back>>

(* fast_free below the cache limit. *)
DeallocateBlock(t, b) ==
  LET c == hdr[b[1]].class_idx IN
  /\ pc[t] = "idle"
  /\ b \in user
  /\ bin[t][c].count + 1 < CacheLimit[c]
  /\ user' = user \ {b}
  /\ bin' = [bin EXCEPT ![t][c] = Push(@, b)]
  /\ UNCHANGED <<heapVars, pc, batchVars, listVars, arena, next_arena, flush,
                 back>>

(* fast_free reaching the cache limit: DeallocateBlockSlow detaches half a *)
(* limit of blocks, or the whole list when it is shorter than its count    *)
(* claims, and calls DeallocateBatchClass.                                 *)
DeallocateBlockSlow(t, b) ==
  LET c == hdr[b[1]].class_idx
      list == bin[t][c].list \cup {b}
      n == HalfLimit(c)
  IN
  /\ pc[t] = "idle"
  /\ b \in user
  /\ bin[t][c].count + 1 >= CacheLimit[c]
  /\ user' = user \ {b}
  /\ IF Cardinality(list) < n
     THEN /\ bin' = [bin EXCEPT ![t][c] = EmptyBin]
          /\ ReturnCall(t, c, list, "db_next")
     ELSE \E S \in FirstOf(list, n) :
            /\ bin' = [bin EXCEPT ![t][c] = Relink(@, list \ S, @.count + 1 - n)]
            /\ ReturnCall(t, c, S, "db_next")
  /\ back' = [back EXCEPT ![t] = "idle"]
  /\ UNCHANGED <<arena, next_arena, flush>>

(* DeallocateBatchClass or DeferBinToPending returns. *)
ReturnDone(t) ==
  /\ pc[t] \in {"db_next", "defer"}
  /\ todo[t] = NoBlocks
  /\ Goto(t, IF flush[t] = {} THEN back[t] ELSE "flush")
  /\ UNCHANGED <<heapVars, batchVars, listVars, cacheVars>>

(* FlushToGlobalHeap starts: fast_alloc_purge_thread_cache (next = idle)   *)
(* or the TLS destructor of an exiting thread (next = dead).               *)
FlushToGlobalHeap(t, next) ==
  /\ pc[t] = "idle"
  /\ flush' = [flush EXCEPT ![t] = Classes]
  /\ back' = [back EXCEPT ![t] = next]
  /\ Goto(t, "flush")
  /\ UNCHANGED <<heapVars, batchVars, listVars, user, bin, arena, next_arena>>

(* One class of the flush: a short bin is deferred to the pending queues,  *)
(* a long one returned through the class locks; every field is reset.      *)
FlushBin(t) ==
  /\ pc[t] = "flush"
  /\ \E c \in flush[t] :
       /\ flush' = [flush EXCEPT ![t] = @ \ {c}]
       /\ bin' = [bin EXCEPT ![t][c] = EmptyBin]
       /\ ReturnCall(t, c, bin[t][c].list,
                     IF bin[t][c].count <= DeferMaxBin THEN "defer"
                     ELSE "db_next")
  /\ UNCHANGED <<user, arena, next_arena, back>>

(* fast_alloc_purge. *)
PurgePageCache(t) ==
  /\ pc[t] = "idle"
  /\ PurgeCall(t)
  /\ UNCHANGED cacheVars

PurgeDone(t) ==
  /\ pc[t] = "pg_next"
  /\ left[t] = {}
  /\ Goto(t, "idle")
  /\ UNCHANGED <<heapVars, batchVars, listVars, cacheVars>>

CacheStep(t) ==
  \/ Refill(t) \/ ReturnDone(t) \/ FlushBin(t) \/ PurgeDone(t)

Step(t) == CacheStep(t) \/ (HeapStep(t) /\ UNCHANGED cacheVars)

fast_malloc(t, c) == AllocateBlock(t, c) \/ AllocateBlockSlow(t, c)

fast_free(t, b) == DeallocateBlock(t, b) \/ DeallocateBlockSlow(t, b)

(* What the program may ask of the allocator. *)
Request(t) ==
  \/ GetSlow(t)
  \/ \E c \in Classes : fast_malloc(t, c)
  \/ \E b \in user : fast_free(t, b)
  \/ FlushToGlobalHeap(t, "idle") \/ FlushToGlobalHeap(t, "dead")
  \/ PurgePageCache(t)

Next == \E t \in Threads : Request(t) \/ Step(t)

Spec == Init /\ [][Next]_vars

(* A thread inside the allocator keeps running: it is preempted, never     *)
(* stopped.  Nothing is assumed of who wins a spin lock, and nothing makes *)
(* the program call the allocator.                                         *)
KeepsRunning(t) == WF_vars(Step(t))
-----------------------------------------------------------------------------
(* Every list, bin and set a block can be in. *)
Places ==
  {<<"user">>} \cup ({"bin"} \X Threads \X Classes) \cup ({"result"} \X Threads)
    \cup ({"todo"} \X Threads \X Keys) \cup ({"pending"} \X Keys)
    \cup ({"free"} \X Spans)

Contents(p) ==
  CASE p[1] = "user"    -> user
    [] p[1] = "bin"     -> bin[p[2]][p[3]].list
    [] p[1] = "result"  -> result[p[2]]
    [] p[1] = "todo"    -> todo[p[2]][p[3]]
    [] p[1] = "pending" -> pending[p[2]]
    [] p[1] = "free"    -> hdr[p[2]].free_list

Labels ==
  {"dead", "idle", "refill", "flush", "home", "relist", "ab_lock", "ab_feed",
   "ab_repark", "ab_steal", "ab_take", "ab_release", "ab_extract", "ab_unlock",
   "db_next", "db_push", "db_drain", "db_unlock", "defer", "pg_next",
   "pg_drain", "pg_unlock"}

CacheBin == [list : SUBSET Blocks, count : Int, next_refill : Nat]

TypeOK ==
  /\ lock \in [Keys -> Threads \cup {NoThread}]
  /\ slabs \in SUBSET Spans
  /\ hdr \in [Spans -> SlabHeader]
  /\ partial \in [Keys -> SUBSET Spans]
  /\ full \in [Keys -> SUBSET Spans]
  /\ pending \in [Keys -> SUBSET Blocks]
  /\ pc \in [Threads -> Labels]
  /\ own \in [Threads -> Keys]
  /\ key \in [Threads -> Keys]
  /\ target \in [Threads -> Nat]
  /\ result \in [Threads -> SUBSET Blocks]
  /\ actual \in [Threads -> Int]
  /\ left \in [Threads -> SUBSET Keys]
  /\ todo \in [Threads -> [Keys -> SUBSET Blocks]]
  /\ cur \in [Threads -> Spans \cup {NoSpan}]
  /\ was_full \in [Threads -> BOOLEAN]
  /\ ret \in [Threads -> {"idle", "ab_steal", "ab_release", "db_drain",
                          "db_unlock", "pg_unlock"}]
  /\ user \in SUBSET Blocks
  /\ bin \in [Threads -> [Classes -> CacheBin]]
  /\ arena \in [Threads -> Arenas]
  /\ next_arena \in Arenas
  /\ flush \in [Threads -> SUBSET Classes]
  /\ back \in [Threads -> {"idle", "dead"}]

(* No block is in two places: malloc never hands out a block that another  *)
(* caller, cache, queue or free list still has, whatever the interleaving  *)
(* of refills, steals, overflows, exits and purges.                        *)
OnePlace ==
  \A p, q \in Places : p # q => Contents(p) \cap Contents(q) = {}

(* Block b is where its slab's header says it may be. *)
AnchoredAt(p, b) ==
  LET h == hdr[b[1]] IN
  /\ b[1] \in slabs
  /\ b[2] < h.next_new
  /\ p[1] = "bin" => p[3] = h.class_idx
  /\ p[1] = "result" => own[p[2]][2] = h.class_idx
  /\ p[1] = "todo" => p[3] = KeyOf(h)
  /\ p[1] = "pending" => p[2] = KeyOf(h)
  /\ p[1] = "free" => p[2] = b[1]

(* A block outside its slab keeps the slab alive, and sits where its slab's *)
(* arena and class say: RelistSlab never releases the span of a block that *)
(* is in use, cached or queued, and no list is returned to a foreign slab. *)
Anchored == \A p \in Places : \A b \in Contents(p) : AnchoredAt(p, b)

(* No block is lost: every block a slab has ever handed out is in some     *)
(* place, also when a refill runs out of memory half way or a remainder is *)
(* parked again while other threads push.                                  *)
NoBlockLost ==
  \A s \in slabs : \A b \in Carved(s, hdr[s].next_new) :
    \E p \in Places : b \in Contents(p)

(* The counters the code decides by are the lengths of the lists they      *)
(* stand for: free_blocks (IsFull, IsEmpty), a bin's count (the overflow   *)
(* test, AuditBin) and actual_count.                                       *)
CountsExact ==
  /\ \A s \in slabs : hdr[s].free_blocks =
       Cardinality(hdr[s].free_list) + TotalBlocks[hdr[s].class_idx]
         - hdr[s].next_new
  /\ \A t \in Threads : actual[t] = Cardinality(result[t])
  /\ \A t \in Threads, c \in Classes :
       /\ bin[t][c].count = Cardinality(bin[t][c].list)
       /\ bin[t][c].count < CacheLimit[c]

(* Thread t is inside AllocateBatch, or has its batch still in hand. *)
InBatch(t) ==
  \/ pc[t] \in {"ab_lock", "ab_feed", "ab_repark", "ab_steal", "ab_take",
                "ab_release", "ab_extract", "ab_unlock", "refill"}
  \/ pc[t] \in {"home", "relist"} /\ ret[t] \in {"ab_steal", "ab_release"}

(* Thread t works on a foreign arena's queue. *)
Stealing(t) ==
  \/ pc[t] \in {"ab_take", "ab_release"}
  \/ pc[t] \in {"home", "relist"} /\ ret[t] = "ab_release"

HoldsLocks(t) ==
  /\ InBatch(t) /\ pc[t] \notin {"ab_lock", "refill"} => lock[own[t]] = t
  /\ pc[t] \in {"ab_take", "ab_release", "ab_extract", "ab_unlock", "home",
                "relist", "db_drain", "db_unlock", "pg_drain", "pg_unlock"}
       => lock[key[t]] = t
  /\ Stealing(t) => key[t] # own[t]

(* A thread touches the slabs and lists of a key only while it holds that  *)
(* key's class lock, from the first step of the critical section to the    *)
(* last; a thief holds two, its own and a foreign arena's.                 *)
LocksHeld == \A t \in Threads : HoldsLocks(t)

(* Outside the critical section that is working on it, a slab is on the    *)
(* partial list of its own arena and class exactly when it has both free   *)
(* and used blocks, on the full list exactly when it has no free block,    *)
(* and an empty slab is on no list because it has been released.           *)
ListsExact ==
  \A s \in Spans, k \in Keys :
    (\A t \in Threads : cur[t] # s) =>
      LET mine == s \in slabs /\ KeyOf(hdr[s]) = k IN
      /\ s \in partial[k] <=> mine /\ ~IsFull(hdr[s])
      /\ s \in full[k] <=> mine /\ IsFull(hdr[s])
      /\ s \in slabs => ~IsEmpty(hdr[s])

(* Nothing is retained: when no thread is inside the allocator and no      *)
(* block is in use, cached or pending, every slab has gone back to the     *)
(* page heap.  This is what lets fast_alloc_purge, which drains the        *)
(* pending queues, "drop every cached span back to the OS".                *)
NothingRetained ==
  (/\ \A t \in Threads : pc[t] \in {"idle", "dead"}
   /\ \A p \in Places : p[1] # "free" => Contents(p) = {})
  => slabs = {}

Abstract ==
  INSTANCE AbstractHeap WITH
    live <- user,
    class_of <- [s \in Spans |-> IF s \in slabs THEN hdr[s].class_idx
                                 ELSE NoClass]

(* The whole small-block path implements the abstract allocator: every     *)
(* step of the caches and the heap is a malloc of a block nobody holds, a  *)
(* free, a span cut or released with no block of it in use, or invisible.  *)
ImplementsHeap == Abstract!Spec


Outside == {"idle", "dead"}


(* Once the program stops calling it, every thread leaves the allocator,   *)
(* if all of them keep running: mallocs and purges spinning on class locks *)
(* get through.                                                            *)
Quiesces ==
  (\A t \in Threads : KeepsRunning(t)) =>
    \/ []<><<\E t \in Threads : Request(t)>>_vars
    \/ <>[](\A t \in Threads : pc[t] \in Outside)
-----------------------------------------------------------------------------
(* What the theorems of TLSCacheProofs add to the properties above to make *)
(* them inductive.                                                         *)

(* Thread t has fed from its own queue and still holds its own lock. *)
AfterFeed(t) ==
  \/ pc[t] \in {"ab_repark", "ab_steal", "ab_take", "ab_release"}
  \/ pc[t] \in {"home", "relist"} /\ ret[t] \in {"ab_steal", "ab_release"}

(* The local variables of a thread mean what its position says. *)
Consistent(t) ==
  /\ pc[t] \in {"home", "relist"} => ret[t] # "idle"
  /\ AfterFeed(t) =>
       left[t] \subseteq {<<a, own[t][2]>> : a \in Arenas} \ {own[t]}
  /\ Stealing(t) => key[t][2] = own[t][2]
  /\ pc[t] \in {"ab_extract", "ab_unlock"} => key[t] = own[t]
  /\ pc[t] \in {"home", "relist"} /\ ret[t] = "ab_steal" => key[t] = own[t]
  /\ ~InBatch(t) => result[t] = {}
  /\ pc[t] \in {"relist", "ab_extract"} =>
       cur[t] \in slabs /\ KeyOf(hdr[cur[t]]) = key[t]

ControlOK == \A t \in Threads : Consistent(t)

(* The partial lists hold slabs of their own key, and a slab's counters    *)
(* add up.                                                                 *)
SlabsOK ==
  /\ \A k \in Keys : \A s \in partial[k] : s \in slabs /\ KeyOf(hdr[s]) = k
  /\ \A s \in slabs :
       /\ hdr[s].next_new <= TotalBlocks[hdr[s].class_idx]
       /\ hdr[s].free_blocks =
            Cardinality(hdr[s].free_list) + TotalBlocks[hdr[s].class_idx]
              - hdr[s].next_new

FinitePlaces == \A p \in Places : IsFiniteSet(Contents(p))

(* The inductive invariant: a slab is released only when all its blocks    *)
(* are home because its counters add up, which they do because only the    *)
(* holder of the class lock touches it and no block comes home twice.      *)
IInv ==
  /\ TypeOK /\ LocksHeld /\ ControlOK /\ SlabsOK
  /\ FinitePlaces /\ OnePlace /\ Anchored
=============================================================================
