--------------------------- MODULE TLSCacheProofs ---------------------------
(***************************************************************************)
(* The theorems about the thread caches over the global heap, for any      *)
(* numbers of threads, spans, arenas, classes and blocks per slab: IInv is *)
(* inductive, and with it type correctness, the lock discipline, and that  *)
(* a block is always in exactly one place and in a live slab of its class. *)
(***************************************************************************)
EXTENDS TLSCacheHeapMoves, TLSCacheBinMoves

(* The counters of a header add up. *)
Sums(h) ==
  /\ h.next_new <= TotalBlocks[h.class_idx]
  /\ h.free_blocks =
       Cardinality(h.free_list) + TotalBlocks[h.class_idx] - h.next_new

(* The counters of a header are numbers.                                   *)
LEMMA HeaderNumbers ==
  ASSUME NEW h \in SlabHeader, IsFiniteSet(h.free_list)
  PROVE /\ h.next_new \in Nat /\ h.free_blocks \in Int
        /\ TotalBlocks[h.class_idx] \in Nat
        /\ Cardinality(h.free_list) \in Nat
<1>1. h.next_new \in Nat /\ h.free_blocks \in Int /\ h.class_idx \in Classes
  BY DEF SlabHeader
<1> QED BY <1>1, SlabAssumption, FS_CardinalityType

(* A block that was not on the free list comes home: the counters still    *)
(* add up.                                                                 *)
LEMMA DeallocateSums ==
  ASSUME NEW h \in SlabHeader, NEW b \in Blocks, b \notin h.free_list,
         IsFiniteSet(h.free_list), Sums(h)
  PROVE Sums(Deallocate(h, b))
<1> DEFINE g == Deallocate(h, b)
<1>1. /\ g.class_idx = h.class_idx /\ g.next_new = h.next_new
      /\ g.free_list = h.free_list \cup {b}
      /\ g.free_blocks = h.free_blocks + 1
  BY DeallocateHeader
<1>2. Cardinality(h.free_list \cup {b}) = Cardinality(h.free_list) + 1
  BY Zenon, FS_AddElement
<1> HIDE DEF g
<1>3. Sums(g)
  BY <1>1, <1>2, HeaderNumbers DEF Sums
<1> QED BY <1>3 DEF g

(* A block leaves the slab: the counters still add up.                     *)
LEMMA AllocateSums ==
  ASSUME NEW s \in Spans, NEW h \in SlabHeader, NEW b \in Allocatable(s, h),
         IsFiniteSet(h.free_list), Sums(h)
  PROVE Sums(Allocate(h, b))
<1> DEFINE g == Allocate(h, b)
<1>1. g.class_idx = h.class_idx /\ g.free_blocks = h.free_blocks - 1
  BY AllocateHeader
<1>2. CASE /\ b \in h.free_list
           /\ g.free_list = h.free_list \ {b}
           /\ g.next_new = h.next_new
  <2>1. Cardinality(h.free_list \ {b}) = Cardinality(h.free_list) - 1
    BY Zenon, <1>2, FS_RemoveElement
  <2> HIDE DEF g
  <2>2. Sums(g)
    BY <1>1, <1>2, <2>1, HeaderNumbers DEF Sums
  <2> QED BY <2>2 DEF g
<1>3. CASE /\ h.free_list = {}
           /\ h.next_new < TotalBlocks[h.class_idx]
           /\ g.free_list = {}
           /\ g.next_new = h.next_new + 1
  <2>1. Cardinality(h.free_list) = 0 /\ Cardinality(g.free_list) = 0
    BY <1>3, FS_EmptySet
  <2>2. /\ h.next_new \in Nat /\ h.free_blocks \in Int
        /\ TotalBlocks[h.class_idx] \in Nat
    BY HeaderNumbers
  <2> HIDE DEF g
  <2>3. Sums(g)
    BY <1>1, <1>3, <2>1, <2>2 DEF Sums
  <2> QED BY <2>3 DEF g
<1> QED BY <1>2, <1>3, AllocateHeader

(* The counters of a new slab add up.                                      *)
LEMMA CreateSums ==
  ASSUME NEW s \in Spans, NEW k \in Keys
  PROVE Sums(Create(s, k))
<1> DEFINE g == Create(s, k)
           n == TotalBlocks[k[2]]
<1>1. n \in Nat
  BY KeysType, SlabAssumption
<1>2. Cardinality({}) = 0 /\ Cardinality(Carved(s, n)) = n
  BY <1>1, FS_EmptySet, CarvedFinite
<1>3. /\ g.class_idx = k[2] /\ g.free_blocks = n
      /\ \/ g.free_list = {} /\ g.next_new = 0
         \/ g.free_list = Carved(s, n) /\ g.next_new = n
  BY CreateHeader
<1> HIDE DEF g
<1>4. Sums(g)
  BY <1>1, <1>2, <1>3 DEF Sums
<1> QED BY <1>4 DEF g

(* Every step of the global heap keeps partial lists in their own key and  *)
(* the counters of every slab adding up.                                   *)
LEMMA SlabsStep ==
  ASSUME TypeOK, TypeOK', SlabsOK, Placed, NEW t \in Threads, Consistent(t),
         HeapStep(t)
  PROVE SlabsOK'
<1> USE DEF heapVars, batchVars, listVars
<1>0. CASE UNCHANGED <<slabs, hdr, partial>>
  BY <1>0 DEF SlabsOK, KeyOf
<1>c. \A s \in Spans : IsFiniteSet(hdr[s].free_list)
  BY Zenon, PlaceContents DEF Placed, FinitePlaces
<1>h. /\ hdr \in [Spans -> SlabHeader] /\ slabs \subseteq Spans
      /\ own[t] \in Keys /\ key[t] \in Keys
      /\ partial \in [Keys -> SUBSET Spans]
      /\ \A c \in Classes : TotalBlocks[c] \in Nat
  BY SlabAssumption DEF TypeOK
<1>s. \A s \in slabs : Sums(hdr[s])
  BY DEF SlabsOK, Sums
<1>1. CASE ReturnBlock(t)
  <2>1. PICK b \in todo[t][key[t]] : hdr' = [hdr EXCEPT ![b[1]] = Deallocate(@, b)]
    BY Zenon, <1>1 DEF ReturnBlock
  <2>2. UNCHANGED <<slabs, partial>>
    BY <1>1 DEF ReturnBlock
  <2>3. b \in Blocks /\ b[1] \in Spans /\ b[1] \in slabs
    BY <1>h, AnchoredTodo DEF TypeOK, Blocks, Placed
  <2>4. b \notin hdr[b[1]].free_list
    <3>1. <<"todo", t, key[t]>> \in Places /\ b \in Contents(<<"todo", t, key[t]>>)
      BY <1>h, PlaceContents
    <3>2. /\ <<"free", b[1]>> \in Places
          /\ Contents(<<"free", b[1]>>) = hdr[b[1]].free_list
      BY <2>3, PlaceContents
    <3>3. <<"todo", t, key[t]>> # <<"free", b[1]>>
      OBVIOUS
    <3> QED BY <3>1, <3>2, <3>3 DEF Placed, OnePlace
  <2>5. /\ hdr'[b[1]] = Deallocate(hdr[b[1]], b)
        /\ \A s \in Spans \ {b[1]} : hdr'[s] = hdr[s]
        /\ hdr[b[1]] \in SlabHeader
    BY <1>h, <2>1, <2>3
  <2>6. Sums(hdr'[b[1]]) /\ KeyOf(hdr'[b[1]]) = KeyOf(hdr[b[1]])
    BY <1>c, <1>s, <2>3, <2>4, <2>5, DeallocateSums, DeallocateHeader DEF KeyOf
  <2> QED BY <1>h, <1>s, <2>2, <2>5, <2>6 DEF SlabsOK, Sums
<1>2. CASE RelistSlab(t)
  <2> DEFINE s == cur[t]
  <2>1. s \in slabs /\ KeyOf(hdr[s]) = key[t]
    BY <1>2 DEF RelistSlab, Consistent
  <2>2. \A k \in Keys : partial'[k] \subseteq partial[k] \cup {s}
    BY <1>h, <1>2 DEF RelistSlab
  <2>3. \A k \in Keys \ {key[t]} : partial'[k] = partial[k]
    BY <1>h, <1>2 DEF RelistSlab
  <2>4. CASE IsEmpty(hdr[s])
    <3>1. slabs' = slabs \ {s} /\ hdr' = [hdr EXCEPT ![s] = NoSlab]
          /\ s \notin partial'[key[t]]
      BY SMTT(30), <1>h, <1>2, <2>4 DEF RelistSlab
    <3>2. \A x \in slabs' : x \in slabs /\ hdr'[x] = hdr[x]
      BY <1>h, <2>1, <3>1
    <3>3. \A k \in Keys : \A x \in partial'[k] : x \in slabs' /\ KeyOf(hdr[x]) = k
      BY <1>h, <2>1, <2>2, <2>3, <3>1 DEF SlabsOK
    <3> QED BY <3>2, <3>3 DEF SlabsOK
  <2>5. CASE ~IsEmpty(hdr[s])
    <3>1. UNCHANGED <<slabs, hdr>>
      BY <1>2, <2>5 DEF RelistSlab
    <3>2. \A k \in Keys : \A x \in partial'[k] : x \in slabs /\ KeyOf(hdr[x]) = k
      BY <1>h, <2>1, <2>2, <2>3 DEF SlabsOK
    <3> QED BY <3>1, <3>2 DEF SlabsOK
  <2> QED BY <2>4, <2>5
<1>3. CASE PickSlab(t)
  <2>1. CASE \E s \in Spans \ slabs :
               /\ slabs' = slabs \cup {s}
               /\ hdr' = [hdr EXCEPT ![s] = Create(s, own[t])]
               /\ partial' = [partial EXCEPT ![own[t]] = @ \cup {s}]
    <3>1. PICK s \in Spans \ slabs :
               /\ slabs' = slabs \cup {s}
               /\ hdr' = [hdr EXCEPT ![s] = Create(s, own[t])]
               /\ partial' = [partial EXCEPT ![own[t]] = @ \cup {s}]
      BY Zenon, <2>1
    <3>2. hdr'[s] = Create(s, own[t]) /\ \A x \in slabs : hdr'[x] = hdr[x]
      BY <1>h, <3>1
    <3>4. Sums(hdr'[s]) /\ KeyOf(hdr'[s]) = own[t]
      BY <1>h, <3>2, CreateHeader, CreateSums
    <3>5. \A k \in Keys : \A x \in partial'[k] : x \in slabs' /\ KeyOf(hdr'[x]) = k
      <4>1. PICK o \in Keys : o = own[t]
        BY <1>h
      <4>2. /\ partial'[o] = partial[o] \cup {s}
            /\ \A k \in Keys \ {o} : partial'[k] = partial[k]
        BY <1>h, <3>1, <4>1
      <4>3. \A k \in Keys : \A x \in partial[k] : x \in slabs /\ KeyOf(hdr[x]) = k
        BY DEF SlabsOK
      <4> QED BY <3>1, <3>2, <3>4, <4>1, <4>2, <4>3
    <3> QED BY <1>s, <3>1, <3>2, <3>4, <3>5 DEF SlabsOK, Sums
  <2> QED BY <1>0, <1>3, <2>1 DEF PickSlab
<1>4. CASE ExtractBlock(t)
  <2> DEFINE s == cur[t]
  <2>1. s \in slabs /\ s \in Spans /\ UNCHANGED <<slabs, partial>>
    BY <1>h, <1>4 DEF ExtractBlock, Consistent
  <2>2. PICK b \in Allocatable(s, hdr[s]) : hdr' = [hdr EXCEPT ![s] = Allocate(@, b)]
    BY Zenon, <1>4 DEF ExtractBlock
  <2>3. /\ hdr[s] \in SlabHeader /\ hdr'[s] = Allocate(hdr[s], b)
        /\ \A x \in slabs \ {s} : hdr'[x] = hdr[x]
    BY <1>h, <2>1, <2>2
  <2>4. Sums(hdr'[s]) /\ KeyOf(hdr'[s]) = KeyOf(hdr[s])
    BY SMTT(30), <1>c, <1>s, <2>1, <2>3, AllocateSums, AllocateHeader DEF KeyOf
  <2> QED BY <1>s, <2>1, <2>3, <2>4 DEF SlabsOK, Sums
<1>5. CASE ExtractDone(t)
  <2>1. \A k \in Keys : partial'[k] \subseteq partial[k]
    BY <1>h, <1>5 DEF ExtractDone
  <2>2. UNCHANGED <<slabs, hdr>>
    BY <1>5 DEF ExtractDone
  <2> QED BY <2>1, <2>2 DEF SlabsOK
<1> QED
  BY Zenon, <1>0, <1>1, <1>2, <1>3, <1>4, <1>5
     DEF HeapStep, AcquireClassLock, DirectFeed, Repark, TrySteal, TakeStolen,
         ReleaseForeign, ReleaseClassLock, TryClassLock, PushContended,
         DrainAfterBatch, DrainPendingReturns, ReleaseBatchLock, Unlock,
         DeferBinToPending, PurgeLock, PurgeDrain, PurgeUnlock

(* The inductive invariant holds when the program starts.                  *)
LEMMA InitIInv == Init => IInv
<1> SUFFICES ASSUME Init PROVE IInv
  OBVIOUS
<1> USE DEF Init, HeapInit
<1>1. TypeOK
  <2>1. \A s \in Spans : hdr[s] \in SlabHeader
    BY NoSlabHeader
  <2>2. bin \in [Threads -> [Classes -> CacheBin]]
    BY EmptyBinType
  <2> QED BY SMTT(30), <2>1, <2>2, KeysType DEF TypeOK, Labels, NoBlocks
<1>2. \A x \in Places : Contents(x) = {}
  <2>1. \A s \in Spans : hdr[s].free_list = {}
    BY NoSlabHeader
  <2>2. \A u \in Threads, c \in Classes : bin[u][c].list = {}
    BY DEF EmptyBin
  <2>3. /\ user = {} /\ \A u \in Threads : result[u] = {}
        /\ \A u \in Threads, k \in Keys : todo[u][k] = {}
        /\ \A k \in Keys : pending[k] = {}
    BY DEF NoBlocks
  <2> QED BY SMTT(30), <2>1, <2>2, <2>3, PlaceKinds, PlaceContents
<1>3. OnePlace /\ FinitePlaces /\ Anchored
  BY Zenon, <1>2, FS_EmptySet DEF OnePlace, FinitePlaces, Anchored
<1>4. LocksHeld /\ ControlOK
  BY DEF LocksHeld, HoldsLocks, InBatch, Stealing, ControlOK, Consistent, AfterFeed
<1>5. SlabsOK
  BY DEF SlabsOK
<1> QED BY <1>1, <1>3, <1>4, <1>5 DEF IInv

(* Every step preserves the inductive invariant.                           *)
LEMMA NextIInv == IInv /\ [Next]_vars => IInv'
<1> SUFFICES ASSUME IInv, [Next]_vars PROVE IInv'
  OBVIOUS
<1>i. /\ TypeOK /\ LocksHeld /\ ControlOK /\ SlabsOK /\ FinitePlaces
      /\ OnePlace /\ Anchored /\ Placed
  BY DEF IInv, Placed
<1>c. \A t \in Threads : Consistent(t)
  BY <1>i DEF ControlOK
<1>l. LocksHeld' /\ ControlOK'
  BY <1>i, LocksStep
<1>1. CASE UNCHANGED vars
  <2>1. UNCHANGED <<lock, slabs, hdr, partial, full, pending, pc, own, target,
                    result, actual, left, key, todo, cur, was_full, ret, user,
                    bin, arena, next_arena, flush, back>>
    BY <1>1 DEF vars, heapVars, batchVars, listVars, cacheVars
  <2>2. TypeOK'
    BY <1>i, <2>1 DEF TypeOK
  <2>3. Placed'
    BY <1>i, <2>1, <2>2, QuietPlaced
  <2>4. SlabsOK'
    BY <1>i, <2>1 DEF SlabsOK, KeyOf
  <2> QED BY <1>l, <2>2, <2>3, <2>4 DEF IInv, Placed
<1>2. ASSUME NEW t \in Threads, HeapStep(t), UNCHANGED cacheVars PROVE IInv'
  <2>1. TypeOK'
    BY <1>2, <1>i, TypeHeapStep
  <2>2. Placed'
    BY <1>2, <1>i, <1>c, <2>1, HeapStepPlaced
  <2>3. SlabsOK'
    BY <1>2, <1>i, <1>c, <2>1, SlabsStep
  <2> QED BY <1>l, <2>1, <2>2, <2>3 DEF IInv, Placed
<1>3. ASSUME NEW t \in Threads, CacheStep(t) \/ Request(t) PROVE IInv'
  <2>1. TypeOK'
    BY <1>3, <1>i, TypeCacheStep, TypeRequest
  <2>2. Placed'
    BY <1>3, <1>i, <1>c, <2>1, OuterPlaced
  <2>3. SlabsOK'
    <3>1. UNCHANGED <<slabs, hdr, partial>>
      BY <1>3, <1>i, <1>c, CacheStepOuter DEF Outer
    <3> QED BY <1>i, <3>1 DEF SlabsOK, KeyOf
  <2> QED BY <1>l, <2>1, <2>2, <2>3 DEF IInv, Placed
<1> QED BY <1>1, <1>2, <1>3 DEF Next, Step

(* The inductive invariant holds in every reachable state of GlobalHeap    *)
(* and the thread caches.                                                  *)
THEOREM InductiveInvariant == Spec => []IInv
BY InitIInv, NextIInv, PTL DEF Spec

(* The state of caches, heap and threads is always well typed.             *)
THEOREM TypeCorrect == Spec => []TypeOK
<1>1. IInv => TypeOK
  BY DEF IInv
<1> QED BY <1>1, InductiveInvariant, PTL

(* A thread inside a critical section of AllocateBatch,                    *)
(* DeallocateBatchClass or DrainPendingReturns holds the class lock of     *)
(* every slab and list it works on, from the first step to the last; a     *)
(* thief in the steal loop holds both its own and the foreign one.         *)
THEOREM LockDiscipline == Spec => []LocksHeld
<1>1. IInv => LocksHeld
  BY DEF IInv
<1> QED BY <1>1, InductiveInvariant, PTL

(* No block is ever in two places: what malloc returns is in no bin,       *)
(* queue, batch or free list and in nobody else's hands, however frees     *)
(* from other threads, steals, flushes and exits interleave.               *)
THEOREM BlockInOnePlace == Spec => []OnePlace
<1>1. IInv => OnePlace
  BY DEF IInv
<1> QED BY <1>1, InductiveInvariant, PTL

(* Every block in use, cached, pending or being returned lies in a live    *)
(* slab, under its frontier, and a cached or pending one in a slab of the  *)
(* class (and arena) it is kept for: no slab is released under a block,    *)
(* and no block goes to a wrong list.                                      *)
THEOREM BlockAnchored == Spec => []Anchored
<1>1. IInv => Anchored
  BY DEF IInv
<1> QED BY <1>1, InductiveInvariant, PTL
=============================================================================
