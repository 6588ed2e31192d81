------------------------- MODULE TLSCacheHeapMoves --------------------------
(***************************************************************************)
(* Every step of GlobalHeap keeps blocks in one place and anchored:        *)
(* batches fed from a pending queue, stolen or cut from a slab, lists      *)
(* returned to their slabs or pushed on a queue, slabs made and released.  *)
(***************************************************************************)
EXTENDS TLSCachePlaces

(* DeallocateBatchClass and ProcessPendingListLocked return one block: it  *)
(* goes from the list to its own slab's free list.                         *)
LEMMA ReturnBlockPlaced ==
  ASSUME TypeOK, TypeOK', Placed, NEW t \in Threads, Consistent(t),
         ReturnBlock(t), UNCHANGED cacheVars
  PROVE Placed'
<1> USE DEF batchVars, cacheVars
<1>k. PICK k \in Keys : k = key[t]
  BY DEF TypeOK
<1> DEFINE src == <<"todo", t, k>>
<1>1. PICK b \in todo[t][k] :
        /\ todo' = [todo EXCEPT ![t][k] = @ \ {b}]
        /\ hdr' = [hdr EXCEPT ![b[1]] = Deallocate(@, b)]
  BY Zenon, <1>k DEF ReturnBlock
<1>2. /\ k \in Keys /\ b \in Blocks /\ b[1] \in Spans
      /\ hdr[b[1]] \in SlabHeader
      /\ hdr'[b[1]] = Deallocate(hdr[b[1]], b)
      /\ \A s \in Spans \ {b[1]} : hdr'[s] = hdr[s]
      /\ hdr'[b[1]].free_list = hdr[b[1]].free_list \cup {b}
  <2>1. k \in Keys /\ b \in Blocks /\ b[1] \in Spans /\ hdr \in [Spans -> SlabHeader]
    BY DEF TypeOK, Blocks
  <2>2. /\ hdr[b[1]] \in SlabHeader
        /\ hdr'[b[1]] = Deallocate(hdr[b[1]], b)
        /\ \A s \in Spans \ {b[1]} : hdr'[s] = hdr[s]
    BY <1>1, <2>1
  <2> QED BY <2>1, <2>2, DeallocateHeader
<1> DEFINE dst == <<"free", b[1]>>
<1>3. /\ src \in Places /\ b \in Contents(src) /\ dst \in Places
      /\ b \notin Contents(src)'
      /\ Contents(dst)' = Contents(dst) \cup {b}
  <2>1. /\ src \in Places /\ Contents(src) = todo[t][k]
        /\ Contents(src)' = todo'[t][k]
    BY <1>2, PlaceContents, PlaceContentsPrime
  <2>2. /\ dst \in Places /\ Contents(dst) = hdr[b[1]].free_list
        /\ Contents(dst)' = hdr'[b[1]].free_list
    BY <1>2, PlaceContents, PlaceContentsPrime
  <2>3. b \notin todo'[t][k]
    BY <1>1, <1>2 DEF TypeOK
  <2> QED BY <1>2, <2>1, <2>2, <2>3
<1>4. \A x \in Places \ {dst} : Contents(x)' \subseteq Contents(x)
  <2>1. \A u \in Threads, j \in Keys : todo'[u][j] \subseteq todo[u][j]
    BY SMTT(30), <1>1, <1>2 DEF TypeOK
  <2>2. UNCHANGED <<user, bin, result, pending>>
    BY DEF ReturnBlock
  <2> QED BY Zenon, <1>2, <2>1, <2>2, Frame
<1>5. Moves({b}, {dst})
  <2> HIDE DEF src, dst
  <2> QED BY <1>3, <1>4, MovesFrom DEF Placed
<1>6. b[1] \in slabs /\ b[2] < hdr[b[1]].next_new
  BY AnchoredTodo DEF Placed
<1>7. \A s \in slabs : Kept(s)
  BY Zenon, SlabsKept DEF ReturnBlock, HeapStep
<1>8. AnchoredAt(dst, b)'
  <2>1. b[1] \in slabs' /\ hdr'[b[1]].next_new = hdr[b[1]].next_new
    BY <1>2, <1>6, DeallocateHeader DEF ReturnBlock
  <2> QED BY <1>6, <2>1 DEF AnchoredAt
<1>9. \A x \in Places : \A c \in Contents(x) : Kept(c[1])
  BY <1>7 DEF Placed, Anchored, AnchoredAt
<1>10. own' = own
  BY DEF ReturnBlock
<1> QED BY <1>5, <1>8, <1>9, <1>10, MovesPlaced

(* Relisting a slab moves no block; when the slab is released, its free    *)
(* blocks cease to exist, and there are no others.                         *)
LEMMA RelistSlabPlaced ==
  ASSUME TypeOK, TypeOK', SlabsOK, Placed, NEW t \in Threads, Consistent(t),
         RelistSlab(t), UNCHANGED cacheVars
  PROVE Placed'
<1> USE DEF batchVars, cacheVars
<1> DEFINE s == cur[t]
<1>1. /\ s \in slabs /\ s \in Spans
      /\ UNCHANGED <<own, user, bin, result, todo, pending>>
      /\ pc[t] = "relist"
  BY DEF RelistSlab, Consistent, TypeOK
<1>2. CASE ~IsEmpty(hdr[s])
  <2>1. UNCHANGED <<slabs, hdr>>
    BY <1>2 DEF RelistSlab
  <2> QED BY <1>1, <2>1, QuietPlaced
<1>3. CASE IsEmpty(hdr[s])
  <2>1. slabs' = slabs \ {s} /\ hdr' = [hdr EXCEPT ![s] = NoSlab]
    BY <1>3 DEF RelistSlab
  <2>2. hdr'[s].free_list = {} /\ \A x \in Spans \ {s} : hdr'[x] = hdr[x]
    BY <1>1, <2>1, NoSlabHeader DEF TypeOK
  <2>3. \A x \in Places \ {} : Contents(x)' \subseteq Contents(x)
    BY <1>1, <2>2, Frame
  <2>4. ASSUME NEW x \in Places, NEW b \in Contents(x) \cap Contents(x)'
        PROVE Kept(b[1])
    <3>1. b[1] # s
      <4>1. CASE x = <<"free", s>>
        BY <1>1, <2>2, <2>4, <4>1, PlaceContentsPrime
      <4>2. CASE x # <<"free", s>>
        BY <1>1, <1>3, <4>2, EmptySlabHome DEF Placed
      <4> QED BY <4>1, <4>2
    <3>2. b[1] \in slabs
      BY DEF Placed, Anchored, AnchoredAt
    <3> QED BY <3>1, <3>2, SlabsKept DEF HeapStep
  <2> QED BY <1>1, <2>3, <2>4, NothingMoves
<1> QED BY <1>2, <1>3

(* AllocateBatch picks a slab or makes one: the blocks of a new slab       *)
(* appear on its free list, or none does yet.                              *)
LEMMA PickSlabPlaced ==
  ASSUME TypeOK, TypeOK', Placed, NEW t \in Threads, Consistent(t),
         PickSlab(t), UNCHANGED cacheVars
  PROVE Placed'
<1> USE DEF batchVars, cacheVars
<1>1. UNCHANGED <<own, user, bin, result, todo, pending>>
  BY DEF PickSlab
<1>2. CASE UNCHANGED <<slabs, hdr>>
  BY <1>1, <1>2, QuietPlaced
<1>3. CASE \E s \in Spans \ slabs :
             /\ slabs' = slabs \cup {s}
             /\ hdr' = [hdr EXCEPT ![s] = Create(s, own[t])]
  <2>1. PICK s \in Spans \ slabs :
          /\ slabs' = slabs \cup {s}
          /\ hdr' = [hdr EXCEPT ![s] = Create(s, own[t])]
    BY Zenon, <1>3
  <2>2. own[t] \in Keys /\ hdr \in [Spans -> SlabHeader]
    BY DEF TypeOK
  <2>3. PICK n \in Nat :
          /\ hdr'[s].free_list = {} \/ hdr'[s].free_list = Carved(s, n)
          /\ hdr'[s].free_list # {} => hdr'[s].next_new = n
    <3>1. TotalBlocks[own[t][2]] \in Nat
      BY <2>2, KeysType, SlabAssumption
    <3>2. hdr'[s] = Create(s, own[t])
      BY <2>1, <2>2
    <3> QED BY <2>2, <3>1, <3>2, CreateHeader
  <2> DEFINE M == hdr'[s].free_list
             dst == <<"free", s>>
  <2>4. IsFiniteSet(M)
    BY <2>3, CarvedFinite, FS_EmptySet
  <2>5. \A b \in M : b[1] = s /\ b[2] < hdr'[s].next_new
    BY <2>3 DEF Carved
  <2>6. \A x \in Places : Contents(x) \cap M = {}
    BY <2>5 DEF Placed, Anchored, AnchoredAt
  <2>7. dst \in Places /\ Contents(dst)' = M
    BY PlaceContents, PlaceContentsPrime
  <2>8. \A x \in Places \ {dst} : Contents(x)' \subseteq Contents(x)
    <3>1. \A x \in Spans \ {s} : hdr'[x] = hdr[x]
      BY <2>1, <2>2
    <3> QED BY Zenon, <1>1, <3>1, Frame
  <2>9. Moves(M, {dst})
    <3> HIDE DEF M, dst
    <3> QED BY <2>4, <2>6, <2>7, <2>8, MovesFresh
  <2>10. \A b \in M : AnchoredAt(dst, b)'
    BY <2>1, <2>5 DEF AnchoredAt
  <2>11. \A x \in slabs : Kept(x)
    BY Zenon, SlabsKept DEF PickSlab, HeapStep
  <2> QED
    <3> HIDE DEF M, dst
    <3> QED BY SMTT(30), <1>1, <2>9, <2>10, <2>11, KeptPlaces, MovesPlaced
<1> QED BY <1>2, <1>3 DEF PickSlab

(* AllocateBatch takes a block from the slab, the head of its free list or *)
(* a fresh one that was nowhere, and links it into the batch.              *)
LEMMA ExtractBlockPlaced ==
  ASSUME TypeOK, TypeOK', Placed, NEW t \in Threads, Consistent(t),
         ExtractBlock(t), UNCHANGED cacheVars
  PROVE Placed'
<1> USE DEF batchVars, listVars, cacheVars
<1>1. PICK s \in Spans : s = cur[t] /\ s \in slabs /\ own[t][2] = hdr[s].class_idx
  <2>1. pc[t] = "ab_extract"
    BY DEF ExtractBlock
  <2>2. cur[t] \in slabs /\ KeyOf(hdr[cur[t]]) = own[t]
    BY <2>1 DEF Consistent
  <2> QED BY SMTT(30), <2>2 DEF TypeOK, KeyOf
<1>2. PICK b \in Allocatable(s, hdr[s]) :
        /\ hdr' = [hdr EXCEPT ![s] = Allocate(@, b)]
        /\ result' = [result EXCEPT ![t] = @ \cup {b}]
  BY Zenon, <1>1 DEF ExtractBlock
<1>3. UNCHANGED <<slabs, own, user, bin, todo, pending>>
  BY DEF ExtractBlock
<1>4. hdr[s] \in SlabHeader /\ hdr'[s] = Allocate(hdr[s], b)
      /\ \A x \in Spans \ {s} : hdr'[x] = hdr[x]
  BY <1>2 DEF TypeOK
<1>5. hdr'[s].class_idx = hdr[s].class_idx /\ b \in Blocks
  BY <1>4, AllocateHeader
<1> DEFINE dst == <<"result", t>>
           src == <<"free", s>>
<1>6. /\ dst \in Places /\ Contents(dst)' = Contents(dst) \cup {b}
      /\ src \in Places /\ Contents(src) = hdr[s].free_list
      /\ Contents(src)' = hdr'[s].free_list
  BY Zenon, <1>2, PlaceContents, PlaceContentsPrime DEF TypeOK
<1>7. hdr'[s].free_list = hdr[s].free_list \ {b}
  BY <1>4, AllocateHeader
<1>8. \A x \in Places \ {dst} : Contents(x)' \subseteq Contents(x)
  <2>1. \A u \in Threads \ {t} : result'[u] = result[u]
    BY <1>2 DEF TypeOK
  <2> QED BY Zenon, <1>3, <1>4, <1>7, <2>1, Frame
<1>9. Moves({b}, {dst}) /\ b[1] = s /\ b[2] < hdr'[s].next_new
  <2>1. hdr[s].next_new \in Nat
    BY <1>4 DEF SlabHeader
  <2>2. \/ b \in hdr[s].free_list /\ hdr'[s].next_new = hdr[s].next_new
        \/ /\ hdr[s].free_list = {}
           /\ b = <<s, hdr[s].next_new>>
           /\ hdr'[s].next_new = hdr[s].next_new + 1
    BY SMTT(30), <1>4, AllocateHeader
  <2>3. CASE b \in hdr[s].free_list
    <3>1. b[1] = s /\ b[2] < hdr[s].next_new
      BY <2>3, AnchoredFree DEF Placed
    <3>2. hdr'[s].next_new = hdr[s].next_new
      BY Zenon, <2>2, <2>3
    <3>3. Moves({b}, {dst})
      <4>1. {b} \in SUBSET Contents(src) /\ Contents(src)' \cap {b} = {}
        BY <1>6, <1>7, <2>3
      <4> HIDE DEF src, dst
      <4> QED BY SMTT(30), <1>6, <1>8, <4>1, MovesFrom DEF Placed
    <3> QED BY <3>1, <3>2, <3>3
  <2>4. CASE b \notin hdr[s].free_list
    <3>1. b = <<s, hdr[s].next_new>> /\ hdr'[s].next_new = hdr[s].next_new + 1
      BY Zenon, <2>2, <2>4
    <3>2. ASSUME NEW x \in Places, b \in Contents(x) PROVE FALSE
      <4>1. AnchoredAt(x, b)
        BY <3>2 DEF Placed, Anchored
      <4> QED BY SMTT(30), <2>1, <3>1, <4>1 DEF AnchoredAt
    <3>3. Moves({b}, {dst})
      <4>1. IsFiniteSet({b})
        BY Zenon, FS_Singleton
      <4> HIDE DEF dst, src
      <4> QED BY SMTT(30), <1>6, <1>8, <3>2, <4>1, MovesFresh
    <3> QED BY <2>1, <3>1, <3>3
  <2> QED BY <2>3, <2>4
<1>10. AnchoredAt(dst, b)'
  BY <1>1, <1>3, <1>5, <1>9 DEF AnchoredAt
<1>11. \A x \in slabs : Kept(x)
  BY Zenon, SlabsKept DEF ExtractBlock, HeapStep
<1> QED
  <2> HIDE DEF dst
  <2> QED BY SMTT(30), <1>3, <1>9, <1>10, <1>11, KeptPlaces, MovesPlaced

(* Every step of the global heap keeps blocks placed.                      *)
LEMMA HeapStepPlaced ==
  ASSUME TypeOK, TypeOK', SlabsOK, Placed, NEW t \in Threads, Consistent(t),
         HeapStep(t), UNCHANGED cacheVars
  PROVE Placed'
<1> USE DEF heapVars, batchVars, listVars, cacheVars
<1>0. CASE UNCHANGED <<slabs, hdr, result, todo, pending, own>>
  BY Zenon, <1>0, QuietPlaced
<1>1. CASE ReturnBlock(t)
  BY <1>1, ReturnBlockPlaced
<1>2. CASE RelistSlab(t)
  BY <1>2, RelistSlabPlaced
<1>3. CASE DirectFeed(t)
  <2>1. PICK k \in Keys : k = own[t]
    BY DEF TypeOK
  <2>2. PICK S \in FirstOf(pending[k], target[t]) :
          /\ result' = [result EXCEPT ![t] = S]
          /\ todo' = [todo EXCEPT ![t][k] = pending[k] \ S]
    BY Zenon, <1>3, <2>1 DEF DirectFeed, Process
  <2>3. /\ S \in SUBSET pending[k]
        /\ result'[t] \subseteq result[t] \cup S
        /\ \A u \in Threads \ {t} : result'[u] = result[u]
    BY <2>2 DEF FirstOf, TypeOK
  <2>4. /\ pending' = [pending EXCEPT ![k] = {}]
        /\ UNCHANGED <<slabs, hdr, own, user, bin>>
    BY <1>3, <2>1 DEF DirectFeed
  <2> QED BY Zenon, <2>1, <2>2, <2>3, <2>4, FeedPlaced
<1>4. CASE TakeStolen(t)
  <2>1. PICK k \in Keys : k = key[t]
    BY DEF TypeOK
  <2>2. PICK S \in FirstOf(pending[k], target[t] - actual[t]) :
          /\ result' = [result EXCEPT ![t] = @ \cup S]
          /\ todo' = [todo EXCEPT ![t][k] = pending[k] \ S]
    BY Zenon, <1>4, <2>1 DEF TakeStolen, Process
  <2>3. /\ S \in SUBSET pending[k]
        /\ result'[t] \subseteq result[t] \cup S
        /\ \A u \in Threads \ {t} : result'[u] = result[u]
    BY <2>2 DEF FirstOf, TypeOK
  <2>4. /\ pending' = [pending EXCEPT ![k] = {}]
        /\ UNCHANGED <<slabs, hdr, own, user, bin>>
    BY Zenon, <1>4, <2>1 DEF TakeStolen
  <2>5. own[t][2] = k[2]
    BY Zenon, <1>4, <2>1 DEF TakeStolen, Consistent, Stealing
  <2> QED BY Zenon, <2>2, <2>3, <2>4, <2>5, FeedPlaced
<1>5. CASE DrainAfterBatch(t) \/ PurgeDrain(t)
  <2>1. PICK k \in Keys : k = key[t]
    BY DEF TypeOK
  <2>2. /\ pending' = [pending EXCEPT ![k] = {}]
        /\ todo' = [todo EXCEPT ![t][k] = pending[k]]
        /\ UNCHANGED <<slabs, hdr, own, user, bin, result>>
    BY <1>5, <2>1 DEF DrainAfterBatch, PurgeDrain, DrainPendingReturns, Process
  <2>3. {} \in SUBSET pending[k] /\ pending[k] \ {} = pending[k]
    OBVIOUS
  <2> QED BY Zenon, <2>2, <2>3, FeedPlaced
<1>6. CASE Repark(t) \/ PushContended(t) \/ DeferBinToPending(t)
  <2>1. PICK k \in Keys : PushPending(t, k)
    BY <1>6 DEF Repark, PushContended, DeferBinToPending, TypeOK
  <2>2. UNCHANGED <<slabs, hdr, own, user, bin, result>>
    BY <1>6 DEF Repark, PushContended, DeferBinToPending
  <2> QED BY <2>1, <2>2, PushPlaced
<1>7. CASE PickSlab(t)
  BY <1>7, PickSlabPlaced
<1>8. CASE ExtractBlock(t)
  BY <1>8, ExtractBlockPlaced
<1> QED
  BY Zenon, <1>0, <1>1, <1>2, <1>3, <1>4, <1>5, <1>6, <1>7, <1>8
     DEF HeapStep, AcquireClassLock, TrySteal, ReleaseForeign, ExtractDone,
         ReleaseClassLock, TryClassLock, ReleaseBatchLock, Unlock, PurgeLock,
         PurgeUnlock
=============================================================================
