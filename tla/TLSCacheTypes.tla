--------------------------- MODULE TLSCacheTypes ----------------------------
(***************************************************************************)
(* Type correctness of the thread caches over the global heap: what the    *)
(* operations on a slab header and on a cache bin return, where each place *)
(* keeps its blocks, and that every step preserves TypeOK (with the help   *)
(* of the other parts of the inductive invariant IInv of TLSCache).        *)
(***************************************************************************)
EXTENDS TLSCache, FiniteSetTheorems, TLAPS

(* A key is a pair of an arena and a class, as the indices of class_locks_ *)
(* are.                                                                    *)
LEMMA KeysType ==
  /\ NoKey \in Keys
  /\ \A k \in Keys : k[1] \in Arenas /\ k[2] \in Classes /\ k = <<k[1], k[2]>>
  /\ 0 \in Arenas
<1>1. 0 \in Arenas
  BY SlabAssumption DEF Arenas
<1>2. (CHOOSE c \in Classes : TRUE) \in Classes
  BY SlabAssumption
<1> QED BY <1>1, <1>2 DEF Keys, NoKey

(* SlabManager::Deallocate links the block in front of the free list and   *)
(* counts it: arena, class and fresh frontier of the slab stay.            *)
LEMMA DeallocateHeader ==
  ASSUME NEW h \in SlabHeader, NEW b \in Blocks
  PROVE /\ Deallocate(h, b) \in SlabHeader
        /\ Deallocate(h, b).arena = h.arena
        /\ Deallocate(h, b).class_idx = h.class_idx
        /\ Deallocate(h, b).next_new = h.next_new
        /\ Deallocate(h, b).free_list = h.free_list \cup {b}
        /\ b \notin h.free_list => Deallocate(h, b).free_blocks = h.free_blocks + 1
<1>1. CASE b \in h.free_list
  BY <1>1 DEF Deallocate
<1>2. CASE b \notin h.free_list
  <2>1. h.free_list \cup {b} \in SUBSET Blocks /\ h.free_blocks + 1 \in Int
    BY DEF SlabHeader
  <2>2. Deallocate(h, b) = [h EXCEPT !.free_list = @ \cup {b}, !.free_blocks = @ + 1]
    BY <1>2 DEF Deallocate
  <2> QED BY Zenon, <2>1, <2>2 DEF SlabHeader
<1> QED BY <1>1, <1>2

(* SlabManager::Allocate returns a block of the free list, which it        *)
(* unlinks, or, when the list is empty, the next fresh one, moving the     *)
(* frontier; the free count drops by one either way.                       *)
LEMMA AllocateHeader ==
  ASSUME NEW s \in Spans, NEW h \in SlabHeader, NEW b \in Allocatable(s, h)
  PROVE /\ b \in Blocks
        /\ Allocate(h, b) \in SlabHeader
        /\ Allocate(h, b).arena = h.arena
        /\ Allocate(h, b).class_idx = h.class_idx
        /\ Allocate(h, b).free_blocks = h.free_blocks - 1
        /\ \/ /\ b \in h.free_list
              /\ Allocate(h, b).free_list = h.free_list \ {b}
              /\ Allocate(h, b).next_new = h.next_new
           \/ /\ h.free_list = {}
              /\ b = <<s, h.next_new>>
              /\ h.next_new < TotalBlocks[h.class_idx]
              /\ Allocate(h, b).free_list = {}
              /\ Allocate(h, b).next_new = h.next_new + 1
<1>1. CASE h.free_list # {}
  <2>1. b \in h.free_list /\ h.free_list \ {b} \in SUBSET Blocks /\ h.free_blocks - 1 \in Int
    BY <1>1 DEF SlabHeader, Allocatable
  <2>2. Allocate(h, b) = [h EXCEPT !.free_list = @ \ {b}, !.free_blocks = @ - 1]
    BY <1>1 DEF Allocate
  <2>3. b \in Blocks
    BY <2>1 DEF SlabHeader
  <2> QED BY Zenon, <2>1, <2>2, <2>3 DEF SlabHeader
<1>2. CASE h.free_list = {}
  <2>1. b = <<s, h.next_new>> /\ h.next_new < TotalBlocks[h.class_idx]
    BY <1>2 DEF Allocatable
  <2>2. Allocate(h, b) = [h EXCEPT !.next_new = @ + 1, !.free_blocks = @ - 1]
    BY <1>2 DEF Allocate
  <2>3. h.next_new \in Nat /\ h.next_new + 1 \in Nat /\ h.free_blocks - 1 \in Int
    BY DEF SlabHeader
  <2>4. b \in Blocks
    BY <2>1, <2>3 DEF Blocks
  <2> QED BY Zenon, <1>2, <2>1, <2>2, <2>3, <2>4 DEF SlabHeader
<1> QED BY <1>1, <1>2

(* The header of a span that is no slab has no free block.                 *)
LEMMA NoSlabHeader ==
  NoSlab \in SlabHeader /\ NoSlab.free_list = {}
<1>1. (CHOOSE c \in Classes : TRUE) \in Classes
  BY SlabAssumption
<1> QED BY <1>1, KeysType DEF NoSlab, SlabHeader

(* SlabManager::Create makes a slab of the requested arena and class with  *)
(* all its blocks free: linked already, or all beyond the frontier.        *)
LEMMA CreateHeader ==
  ASSUME NEW s \in Spans, NEW k \in Keys
  PROVE /\ Create(s, k) \in SlabHeader
        /\ KeyOf(Create(s, k)) = k
        /\ Create(s, k).class_idx = k[2]
        /\ Create(s, k).free_blocks = TotalBlocks[k[2]]
        /\ \/ Create(s, k).free_list = {} /\ Create(s, k).next_new = 0
           \/ /\ Create(s, k).free_list = Carved(s, TotalBlocks[k[2]])
              /\ Create(s, k).next_new = TotalBlocks[k[2]]
<1>1. k[1] \in Arenas /\ k[2] \in Classes /\ k = <<k[1], k[2]>>
  BY KeysType
<1>2. TotalBlocks[k[2]] \in Nat
  BY <1>1, SlabAssumption
<1>3. Carved(s, TotalBlocks[k[2]]) \in SUBSET Blocks
  BY <1>2 DEF Carved, Blocks
<1>4. CASE EagerWiring
  BY <1>1, <1>2, <1>3, <1>4 DEF Create, SlabHeader, KeyOf
<1>5. CASE ~EagerWiring
  BY <1>1, <1>2, <1>5 DEF Create, SlabHeader, KeyOf
<1> QED BY <1>4, <1>5

(* A place a block can be in is the program, a bin, a batch being built, a *)
(* list being returned, a pending queue or a free list.                    *)
LEMMA PlaceKinds ==
  ASSUME NEW p \in Places
  PROVE \/ p = <<"user">>
        \/ \E u \in Threads, c \in Classes : p = <<"bin", u, c>>
        \/ \E u \in Threads : p = <<"result", u>>
        \/ \E u \in Threads, k \in Keys : p = <<"todo", u, k>>
        \/ \E k \in Keys : p = <<"pending", k>>
        \/ \E s \in Spans : p = <<"free", s>>
BY DEF Places

(* The blocks of each kind of place.                                       *)
LEMMA PlaceContents ==
  /\ <<"user">> \in Places
  /\ Contents(<<"user">>) = user
  /\ \A u \in Threads, c \in Classes :
       /\ <<"bin", u, c>> \in Places
       /\ Contents(<<"bin", u, c>>) = bin[u][c].list
  /\ \A u \in Threads :
       /\ <<"result", u>> \in Places
       /\ Contents(<<"result", u>>) = result[u]
  /\ \A u \in Threads, k \in Keys :
       /\ <<"todo", u, k>> \in Places
       /\ Contents(<<"todo", u, k>>) = todo[u][k]
  /\ \A k \in Keys :
       /\ <<"pending", k>> \in Places
       /\ Contents(<<"pending", k>>) = pending[k]
  /\ \A s \in Spans :
       /\ <<"free", s>> \in Places
       /\ Contents(<<"free", s>>) = hdr[s].free_list
BY DEF Places, Contents

(* The blocks of each kind of place after a step.                          *)
LEMMA PlaceContentsPrime ==
  /\ Contents(<<"user">>)' = user'
  /\ \A u \in Threads, c \in Classes :
       Contents(<<"bin", u, c>>)' = bin'[u][c].list
  /\ \A u \in Threads : Contents(<<"result", u>>)' = result'[u]
  /\ \A u \in Threads, k \in Keys :
       Contents(<<"todo", u, k>>)' = todo'[u][k]
  /\ \A k \in Keys : Contents(<<"pending", k>>)' = pending'[k]
  /\ \A s \in Spans : Contents(<<"free", s>>)' = hdr'[s].free_list
BY DEF Contents

(* The list on a pending queue is finite.                                  *)
LEMMA PendingFinite ==
  ASSUME FinitePlaces, NEW k \in Keys
  PROVE IsFiniteSet(pending[k])
BY Zenon, PlaceContents DEF FinitePlaces

(* A block in use lies in a live slab, below its frontier.                 *)
LEMMA AnchoredUser ==
  ASSUME Anchored, NEW b \in user
  PROVE b[1] \in slabs /\ b[2] < hdr[b[1]].next_new
<1>1. AnchoredAt(<<"user">>, b)
  BY PlaceContents DEF Anchored
<1> QED BY <1>1 DEF AnchoredAt

(* A block in a bin lies in a live slab of the bin's class.                *)
LEMMA AnchoredBin ==
  ASSUME Anchored, NEW u \in Threads, NEW c \in Classes, NEW b \in bin[u][c].list
  PROVE b[1] \in slabs /\ b[2] < hdr[b[1]].next_new /\ hdr[b[1]].class_idx = c
<1>1. AnchoredAt(<<"bin", u, c>>, b)
  BY PlaceContents DEF Anchored
<1> QED BY <1>1 DEF AnchoredAt

(* A block of a batch lies in a live slab of the requested class.          *)
LEMMA AnchoredResult ==
  ASSUME Anchored, NEW u \in Threads, NEW b \in result[u]
  PROVE b[1] \in slabs /\ b[2] < hdr[b[1]].next_new /\ hdr[b[1]].class_idx = own[u][2]
<1>1. AnchoredAt(<<"result", u>>, b)
  BY PlaceContents DEF Anchored
<1> QED BY <1>1 DEF AnchoredAt

(* A block being returned lies in a live slab of the arena and class it is *)
(* returned to.                                                            *)
LEMMA AnchoredTodo ==
  ASSUME Anchored, NEW u \in Threads, NEW k \in Keys, NEW b \in todo[u][k]
  PROVE b[1] \in slabs /\ b[2] < hdr[b[1]].next_new /\ KeyOf(hdr[b[1]]) = k
<1>1. AnchoredAt(<<"todo", u, k>>, b)
  BY PlaceContents DEF Anchored
<1> QED BY <1>1 DEF AnchoredAt

(* A block on a pending queue lies in a live slab of the queue's arena and *)
(* class.                                                                  *)
LEMMA AnchoredPending ==
  ASSUME Anchored, NEW k \in Keys, NEW b \in pending[k]
  PROVE b[1] \in slabs /\ b[2] < hdr[b[1]].next_new /\ KeyOf(hdr[b[1]]) = k
<1>1. AnchoredAt(<<"pending", k>>, b)
  BY PlaceContents DEF Anchored
<1> QED BY <1>1 DEF AnchoredAt

(* A block on a slab's free list is a block of that slab, which is live.   *)
LEMMA AnchoredFree ==
  ASSUME Anchored, NEW s \in Spans, NEW b \in hdr[s].free_list
  PROVE b[1] \in slabs /\ b[2] < hdr[b[1]].next_new /\ b[1] = s
<1>1. AnchoredAt(<<"free", s>>, b)
  BY PlaceContents DEF Anchored
<1> QED BY <1>1 DEF AnchoredAt

(* Taking a slab from a list, or putting one on, keeps lists lists of      *)
(* spans.                                                                  *)
LEMMA SlabListType ==
  ASSUME NEW f \in [Keys -> SUBSET Spans], NEW k \in Keys, NEW s \in Spans
  PROVE /\ [f EXCEPT ![k] = @ \ {s}] \in [Keys -> SUBSET Spans]
        /\ [f EXCEPT ![k] = @ \cup {s}] \in [Keys -> SUBSET Spans]
OBVIOUS

(* Every step of the global heap preserves the types.                      *)
LEMMA TypeHeapStep ==
  ASSUME TypeOK, FinitePlaces, ControlOK,
         NEW t \in Threads, HeapStep(t), UNCHANGED cacheVars
  PROVE TypeOK'
<1> USE DEF cacheVars, heapVars, batchVars, listVars, Goto
<1>1. CASE ReturnBlock(t)
  <2>1. PICK b \in todo[t][key[t]] :
          /\ todo' = [todo EXCEPT ![t][key[t]] = @ \ {b}]
          /\ was_full' = [was_full EXCEPT ![t] = WasFull(b)]
          /\ hdr' = [hdr EXCEPT ![b[1]] = Deallocate(@, b)]
          /\ cur' = [cur EXCEPT ![t] = b[1]]
    BY Zenon, <1>1 DEF ReturnBlock
  <2>2. b \in Blocks /\ b[1] \in Spans
    BY DEF TypeOK, Blocks
  <2>3. Deallocate(hdr[b[1]], b) \in SlabHeader
    BY <2>2, DeallocateHeader DEF TypeOK
  <2> QED
    BY SMTT(30), <1>1, <2>1, <2>2, <2>3 DEF ReturnBlock, TypeOK, Labels, WasFull, IsFull
<1>2. CASE RelistSlab(t)
  <2>1. cur[t] \in Spans
    BY <1>2 DEF RelistSlab, ControlOK, Consistent, TypeOK
  <2>2. ret[t] \in Labels
    BY DEF TypeOK, Labels
  <2>3. hdr' \in [Spans -> SlabHeader] /\ slabs' \in SUBSET Spans
    BY Zenon, <1>2, <2>1, NoSlabHeader DEF RelistSlab, TypeOK
  <2>4. partial' \in [Keys -> SUBSET Spans] /\ full' \in [Keys -> SUBSET Spans]
    <3>1. /\ full' = full \/ full' = [full EXCEPT ![key[t]] = @ \ {cur[t]}]
          /\ \E X \in SUBSET Spans : partial' = [partial EXCEPT ![key[t]] = X]
      <4>1. CASE was_full[t]
        BY Zenon, <1>2, <2>1, <4>1 DEF RelistSlab, TypeOK
      <4>2. CASE ~was_full[t]
        BY Zenon, <1>2, <2>1, <4>2 DEF RelistSlab, TypeOK
      <4> QED BY <4>1, <4>2
    <3>2. PICK X \in SUBSET Spans : partial' = [partial EXCEPT ![key[t]] = X]
      BY Zenon, <3>1
    <3>3. partial' \in [Keys -> SUBSET Spans]
      BY <3>2 DEF TypeOK
    <3>4. full' \in [Keys -> SUBSET Spans]
      <4>1. full \in [Keys -> SUBSET Spans] /\ key[t] \in Keys
        BY DEF TypeOK
      <4>2. [full EXCEPT ![key[t]] = @ \ {cur[t]}] \in [Keys -> SUBSET Spans]
        BY <2>1, <4>1, SlabListType
      <4> QED BY <3>1, <4>1, <4>2
    <3> QED BY <3>3, <3>4
  <2>5. pc' \in [Threads -> Labels]
    BY <1>2, <2>2 DEF RelistSlab, TypeOK, Labels
  <2> QED
    BY <1>2, <2>3, <2>4, <2>5 DEF RelistSlab, TypeOK
<1>3. CASE AcquireClassLock(t)
  BY <1>3 DEF AcquireClassLock, TypeOK, Labels, SpinLock
<1>4. CASE DirectFeed(t)
  <2> DEFINE k == own[t]  P == pending[k]
  <2>1. PICK S \in FirstOf(P, target[t]) :
          /\ result' = [result EXCEPT ![t] = S]
          /\ actual' = [actual EXCEPT ![t] = Cardinality(S)]
          /\ IF Cardinality(P \ S) \in 1 .. FeedMaxList
             THEN /\ todo' = [todo EXCEPT ![t][k] = P \ S]
                  /\ Goto(t, "ab_repark")
                  /\ UNCHANGED ret
             ELSE Process(t, k, P \ S, "ab_steal")
    BY Zenon, <1>4 DEF DirectFeed
  <2>2. k \in Keys /\ P \in SUBSET Blocks /\ IsFiniteSet(P)
    BY PendingFinite DEF TypeOK
  <2>3. S \in SUBSET Blocks /\ P \ S \in SUBSET Blocks /\ Cardinality(S) \in Int
    <3>1. S \subseteq P
      BY DEF FirstOf
    <3>2. Cardinality(S) \in Nat
      BY <2>2, <3>1, FS_Subset, FS_CardinalityType
    <3> QED BY <2>2, <3>1, <3>2
  <2>4. left' \in [Threads -> SUBSET Keys]
    BY SMTT(30), <1>4, <2>2, KeysType DEF DirectFeed, TypeOK, Keys
  <2> QED
    <3>1. /\ todo' = [todo EXCEPT ![t][k] = P \ S]
          /\ pc' \in [Threads -> Labels]
          /\ ret' \in [Threads -> {"idle", "ab_steal", "ab_release", "db_drain",
                                   "db_unlock", "pg_unlock"}]
      BY Zenon, <2>1 DEF Process, TypeOK, Labels
    <3>2. todo' \in [Threads -> [Keys -> SUBSET Blocks]]
      BY <2>2, <2>3, <3>1 DEF TypeOK
    <3>3. /\ result' \in [Threads -> SUBSET Blocks]
          /\ actual' \in [Threads -> Int]
      BY <2>1, <2>3 DEF TypeOK
    <3> QED BY <1>4, <2>2, <2>4, <3>1, <3>2, <3>3 DEF DirectFeed, TypeOK
<1>5. CASE Repark(t)
  BY <1>5 DEF Repark, TypeOK, Labels, PushPending
<1>6. CASE TrySteal(t)
  <2>1. PICK k \in left[t] :
          \/ SkipBusy(t, k)
          \/ /\ SpinLock(t, k)
             /\ left' = [left EXCEPT ![t] = @ \ {k}]
             /\ key' = [key EXCEPT ![t] = k]
             /\ Goto(t, "ab_take")
    BY <1>6 DEF TrySteal
  <2>2. CASE SkipBusy(t, k)
    BY <1>6, <2>2 DEF TrySteal, SkipBusy, TypeOK
  <2>3. CASE SpinLock(t, k) /\ left' = [left EXCEPT ![t] = @ \ {k}]
             /\ key' = [key EXCEPT ![t] = k] /\ Goto(t, "ab_take")
    BY <1>6, <2>3 DEF TrySteal, SpinLock, TypeOK, Labels
  <2> QED BY <2>1, <2>2, <2>3
<1>7. CASE TakeStolen(t)
  <2> DEFINE k == key[t]  P == pending[k]
  <2>1. PICK S \in FirstOf(P, target[t] - actual[t]) :
          /\ result' = [result EXCEPT ![t] = @ \cup S]
          /\ actual' = [actual EXCEPT ![t] = @ + Cardinality(S)]
          /\ Process(t, k, P \ S, "ab_release")
    BY Zenon, <1>7 DEF TakeStolen
  <2>2. k \in Keys /\ P \in SUBSET Blocks /\ IsFiniteSet(P)
    BY PendingFinite DEF TypeOK
  <2>3. S \in SUBSET Blocks /\ P \ S \in SUBSET Blocks /\ Cardinality(S) \in Int
    <3>1. S \subseteq P
      BY DEF FirstOf
    <3>2. Cardinality(S) \in Nat
      BY <2>2, <3>1, FS_Subset, FS_CardinalityType
    <3> QED BY SMTT(30), <2>2, <3>1, <3>2
  <2> QED
    BY SMTT(30), <1>7, <2>1, <2>2, <2>3 DEF TakeStolen, Process, TypeOK, Labels
<1>8. CASE ReleaseForeign(t)
  BY <1>8, KeysType DEF ReleaseForeign, Unlock, TypeOK, Labels
<1>9. CASE PickSlab(t)
  <2>1. /\ slabs' \in SUBSET Spans /\ hdr' \in [Spans -> SlabHeader]
        /\ partial' \in [Keys -> SUBSET Spans]
        /\ cur' \in [Threads -> Spans \cup {NoSpan}]
    <3>1. own[t] \in Keys
      BY DEF TypeOK
    <3>2. CASE UNCHANGED <<slabs, hdr, partial>>
      BY SMTT(30), <1>9, <3>1, <3>2 DEF PickSlab, TypeOK
    <3>3. CASE \E s \in Spans \ slabs :
                 /\ slabs' = slabs \cup {s}
                 /\ hdr' = [hdr EXCEPT ![s] = Create(s, own[t])]
                 /\ partial' = [partial EXCEPT ![own[t]] = @ \cup {s}]
                 /\ cur' = [cur EXCEPT ![t] = s]
      BY SMTT(30), <3>1, <3>3, CreateHeader DEF TypeOK
    <3> QED BY <1>9, <3>2, <3>3 DEF PickSlab
  <2> QED BY Zenon, <1>9, <2>1 DEF PickSlab, TypeOK, Labels
<1>10. CASE ExtractBlock(t)
  <2> DEFINE s == cur[t]
  <2>1. s \in Spans
    BY Zenon, <1>10 DEF ExtractBlock, ControlOK, Consistent, TypeOK
  <2>2. PICK b \in Allocatable(s, hdr[s]) :
          /\ hdr' = [hdr EXCEPT ![s] = Allocate(@, b)]
          /\ result' = [result EXCEPT ![t] = @ \cup {b}]
          /\ actual' = [actual EXCEPT ![t] = @ + 1]
    BY Zenon, <1>10 DEF ExtractBlock
  <2>3. b \in Blocks /\ Allocate(hdr[s], b) \in SlabHeader
    BY <2>1, AllocateHeader DEF TypeOK
  <2> QED BY SMTT(30), <1>10, <2>1, <2>2, <2>3 DEF ExtractBlock, TypeOK
<1>11. CASE ExtractDone(t)
  <2>1. cur[t] \in Spans
    BY Zenon, <1>11 DEF ExtractDone, ControlOK, Consistent, TypeOK
  <2>2. /\ partial' \in [Keys -> SUBSET Spans]
        /\ full' \in [Keys -> SUBSET Spans]
    <3>1. CASE IsFull(hdr[cur[t]])
      <4>1. /\ partial' = [partial EXCEPT ![own[t]] = @ \ {cur[t]}]
            /\ full' = [full EXCEPT ![own[t]] = @ \cup {cur[t]}]
        BY <1>11, <3>1 DEF ExtractDone
      <4> QED BY <2>1, <4>1, SlabListType DEF TypeOK
    <3>2. CASE ~IsFull(hdr[cur[t]])
      BY <1>11, <3>2 DEF ExtractDone, TypeOK
    <3> QED BY <3>1, <3>2
  <2> QED BY <1>11, <2>2 DEF ExtractDone, TypeOK, Labels
<1>12. CASE ReleaseClassLock(t)
  BY <1>12, KeysType DEF ReleaseClassLock, Unlock, TypeOK, Labels
<1>13. CASE TryClassLock(t)
  <2>1. PICK k \in Keys :
          /\ key' = [key EXCEPT ![t] = k]
          /\ \/ Contended(t, k)
             \/ /\ SpinLock(t, k)
                /\ ret' = [ret EXCEPT ![t] = "db_drain"]
                /\ Goto(t, "home")
    BY Zenon, <1>13 DEF TryClassLock
  <2>2. /\ lock' \in [Keys -> Threads \cup {NoThread}]
        /\ pc' \in [Threads -> Labels]
        /\ ret' \in [Threads -> {"idle", "ab_steal", "ab_release", "db_drain",
                                 "db_unlock", "pg_unlock"}]
    <3>1. CASE Contended(t, k)
      BY <3>1 DEF Contended, TypeOK, Labels
    <3>2. CASE SpinLock(t, k) /\ ret' = [ret EXCEPT ![t] = "db_drain"]
               /\ Goto(t, "home")
      BY <3>2 DEF SpinLock, TypeOK, Labels
    <3> QED BY <2>1, <3>1, <3>2
  <2> QED BY Zenon, <1>13, <2>1, <2>2 DEF TryClassLock, TypeOK
<1>14. CASE PushContended(t)
  BY SMTT(30), <1>14, KeysType DEF PushContended, PushPending, TypeOK, Labels
<1>15. CASE DrainAfterBatch(t)
  BY <1>15 DEF DrainAfterBatch, DrainPendingReturns, Process, TypeOK, Labels
<1>16. CASE ReleaseBatchLock(t)
  BY <1>16, KeysType DEF ReleaseBatchLock, Unlock, TypeOK, Labels
<1>17. CASE DeferBinToPending(t)
  BY SMTT(30), <1>17 DEF DeferBinToPending, PushPending, TypeOK
<1>18. CASE PurgeLock(t)
  BY SMTT(30), <1>18 DEF PurgeLock, SpinLock, TypeOK, Labels
<1>19. CASE PurgeDrain(t)
  BY <1>19 DEF PurgeDrain, DrainPendingReturns, Process, TypeOK, Labels
<1>20. CASE PurgeUnlock(t)
  BY <1>20, KeysType DEF PurgeUnlock, Unlock, TypeOK, Labels
<1> QED
  BY <1>1, <1>2, <1>3, <1>4, <1>5, <1>6, <1>7, <1>8, <1>9, <1>10, <1>11,
     <1>12, <1>13, <1>14, <1>15, <1>16, <1>17, <1>18, <1>19, <1>20
     DEF HeapStep

(* SplitListByArena routes blocks to keys.                                 *)
LEMMA SplitType ==
  ASSUME NEW c, NEW S \in SUBSET Blocks
  PROVE SplitListByArena(c, S) \in [Keys -> SUBSET Blocks]
BY DEF SplitListByArena

(* The part of a full bin that free returns is at least one block and at   *)
(* most the limit.                                                         *)
LEMMA HalfLimitType ==
  ASSUME NEW c \in Classes
  PROVE HalfLimit(c) \in Nat \ {0} /\ HalfLimit(c) <= CacheLimit[c]
<1>1. CacheLimit[c] \in Nat \ {0}
  BY CacheAssumption
<1> QED BY <1>1 DEF HalfLimit

(* Replacing one bin of one thread keeps the caches caches.                *)
LEMMA BinType ==
  ASSUME NEW f \in [Threads -> [Classes -> CacheBin]], NEW u \in Threads,
         NEW c \in Classes, NEW x \in CacheBin
  PROVE [f EXCEPT ![u][c] = x] \in [Threads -> [Classes -> CacheBin]]
OBVIOUS

(* A fresh bin is a bin.                                                   *)
LEMMA EmptyBinType == EmptyBin \in CacheBin
BY DEF EmptyBin, CacheBin

(* What the operations on a bin do to its list: malloc takes the head,     *)
(* free adds one, a refill or an overflow relinks it, the ramp leaves it.  *)
LEMMA BinOperations ==
  ASSUME NEW x \in CacheBin
  PROVE /\ \A b \in Blocks : Pop(x, b) \in CacheBin /\ Pop(x, b).list = x.list \ {b}
        /\ \A b \in Blocks :
             Push(x, b) \in CacheBin /\ Push(x, b).list = x.list \cup {b}
        /\ \A L \in SUBSET Blocks, i \in Int :
             Relink(x, L, i) \in CacheBin /\ Relink(x, L, i).list = L
        /\ \A n \in Nat : Ramp(x, n) \in CacheBin /\ Ramp(x, n).list = x.list
<1>1. ASSUME NEW b \in Blocks
      PROVE /\ Pop(x, b) \in CacheBin /\ Pop(x, b).list = x.list \ {b}
            /\ Push(x, b) \in CacheBin /\ Push(x, b).list = x.list \cup {b}
  <2>1. /\ x.list \ {b} \in SUBSET Blocks /\ x.list \cup {b} \in SUBSET Blocks
        /\ x.count - 1 \in Int /\ x.count + 1 \in Int
    BY DEF CacheBin
  <2>2. Pop(x, b) \in CacheBin /\ Pop(x, b).list = x.list \ {b}
    BY Zenon, <2>1 DEF Pop, CacheBin
  <2>3. Push(x, b) \in CacheBin /\ Push(x, b).list = x.list \cup {b}
    BY Zenon, <2>1 DEF Push, CacheBin
  <2> QED BY <2>2, <2>3
<1>2. ASSUME NEW L \in SUBSET Blocks, NEW i \in Int
      PROVE Relink(x, L, i) \in CacheBin /\ Relink(x, L, i).list = L
  BY Zenon DEF Relink, CacheBin
<1>3. ASSUME NEW n \in Nat
      PROVE Ramp(x, n) \in CacheBin /\ Ramp(x, n).list = x.list
  BY DEF Ramp, CacheBin
<1> QED BY <1>1, <1>2, <1>3

(* Every step of a cache that finishes or splits a call preserves the      *)
(* types.                                                                  *)
LEMMA TypeCacheStep ==
  ASSUME TypeOK, NEW t \in Threads, CacheStep(t)
  PROVE TypeOK'
<1> USE DEF cacheVars, heapVars, batchVars, listVars, Goto
<1>1. CASE Refill(t)
  <2> DEFINE c == own[t][2]
  <2>1. c \in Classes
    BY KeysType DEF TypeOK
  <2>2. user' \in SUBSET Blocks
    <3>1. user' = user \/ \E b \in result[t] : user' = user \cup {b}
      BY Zenon, <1>1 DEF Refill
    <3>2. user \in SUBSET Blocks /\ result[t] \in SUBSET Blocks
      BY DEF TypeOK
    <3> QED BY <3>1, <3>2
  <2>3. bin' \in [Threads -> [Classes -> CacheBin]]
    <3>1. CASE UNCHANGED bin
      BY <3>1 DEF TypeOK
    <3>2. CASE \E b \in result[t] : bin' =
                 [bin EXCEPT ![t][c] = Relink(@, result[t] \ {b}, Refilled(t))]
      <4>1. PICK b \in result[t] : bin' =
              [bin EXCEPT ![t][c] = Relink(@, result[t] \ {b}, Refilled(t))]
        BY Zenon, <3>2
      <4>2. b \in Blocks /\ result[t] \ {b} \in SUBSET Blocks /\ Refilled(t) \in Int
        BY DEF TypeOK, Refilled
      <4>3. bin[t][c] \in CacheBin
        BY <2>1 DEF TypeOK
      <4>4. Relink(bin[t][c], result[t] \ {b}, Refilled(t)) \in CacheBin
        BY <4>2, <4>3, BinOperations
      <4> QED BY <2>1, <4>1, <4>4, BinType DEF TypeOK
    <3> QED BY Zenon, <1>1, <3>1, <3>2 DEF Refill
  <2>4. /\ pc' \in [Threads -> Labels] /\ own' \in [Threads -> Keys]
        /\ target' \in [Threads -> Nat] /\ result' \in [Threads -> SUBSET Blocks]
        /\ actual' \in [Threads -> Int]
    <3>1. /\ result' = [result EXCEPT ![t] = {}]
          /\ actual' = [actual EXCEPT ![t] = 0]
          /\ target' = [target EXCEPT ![t] = 0]
          /\ own' = [own EXCEPT ![t] = NoKey]
          /\ pc' = [pc EXCEPT ![t] = "idle"]
      BY <1>1 DEF Refill
    <3> QED BY <3>1, KeysType DEF TypeOK, Labels
  <2> QED BY Zenon, <1>1, <2>2, <2>3, <2>4 DEF Refill, TypeOK
<1>2. CASE ReturnDone(t)
  BY <1>2 DEF ReturnDone, TypeOK, Labels
<1>3. CASE FlushBin(t)
  <2>1. PICK c \in flush[t] :
          /\ flush' = [flush EXCEPT ![t] = @ \ {c}]
          /\ bin' = [bin EXCEPT ![t][c] = EmptyBin]
          /\ ReturnCall(t, c, bin[t][c].list,
                        IF bin[t][c].count <= DeferMaxBin THEN "defer"
                        ELSE "db_next")
    BY Zenon, <1>3 DEF FlushBin
  <2>2. c \in Classes /\ bin[t][c] \in CacheBin
    BY DEF TypeOK
  <2>3. SplitListByArena(c, bin[t][c].list) \in [Keys -> SUBSET Blocks]
    BY <2>2, SplitType DEF CacheBin
  <2>4. bin' \in [Threads -> [Classes -> CacheBin]]
    BY <2>1, <2>2, BinType, EmptyBinType DEF TypeOK
  <2> QED
    BY <1>3, <2>1, <2>2, <2>3, <2>4 DEF FlushBin, ReturnCall, TypeOK, Labels
<1>4. CASE PurgeDone(t)
  BY <1>4 DEF PurgeDone, TypeOK, Labels
<1> QED BY <1>1, <1>2, <1>3, <1>4 DEF CacheStep

(* Every call of the program preserves the types: the fast and slow paths  *)
(* of malloc and free, thread start, thread exit, purge.                   *)
LEMMA TypeRequest ==
  ASSUME TypeOK, FinitePlaces, Anchored, NEW t \in Threads, Request(t)
  PROVE TypeOK'
<1> USE DEF cacheVars, heapVars, batchVars, listVars, Goto
<1>1. CASE GetSlow(t)
  <2>1. next_arena' \in Arenas
    BY <1>1, SlabAssumption DEF GetSlow, GetNextArena, TypeOK, Arenas
  <2>2. bin' \in [Threads -> [Classes -> CacheBin]]
    BY <1>1, EmptyBinType DEF GetSlow, TypeOK
  <2> QED BY <1>1, <2>1, <2>2 DEF GetSlow, TypeOK, Labels
<1>2. ASSUME NEW c \in Classes, AllocateBlock(t, c) PROVE TypeOK'
  <2>1. PICK b \in bin[t][c].list :
          /\ bin' = [bin EXCEPT ![t][c] = Pop(@, b)]
          /\ user' = user \cup {b}
    BY Zenon, <1>2 DEF AllocateBlock
  <2>2. bin[t][c] \in CacheBin /\ b \in Blocks
    BY DEF TypeOK, CacheBin
  <2>3. Pop(bin[t][c], b) \in CacheBin
    BY <2>2, BinOperations
  <2>4. bin' \in [Threads -> [Classes -> CacheBin]]
    BY <2>1, <2>3, BinType DEF TypeOK
  <2> QED BY Zenon, <1>2, <2>1, <2>2, <2>4 DEF AllocateBlock, TypeOK
<1>3. ASSUME NEW c \in Classes, AllocateBlockSlow(t, c) PROVE TypeOK'
  <2> DEFINE n == RefillTarget(t, c)
             m == IF n * 2 <= HalfLimit(c) THEN n * 2 ELSE HalfLimit(c)
  <2>1. bin[t][c] \in CacheBin
    BY DEF TypeOK
  <2>2. HalfLimit(c) \in Nat
    BY HalfLimitType
  <2>3. n \in Nat
    BY <2>1, <2>2, CacheAssumption DEF RefillTarget, CacheBin
  <2>4. m \in Nat
    BY <2>2, <2>3
  <2>5. bin' = [bin EXCEPT ![t][c] = Ramp(@, m)]
    BY <1>3 DEF AllocateBlockSlow
  <2>6. bin' \in [Threads -> [Classes -> CacheBin]]
    <3> HIDE DEF m
    <3>1. Ramp(bin[t][c], m) \in CacheBin
      BY <2>1, <2>4 DEF CacheBin, Ramp
    <3> QED BY <2>5, <3>1, BinType DEF TypeOK
  <2>7. <<arena[t], c>> \in Keys
    BY DEF TypeOK, Keys
  <2>8. AllocateBatchCall(t, <<arena[t], c>>, n) /\ UNCHANGED <<user, arena, next_arena, flush, back>>
    BY <1>3 DEF AllocateBlockSlow
  <2> QED
    <3> HIDE DEF n
    <3> QED BY <2>3, <2>6, <2>7, <2>8 DEF AllocateBatchCall, TypeOK, Labels
<1>4. ASSUME NEW b \in user, fast_free(t, b) PROVE TypeOK'
  <2> DEFINE c == hdr[b[1]].class_idx
             list == bin[t][c].list \cup {b}
             n == HalfLimit(c)
  <2>1. b \in Blocks /\ c \in Classes /\ bin[t][c] \in CacheBin
    BY SMTT(30) DEF TypeOK, Blocks, SlabHeader
  <2>2. list \in SUBSET Blocks /\ n \in Nat /\ bin[t][c].count \in Int
    BY <2>1, HalfLimitType DEF CacheBin
  <2>3. CASE DeallocateBlock(t, b)
    <3>1. Push(bin[t][c], b) \in CacheBin
      BY <2>1, BinOperations
    <3>2. bin' = [bin EXCEPT ![t][c] = Push(@, b)]
      BY <2>3 DEF DeallocateBlock
    <3>3. bin' \in [Threads -> [Classes -> CacheBin]]
      <4> HIDE DEF c
      <4> QED BY <2>1, <3>1, <3>2, BinType DEF TypeOK
    <3>4. user' \in SUBSET Blocks
      BY Zenon, <2>3 DEF DeallocateBlock, TypeOK
    <3> QED BY Zenon, <2>3, <3>3, <3>4 DEF DeallocateBlock, TypeOK
  <2>4. CASE DeallocateBlockSlow(t, b)
    <3>1. /\ user' = user \ {b}
          /\ back' = [back EXCEPT ![t] = "idle"]
          /\ UNCHANGED <<arena, next_arena, flush>>
          /\ IF Cardinality(list) < n
             THEN /\ bin' = [bin EXCEPT ![t][c] = EmptyBin]
                  /\ ReturnCall(t, c, list, "db_next")
             ELSE \E S \in FirstOf(list, n) :
                  /\ bin' = [bin EXCEPT ![t][c] =
                                Relink(@, list \ S, @.count + 1 - n)]
                  /\ ReturnCall(t, c, S, "db_next")
      BY Zenon, <2>4 DEF DeallocateBlockSlow
    <3>2. PICK S \in SUBSET Blocks, x \in CacheBin :
            /\ ReturnCall(t, c, S, "db_next")
            /\ bin' = [bin EXCEPT ![t][c] = x]
      <4>1. CASE Cardinality(list) < n
        BY Zenon, <2>2, <3>1, <4>1, EmptyBinType
      <4>2. CASE ~(Cardinality(list) < n)
        <5>1. PICK S \in FirstOf(list, n) :
                /\ bin' = [bin EXCEPT ![t][c] =
                             Relink(@, list \ S, @.count + 1 - n)]
                /\ ReturnCall(t, c, S, "db_next")
          BY Zenon, <3>1, <4>2
        <5>2. S \in SUBSET Blocks
          BY Zenon, <2>2 DEF FirstOf
        <5>3. Relink(bin[t][c], list \ S, bin[t][c].count + 1 - n) \in CacheBin
          <6> HIDE DEF c, list, n
          <6>1. list \ S \in SUBSET Blocks
            BY <2>2
          <6>2. bin[t][c].count + 1 - n \in Int
            BY <2>2
          <6> QED BY <2>1, <6>1, <6>2, BinOperations
        <5> QED
          <6> HIDE DEF c, list, n
          <6> QED BY Zenon, <2>1, <5>1, <5>2, <5>3 DEF TypeOK
      <4> QED BY <4>1, <4>2
    <3>3. bin' \in [Threads -> [Classes -> CacheBin]]
      BY <2>1, <3>2, BinType DEF TypeOK
    <3>4. SplitListByArena(c, S) \in [Keys -> SUBSET Blocks]
      BY SplitType
    <3> QED
      <4>1. UNCHANGED <<arena, next_arena, flush>> /\ user' = user \ {b}
            /\ back' = [back EXCEPT ![t] = "idle"]
        BY Zenon, <3>1
      <4> HIDE DEF c
      <4> QED BY <3>2, <3>3, <3>4, <4>1 DEF ReturnCall, TypeOK, Labels
  <2> QED BY <1>4, <2>3, <2>4 DEF fast_free
<1>5. ASSUME NEW next \in {"idle", "dead"}, FlushToGlobalHeap(t, next)
      PROVE TypeOK'
  BY <1>5 DEF FlushToGlobalHeap, TypeOK, Labels
<1>6. CASE PurgePageCache(t)
  BY <1>6 DEF PurgePageCache, PurgeCall, TypeOK, Labels
<1> QED
  BY <1>1, <1>2, <1>3, <1>4, <1>5, <1>6 DEF Request, fast_malloc
=============================================================================
