--------------------------- MODULE TLSCacheLocks ----------------------------
(***************************************************************************)
(* The lock discipline: a step of one thread leaves the local variables    *)
(* and the locks of the others alone, and the thread that takes it ends up *)
(* holding the class locks its new position calls for.                     *)
(***************************************************************************)
EXTENDS TLSCacheTypes

(* A step leaves thread u's local variables and the locks it holds alone. *)
Untouched(u) ==
  /\ pc'[u] = pc[u] /\ own'[u] = own[u] /\ key'[u] = key[u]
  /\ left'[u] = left[u] /\ cur'[u] = cur[u] /\ ret'[u] = ret[u]
  /\ result'[u] = result[u]
  /\ \A k \in Keys : lock[k] = u => lock'[k] = u

(* A thread whose variables and locks a step leaves alone still holds what *)
(* its position calls for, provided the slabs under its locks are left     *)
(* alone.                                                                  *)
LEMMA OtherThread ==
  ASSUME NEW u \in Threads, HoldsLocks(u), Consistent(u),
         own[u] \in Keys, key[u] \in Keys, Untouched(u),
         \A s \in slabs : lock[KeyOf(hdr[s])] = u =>
                            s \in slabs' /\ KeyOf(hdr'[s]) = KeyOf(hdr[s])
  PROVE HoldsLocks(u)' /\ Consistent(u)'
<1>1. HoldsLocks(u)'
  BY DEF Untouched, HoldsLocks, InBatch, Stealing
<1>2. Consistent(u)'
  <2>1. pc[u] \in {"relist", "ab_extract"} =>
          cur[u] \in slabs' /\ KeyOf(hdr'[cur[u]]) = key[u]
    BY DEF HoldsLocks, Consistent
  <2> QED
    BY <2>1 DEF Untouched, Consistent, InBatch, Stealing, AfterFeed, KeyOf
<1> QED BY <1>1, <1>2

(* A step of one thread in the global heap leaves the variables and the    *)
(* locks of every other thread alone.                                      *)
LEMMA HeapStepUntouched ==
  ASSUME TypeOK, LocksHeld, NEW t \in Threads, HeapStep(t),
         NEW u \in Threads, u # t
  PROVE Untouched(u)
<1> USE DEF Untouched, heapVars, batchVars, listVars, Goto
<1>l. /\ pc[t] \in {"ab_release", "ab_unlock", "db_unlock", "pg_unlock"} =>
           lock[key[t]] # u
      /\ NoThread # u
  BY HeapAssumption DEF LocksHeld, HoldsLocks
<1>1. CASE ReturnBlock(t)
  BY <1>1 DEF ReturnBlock, TypeOK
<1>2. CASE RelistSlab(t)
  BY <1>2 DEF RelistSlab, TypeOK
<1>3. CASE AcquireClassLock(t)
  BY <1>3, <1>l DEF AcquireClassLock, SpinLock, TypeOK
<1>4. CASE DirectFeed(t)
  BY <1>4 DEF DirectFeed, Process, TypeOK
<1>5. CASE Repark(t)
  BY <1>5 DEF Repark, PushPending, TypeOK
<1>6. CASE TrySteal(t)
  BY <1>6, <1>l DEF TrySteal, SkipBusy, SpinLock, TypeOK
<1>7. CASE TakeStolen(t)
  BY <1>7 DEF TakeStolen, Process, TypeOK
<1>8. CASE ReleaseForeign(t)
  BY <1>8, <1>l DEF ReleaseForeign, Unlock, TypeOK
<1>9. CASE PickSlab(t)
  BY <1>9 DEF PickSlab, TypeOK
<1>10. CASE ExtractBlock(t)
  BY <1>10 DEF ExtractBlock, TypeOK
<1>11. CASE ExtractDone(t)
  BY <1>11 DEF ExtractDone, TypeOK
<1>12. CASE ReleaseClassLock(t)
  BY <1>12, <1>l DEF ReleaseClassLock, Unlock, TypeOK
<1>13. CASE TryClassLock(t)
  BY <1>13, <1>l DEF TryClassLock, Contended, SpinLock, TypeOK
<1>14. CASE PushContended(t)
  BY <1>14 DEF PushContended, PushPending, TypeOK
<1>15. CASE DrainAfterBatch(t)
  BY <1>15 DEF DrainAfterBatch, DrainPendingReturns, Process, TypeOK
<1>16. CASE ReleaseBatchLock(t)
  BY <1>16, <1>l DEF ReleaseBatchLock, Unlock, TypeOK
<1>17. CASE DeferBinToPending(t)
  BY <1>17 DEF DeferBinToPending, PushPending, TypeOK
<1>18. CASE PurgeLock(t)
  BY <1>18, <1>l DEF PurgeLock, SpinLock, TypeOK
<1>19. CASE PurgeDrain(t)
  BY <1>19 DEF PurgeDrain, DrainPendingReturns, Process, TypeOK
<1>20. CASE PurgeUnlock(t)
  BY <1>20, <1>l DEF PurgeUnlock, Unlock, TypeOK
<1> QED
  BY Zenon, <1>1, <1>2, <1>3, <1>4, <1>5, <1>6, <1>7, <1>8, <1>9, <1>10, <1>11,
     <1>12, <1>13, <1>14, <1>15, <1>16, <1>17, <1>18, <1>19, <1>20 DEF HeapStep

(* Span s stays a slab, of the same arena and class, with no fewer blocks  *)
(* carved.                                                                 *)
Kept(s) ==
  /\ s \in slabs'
  /\ KeyOf(hdr'[s]) = KeyOf(hdr[s])
  /\ hdr'[s].class_idx = hdr[s].class_idx
  /\ hdr[s].next_new <= hdr'[s].next_new

(* A step keeps every live slab live, with its arena and class, and never  *)
(* moves a frontier back, except for the slab it releases: the one it just *)
(* relisted as empty.                                                      *)
LEMMA SlabsKept ==
  ASSUME TypeOK, NEW t \in Threads, HeapStep(t), Consistent(t),
         NEW s \in slabs, ~(pc[t] = "relist" /\ s = cur[t] /\ IsEmpty(hdr[s]))
  PROVE Kept(s)
<1> USE DEF heapVars
<1>h. s \in Spans /\ hdr[s] \in SlabHeader /\ hdr[s].next_new \in Nat
  BY DEF TypeOK, SlabHeader
<1>0. CASE UNCHANGED <<slabs, hdr>>
  BY SMTT(30), <1>0, <1>h DEF Kept, KeyOf
<1>1. CASE ReturnBlock(t)
  <2>1. PICK b \in todo[t][key[t]] :
          /\ hdr' = [hdr EXCEPT ![b[1]] = Deallocate(@, b)]
          /\ slabs' = slabs
    BY Zenon, <1>1 DEF ReturnBlock
  <2>2. b \in Blocks /\ b[1] \in Spans /\ hdr \in [Spans -> SlabHeader]
    BY DEF TypeOK, Blocks
  <2>3. CASE s = b[1]
    BY <1>h, <2>1, <2>2, <2>3, DeallocateHeader DEF Kept, KeyOf
  <2>4. CASE s # b[1]
    BY <1>h, <2>1, <2>2, <2>4 DEF Kept, KeyOf
  <2> QED BY <2>3, <2>4
<1>2. CASE RelistSlab(t)
  <2>1. CASE IsEmpty(hdr[cur[t]])
    <3>1. s # cur[t]
      BY <1>2, <2>1 DEF RelistSlab
    <3>2. slabs' = slabs \ {cur[t]} /\ hdr' = [hdr EXCEPT ![cur[t]] = NoSlab]
      BY <1>2, <2>1 DEF RelistSlab
    <3> QED BY <1>h, <3>1, <3>2 DEF Kept, KeyOf, TypeOK
  <2>2. CASE ~IsEmpty(hdr[cur[t]])
    BY <1>0, <1>2, <2>2 DEF RelistSlab
  <2> QED BY <2>1, <2>2
<1>3. CASE PickSlab(t)
  <2>1. CASE \E x \in Spans \ slabs :
               /\ slabs' = slabs \cup {x}
               /\ hdr' = [hdr EXCEPT ![x] = Create(x, own[t])]
    BY <1>h, <2>1 DEF Kept, KeyOf, TypeOK
  <2> QED BY <1>0, <1>3, <2>1 DEF PickSlab
<1>4. CASE ExtractBlock(t)
  <2>1. PICK b \in Allocatable(cur[t], hdr[cur[t]]) :
          hdr' = [hdr EXCEPT ![cur[t]] = Allocate(@, b)]
    BY Zenon, <1>4 DEF ExtractBlock
  <2>2. slabs' = slabs /\ hdr \in [Spans -> SlabHeader] /\ cur[t] \in Spans
    BY <1>4 DEF ExtractBlock, Consistent, TypeOK
  <2>3. CASE s = cur[t]
    <3>1. hdr'[s] = Allocate(hdr[s], b) /\ b \in Allocatable(s, hdr[s])
      BY <2>1, <2>2, <2>3
    <3>2. /\ Allocate(hdr[s], b).arena = hdr[s].arena
          /\ Allocate(hdr[s], b).class_idx = hdr[s].class_idx
          /\ hdr[s].next_new <= Allocate(hdr[s], b).next_new
      BY <1>h, <3>1, AllocateHeader
    <3> QED BY <2>2, <3>1, <3>2 DEF Kept, KeyOf
  <2>4. CASE s # cur[t]
    BY <1>h, <2>1, <2>2, <2>4 DEF Kept, KeyOf
  <2> QED BY <2>3, <2>4
<1> QED
  BY Zenon, <1>0, <1>1, <1>2, <1>3, <1>4
     DEF HeapStep, AcquireClassLock, DirectFeed, Repark, TrySteal, TakeStolen,
         ReleaseForeign, ExtractDone, ReleaseClassLock, TryClassLock,
         PushContended, DrainAfterBatch, DrainPendingReturns, ReleaseBatchLock,
         Unlock, DeferBinToPending, PurgeLock, PurgeDrain, PurgeUnlock

(* After a step in the global heap the thread that took it holds the locks *)
(* its new position calls for, and no local variable is stale.             *)
LEMMA HeapStepSelf ==
  ASSUME TypeOK, SlabsOK, Anchored, NEW t \in Threads, HeapStep(t),
         HoldsLocks(t), Consistent(t)
  PROVE HoldsLocks(t)' /\ Consistent(t)'
<1> USE DEF heapVars, batchVars, listVars, Goto
<1>t. /\ own[t] \in Keys /\ key[t] \in Keys /\ t # NoThread
      /\ lock \in [Keys -> Threads \cup {NoThread}]
      /\ pc \in [Threads -> Labels] /\ own \in [Threads -> Keys]
      /\ key \in [Threads -> Keys] /\ left \in [Threads -> SUBSET Keys]
      /\ cur \in [Threads -> Spans \cup {NoSpan}]
      /\ result \in [Threads -> SUBSET Blocks]
      /\ ret \in [Threads -> {"idle", "ab_steal", "ab_release", "db_drain",
                              "db_unlock", "pg_unlock"}]
  BY HeapAssumption DEF TypeOK
<1>1. CASE ReturnBlock(t)
  <2>1. PICK b \in todo[t][key[t]] :
          /\ cur' = [cur EXCEPT ![t] = b[1]]
          /\ hdr' = [hdr EXCEPT ![b[1]] = Deallocate(@, b)]
    BY Zenon, <1>1 DEF ReturnBlock
  <2>2. b[1] \in slabs /\ KeyOf(hdr[b[1]]) = key[t]
    BY <1>t, AnchoredTodo
  <2>3. Kept(b[1])
    BY <1>1, <2>2, SlabsKept DEF ReturnBlock
  <2>4. cur'[t] \in slabs' /\ KeyOf(hdr'[cur'[t]]) = key[t]
    BY <1>t, <2>1, <2>2, <2>3 DEF Kept
  <2>5. HoldsLocks(t)'
    BY <1>t, <1>1 DEF ReturnBlock, HoldsLocks, InBatch, Stealing
  <2> QED
    BY SMTT(30), <1>t, <1>1, <2>4, <2>5
       DEF ReturnBlock, Consistent, InBatch, Stealing, AfterFeed, KeyOf
<1>2. CASE RelistSlab(t)
  <2>1. /\ pc'[t] = IF todo[t][key[t]] = {} THEN ret[t] ELSE "home"
        /\ ret'[t] = IF todo[t][key[t]] = {} THEN "idle" ELSE ret[t]
        /\ UNCHANGED <<own, key, left, result, lock>>
        /\ pc[t] = "relist"
    BY <1>t, <1>2 DEF RelistSlab
  <2>2. HoldsLocks(t)'
    BY <1>t, <2>1 DEF HoldsLocks, Consistent, InBatch, Stealing
  <2>3. Consistent(t)'
    BY SMTT(30), <1>t, <2>1 DEF Consistent, InBatch, Stealing, AfterFeed
  <2> QED BY <2>2, <2>3
<1>4. CASE DirectFeed(t)
  <2>1. /\ pc[t] = "ab_feed"
        /\ UNCHANGED <<lock, own>>
        /\ key'[t] = own[t]
        /\ left'[t] = {<<a, own[t][2]>> : a \in Arenas} \ {own[t]}
    BY <1>t, <1>4 DEF DirectFeed
  <2>2. \/ pc'[t] = "ab_repark"
        \/ pc'[t] = "ab_steal"
        \/ pc'[t] = "home" /\ ret'[t] = "ab_steal"
    BY <1>t, <1>4 DEF DirectFeed, Process
  <2>3. HoldsLocks(t)'
    BY <1>t, <2>1, <2>2 DEF HoldsLocks, InBatch, Stealing
  <2>4. Consistent(t)'
    BY <1>t, <2>1, <2>2 DEF Consistent, InBatch, Stealing, AfterFeed
  <2> QED BY <2>3, <2>4
<1>6. CASE TrySteal(t)
  <2>1. PICK k \in left[t] :
          \/ SkipBusy(t, k)
          \/ /\ SpinLock(t, k)
             /\ left' = [left EXCEPT ![t] = @ \ {k}]
             /\ key' = [key EXCEPT ![t] = k]
             /\ Goto(t, "ab_take")
    BY <1>6 DEF TrySteal
  <2>2. /\ k \in Keys /\ k[2] = own[t][2] /\ k # own[t]
        /\ lock[own[t]] = t
        /\ left[t] \subseteq {<<a, own[t][2]>> : a \in Arenas} \ {own[t]}
    BY SMTT(30), <1>t, <1>6 DEF TrySteal, Consistent, HoldsLocks, AfterFeed, InBatch
  <2>3. CASE SkipBusy(t, k)
    <3>1. /\ pc'[t] = "ab_steal" /\ lock' = lock /\ own' = own /\ key' = key
          /\ left'[t] \subseteq left[t] /\ result' = result
      BY <1>t, <1>6, <2>3 DEF SkipBusy, TrySteal
    <3>2. HoldsLocks(t)'
      BY <2>2, <3>1 DEF HoldsLocks, InBatch, Stealing
    <3> QED BY <2>2, <3>1, <3>2 DEF Consistent, InBatch, Stealing, AfterFeed
  <2>4. CASE /\ SpinLock(t, k)
             /\ left' = [left EXCEPT ![t] = @ \ {k}]
             /\ key' = [key EXCEPT ![t] = k]
             /\ Goto(t, "ab_take")
    <3>1. /\ pc'[t] = "ab_take" /\ lock'[k] = t /\ lock'[own[t]] = t
          /\ own' = own /\ key'[t] = k
          /\ left'[t] \subseteq left[t] /\ result' = result
      <4>1. /\ lock' = [lock EXCEPT ![k] = t]
            /\ pc' = [pc EXCEPT ![t] = "ab_take"]
            /\ own' = own /\ result' = result
        BY Zenon, <1>6, <2>4 DEF SpinLock, TrySteal, Goto
      <4> QED BY SMTT(30), <1>t, <2>2, <2>4, <4>1
    <3>2. HoldsLocks(t)'
      BY <2>2, <3>1 DEF HoldsLocks, InBatch, Stealing
    <3>3. left'[t] \subseteq {<<a, own'[t][2]>> : a \in Arenas} \ {own'[t]}
      BY SMTT(30), <2>2, <3>1
    <3> QED BY Zenon, <2>2, <3>1, <3>2, <3>3 DEF Consistent, InBatch, Stealing, AfterFeed
  <2> QED BY <2>1, <2>3, <2>4
<1>7. CASE TakeStolen(t)
  <2>1. /\ pc[t] = "ab_take"
        /\ UNCHANGED <<lock, own, key, left>>
        /\ \/ pc'[t] = "ab_release"
           \/ pc'[t] = "home" /\ ret'[t] = "ab_release"
    BY <1>t, <1>7 DEF TakeStolen, Process
  <2>2. HoldsLocks(t)'
    BY <2>1 DEF HoldsLocks, InBatch, Stealing
  <2> QED BY <2>1, <2>2 DEF Consistent, InBatch, Stealing, AfterFeed
<1>8. CASE ReleaseForeign(t)
  <2>1. /\ pc[t] = "ab_release" /\ pc'[t] = "ab_steal"
        /\ lock'[own[t]] = lock[own[t]]
        /\ UNCHANGED <<own, left, result>>
    BY <1>t, <1>8 DEF ReleaseForeign, Unlock, HoldsLocks, Stealing
  <2>2. HoldsLocks(t)'
    BY <2>1 DEF HoldsLocks, InBatch, Stealing
  <2> QED BY <2>1, <2>2 DEF Consistent, InBatch, Stealing, AfterFeed
<1>9. CASE PickSlab(t)
  <2>1. /\ pc[t] = "ab_steal" /\ pc'[t] \in {"ab_unlock", "ab_extract"}
        /\ key'[t] = own[t] /\ UNCHANGED <<own, lock, result>>
    BY <1>t, <1>9 DEF PickSlab
  <2>2. pc'[t] = "ab_extract" =>
          cur'[t] \in slabs' /\ KeyOf(hdr'[cur'[t]]) = own[t]
    <3>1. CASE /\ \E s \in partial[own[t]] : cur' = [cur EXCEPT ![t] = s]
               /\ UNCHANGED <<slabs, hdr>>
      BY <1>t, <3>1 DEF SlabsOK, KeyOf
    <3>2. CASE \E s \in Spans \ slabs :
                 /\ slabs' = slabs \cup {s}
                 /\ hdr' = [hdr EXCEPT ![s] = Create(s, own[t])]
                 /\ cur' = [cur EXCEPT ![t] = s]
      <4>1. PICK s \in Spans \ slabs :
              /\ slabs' = slabs \cup {s}
              /\ hdr' = [hdr EXCEPT ![s] = Create(s, own[t])]
              /\ cur' = [cur EXCEPT ![t] = s]
        BY Zenon, <3>2
      <4>2. cur'[t] = s /\ hdr'[s] = Create(s, own[t])
        BY <1>t, <4>1 DEF TypeOK
      <4>3. KeyOf(Create(s, own[t])) = own[t]
        BY <1>t, CreateHeader
      <4> QED BY <4>1, <4>2, <4>3
    <3> QED BY <1>t, <1>9, <3>1, <3>2 DEF PickSlab
  <2>3. HoldsLocks(t)'
    BY <2>1 DEF HoldsLocks, InBatch, Stealing
  <2> QED BY <2>1, <2>2, <2>3 DEF Consistent, InBatch, Stealing, AfterFeed, KeyOf
<1>10. CASE ExtractBlock(t)
  <2>1. /\ pc[t] = "ab_extract"
        /\ UNCHANGED <<lock, pc, own, key, left, cur, ret>>
    BY <1>10 DEF ExtractBlock
  <2>2. Kept(cur[t])
    BY Zenon, <2>1, SlabsKept DEF Consistent
  <2>3. HoldsLocks(t)'
    BY <2>1 DEF HoldsLocks, InBatch, Stealing
  <2> QED
    BY <2>1, <2>2, <2>3 DEF Consistent, Kept, InBatch, Stealing, AfterFeed, KeyOf
<1>13. CASE TryClassLock(t)
  <2>1. PICK k \in Keys :
          /\ key' = [key EXCEPT ![t] = k]
          /\ \/ Contended(t, k)
             \/ /\ SpinLock(t, k)
                /\ ret' = [ret EXCEPT ![t] = "db_drain"]
                /\ Goto(t, "home")
    BY Zenon, <1>13 DEF TryClassLock
  <2>2. /\ pc[t] = "db_next" /\ key'[t] = k /\ UNCHANGED result
        /\ \/ pc'[t] = "db_push"
           \/ pc'[t] = "home" /\ ret'[t] = "db_drain" /\ lock'[k] = t
    BY Zenon, <1>t, <1>13, <2>1 DEF TryClassLock, Contended, SpinLock
  <2>3. HoldsLocks(t)'
    BY Zenon, <2>2 DEF HoldsLocks, InBatch, Stealing
  <2> QED BY <2>2, <2>3 DEF Consistent, InBatch, Stealing, AfterFeed
<1>3. CASE AcquireClassLock(t)
  <2>1. HoldsLocks(t)'
    BY <1>t, <1>3 DEF AcquireClassLock, SpinLock, HoldsLocks, Consistent, InBatch, Stealing
  <2> QED
    BY Zenon, <1>t, <1>3, <2>1
       DEF AcquireClassLock, SpinLock, HoldsLocks, Consistent, InBatch, Stealing, AfterFeed, KeyOf
<1>5. CASE Repark(t)
  <2>1. HoldsLocks(t)'
    BY <1>t, <1>5 DEF Repark, PushPending, HoldsLocks, Consistent, InBatch, Stealing
  <2> QED
    BY SMTT(30), <1>t, <1>5, <2>1
       DEF Repark, PushPending, HoldsLocks, Consistent, InBatch, Stealing, AfterFeed, KeyOf
<1>11. CASE ExtractDone(t)
  <2>1. HoldsLocks(t)'
    BY <1>t, <1>11 DEF ExtractDone, HoldsLocks, Consistent, InBatch, Stealing
  <2> QED
    BY Zenon, <1>t, <1>11, <2>1
       DEF ExtractDone, HoldsLocks, Consistent, InBatch, Stealing, AfterFeed, KeyOf
<1>12. CASE ReleaseClassLock(t)
  <2>1. HoldsLocks(t)'
    BY <1>t, <1>12 DEF ReleaseClassLock, Unlock, HoldsLocks, Consistent, InBatch, Stealing
  <2> QED
    BY <1>t, <1>12, <2>1
       DEF ReleaseClassLock, Unlock, HoldsLocks, Consistent, InBatch, Stealing, AfterFeed, KeyOf
<1>14. CASE PushContended(t)
  <2>1. HoldsLocks(t)'
    BY Zenon, <1>t, <1>14 DEF PushContended, HoldsLocks, Consistent, InBatch, Stealing
  <2> QED
    BY Zenon, <1>t, <1>14, <2>1
       DEF PushContended, HoldsLocks, Consistent, InBatch, Stealing, AfterFeed, KeyOf
<1>15. CASE DrainAfterBatch(t)
  <2>1. HoldsLocks(t)'
    BY <1>t, <1>15 DEF DrainAfterBatch, DrainPendingReturns, Process, HoldsLocks, Consistent, InBatch, Stealing
  <2> QED
    BY <1>t, <1>15, <2>1
       DEF DrainAfterBatch, DrainPendingReturns, Process, HoldsLocks, Consistent, InBatch, Stealing, AfterFeed, KeyOf
<1>16. CASE ReleaseBatchLock(t)
  <2>1. HoldsLocks(t)'
    BY <1>t, <1>16 DEF ReleaseBatchLock, Unlock, HoldsLocks, Consistent, InBatch, Stealing
  <2> QED
    BY Zenon, <1>t, <1>16, <2>1
       DEF ReleaseBatchLock, Unlock, HoldsLocks, Consistent, InBatch, Stealing, AfterFeed, KeyOf
<1>17. CASE DeferBinToPending(t)
  <2>1. HoldsLocks(t)'
    BY Zenon, <1>t, <1>17 DEF DeferBinToPending, HoldsLocks, Consistent, InBatch, Stealing
  <2> QED
    BY Zenon, <1>t, <1>17, <2>1
       DEF DeferBinToPending, HoldsLocks, Consistent, InBatch, Stealing, AfterFeed, KeyOf
<1>18. CASE PurgeLock(t)
  <2>1. HoldsLocks(t)'
    BY SMTT(30), <1>t, <1>18 DEF PurgeLock, SpinLock, HoldsLocks, Consistent, InBatch, Stealing
  <2> QED
    BY Zenon, <1>t, <1>18, <2>1
       DEF PurgeLock, SpinLock, HoldsLocks, Consistent, InBatch, Stealing, AfterFeed, KeyOf
<1>19. CASE PurgeDrain(t)
  <2>1. HoldsLocks(t)'
    BY <1>t, <1>19 DEF PurgeDrain, DrainPendingReturns, Process, HoldsLocks, Consistent, InBatch, Stealing
  <2> QED
    BY <1>t, <1>19, <2>1
       DEF PurgeDrain, DrainPendingReturns, Process, HoldsLocks, Consistent, InBatch, Stealing, AfterFeed, KeyOf
<1>20. CASE PurgeUnlock(t)
  <2>1. HoldsLocks(t)'
    BY <1>t, <1>20 DEF PurgeUnlock, Unlock, HoldsLocks, Consistent, InBatch, Stealing
  <2> QED
    BY <1>t, <1>20, <2>1
       DEF PurgeUnlock, Unlock, HoldsLocks, Consistent, InBatch, Stealing, AfterFeed, KeyOf
<1> QED
  BY <1>1, <1>2, <1>3, <1>4, <1>5, <1>6, <1>7, <1>8, <1>9, <1>10, <1>11,
     <1>12, <1>13, <1>14, <1>15, <1>16, <1>17, <1>18, <1>19, <1>20 DEF HeapStep

(* What the steps outside the global heap have in common. *)
Outer(t) ==
  /\ UNCHANGED <<lock, slabs, hdr, partial, full, pending>>
  /\ pc'[t] \in {"idle", "dead", "flush", "db_next", "defer", "ab_lock", "pg_next"}
  /\ result'[t] = {}
  /\ \A u \in Threads \ {t} : Untouched(u)

(* A step in a thread cache touches no lock, slab or queue and no other    *)
(* thread.                                                                 *)
LEMMA CacheStepOuter ==
  ASSUME TypeOK, NEW t \in Threads, Consistent(t), CacheStep(t) \/ Request(t)
  PROVE Outer(t)
<1> USE DEF heapVars, batchVars, listVars, cacheVars, Goto, Outer, Untouched
<1>t. /\ pc \in [Threads -> Labels] /\ own \in [Threads -> Keys]
      /\ left \in [Threads -> SUBSET Keys]
      /\ result \in [Threads -> SUBSET Blocks]
      /\ back[t] \in {"idle", "dead"}
      /\ pc[t] \in {"idle", "dead", "flush", "db_next", "defer", "pg_next"} =>
           result[t] = {}
  BY Zenon DEF TypeOK, Consistent, InBatch
<1>1. CASE Refill(t)
  BY <1>t, <1>1 DEF Refill
<1>2. CASE ReturnDone(t)
  BY <1>t, <1>2 DEF ReturnDone
<1>3. CASE FlushBin(t)
  BY <1>t, <1>3 DEF FlushBin, ReturnCall
<1>4. CASE PurgeDone(t)
  BY <1>t, <1>4 DEF PurgeDone
<1>5. CASE GetSlow(t)
  BY <1>t, <1>5 DEF GetSlow
<1>6. CASE \E c \in Classes : AllocateBlock(t, c)
  BY <1>t, <1>6 DEF AllocateBlock
<1>7. CASE \E c \in Classes : AllocateBlockSlow(t, c)
  BY <1>t, <1>7 DEF AllocateBlockSlow, AllocateBatchCall
<1>8. CASE \E b \in user : DeallocateBlock(t, b)
  BY <1>t, <1>8 DEF DeallocateBlock
<1>9. CASE \E b \in user : DeallocateBlockSlow(t, b)
  BY ZenonT(30), <1>t, <1>9 DEF DeallocateBlockSlow, ReturnCall
<1>10. CASE \E next \in {"idle", "dead"} : FlushToGlobalHeap(t, next)
  BY Zenon, <1>t, <1>10 DEF FlushToGlobalHeap
<1>11. CASE PurgePageCache(t)
  BY Zenon, <1>t, <1>11 DEF PurgePageCache, PurgeCall
<1> QED
  BY Zenon, <1>1, <1>2, <1>3, <1>4, <1>5, <1>6, <1>7, <1>8, <1>9, <1>10, <1>11
     DEF CacheStep, Request, fast_malloc, fast_free

(* Every step preserves the lock discipline.                               *)
LEMMA LocksStep ==
  ASSUME TypeOK, LocksHeld, ControlOK, SlabsOK, Anchored, [Next]_vars
  PROVE LocksHeld' /\ ControlOK'
<1>k. \A u \in Threads : own[u] \in Keys /\ key[u] \in Keys
  BY DEF TypeOK
<1>1. ASSUME NEW t \in Threads, HeapStep(t) PROVE LocksHeld' /\ ControlOK'
  <2>1. ASSUME NEW u \in Threads PROVE HoldsLocks(u)' /\ Consistent(u)'
    <3>1. HoldsLocks(u) /\ Consistent(u) /\ HoldsLocks(t) /\ Consistent(t)
      BY DEF LocksHeld, ControlOK
    <3>2. CASE u = t
      BY <1>1, <3>1, <3>2, HeapStepSelf
    <3>3. CASE u # t
      <4>1. Untouched(u)
        BY <1>1, <3>3, HeapStepUntouched
      <4>2. ASSUME NEW s \in slabs, lock[KeyOf(hdr[s])] = u
            PROVE s \in slabs' /\ KeyOf(hdr'[s]) = KeyOf(hdr[s])
        <5>1. ~(pc[t] = "relist" /\ s = cur[t])
          BY <3>1, <3>3, <4>2 DEF HoldsLocks, Consistent
        <5>2. Kept(s)
          BY <1>1, <3>1, <5>1, SlabsKept
        <5> QED BY <5>2 DEF Kept
      <4> QED BY <1>k, <3>1, <4>1, <4>2, OtherThread
    <3> QED BY <3>2, <3>3
  <2> QED BY <2>1 DEF LocksHeld, ControlOK
<1>2. ASSUME NEW t \in Threads, CacheStep(t) \/ Request(t)
      PROVE LocksHeld' /\ ControlOK'
  <2>1. Consistent(t)
    BY DEF ControlOK
  <2>2. Outer(t)
    BY <1>2, <2>1, CacheStepOuter
  <2>3. ASSUME NEW u \in Threads PROVE HoldsLocks(u)' /\ Consistent(u)'
    <3>1. HoldsLocks(u) /\ Consistent(u)
      BY DEF LocksHeld, ControlOK
    <3>2. CASE u = t
      BY <2>2, <3>2 DEF Outer, HoldsLocks, Consistent, InBatch, Stealing, AfterFeed
    <3>3. CASE u # t
      <4>1. Untouched(u)
        BY <2>2, <3>3 DEF Outer
      <4>2. \A s \in slabs : s \in slabs' /\ KeyOf(hdr'[s]) = KeyOf(hdr[s])
        BY <2>2 DEF Outer, KeyOf
      <4> QED BY <1>k, <3>1, <4>1, <4>2, OtherThread
    <3> QED BY <3>2, <3>3
  <2> QED BY <2>3 DEF LocksHeld, ControlOK
<1>3. CASE UNCHANGED vars
  <2>1. UNCHANGED <<lock, slabs, hdr, pc, own, key, left, cur, ret, result>>
    BY <1>3 DEF vars, heapVars, batchVars, listVars
  <2>2. ASSUME NEW u \in Threads PROVE HoldsLocks(u)' /\ Consistent(u)'
    <3>1. HoldsLocks(u) /\ Consistent(u)
      BY DEF LocksHeld, ControlOK
    <3>2. Untouched(u)
      BY <2>1 DEF Untouched
    <3> QED BY <1>k, <2>1, <3>1, <3>2, OtherThread
  <2> QED BY <2>2 DEF LocksHeld, ControlOK
<1> QED BY <1>1, <1>2, <1>3 DEF Next, Step
=============================================================================
