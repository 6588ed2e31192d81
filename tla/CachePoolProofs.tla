--------------------------- MODULE CachePoolProofs ---------------------------
(***************************************************************************)
(* Proofs about CachePool, for any number of threads, caches, pool slots   *)
(* and destructor rounds: a cache has one owner, is mapped as long as it   *)
(* has one, is empty when it changes hands, and is not forgotten.          *)
(***************************************************************************)
EXTENDS CachePool, TLAPS

(* The caches t can reach. *)
Mine(t) == {c \in Caches : Uses(t, c)}

(* The places where GetSlow or TlsDestructor has a cache in hand. *)
InHand == {"new", "flush", "clear", "push", "push_locked", "unmap"}

Labels == InHand \cup {"run", "tsd", "pop", "pop_locked", "map", "gone", "aborted"}

Typed == TypeOK /\ pc \in [Threads -> Labels]

(* The locals of t mean what the place it is at says. *)
LocalsOK(t) ==
  /\ pc[t] \in InHand => mem[t] \in Caches
  /\ pc[t] \notin InHand \cup {"aborted"} => mem[t] = NoCache
  /\ specific[t] \in {NoCache, fast_path_cache[t]}
  /\ pc[t] \in {"pop", "pop_locked", "map", "new", "push", "push_locked", "unmap"} =>
       fast_path_cache[t] = NoCache
  /\ pc[t] \in {"flush", "clear"} => specific[t] = NoCache /\ mem[t] = fast_path_cache[t]

(* Where the cache in hand may still hold blocks. *)
EmptyOK(t) ==
  /\ pc[t] \in {"new", "push", "push_locked"} => mem[t] \notin holding
  /\ pc[t] = "clear" /\ mem[t] \in holding => ~flushed_ok[t] /\ shutting_down
  /\ pc[t] = "unmap" /\ mem[t] \in holding => shutting_down

StackOK ==
  /\ \A i \in 0 .. count - 1 : slots[i] \in Caches
  /\ \A i, j \in 0 .. count - 1 : slots[i] = slots[j] => i = j

(* Every cache is unmapped, parked, with one thread, or lost. *)
Owned ==
  /\ \A t, u \in Threads : t # u => Mine(t) \cap Mine(u) = {}
  /\ \A t \in Threads : Mine(t) \cap Pooled = {} /\ Mine(t) \subseteq mapped
  /\ Pooled \subseteq mapped /\ Pooled \cap holding = {} /\ holding \subseteq mapped

(* The inductive invariant. *)
IInv ==
  /\ Typed /\ StackOK /\ Owned
  /\ \A t \in Threads : LocalsOK(t) /\ EmptyOK(t)
  /\ \A t, u \in Threads : pc[t] = "aborted" => pc[u] = "aborted"
  /\ CachesAccounted

(* A step of t leaves the locals of u alone. *)
SameFor(u) ==
  /\ pc'[u] = pc[u] /\ mem'[u] = mem[u] /\ flushed_ok'[u] = flushed_ok[u]
  /\ specific'[u] = specific[u] /\ fast_path_cache'[u] = fast_path_cache[u]

-----------------------------------------------------------------------------
(* What a step of one thread has to preserve *)

(* t may take unmapped caches and give its own to the pool, to the system   *)
(* or away; it may put blocks into caches of its own.                      *)
LEMMA Frame ==
  ASSUME IInv, NEW t \in Threads, pc[t] # "aborted", pc'[t] # "aborted",
         \A u \in Threads \ {t} : SameFor(u),
         Typed', StackOK', LocalsOK(t)', EmptyOK(t)',
         Mine(t)' \cap Pooled' = {}, Mine(t)' \cup Pooled' \subseteq mapped',
         (Mine(t)' \cup Pooled') \cap mapped \subseteq Mine(t) \cup Pooled,
         mapped \ mapped' \subseteq Mine(t),
         holding' \subseteq (holding \cup Mine(t)) \cap mapped', Pooled' \cap holding' = {},
         shutting_down => shutting_down',
         (Mine(t) \cup Pooled \cup (mapped' \ mapped)) \cap mapped'
           \subseteq Mine(t)' \cup Pooled' \cup lost',
         lost \subseteq lost'
  PROVE IInv'
<1>1. \A u \in Threads \ {t} : Mine(u)' = Mine(u)
  BY DEF SameFor, Mine, Uses, Alive
<1>2. \A u \in Threads : pc[u] # "aborted" /\ pc'[u] # "aborted"
  BY DEF IInv, SameFor
<1>3. ASSUME NEW u \in Threads \ {t} PROVE LocalsOK(u)' /\ EmptyOK(u)'
  <2>1. LocalsOK(u)'
    BY DEF IInv, LocalsOK, SameFor
  <2>2. pc[u] \in InHand => mem[u] \in Mine(u) /\ mem[u] \notin Mine(t)
    BY DEF IInv, Owned, LocalsOK, Mine, Uses, Alive, InHand
  <2>3. pc[u] \in InHand /\ mem[u] \in holding' => mem[u] \in holding
    BY <2>2
  <2>4. /\ pc[u] \in {"new", "push", "push_locked"} => pc[u] \in InHand
        /\ pc[u] = "clear" => pc[u] \in InHand
        /\ pc[u] = "unmap" => pc[u] \in InHand
    BY DEF InHand
  <2>5. EmptyOK(u) /\ SameFor(u)
    BY DEF IInv
  <2> QED BY <2>1, <2>3, <2>4, <2>5, ZenonT(30) DEF EmptyOK, SameFor
<1>4. Owned'
  <2>1. \A u \in Threads \ {t} : Mine(t)' \cap Mine(u)' = {} /\ Mine(u)' \cap Pooled' = {}
                                 /\ Mine(u)' \subseteq mapped'
    BY <1>1 DEF IInv, Owned
  <2>2. \A u, v \in Threads \ {t} : u # v => Mine(u)' \cap Mine(v)' = {}
    BY <1>1 DEF IInv, Owned
  <2> QED BY <2>1, <2>2 DEF Owned
<1>5. CachesAccounted'
  <2> SUFFICES ASSUME NEW c \in mapped' PROVE c \in Pooled' \cup Used' \cup lost'
    BY DEF CachesAccounted
  <2>1. \A u \in Threads : Mine(u)' \subseteq Used'
    BY DEF Mine, Used
  <2>2. CASE c \in mapped
    <3>1. c \in Pooled \cup Used \cup lost
      BY <1>2, <2>2 DEF IInv, CachesAccounted
    <3>2. ASSUME NEW u \in Threads \ {t}, c \in Mine(u) PROVE c \in Used'
      BY <1>1, <2>1, <3>2
    <3>3. c \in Used => \E u \in Threads : c \in Mine(u)
      BY DEF Used, Mine
    <3> QED BY <2>1, <3>1, <3>2, <3>3
  <2>3. CASE c \notin mapped
    BY <2>1, <2>3
  <2> QED BY <2>2, <2>3
<1> QED BY <1>2, <1>3, <1>4, <1>5 DEF IInv

(* A step that leaves the pool and the mappings alone, and after which t    *)
(* can reach the caches it could reach before.                             *)
LEMMA LocalStep ==
  ASSUME IInv, NEW t \in Threads, pc[t] # "aborted", pc'[t] # "aborted",
         \A u \in Threads \ {t} : SameFor(u),
         Typed', LocalsOK(t)', EmptyOK(t)', Mine(t)' = Mine(t),
         UNCHANGED <<slots, count, mapped, shutting_down, lost>>,
         holding' \subseteq holding \cup Mine(t)
  PROVE IInv'
<1>1. StackOK' /\ Pooled' = Pooled
  BY DEF IInv, StackOK, Pooled
<1>2. /\ Mine(t) \cap Pooled = {} /\ Mine(t) \cup Pooled \subseteq mapped
      /\ Pooled \cap holding = {} /\ holding \subseteq mapped
  BY DEF IInv, Owned
<1> QED BY <1>1, <1>2, Frame

-----------------------------------------------------------------------------
(* Allocation *)

LEMMA UseCacheInv ==
  ASSUME IInv, NEW t \in Threads, UseCache(t) PROVE IInv'
<1>0. pc[t] \in {"run", "tsd"} /\ fast_path_cache[t] # NoCache
  BY DEF UseCache, InProgram
<1>1. fast_path_cache[t] \in Mine(t)
  BY <1>0 DEF IInv, Typed, TypeOK, Mine, Uses, Alive
<1>2. /\ holding' = holding \cup {fast_path_cache[t]}
      /\ UNCHANGED <<slots, count, lock, mapped, specific, fast_path_cache, shutting_down, pc, mem,
                     flushed_ok, rounds, lost>>
  BY DEF UseCache, pool, keys, locals
<1>3. Typed'
  BY <1>1, <1>2 DEF IInv, Typed, TypeOK, Mine
<1>4. (\A u \in Threads : SameFor(u)) /\ Mine(t)' = Mine(t)
  BY <1>2 DEF SameFor, Mine, Uses, Alive
<1>5. LocalsOK(t)' /\ EmptyOK(t)'
  BY <1>0, <1>2 DEF IInv, LocalsOK, EmptyOK
<1> QED BY <1>0, <1>1, <1>2, <1>3, <1>4, <1>5, LocalStep

LEMMA GetSlowInv ==
  ASSUME IInv, NEW t \in Threads, GetSlow(t) PROVE IInv'
<1>0. pc[t] \in {"run", "tsd"} /\ fast_path_cache[t] = NoCache
  BY DEF GetSlow, InProgram
<1>1. /\ pc' \in [Threads -> Labels] /\ pc'[t] \in {"map", "pop"}
      /\ \A u \in Threads \ {t} : pc'[u] = pc[u]
  BY DEF GetSlow, IInv, Typed, Labels
<1>2. UNCHANGED <<slots, count, lock, mapped, holding, specific, fast_path_cache, shutting_down, mem,
                  flushed_ok, rounds, lost>>
  BY DEF GetSlow, pool, keys, locals
<1>3. Typed'
  BY <1>1, <1>2 DEF IInv, Typed, TypeOK
<1>4. (\A u \in Threads \ {t} : SameFor(u)) /\ Mine(t)' = Mine(t)
  BY <1>0, <1>1, <1>2 DEF SameFor, Mine, Uses, Alive
<1>5. LocalsOK(t)' /\ EmptyOK(t)'
  BY <1>0, <1>1, <1>2 DEF IInv, LocalsOK, EmptyOK, InHand
<1> QED BY <1>0, <1>1, <1>2, <1>3, <1>4, <1>5, LocalStep

LEMMA LockInv ==
  ASSUME IInv, NEW t \in Threads, LockPop(t) \/ LockPush(t) PROVE IInv'
<1>0. pc[t] \in {"pop", "push"}
  BY DEF LockPop, LockPush, TestAndSet, Goto
<1>1. /\ pc' \in [Threads -> Labels]
      /\ pc'[t] = IF pc[t] = "pop" THEN "pop_locked" ELSE "push_locked"
      /\ \A u \in Threads \ {t} : pc'[u] = pc[u]
  BY DEF LockPop, LockPush, TestAndSet, Goto, IInv, Typed, Labels, InHand
<1>2. /\ lock' = t
      /\ UNCHANGED <<slots, count, mapped, holding, specific, fast_path_cache, shutting_down, mem,
                     flushed_ok, rounds, lost>>
  BY DEF LockPop, LockPush, TestAndSet, keys, locals
<1>3. Typed'
  BY <1>1, <1>2 DEF IInv, Typed, TypeOK
<1>4. (\A u \in Threads \ {t} : SameFor(u)) /\ Mine(t)' = Mine(t)
  BY <1>0, <1>1, <1>2 DEF SameFor, Mine, Uses, Alive
<1>5. LocalsOK(t)' /\ EmptyOK(t)'
  BY <1>0, <1>1, <1>2 DEF IInv, LocalsOK, EmptyOK, InHand
<1> QED BY <1>0, <1>1, <1>2, <1>3, <1>4, <1>5, LocalStep

(* The top of the stack comes off, or nothing does. *)
LEMMA PopLockedInv ==
  ASSUME IInv, NEW t \in Threads, PopLocked(t) PROVE IInv'
<1> DEFINE c == slots[count - 1]
<1>0. pc[t] = "pop_locked" /\ fast_path_cache[t] = NoCache /\ specific[t] = NoCache
  BY DEF PopLocked, Goto, IInv, LocalsOK
<1>1. /\ lock' = NoThread
      /\ UNCHANGED <<slots, mapped, holding, specific, fast_path_cache, shutting_down, flushed_ok,
                     rounds, lost>>
  BY DEF PopLocked, keys
<1>2. /\ pc' \in [Threads -> Labels] /\ \A u \in Threads \ {t} : pc'[u] = pc[u]
      /\ pc'[t] = IF count > 0 THEN "new" ELSE "map"
  BY DEF PopLocked, Goto, IInv, Typed, Labels, InHand
<1>3. CASE ~(count > 0)
  <2>1. UNCHANGED <<mem, count>>
    BY <1>3 DEF PopLocked
  <2>2. Typed'
    BY <1>1, <1>2, <2>1 DEF IInv, Typed, TypeOK
  <2>3. (\A u \in Threads \ {t} : SameFor(u)) /\ Mine(t)' = Mine(t)
    BY <1>0, <1>1, <1>2, <1>3, <2>1 DEF SameFor, Mine, Uses, Alive
  <2>4. LocalsOK(t)' /\ EmptyOK(t)'
    BY <1>0, <1>1, <1>2, <1>3, <2>1 DEF IInv, LocalsOK, EmptyOK, InHand
  <2> QED BY <1>0, <1>1, <1>2, <1>3, <2>1, <2>2, <2>3, <2>4, LocalStep
<1>4. CASE count > 0
  <2>1. /\ count \in 1 .. PoolCap /\ count' = count - 1 /\ c \in Caches /\ c \in Pooled
        /\ \A i \in 0 .. count - 2 : i \in 0 .. count - 1 /\ slots[i] # c
    <3>1. count \in 0 .. PoolCap /\ PoolCap \in Nat /\ StackOK
      BY CachePoolAssumption DEF IInv, Typed, TypeOK
    <3>2. count' = count - 1
      BY <1>4 DEF PopLocked, Popped
    <3>3. count - 1 \in 0 .. count - 1 /\ count \in 1 .. PoolCap
      BY <1>4, <3>1
    <3>4. c \in Caches /\ c \in Pooled
      BY <3>1, <3>3 DEF StackOK, Pooled
    <3>5. ASSUME NEW i \in 0 .. count - 2 PROVE i \in 0 .. count - 1 /\ slots[i] # c
      <4>1. i \in 0 .. count - 1 /\ i # count - 1
        BY <3>1
      <4> QED BY <3>1, <3>3, <4>1 DEF StackOK
    <3> QED BY <3>2, <3>3, <3>4, <3>5
  <2>2. Pooled' = Pooled \ {c}
    BY <1>1, <2>1 DEF Pooled
  <2>3. /\ mem' \in [Threads -> Caches \cup {NoCache}] /\ mem'[t] = c
        /\ \A u \in Threads \ {t} : mem'[u] = mem[u]
    BY <1>4, <2>1 DEF PopLocked, IInv, Typed, TypeOK
  <2> HIDE DEF c
  <2>4. Typed' /\ StackOK'
    <3>1. count' \in 0 .. PoolCap /\ \A i \in 0 .. count' - 1 : i \in 0 .. count - 1
      BY <2>1, CachePoolAssumption
    <3>2. Typed'
      BY <1>1, <1>2, <2>3, <3>1 DEF IInv, Typed, TypeOK
    <3>3. StackOK'
      BY <1>1, <3>1 DEF IInv, StackOK
    <3> QED BY <3>2, <3>3
  <2>5. (\A u \in Threads \ {t} : SameFor(u)) /\ Mine(t)' = {c}
    BY <1>0, <1>1, <1>2, <1>4, <2>1, <2>3, CachePoolAssumption DEF SameFor, Mine, Uses, Alive
  <2>6. Pooled \subseteq mapped /\ Pooled \cap holding = {} /\ holding \subseteq mapped /\ Mine(t) = {}
    BY <1>0, CachePoolAssumption DEF IInv, Owned, LocalsOK, InHand, Mine, Uses
  <2>7. LocalsOK(t)' /\ EmptyOK(t)'
    BY <1>0, <1>1, <1>2, <1>4, <2>1, <2>3, <2>6 DEF LocalsOK, EmptyOK, InHand
  <2> QED BY <1>0, <1>1, <1>2, <1>4, <2>1, <2>2, <2>4, <2>5, <2>6, <2>7, Frame
<1> QED BY <1>3, <1>4

LEMMA MapCacheInv ==
  ASSUME IInv, NEW t \in Threads, MapCache(t) PROVE IInv'
<1>0. pc[t] = "map" /\ fast_path_cache[t] = NoCache /\ specific[t] = NoCache
  BY DEF MapCache, Goto, IInv, LocalsOK
<1>1. UNCHANGED <<slots, count, lock, holding, specific, fast_path_cache, shutting_down, flushed_ok,
                  rounds, lost>>
  BY DEF MapCache, pool, keys
<1>2. /\ pc' \in [Threads -> Labels] /\ pc'[t] = "new"
      /\ \A u \in Threads \ {t} : pc'[u] = pc[u]
  BY DEF MapCache, Goto, IInv, Typed, Labels, InHand
<1>3. PICK c \in Caches \ mapped : mem' = [mem EXCEPT ![t] = c] /\ mapped' = mapped \cup {c}
  BY DEF MapCache
<1>4. /\ mem' \in [Threads -> Caches \cup {NoCache}] /\ mem'[t] = c
      /\ \A u \in Threads \ {t} : mem'[u] = mem[u]
  BY <1>3 DEF IInv, Typed, TypeOK
<1>5. Typed' /\ StackOK' /\ Pooled' = Pooled
  <2>1. Typed'
    BY <1>1, <1>2, <1>3, <1>4 DEF IInv, Typed, TypeOK
  <2> QED BY <1>1, <2>1 DEF IInv, StackOK, Pooled
<1>6. (\A u \in Threads \ {t} : SameFor(u)) /\ Mine(t)' = {c}
  BY <1>0, <1>1, <1>2, <1>4, CachePoolAssumption DEF SameFor, Mine, Uses, Alive
<1>7. Pooled \subseteq mapped /\ Pooled \cap holding = {} /\ holding \subseteq mapped /\ Mine(t) = {}
  BY <1>0, CachePoolAssumption DEF IInv, Owned, LocalsOK, InHand, Mine, Uses
<1>8. LocalsOK(t)' /\ EmptyOK(t)'
  BY <1>0, <1>1, <1>2, <1>4, <1>7 DEF LocalsOK, EmptyOK, InHand
<1> QED BY <1>0, <1>1, <1>2, <1>3, <1>5, <1>6, <1>7, <1>8, Frame

LEMMA NewCacheInv ==
  ASSUME IInv, NEW t \in Threads, NewCache(t) PROVE IInv'
<1>0. pc[t] = "new" /\ fast_path_cache[t] = NoCache /\ specific[t] = NoCache /\ mem[t] \in Caches
  BY DEF NewCache, Goto, IInv, LocalsOK, InHand
<1>1. /\ holding' = holding \ {mem[t]}
      /\ UNCHANGED <<slots, count, lock, mapped, shutting_down, flushed_ok, rounds, lost>>
  BY DEF NewCache, pool
<1>2. /\ pc' \in [Threads -> Labels] /\ pc'[t] \in {"run", "tsd"}
      /\ \A u \in Threads \ {t} : pc'[u] = pc[u]
  BY DEF NewCache, Goto, Back, IInv, Typed, Labels
<1>3. /\ specific' \in [Threads -> Caches \cup {NoCache}] /\ specific'[t] \in {NoCache, mem[t]}
      /\ \A u \in Threads \ {t} : specific'[u] = specific[u]
  BY <1>0 DEF NewCache, IInv, Typed, TypeOK
<1>4. /\ fast_path_cache' \in [Threads -> Caches \cup {NoCache}] /\ fast_path_cache'[t] = mem[t]
      /\ mem' \in [Threads -> Caches \cup {NoCache}] /\ mem'[t] = NoCache
      /\ \A u \in Threads \ {t} : fast_path_cache'[u] = fast_path_cache[u] /\ mem'[u] = mem[u]
  BY <1>0 DEF NewCache, IInv, Typed, TypeOK
<1>5. Typed'
  BY <1>1, <1>2, <1>3, <1>4 DEF IInv, Typed, TypeOK
<1>6. (\A u \in Threads \ {t} : SameFor(u)) /\ Mine(t)' = Mine(t)
  BY <1>0, <1>1, <1>2, <1>3, <1>4, CachePoolAssumption DEF SameFor, Mine, Uses, Alive
<1>7. LocalsOK(t)' /\ EmptyOK(t)'
  BY <1>2, <1>3, <1>4 DEF LocalsOK, EmptyOK, InHand
<1> QED BY <1>0, <1>1, <1>2, <1>5, <1>6, <1>7, LocalStep

-----------------------------------------------------------------------------
(* Thread exit *)

LEMMA EnterDestructorInv ==
  ASSUME IInv, NEW t \in Threads, EnterDestructor(t) PROVE IInv'
<1>0. /\ pc[t] \in {"run", "tsd"} /\ specific[t] \in Caches /\ specific[t] = fast_path_cache[t]
      /\ mem[t] = NoCache /\ rounds[t] < MaxRounds
  BY DEF EnterDestructor, InProgram, IInv, Typed, TypeOK, LocalsOK, InHand
<1>1. UNCHANGED <<slots, count, lock, mapped, holding, fast_path_cache, shutting_down, lost>>
  BY DEF EnterDestructor, pool
<1>2. /\ pc' \in [Threads -> Labels] /\ pc'[t] = IF shutting_down THEN "clear" ELSE "flush"
      /\ \A u \in Threads \ {t} : pc'[u] = pc[u]
  BY DEF EnterDestructor, IInv, Typed, Labels, InHand
<1>3. /\ mem' \in [Threads -> Caches \cup {NoCache}] /\ mem'[t] = specific[t]
      /\ specific' \in [Threads -> Caches \cup {NoCache}] /\ specific'[t] = NoCache
      /\ \A u \in Threads \ {t} : mem'[u] = mem[u] /\ specific'[u] = specific[u]
  BY <1>0 DEF EnterDestructor, IInv, Typed, TypeOK
<1>4. /\ flushed_ok' \in [Threads -> BOOLEAN] /\ flushed_ok'[t] = ~shutting_down
      /\ \A u \in Threads \ {t} : flushed_ok'[u] = flushed_ok[u]
  BY DEF EnterDestructor, FlushedOk, IInv, Typed, TypeOK
<1>5. rounds' \in [Threads -> 0 .. MaxRounds]
  BY <1>0, CachePoolAssumption DEF EnterDestructor, IInv, Typed, TypeOK
<1>6. Typed'
  BY <1>1, <1>2, <1>3, <1>4, <1>5 DEF IInv, Typed, TypeOK
<1>7. (\A u \in Threads \ {t} : SameFor(u)) /\ Mine(t)' = Mine(t)
  BY <1>0, <1>1, <1>2, <1>3, <1>4, CachePoolAssumption DEF SameFor, Mine, Uses, Alive
<1>8. LocalsOK(t)'
  BY <1>0, <1>1, <1>2, <1>3 DEF LocalsOK, InHand
<1>9. EmptyOK(t)'
  BY <1>1, <1>2, <1>4 DEF EmptyOK
<1>10. pc[t] # "aborted" /\ pc'[t] # "aborted"
  BY <1>0, <1>2
<1> QED BY <1>1, <1>6, <1>7, <1>8, <1>9, <1>10, LocalStep

LEMMA FlushInv ==
  ASSUME IInv, NEW t \in Threads, Flush(t) PROVE IInv'
<1>0. pc[t] = "flush"
  BY DEF Flush, Goto
<1>1. /\ holding' = holding \ {mem[t]}
      /\ UNCHANGED <<slots, count, lock, mapped, specific, fast_path_cache, shutting_down, mem,
                     flushed_ok, rounds, lost>>
  BY DEF Flush, pool, keys, locals
<1>2. /\ pc' \in [Threads -> Labels] /\ pc'[t] = "clear"
      /\ \A u \in Threads \ {t} : pc'[u] = pc[u]
  BY DEF Flush, Goto, IInv, Typed, Labels, InHand
<1>3. Typed'
  BY <1>1, <1>2 DEF IInv, Typed, TypeOK
<1>4. (\A u \in Threads \ {t} : SameFor(u)) /\ Mine(t)' = Mine(t)
  BY <1>0, <1>1, <1>2 DEF SameFor, Mine, Uses, Alive
<1>5. LocalsOK(t)' /\ EmptyOK(t)'
  BY <1>0, <1>1, <1>2 DEF IInv, LocalsOK, EmptyOK, InHand
<1> QED BY <1>0, <1>1, <1>2, <1>3, <1>4, <1>5, LocalStep

LEMMA ClearFastPathInv ==
  ASSUME IInv, NEW t \in Threads, ClearFastPath(t) PROVE IInv'
<1>0. pc[t] = "clear" /\ mem[t] \in Caches /\ mem[t] = fast_path_cache[t] /\ specific[t] = NoCache
  BY DEF ClearFastPath, Goto, IInv, LocalsOK, InHand
<1>1. UNCHANGED <<slots, count, lock, mapped, holding, specific, shutting_down, mem, flushed_ok,
                  rounds, lost>>
  BY DEF ClearFastPath, pool, locals
<1>2. /\ pc' \in [Threads -> Labels] /\ pc'[t] = IF flushed_ok[t] THEN "push" ELSE "unmap"
      /\ \A u \in Threads \ {t} : pc'[u] = pc[u]
  BY DEF ClearFastPath, Goto, IInv, Typed, Labels, InHand
<1>3. /\ fast_path_cache' \in [Threads -> Caches \cup {NoCache}] /\ fast_path_cache'[t] = NoCache
      /\ \A u \in Threads \ {t} : fast_path_cache'[u] = fast_path_cache[u]
  BY DEF ClearFastPath, Cleared, IInv, Typed, TypeOK
<1>4. Typed'
  BY <1>1, <1>2, <1>3 DEF IInv, Typed, TypeOK
<1>5. (\A u \in Threads \ {t} : SameFor(u)) /\ Mine(t)' = Mine(t)
  BY <1>0, <1>1, <1>2, <1>3, CachePoolAssumption DEF SameFor, Mine, Uses, Alive
<1>6. LocalsOK(t)'
  BY <1>0, <1>1, <1>2, <1>3 DEF LocalsOK, InHand
<1>7. EmptyOK(t)'
  BY <1>0, <1>1, <1>2 DEF IInv, EmptyOK
<1>8. pc[t] # "aborted" /\ pc'[t] # "aborted"
  BY <1>0, <1>2
<1> QED BY <1>1, <1>4, <1>5, <1>6, <1>7, <1>8, LocalStep

(* The cache goes on the stack, or stays in hand when the pool is full. *)
LEMMA PushLockedInv ==
  ASSUME IInv, NEW t \in Threads, PushLocked(t) PROVE IInv'
<1> DEFINE c == mem[t]
<1>0. /\ pc[t] = "push_locked" /\ c \in Caches /\ c \notin holding
      /\ fast_path_cache[t] = NoCache /\ specific[t] = NoCache
  BY DEF PushLocked, Goto, IInv, LocalsOK, EmptyOK, InHand
<1>1. /\ lock' = NoThread
      /\ UNCHANGED <<mapped, holding, specific, fast_path_cache, shutting_down, flushed_ok, rounds, lost>>
  BY DEF PushLocked, LockAfterPush, keys
<1>2. /\ pc' \in [Threads -> Labels] /\ \A u \in Threads \ {t} : pc'[u] = pc[u]
      /\ pc'[t] \in IF HasRoom THEN {"run", "tsd"} ELSE {"unmap"}
  BY DEF PushLocked, Goto, Back, WhenFull, IInv, Typed, Labels, InHand
<1>3. Mine(t) = {c} /\ c \in mapped /\ c \notin Pooled
  BY <1>0, CachePoolAssumption DEF IInv, Owned, Mine, Uses, Alive
<1>4. CASE ~HasRoom
  <2>1. UNCHANGED <<slots, count, mem>>
    BY <1>4 DEF PushLocked
  <2>2. Typed'
    BY <1>1, <1>2, <2>1 DEF IInv, Typed, TypeOK
  <2>3. (\A u \in Threads \ {t} : SameFor(u)) /\ Mine(t)' = Mine(t)
    BY <1>0, <1>1, <1>2, <1>4, <2>1 DEF SameFor, Mine, Uses, Alive
  <2>4. LocalsOK(t)' /\ EmptyOK(t)'
    BY <1>0, <1>1, <1>2, <1>4, <2>1 DEF LocalsOK, EmptyOK, InHand
  <2> QED BY <1>0, <1>1, <1>2, <1>4, <2>1, <2>2, <2>3, <2>4, LocalStep
<1>5. CASE HasRoom
  <2>1. /\ count \in 0 .. PoolCap - 1 /\ count' = count + 1 /\ count' \in 0 .. PoolCap
        /\ slots \in [0 .. PoolCap - 1 -> Caches \cup {NoCache}] /\ PoolCap \in Nat
    BY <1>5, CachePoolAssumption DEF PushLocked, HasRoom, IInv, Typed, TypeOK
  <2>2. /\ slots' \in [0 .. PoolCap - 1 -> Caches \cup {NoCache}] /\ slots'[count] = c
        /\ \A i \in 0 .. count - 1 : slots'[i] = slots[i]
    <3>1. slots' = [i \in DOMAIN slots \cup {count} |-> IF i = count THEN c ELSE slots[i]]
      BY <1>5 DEF PushLocked
    <3>2. DOMAIN slots \cup {count} = 0 .. PoolCap - 1 /\ \A i \in 0 .. count - 1 : i \in 0 .. PoolCap - 1 /\ i # count
      BY <2>1
    <3> HIDE DEF c
    <3> QED BY <1>0, <2>1, <3>1, <3>2
  <2>3. /\ mem' \in [Threads -> Caches \cup {NoCache}] /\ mem'[t] = NoCache
        /\ \A u \in Threads \ {t} : mem'[u] = mem[u]
    BY <1>5 DEF PushLocked, IInv, Typed, TypeOK
  <2> HIDE DEF c
  <2>4. \A i \in 0 .. count' - 1 : i = count \/ i \in 0 .. count - 1
    BY <2>1
  <2>5. Pooled' = Pooled \cup {c}
    <3>1. count \in 0 .. count' - 1 /\ \A i \in 0 .. count - 1 : i \in 0 .. count' - 1
      BY <2>1
    <3> QED BY <2>2, <2>4, <3>1 DEF Pooled
  <2>6. Typed'
    BY <1>1, <1>2, <2>1, <2>2, <2>3 DEF IInv, Typed, TypeOK
  <2>7. StackOK'
    <3>1. \A i \in 0 .. count - 1 : slots[i] \in Caches /\ slots[i] # c
      BY <1>3 DEF IInv, StackOK, Pooled
    <3>2. \A i \in 0 .. count' - 1 : slots'[i] \in Caches
      BY <1>0, <2>2, <2>4, <3>1
    <3>3. \A i, j \in 0 .. count - 1 : slots[i] = slots[j] => i = j
      BY DEF IInv, StackOK
    <3>4. \A i, j \in 0 .. count' - 1 : slots'[i] = slots'[j] => i = j
      BY <2>2, <2>4, <3>1, <3>3
    <3> QED BY <3>2, <3>4 DEF StackOK
  <2>8. (\A u \in Threads \ {t} : SameFor(u)) /\ Mine(t)' = {}
    BY <1>0, <1>1, <1>2, <1>5, <2>3, CachePoolAssumption DEF SameFor, Mine, Uses, Alive
  <2>9. Pooled \subseteq mapped /\ Pooled \cap holding = {} /\ holding \subseteq mapped
    BY DEF IInv, Owned
  <2>10. LocalsOK(t)' /\ EmptyOK(t)'
    BY <1>0, <1>1, <1>2, <1>5, <2>3 DEF LocalsOK, EmptyOK, InHand
  <2>11. pc[t] # "aborted" /\ pc'[t] # "aborted" /\ c \notin holding
    BY <1>0, <1>2, <1>5
  <2> QED BY <1>1, <1>3, <2>5, <2>6, <2>7, <2>8, <2>9, <2>10, <2>11, Frame
<1> QED BY <1>4, <1>5

LEMMA UnmapCacheInv ==
  ASSUME IInv, NEW t \in Threads, UnmapCache(t) PROVE IInv'
<1> DEFINE c == mem[t]
<1>0. /\ pc[t] = "unmap" /\ c \in Caches
      /\ fast_path_cache[t] = NoCache /\ specific[t] = NoCache
  BY DEF UnmapCache, Goto, IInv, LocalsOK, InHand
<1>1. /\ mapped' = mapped \ {c} /\ holding' = holding \ {c}
      /\ UNCHANGED <<slots, count, lock, specific, fast_path_cache, shutting_down, flushed_ok, rounds,
                     lost>>
  BY DEF UnmapCache, pool, keys
<1>2. /\ pc' \in [Threads -> Labels] /\ pc'[t] \in {"run", "tsd"}
      /\ \A u \in Threads \ {t} : pc'[u] = pc[u]
  BY DEF UnmapCache, Goto, Back, IInv, Typed, Labels
<1>3. /\ mem' \in [Threads -> Caches \cup {NoCache}] /\ mem'[t] = NoCache
      /\ \A u \in Threads \ {t} : mem'[u] = mem[u]
  BY DEF UnmapCache, IInv, Typed, TypeOK
<1>4. Mine(t) = {c} /\ c \in mapped /\ c \notin Pooled
  BY <1>0, CachePoolAssumption DEF IInv, Owned, Mine, Uses, Alive
<1> HIDE DEF c
<1>5. Typed' /\ StackOK' /\ Pooled' = Pooled
  <2>1. Typed'
    BY <1>1, <1>2, <1>3 DEF IInv, Typed, TypeOK
  <2> QED BY <1>1, <2>1 DEF IInv, StackOK, Pooled
<1>6. (\A u \in Threads \ {t} : SameFor(u)) /\ Mine(t)' = {}
  BY <1>0, <1>1, <1>2, <1>3, CachePoolAssumption DEF SameFor, Mine, Uses, Alive
<1>7. Pooled \subseteq mapped /\ Pooled \cap holding = {} /\ holding \subseteq mapped
  BY DEF IInv, Owned
<1>8. LocalsOK(t)' /\ EmptyOK(t)'
  BY <1>0, <1>1, <1>2, <1>3 DEF LocalsOK, EmptyOK, InHand
<1>9. pc[t] # "aborted" /\ pc'[t] # "aborted"
  BY <1>0, <1>2
<1> QED BY <1>1, <1>4, <1>5, <1>6, <1>7, <1>8, <1>9, Frame

LEMMA ThreadGoneInv ==
  ASSUME IInv, NEW t \in Threads, ThreadGone(t) PROVE IInv'
<1>0. /\ pc[t] \in {"run", "tsd"} /\ mem[t] = NoCache
      /\ specific[t] \in {NoCache, fast_path_cache[t]}
  BY DEF ThreadGone, InProgram, IInv, LocalsOK, InHand
<1>1. /\ lost' = lost \cup ({fast_path_cache[t]} \ {NoCache})
      /\ UNCHANGED <<slots, count, lock, mapped, holding, specific, fast_path_cache, shutting_down, mem,
                     flushed_ok, rounds>>
  BY DEF ThreadGone, pool, keys, locals
<1>2. /\ pc' \in [Threads -> Labels] /\ pc'[t] = "gone"
      /\ \A u \in Threads \ {t} : pc'[u] = pc[u]
  BY DEF ThreadGone, IInv, Typed, Labels
<1>3. Typed' /\ StackOK' /\ Pooled' = Pooled
  <2>1. Typed'
    BY <1>1, <1>2 DEF IInv, Typed, TypeOK
  <2> QED BY <1>1, <2>1 DEF IInv, StackOK, Pooled
<1>4. (\A u \in Threads \ {t} : SameFor(u)) /\ Mine(t)' = {}
  BY <1>1, <1>2 DEF SameFor, Mine, Uses, Alive
<1>5. Mine(t) \subseteq lost'
  BY <1>0, <1>1, CachePoolAssumption DEF Mine, Uses
<1>6. Pooled \subseteq mapped /\ Pooled \cap holding = {} /\ holding \subseteq mapped
  BY DEF IInv, Owned
<1>7. LocalsOK(t)' /\ EmptyOK(t)'
  BY <1>0, <1>1, <1>2 DEF LocalsOK, EmptyOK, InHand
<1> QED BY <1>0, <1>1, <1>2, <1>3, <1>4, <1>5, <1>6, <1>7, Frame

LEMMA ThreadStartInv ==
  ASSUME IInv, NEW t \in Threads, ThreadStart(t) PROVE IInv'
<1>0. pc[t] = "gone" /\ mem[t] = NoCache
  BY DEF ThreadStart, Goto, IInv, LocalsOK, InHand
<1>1. UNCHANGED <<slots, count, lock, mapped, holding, shutting_down, mem, lost>>
  BY DEF ThreadStart, pool
<1>2. /\ pc' \in [Threads -> Labels] /\ pc'[t] = "run"
      /\ \A u \in Threads \ {t} : pc'[u] = pc[u]
  BY DEF ThreadStart, Goto, IInv, Typed, Labels
<1>3. /\ specific' \in [Threads -> Caches \cup {NoCache}] /\ specific'[t] = NoCache
      /\ fast_path_cache' \in [Threads -> Caches \cup {NoCache}] /\ fast_path_cache'[t] = NoCache
      /\ flushed_ok' \in [Threads -> BOOLEAN] /\ rounds' \in [Threads -> 0 .. MaxRounds]
  BY CachePoolAssumption DEF ThreadStart, IInv, Typed, TypeOK
<1>4. \A u \in Threads \ {t} : SameFor(u)
  BY <1>1, <1>2 DEF ThreadStart, SameFor, IInv, Typed, TypeOK
<1>5. Typed'
  BY <1>1, <1>2, <1>3 DEF IInv, Typed, TypeOK
<1>6. Mine(t)' = {} /\ Mine(t) = {}
  BY <1>0, <1>1, <1>3, CachePoolAssumption DEF Mine, Uses, Alive
<1>7. LocalsOK(t)' /\ EmptyOK(t)'
  BY <1>0, <1>1, <1>2, <1>3 DEF LocalsOK, EmptyOK, InHand
<1> QED BY <1>0, <1>1, <1>2, <1>4, <1>5, <1>6, <1>7, LocalStep

-----------------------------------------------------------------------------
(* The end of the process *)

(* No thread takes a step after abort(), and none uses a cache. *)
LEMMA AbortInv ==
  ASSUME IInv, NEW t \in Threads, Abort(t) PROVE IInv'
<1>1. /\ \A u \in Threads : pc'[u] = "aborted"
      /\ pc' \in [Threads -> Labels]
      /\ UNCHANGED <<slots, count, lock, mapped, holding, specific, fast_path_cache, shutting_down, mem,
                     flushed_ok, rounds, lost>>
  BY DEF Abort, Labels, pool, keys, locals
<1>2. Typed' /\ StackOK' /\ Pooled' = Pooled
  <2>1. Typed'
    BY <1>1 DEF IInv, Typed, TypeOK
  <2> QED BY <1>1, <2>1 DEF IInv, StackOK, Pooled
<1>3. \A u \in Threads : Mine(u)' = {}
  BY <1>1 DEF Mine, Uses, Alive
<1>4. Owned'
  BY <1>1, <1>2, <1>3 DEF IInv, Owned
<1>5. \A u \in Threads : LocalsOK(u)' /\ EmptyOK(u)'
  BY <1>1 DEF IInv, LocalsOK, EmptyOK, InHand
<1>6. CachesAccounted'
  BY <1>1 DEF CachesAccounted
<1> QED BY <1>1, <1>2, <1>4, <1>5, <1>6 DEF IInv

LEMMA ShutdownInv ==
  ASSUME IInv, Shutdown \/ UNCHANGED vars PROVE IInv'
<1>1. /\ shutting_down => shutting_down'
      /\ shutting_down' \in BOOLEAN
      /\ UNCHANGED <<slots, count, lock, mapped, holding, specific, fast_path_cache, pc, mem,
                     flushed_ok, rounds, lost>>
  BY DEF Shutdown, vars, pool, keys, locals, IInv, Typed, TypeOK
<1>2. Typed' /\ StackOK' /\ Pooled' = Pooled
  <2>1. Typed'
    BY <1>1 DEF IInv, Typed, TypeOK
  <2> QED BY <1>1, <2>1 DEF IInv, StackOK, Pooled
<1>3. \A u \in Threads : Mine(u)' = Mine(u)
  BY <1>1 DEF Mine, Uses, Alive
<1>4. Owned'
  BY <1>1, <1>2, <1>3 DEF IInv, Owned
<1>5. \A u \in Threads : LocalsOK(u)' /\ EmptyOK(u)'
  <2>1. \A u \in Threads : LocalsOK(u)'
    BY <1>1 DEF IInv, LocalsOK
  <2>2. \A u \in Threads : EmptyOK(u)'
    BY <1>1, ZenonT(30) DEF IInv, EmptyOK
  <2> QED BY <2>1, <2>2
<1>6. CachesAccounted'
  BY <1>1, <1>2 DEF IInv, CachesAccounted, Used, Uses, Alive
<1> QED BY <1>1, <1>2, <1>4, <1>5, <1>6 DEF IInv

-----------------------------------------------------------------------------
(* The theorems *)

(* Thread caches change hands safely: the invariant ties the pool, the      *)
(* mappings and the locals of GetSlow and TlsDestructor together, for any  *)
(* number of threads that start and end while the process shuts down.      *)
THEOREM PoolInvariant == Spec => []IInv
<1>1. Init => IInv
  <2> SUFFICES ASSUME Init PROVE IInv
    OBVIOUS
  <2>1. Typed
    <3>1. 0 \in 0 .. PoolCap /\ 0 \in 0 .. MaxRounds
      BY CachePoolAssumption
    <3>2. /\ slots \in [0 .. PoolCap - 1 -> Caches \cup {NoCache}]
          /\ {specific, fast_path_cache, mem} \subseteq [Threads -> Caches \cup {NoCache}]
          /\ flushed_ok \in [Threads -> BOOLEAN] /\ rounds \in [Threads -> 0 .. MaxRounds]
      BY <3>1 DEF Init
    <3>3. pc \in [Threads -> Labels]
      BY DEF Init, Labels
    <3> QED BY <3>1, <3>2, <3>3 DEF Init, Typed, TypeOK
  <2>2. StackOK /\ Pooled = {}
    BY DEF Init, StackOK, Pooled
  <2>3. \A t \in Threads : Mine(t) = {} /\ LocalsOK(t) /\ EmptyOK(t) /\ pc[t] = "run"
    BY CachePoolAssumption DEF Init, Mine, Uses, LocalsOK, EmptyOK, InHand
  <2> QED BY <2>1, <2>2, <2>3 DEF Init, IInv, Owned, CachesAccounted
<1>2. IInv /\ [Next]_vars => IInv'
  <2> SUFFICES ASSUME IInv, [Next]_vars PROVE IInv'
    OBVIOUS
  <2>1. CASE Shutdown \/ UNCHANGED vars
    BY <2>1, ShutdownInv
  <2>2. ASSUME NEW t \in Threads, Thread(t) PROVE IInv'
    BY <2>2, UseCacheInv, GetSlowInv, LockInv, PopLockedInv, MapCacheInv, AbortInv, NewCacheInv,
       EnterDestructorInv, FlushInv, ClearFastPathInv, PushLockedInv, UnmapCacheInv, ThreadGoneInv,
       ThreadStartInv DEF Thread, Step
  <2> QED BY <2>1, <2>2 DEF Next
<1> QED BY <1>1, <1>2, PTL DEF Spec

(* No two threads share a cache and none uses a parked one. *)
THEOREM CacheHasOneOwner == Spec => []OneOwner
<1>1. IInv => OneOwner
  <2> SUFFICES ASSUME IInv PROVE OneOwner
    OBVIOUS
  <2>1. \A t, u \in Threads, c \in Caches : Uses(t, c) /\ Uses(u, c) => t = u
    BY DEF IInv, Owned, Mine
  <2>2. Pooled \cap Used = {}
    BY DEF IInv, Owned, Mine, Used
  <2>3. count <= PoolCap /\ \A i, j \in 0 .. count - 1 : slots[i] = slots[j] => i = j
    BY CachePoolAssumption DEF IInv, Typed, TypeOK, StackOK
  <2>4. \A t \in Threads : specific[t] \in {NoCache, fast_path_cache[t]}
    BY DEF IInv, LocalsOK
  <2> QED BY <2>1, <2>2, <2>3, <2>4 DEF OneOwner
<1> QED BY <1>1, PoolInvariant, PTL

(* A cache some thread or the pool can reach is never unmapped. *)
THEOREM ReachableIsMapped == Spec => []OwnedIsMapped
<1>1. IInv => OwnedIsMapped
  BY DEF IInv, Owned, Mine, Used, OwnedIsMapped
<1> QED BY <1>1, PoolInvariant, PTL

(* Blocks never stay behind in a cache that changes hands. *)
THEOREM ParkedIsEmpty == Spec => []BlocksFlushed
<1>1. IInv => BlocksFlushed
  BY DEF IInv, Owned, EmptyOK, BlocksFlushed
<1> QED BY <1>1, PoolInvariant, PTL

(* No mapped cache is forgotten but with a thread that is gone. *)
THEOREM NoCacheForgotten == Spec => []CachesAccounted
<1>1. IInv => CachesAccounted
  BY DEF IInv
<1> QED BY <1>1, PoolInvariant, PTL
=============================================================================
