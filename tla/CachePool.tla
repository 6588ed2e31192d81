----------------------------- MODULE CachePool -----------------------------
(***************************************************************************)
(* The life of thread caches (src/src/tls_cache.cpp): a thread without a   *)
(* cache takes a retired one from CachePool or maps a new one (GetSlow),   *)
(* hangs it on the pthread key and on fast_path_cache, and when the thread *)
(* ends TlsDestructor flushes it and parks it in the pool, or gives it to  *)
(* the operating system.  Shutdown may begin at any time (the atexit       *)
(* handler of GlobalHeap).                                                 *)
(*                                                                         *)
(* A cache is a piece of mapped memory that may hold blocks; what happens  *)
(* inside it is in TLSCache.  The pool's count is read once without the    *)
(* lock.  pthread runs the destructor, then the destructors of other       *)
(* libraries, which may allocate and so create a second cache, and repeats *)
(* while the key has a value, at most MaxRounds times.                     *)
(***************************************************************************)
EXTENDS Integers

CONSTANTS
  Threads, NoThread,
  Caches, NoCache,    \* bound: the memory there is for caches
  PoolCap,            \* kCachePoolCap
  MaxRounds           \* PTHREAD_DESTRUCTOR_ITERATIONS

ASSUME CachePoolAssumption ==
  /\ NoThread \notin Threads /\ NoCache \notin Caches
  /\ PoolCap \in Nat \ {0} /\ MaxRounds \in Nat \ {0}

VARIABLES
  slots, count, lock,   \* CachePool
  mapped,               \* caches whose memory is mapped
  holding,              \* caches that hold blocks
  specific,             \* value of the pthread key, per thread
  fast_path_cache,      \* per thread
  shutting_down,
  pc,                   \* where each thread is
  mem,                  \* GetSlow's mem, TlsDestructor's cache
  flushed_ok,           \* TlsDestructor's local
  rounds,               \* destructor rounds done by an ending thread
  lost                  \* history: caches left behind by threads that are gone

pool == <<slots, count, lock>>
keys == <<specific, fast_path_cache>>
locals == <<mem, flushed_ok, rounds>>
vars == <<pool, mapped, holding, keys, shutting_down, pc, locals, lost>>

Init ==
  /\ slots = [i \in 0 .. PoolCap - 1 |-> NoCache]
  /\ count = 0
  /\ lock = NoThread
  /\ mapped = {} /\ holding = {}
  /\ specific = [t \in Threads |-> NoCache]
  /\ fast_path_cache = [t \in Threads |-> NoCache]
  /\ shutting_down = FALSE
  /\ pc = [t \in Threads |-> "run"]
  /\ mem = [t \in Threads |-> NoCache]
  /\ flushed_ok = [t \in Threads |-> TRUE]
  /\ rounds = [t \in Threads |-> 0]
  /\ lost = {}

Goto(t, from, to) == pc[t] = from /\ pc' = [pc EXCEPT ![t] = to]

(* Program code runs in t: its own, or a TSD destructor of another library. *)
InProgram(t) == pc[t] \in {"run", "tsd"}

(* Where t goes on when GetSlow or TlsDestructor is done. *)
Back(t) == IF rounds[t] = 0 THEN "run" ELSE "tsd"

-----------------------------------------------------------------------------
(* Allocation: GetFast, GetSlow *)

(* GetFast finds the cache of the thread; the call may leave blocks in it. *)
UseCache(t) ==
  /\ InProgram(t)
  /\ fast_path_cache[t] # NoCache
  /\ holding' = holding \cup {fast_path_cache[t]}
  /\ UNCHANGED <<pool, mapped, keys, shutting_down, pc, locals, lost>>

(* GetSlow up to Pop's look at the count without the lock.  The branch for  *)
(* a value behind the key is never taken: see OneOwner.                    *)
GetSlow(t) ==
  /\ InProgram(t)
  /\ fast_path_cache[t] = NoCache /\ specific[t] = NoCache
  /\ pc' = [pc EXCEPT ![t] = IF count = 0 THEN "map" ELSE "pop"]
  /\ UNCHANGED <<pool, mapped, holding, keys, shutting_down, locals, lost>>

TestAndSet(t, from, to) ==
  /\ lock = NoThread
  /\ Goto(t, from, to)
  /\ lock' = t

LockPop(t) ==
  /\ TestAndSet(t, "pop", "pop_locked")
  /\ UNCHANGED <<slots, count, mapped, holding, keys, shutting_down, locals, lost>>

(* Bug: the popped cache stays on the stack. *)
PoppedKept == count

Popped == count - 1

(* Pop under the lock, and its release. *)
PopLocked(t) ==
  /\ Goto(t, "pop_locked", IF count > 0 THEN "new" ELSE "map")
  /\ IF count > 0
     THEN mem' = [mem EXCEPT ![t] = slots[count - 1]] /\ count' = Popped
     ELSE UNCHANGED <<mem, count>>
  /\ lock' = NoThread
  /\ UNCHANGED <<slots, mapped, holding, keys, shutting_down, flushed_ok, rounds, lost>>

(* The pool was empty: AllocatePages. *)
MapCache(t) ==
  /\ Goto(t, "map", "new")
  /\ \E c \in Caches \ mapped :
       mem' = [mem EXCEPT ![t] = c] /\ mapped' = mapped \cup {c}
  /\ UNCHANGED <<pool, holding, keys, shutting_down, flushed_ok, rounds, lost>>

(* No memory is left for a cache: abort() ends every thread. *)
Abort(t) ==
  /\ pc[t] = "map" /\ mapped = Caches
  /\ pc' = [u \in Threads |-> "aborted"]
  /\ UNCHANGED <<pool, mapped, holding, keys, shutting_down, locals, lost>>

(* The constructor makes the cache empty, whatever the memory held;         *)
(* pthread_setspecific may fail, fast_path_cache is set all the same.       *)
NewCache(t) ==
  /\ Goto(t, "new", Back(t))
  /\ holding' = holding \ {mem[t]}
  /\ \E set \in BOOLEAN :
       specific' = IF set THEN [specific EXCEPT ![t] = mem[t]] ELSE specific
  /\ fast_path_cache' = [fast_path_cache EXCEPT ![t] = mem[t]]
  /\ mem' = [mem EXCEPT ![t] = NoCache]
  /\ UNCHANGED <<pool, mapped, shutting_down, flushed_ok, rounds, lost>>

-----------------------------------------------------------------------------
(* Thread exit: TlsDestructor, RecycleOrFreeCache, Push *)

(* Bug: shutdown skips the flush and parks the cache all the same. *)
FlushedOkAlways == TRUE

FlushedOk == ~shutting_down

(* pthread clears the key and calls the destructor with its old value.     *)
(* The destructor reads whether the process is shutting down.              *)
EnterDestructor(t) ==
  /\ InProgram(t)
  /\ specific[t] # NoCache /\ rounds[t] < MaxRounds
  /\ pc' = [pc EXCEPT ![t] = IF shutting_down THEN "clear" ELSE "flush"]
  /\ mem' = [mem EXCEPT ![t] = specific[t]]
  /\ specific' = [specific EXCEPT ![t] = NoCache]
  /\ flushed_ok' = [flushed_ok EXCEPT ![t] = FlushedOk]
  /\ rounds' = [rounds EXCEPT ![t] = @ + 1]
  /\ UNCHANGED <<pool, mapped, holding, fast_path_cache, shutting_down, lost>>

(* ~TLSCache: every block goes back to the global heap. *)
Flush(t) ==
  /\ Goto(t, "flush", "clear")
  /\ holding' = holding \ {mem[t]}
  /\ UNCHANGED <<pool, mapped, keys, shutting_down, locals, lost>>

(* Bug: fast_path_cache keeps the cache that is given away. *)
ClearedLate(t) == fast_path_cache

Cleared(t) == [fast_path_cache EXCEPT ![t] = NoCache]

ClearFastPath(t) ==
  /\ Goto(t, "clear", IF flushed_ok[t] THEN "push" ELSE "unmap")
  /\ fast_path_cache' = Cleared(t)
  /\ UNCHANGED <<pool, mapped, holding, specific, shutting_down, locals, lost>>

LockPush(t) ==
  /\ TestAndSet(t, "push", "push_locked")
  /\ UNCHANGED <<slots, count, mapped, holding, keys, shutting_down, locals, lost>>

HasRoom == count < PoolCap

(* Bug: a full pool keeps its lock. *)
LockAfterPushFull(t) == IF HasRoom THEN NoThread ELSE t

LockAfterPush(t) == NoThread

(* Bug: a cache the pool has no room for is forgotten. *)
ForgetWhenFull(t) == Back(t)

WhenFull(t) == "unmap"

(* Push under the lock, and its release. *)
PushLocked(t) ==
  /\ Goto(t, "push_locked", IF HasRoom THEN Back(t) ELSE WhenFull(t))
  /\ lock' = LockAfterPush(t)
  /\ IF HasRoom
     THEN /\ slots' = [i \in DOMAIN slots \cup {count} |-> IF i = count THEN mem[t] ELSE slots[i]]
          /\ count' = count + 1
          /\ mem' = [mem EXCEPT ![t] = NoCache]
     ELSE UNCHANGED <<slots, count, mem>>
  /\ UNCHANGED <<mapped, holding, keys, shutting_down, flushed_ok, rounds, lost>>

(* FreePages, from RecycleOrFreeCache or from a full pool. *)
UnmapCache(t) ==
  /\ Goto(t, "unmap", Back(t))
  /\ mapped' = mapped \ {mem[t]} /\ holding' = holding \ {mem[t]}
  /\ mem' = [mem EXCEPT ![t] = NoCache]
  /\ UNCHANGED <<pool, keys, shutting_down, flushed_ok, rounds, lost>>

(* The thread is gone once no key has a value, or after MaxRounds rounds.  *)
ThreadGone(t) ==
  /\ InProgram(t)
  /\ specific[t] = NoCache \/ rounds[t] = MaxRounds
  /\ pc' = [pc EXCEPT ![t] = "gone"]
  /\ lost' = lost \cup ({fast_path_cache[t]} \ {NoCache})
  /\ UNCHANGED <<pool, mapped, holding, keys, shutting_down, locals>>

(* A new thread: fresh thread-local variables. *)
ThreadStart(t) ==
  /\ Goto(t, "gone", "run")
  /\ specific' = [specific EXCEPT ![t] = NoCache]
  /\ fast_path_cache' = [fast_path_cache EXCEPT ![t] = NoCache]
  /\ rounds' = [rounds EXCEPT ![t] = 0]
  /\ flushed_ok' = [flushed_ok EXCEPT ![t] = TRUE]
  /\ UNCHANGED <<pool, mapped, holding, shutting_down, mem, lost>>

(* The atexit handler of GlobalHeap. *)
Shutdown ==
  /\ ~shutting_down
  /\ shutting_down' = TRUE
  /\ UNCHANGED <<pool, mapped, holding, keys, pc, locals, lost>>

(* What t does inside the allocator once it has been called. *)
Step(t) ==
  \/ LockPop(t) \/ PopLocked(t) \/ MapCache(t) \/ Abort(t) \/ NewCache(t)
  \/ Flush(t) \/ ClearFastPath(t)
  \/ LockPush(t) \/ PushLocked(t) \/ UnmapCache(t)

Thread(t) ==
  \/ Step(t)
  \/ UseCache(t) \/ GetSlow(t)
  \/ EnterDestructor(t) \/ ThreadGone(t) \/ ThreadStart(t)

Next == Shutdown \/ \E t \in Threads : Thread(t)

Spec == Init /\ [][Next]_vars

(* Threads that hold the lock go on running, and the spin loops, which      *)
(* yield, do not lose the race for the lock for ever.                      *)
LiveSpec ==
  Spec /\ \A t \in Threads : WF_vars(Step(t)) /\ SF_vars(LockPop(t)) /\ SF_vars(LockPush(t))

-----------------------------------------------------------------------------
(* Properties *)

Alive(t) == pc[t] \notin {"gone", "aborted"}

Uses(t, c) == Alive(t) /\ c \in {fast_path_cache[t], specific[t], mem[t]}

Pooled == {slots[i] : i \in 0 .. count - 1}

Used == {c \in Caches : \E t \in Threads : Uses(t, c)}

(* The pool never outgrows its array and holds caches below its count. *)
TypeOK ==
  /\ slots \in [0 .. PoolCap - 1 -> Caches \cup {NoCache}]
  /\ count \in 0 .. PoolCap
  /\ lock \in Threads \cup {NoThread}
  /\ mapped \subseteq Caches /\ holding \subseteq Caches /\ lost \subseteq Caches
  /\ {specific, fast_path_cache, mem} \subseteq [Threads -> Caches \cup {NoCache}]
  /\ shutting_down \in BOOLEAN
  /\ flushed_ok \in [Threads -> BOOLEAN]
  /\ rounds \in [Threads -> 0 .. MaxRounds]

(* A cache has one owner: no two threads use one cache, no thread uses a   *)
(* cache that is parked, a cache is parked once and within the array of    *)
(* the pool, and the key and fast_path_cache of a thread never name two     *)
(* different caches.                                                       *)
OneOwner ==
  /\ \A t, u \in Threads, c \in Caches : Uses(t, c) /\ Uses(u, c) => t = u
  /\ Pooled \cap Used = {}
  /\ count <= PoolCap /\ \A i, j \in 0 .. count - 1 : slots[i] = slots[j] => i = j
  /\ \A t \in Threads : specific[t] \in {NoCache, fast_path_cache[t]}

(* A parked cache, the cache behind fast_path_cache or the key, and a       *)
(* cache on its way are mapped memory: a destructor of another library     *)
(* that allocates after TlsDestructor never uses memory given away.        *)
OwnedIsMapped == Pooled \cup Used \subseteq mapped

(* Cached blocks survive the cache: a parked cache, or one about to be      *)
(* constructed anew, holds none, and one that is unmapped holds some only  *)
(* when the process is shutting down.                                      *)
BlocksFlushed ==
  /\ Pooled \cap holding = {}
  /\ \A t \in Threads :
       /\ pc[t] = "new" => mem[t] \notin holding
       /\ pc[t] = "unmap" /\ mem[t] \in holding => shutting_down

(* No cache leaks but through a failed pthread_setspecific or an allocation *)
(* in the last destructor round: mapped memory is parked, in use, or was   *)
(* still on the fast path of a thread when it ended.                       *)
CachesAccounted ==
  (\A t \in Threads : pc[t] # "aborted") => mapped \subseteq Pooled \cup Used \cup lost

(* Neither a new thread nor an ending one gets stuck in the allocator:      *)
(* GetSlow and TlsDestructor return, shutdown or not.                      *)
CallsReturn ==
  \A t \in Threads : Alive(t) /\ ~InProgram(t) ~> InProgram(t) \/ ~Alive(t)
=============================================================================
