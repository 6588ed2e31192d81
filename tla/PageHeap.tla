------------------------------ MODULE PageHeap ------------------------------
(***************************************************************************)
(* The page-span cache under the slabs and the large blocks                *)
(* (src/src/global_heap.cpp, PageHeapAllocate, PageHeapFree and            *)
(* PurgePageCacheLocked): a bin of free spans per length, each with a spin *)
(* lock, a bitmap of non-empty hints read without a lock, and one global   *)
(* counter of retained bytes that caps the cache.                          *)
(*                                                                         *)
(* A span is <<first page, length>>; a bin is the set of the first pages   *)
(* of its spans (the order of the list is the only thing lost).  Sizes are *)
(* in pages, the counter counts pages modulo CounterMod, as size_t counts  *)
(* bytes modulo 2^64.  A critical section that touches one bin is one      *)
(* step, taken when the bin's lock is free; a split holds the lock of the  *)
(* bin it takes from over several steps.  Every access to the counter and  *)
(* every load of a hint word is a step of its own (the last one of a split *)
(* also releases the lock it ends with).                                   *)
(***************************************************************************)
EXTENDS Integers, FiniteSets, FiniteSetsExt

CONSTANTS
  Threads,
  NoThread,     \* value of a bin lock nobody holds
  NumPages,     \* size of the address space
  MaxCached,    \* MAX_CACHED_PAGES
  MaxRequest,   \* longest span asked for
  WordBits,     \* bins per word of page_nonempty_
  PerBinPages,  \* PAGE_CACHE_PER_BIN_BYTES, in pages
  TotalLimit,   \* PageCacheTotalLimit(), in pages
  CounterMod    \* modulus of page_cache_total_bytes, in pages

ASSUME PageHeapAssumption ==
  /\ NoThread \notin Threads
  /\ {NumPages, MaxCached, MaxRequest, WordBits} \subseteq Nat \ {0}
  /\ {PerBinPages, TotalLimit} \subseteq Nat
  /\ (MaxCached + 1) \div WordBits <= MaxCached \div WordBits  \* as 513 >> 6
  /\ CounterMod \in Nat /\ CounterMod > NumPages + MaxRequest + TotalLimit

VARIABLES
  os,      \* the pages the operating system has
  held,    \* the spans handed out to slabs and large blocks
  bins,    \* page_bins_[p].head: first pages of the cached spans
  count,   \* page_bins_[p].count
  lock,    \* page_bins_[p].lock: the holder
  hint,    \* page_nonempty_, by bin
  total,   \* page_cache_total_bytes
  pc,      \* where each thread is
  size,    \* pages asked for, or length of the span being freed
  at,      \* p: the bin being scanned, split or purged
  word,    \* w: the hint word to load next
  node,    \* the span in the thread's hands: its first page
  purged   \* the purge's detached list: first pages of spans of length at

cache == <<bins, count, lock, hint>>
vars == <<os, held, cache, total, pc, size, at, word, node, purged>>

Pages == 0 .. NumPages - 1
Bins == 1 .. MaxCached
Words == 0 .. MaxCached \div WordBits

PagesOf(s, n) == s .. s + n - 1

BinRetentionCount(p) ==
  LET by_size == PerBinPages \div p IN
  IF by_size < 2 THEN 2 ELSE IF by_size > 64 THEN 64 ELSE by_size

Init ==
  /\ os = Pages
  /\ held = {}
  /\ bins = [p \in Bins |-> {}]
  /\ count = [p \in Bins |-> 0]
  /\ lock = [p \in Bins |-> NoThread]
  /\ hint = [p \in Bins |-> FALSE]
  /\ total = 0
  /\ pc = [t \in Threads |-> "idle"]
  /\ size = [t \in Threads |-> 0]
  /\ at = [t \in Threads |-> 0]
  /\ word = [t \in Threads |-> 0]
  /\ node = [t \in Threads |-> 0]
  /\ purged = [t \in Threads |-> {}]

Goto(t, label) == pc' = [pc EXCEPT ![t] = label]

(* The operation returns; what it left in its local variables is gone. *)
Return(t) ==
  /\ Goto(t, "idle")
  /\ size' = [size EXCEPT ![t] = 0]
  /\ at' = [at EXCEPT ![t] = 0]
  /\ word' = [word EXCEPT ![t] = 0]
  /\ node' = [node EXCEPT ![t] = 0]

Unlocked(p) == lock[p] = NoThread

(* Push span s on bin p: link, count and MarkNonEmpty. *)
Push(p, s) ==
  /\ bins' = [bins EXCEPT ![p] = @ \cup {s}]
  /\ count' = [count EXCEPT ![p] = @ + 1]
  /\ hint' = [hint EXCEPT ![p] = TRUE]

(* Fault: every pop clears the hint. *)
PopClearsHint(p, s) ==
  /\ bins' = [bins EXCEPT ![p] = @ \ {s}]
  /\ count' = [count EXCEPT ![p] = @ - 1]
  /\ hint' = [hint EXCEPT ![p] = FALSE]

(* Pop span s from bin p: unlink, count, MarkMaybeEmpty when none is left. *)
Pop(p, s) ==
  /\ bins' = [bins EXCEPT ![p] = @ \ {s}]
  /\ count' = [count EXCEPT ![p] = @ - 1]
  /\ hint' = [hint EXCEPT ![p] = bins[p] # {s}]

FetchAdd(n) == total' = (total + n) % CounterMod
FetchSub(n) == total' = (total - n) % CounterMod
-----------------------------------------------------------------------------
(* PageHeapAllocate(size) *)

Allocate(t, n) ==
  /\ pc[t] = "idle"
  /\ size' = [size EXCEPT ![t] = n]
  /\ Goto(t, IF n <= MaxCached THEN "exact" ELSE "map")
  /\ UNCHANGED <<os, held, cache, total, at, word, node, purged>>

(* FirstNonEmptyAbove(p) starts at the word of bin p + 1. *)
StartScan(t, p) ==
  /\ at' = [at EXCEPT ![t] = p]
  /\ word' = [word EXCEPT ![t] = (p + 1) \div WordBits]
  /\ Goto(t, "scan")

(* 1) The bin of exactly this size. *)
PopExact(t) ==
  LET n == size[t] IN
  /\ pc[t] = "exact"
  /\ Unlocked(n)
  /\ \/ /\ \E s \in bins[n] : Pop(n, s) /\ node' = [node EXCEPT ![t] = s]
        /\ Goto(t, "hit")
        /\ UNCHANGED <<at, word>>
     \/ /\ bins[n] = {}
        /\ StartScan(t, n)
        /\ UNCHANGED <<bins, count, hint, node>>
  /\ UNCHANGED <<os, held, lock, total, size, purged>>

CountHit(t) ==
  /\ pc[t] = "hit"
  /\ FetchSub(size[t])
  /\ held' = held \cup {<<node[t], size[t]>>}
  /\ Return(t)
  /\ UNCHANGED <<os, cache, purged>>

(* 2) One load of FirstNonEmptyAbove: the lowest hinted bin above at[t] in *)
(* this word, else the next word, else no bin at all.                      *)
FirstNonEmptyAbove(t) ==
  LET hinted == {p \in Bins : /\ hint[p] /\ p > at[t]
                              /\ p \div WordBits = word[t]}
  IN
  /\ pc[t] = "scan"
  /\ \/ /\ hinted # {}
        /\ at' = [at EXCEPT ![t] = Min(hinted)]
        /\ word' = [word EXCEPT ![t] = 0]
        /\ Goto(t, "split")
     \/ /\ hinted = {} /\ word[t] + 1 \in Words
        /\ word' = [word EXCEPT ![t] = @ + 1]
        /\ UNCHANGED <<at, pc>>
     \/ /\ hinted = {} /\ word[t] + 1 \notin Words
        /\ word' = [word EXCEPT ![t] = 0]
        /\ Goto(t, "map")
        /\ UNCHANGED at
  /\ UNCHANGED <<os, held, cache, total, size, node, purged>>

(* Take a longer span and keep the bin's lock; a stale hint is cleared and *)
(* the scan goes on above.                                                 *)
PopLonger(t) ==
  LET p == at[t] IN
  /\ pc[t] = "split"
  /\ Unlocked(p)
  /\ \/ /\ \E s \in bins[p] : Pop(p, s) /\ node' = [node EXCEPT ![t] = s]
        /\ lock' = [lock EXCEPT ![p] = t]
        /\ Goto(t, "split_sub")
        /\ UNCHANGED <<at, word>>
     \/ /\ bins[p] = {}
        /\ hint' = [hint EXCEPT ![p] = FALSE]
        /\ StartScan(t, p)
        /\ UNCHANGED <<bins, count, lock, node>>
  /\ UNCHANGED <<os, held, total, size, purged>>

(* Fault: only the requested part is taken off the counter. *)
SpanBytesUsed(t) == size[t]

SpanBytes(t) == at[t]

CountSplit(t) ==
  /\ pc[t] = "split_sub"
  /\ FetchSub(SpanBytes(t))
  /\ Goto(t, "split_tail")
  /\ UNCHANGED <<os, held, cache, size, at, word, node, purged>>

(* Fault: the tail is placed by its own length. *)
TailByRem(t) == node[t] + at[t] - size[t]

TailOf(t) == node[t] + size[t]

(* Park the tail in the bin of its own length, under that bin's lock. *)
PushTail(t) ==
  LET rem_pages == at[t] - size[t] IN
  /\ pc[t] = "split_tail"
  /\ Unlocked(rem_pages)
  /\ Push(rem_pages, TailOf(t))
  /\ Goto(t, "split_add")
  /\ UNCHANGED <<os, held, lock, total, size, at, word, node, purged>>

(* Fault: the lock of the bin that was split stays taken. *)
LeaveLocked(p) == UNCHANGED lock

UnlockBin(p) == lock' = [lock EXCEPT ![p] = NoThread]

(* Count the tail again and unlock the bin the span came from. *)
FinishSplit(t) ==
  /\ pc[t] = "split_add"
  /\ FetchAdd(at[t] - size[t])
  /\ UnlockBin(at[t])
  /\ held' = held \cup {<<node[t], size[t]>>}
  /\ Return(t)
  /\ UNCHANGED <<os, bins, count, hint, purged>>

(* OSMemory::AllocatePages: any unmapped range, or no memory. *)
AllocatePages(t) ==
  /\ pc[t] = "map"
  /\ \/ \E s \in Pages :
          /\ PagesOf(s, size[t]) \subseteq os
          /\ os' = os \ PagesOf(s, size[t])
          /\ held' = held \cup {<<s, size[t]>>}
     \/ UNCHANGED <<os, held>>
  /\ Return(t)
  /\ UNCHANGED <<cache, total, purged>>
-----------------------------------------------------------------------------
(* PageHeapFree(ptr, size) *)

Release(t, span) ==
  /\ pc[t] = "idle"
  /\ span \in held
  /\ held' = held \ {span}
  /\ node' = [node EXCEPT ![t] = span[1]]
  /\ size' = [size EXCEPT ![t] = span[2]]
  /\ Goto(t, IF span[2] <= MaxCached THEN "reserve" ELSE "unmap")
  /\ UNCHANGED <<os, cache, total, at, word, purged>>

(* Fault: the cap is compared before the span is counted. *)
FitsBefore(t) == total <= TotalLimit

Fits(t) == (total + size[t]) % CounterMod <= TotalLimit

(* Count the span first, and cache it only below the global cap. *)
Reserve(t) ==
  /\ pc[t] = "reserve"
  /\ FetchAdd(size[t])
  /\ Goto(t, IF Fits(t) THEN "insert" ELSE "evict")
  /\ UNCHANGED <<os, held, cache, size, at, word, node, purged>>

Insert(t) ==
  LET n == size[t] IN
  /\ pc[t] = "insert"
  /\ Unlocked(n)
  /\ \/ /\ count[n] < BinRetentionCount(n)
        /\ Push(n, node[t])
        /\ Return(t)
     \/ /\ count[n] >= BinRetentionCount(n)
        /\ Goto(t, "evict")
        /\ UNCHANGED <<bins, count, hint, size, at, word, node>>
  /\ UNCHANGED <<os, held, lock, total, purged>>

Evict(t) ==
  /\ pc[t] = "evict"
  /\ FetchSub(size[t])
  /\ Goto(t, "unmap")
  /\ UNCHANGED <<os, held, cache, size, at, word, node, purged>>

FreePages(t) ==
  /\ pc[t] = "unmap"
  /\ os' = os \cup PagesOf(node[t], size[t])
  /\ Return(t)
  /\ UNCHANGED <<held, cache, total, purged>>
-----------------------------------------------------------------------------
(* PurgePageCacheLocked: bin by bin, detach the list, then free it.        *)

Purge(t) ==
  /\ pc[t] = "idle"
  /\ at' = [at EXCEPT ![t] = 1]
  /\ Goto(t, "detach")
  /\ UNCHANGED <<os, held, cache, total, size, word, node, purged>>

DetachBin(t) ==
  LET p == at[t] IN
  /\ pc[t] = "detach"
  /\ Unlocked(p)
  /\ purged' = [purged EXCEPT ![t] = bins[p]]
  /\ bins' = [bins EXCEPT ![p] = {}]
  /\ count' = [count EXCEPT ![p] = 0]
  /\ hint' = [hint EXCEPT ![p] = FALSE]
  /\ Goto(t, "drop")
  /\ UNCHANGED <<os, held, lock, total, size, at, word, node>>

(* Give one span back to the system, or go to the next bin. *)
DropSpan(t) ==
  /\ pc[t] = "drop"
  /\ \/ /\ \E s \in purged[t] :
             /\ os' = os \cup PagesOf(s, at[t])
             /\ purged' = [purged EXCEPT ![t] = @ \ {s}]
        /\ Goto(t, "drop_sub")
        /\ UNCHANGED <<size, at, word, node>>
     \/ /\ purged[t] = {} /\ at[t] < MaxCached
        /\ at' = [at EXCEPT ![t] = @ + 1]
        /\ Goto(t, "detach")
        /\ UNCHANGED <<os, purged, size, word, node>>
     \/ /\ purged[t] = {} /\ at[t] = MaxCached
        /\ Return(t)
        /\ UNCHANGED <<os, purged>>
  /\ UNCHANGED <<held, cache, total>>

CountDrop(t) ==
  /\ pc[t] = "drop_sub"
  /\ FetchSub(at[t])
  /\ Goto(t, "drop")
  /\ UNCHANGED <<os, held, cache, size, at, word, node, purged>>
-----------------------------------------------------------------------------
Step(t) ==
  \/ PopExact(t) \/ CountHit(t) \/ FirstNonEmptyAbove(t) \/ PopLonger(t)
  \/ CountSplit(t) \/ PushTail(t) \/ FinishSplit(t) \/ AllocatePages(t)
  \/ Reserve(t) \/ Insert(t) \/ Evict(t) \/ FreePages(t)
  \/ DetachBin(t) \/ DropSpan(t) \/ CountDrop(t)

Request(t) ==
  \/ \E n \in 1 .. MaxRequest : Allocate(t, n)
  \/ \E span \in held : Release(t, span)
  \/ Purge(t)

Next == \E t \in Threads : Request(t) \/ Step(t)

Spec == Init /\ [][Next]_vars

-----------------------------------------------------------------------------
(* Properties *)

(* The spans thread t has taken from one owner and not yet given to the    *)
(* next.                                                                   *)
InHand(t) ==
  CASE pc[t] \in {"hit", "split_add", "reserve", "insert", "evict", "unmap"} ->
         {<<node[t], size[t]>>}
    [] pc[t] \in {"split_sub", "split_tail"} -> {<<node[t], at[t]>>}
    [] pc[t] \in {"drop", "drop_sub"} -> purged[t] \X {at[t]}
    [] OTHER -> {}

Cached == UNION {bins[p] \X {p} : p \in Bins}

Covers(span, g) == g \in PagesOf(span[1], span[2])

(* Everybody who believes page g is theirs. *)
Owners(g) ==
  {<<"os", g>> : x \in os \cap {g}}
    \cup {<<"held", span>> : span \in {x \in held : Covers(x, g)}}
    \cup {<<"bin", span>> : span \in {x \in Cached : Covers(x, g)}}
    \cup UNION {{<<"hand", t, span>> : span \in {x \in InHand(t) : Covers(x, g)}}
                : t \in Threads}

(* Every page has one owner at any time: no page is handed out twice, is   *)
(* cached while mapped out, or is leaked, while concurrent splits, frees   *)
(* and purges take spans apart.                                            *)
PagesPartitioned == \A g \in Pages : Cardinality(Owners(g)) = 1

(* Outside a critical section a bin's count is the length of its list, and *)
(* its lock-free hint says whether there is one: "a stale CLEAR hint only  *)
(* costs a fallback mmap" never becomes a bin nobody finds again.          *)
BinsExact ==
  \A p \in Bins :
    /\ count[p] = Cardinality(bins[p])
    /\ hint[p] <=> bins[p] # {}

Size(S) == MapThenSumSet(LAMBDA span : span[2], S)

(* What thread t has still to take off the counter. *)
Owes(t) ==
  CASE pc[t] \in {"hit", "insert", "evict"} -> size[t]
    [] pc[t] = "split_sub" -> at[t]
    [] pc[t] = "split_add" -> size[t] - at[t]
    [] pc[t] = "drop" -> at[t] * Cardinality(purged[t])
    [] pc[t] = "drop_sub" -> at[t] * (Cardinality(purged[t]) + 1)
    [] OTHER -> 0

(* The counter is never off for good: it differs from the pages in the     *)
(* bins only by what the operations in flight have still to add or take    *)
(* off, so with no operation in flight it is exact.                        *)
TotalAccounted ==
  total = (Size(Cached) + MapThenSumSet(Owes, Threads)) % CounterMod

(* What the cap does bound: a split takes its whole span off the counter   *)
(* before it adds the tail back, so concurrent frees may fill the gap, and *)
(* the cache can exceed the cap by one tail for every other thread and no  *)
(* more.                                                                   *)
CapOvershoot ==
  Size(Cached) <= TotalLimit + (Cardinality(Threads) - 1) * (MaxCached - 1)

(* The bin whose lock thread t asks for next, if it asks for one. *)
Wanted(t) ==
  CASE pc[t] \in {"exact", "insert"} -> {size[t]}
    [] pc[t] \in {"split", "detach"} -> {at[t]}
    [] pc[t] = "split_tail" -> {at[t] - size[t]}
    [] OTHER -> {}

(* Nobody waits for ever at a bin: a lock that is taken belongs to a split *)
(* of that bin which is still to unlock it, and the splits, which hold one *)
(* lock and ask for another, never wait in a circle: one of them can go on.*)
SplitsUnblocked ==
  LET taken == {p \in Bins : ~Unlocked(p)} IN
  /\ \A p \in taken : /\ pc[lock[p]] \in {"split_sub", "split_tail", "split_add"}
                      /\ at[lock[p]] = p
  /\ taken # {} => \E p \in taken : Wanted(lock[p]) \cap taken = {}
=============================================================================
