----------------------------- MODULE LargeCache -----------------------------
(***************************************************************************)
(* Large blocks (src/src/tls_cache.cpp AllocateLargeCached and             *)
(* DeallocateLargeCached, the large paths of fast_malloc, fast_free and    *)
(* fast_realloc in src/src/fast_alloc.cpp): whole page spans with a header *)
(* that records their length, kept after free in per-thread bins, one per  *)
(* power of two, and resized in place by fast_realloc where the system     *)
(* allows it.                                                              *)
(*                                                                         *)
(* Lengths are in bytes of a small address space, computed modulo SizeMod  *)
(* as size_t is modulo 2^64.  The bins belong to one thread each, so a     *)
(* call is one step; the page heap under them is in PageHeap and appears   *)
(* here as the source of fresh spans.                                      *)
(***************************************************************************)
EXTENDS Integers, Sequences, FiniteSets, SequencesExt

CONSTANTS
  Threads,
  Spans,          \* bound: the spans that can be mapped at a time
  Requests,       \* the sizes the program asks for
  Page,           \* page size
  Header,         \* sizeof(LargeAllocHeader)
  MaxSmall,       \* MaxSmallRequest()
  SizeMod,        \* modulus of size_t
  NumClasses,     \* NUM_LARGE_CLASSES
  CacheBudget, MinEntries, MaxEntries   \* of GetMaxLargeCacheSize

ASSUME LargeCacheAssumption ==
  /\ {Page, Header, MaxSmall, SizeMod, NumClasses, CacheBudget, MinEntries, MaxEntries}
       \subseteq Nat \ {0}
  /\ Requests \subseteq 1 .. SizeMod - 1
  /\ SizeMod % Page = 0 /\ Header < Page /\ MinEntries <= MaxEntries

VARIABLES
  length,       \* true length of each mapped span, 0 for the others
  pool_backed,  \* spans that were carved from a chunk of the span pool
  alloc_size,   \* the length the header (or the free entry) records
  asked,        \* the size promised to the program, 0 for a span it does not hold
  bins,         \* large_free_bins_, per thread and class
  counts,       \* large_counts_, per thread and class
  moving        \* the spans fast_realloc has copied and is about to free, per thread

vars == <<length, pool_backed, alloc_size, asked, bins, counts, moving>>

LargeClasses == 0 .. NumClasses - 1

Live == {s \in Spans : asked[s] > 0}

Moving == UNION {moving[t] : t \in Threads}

Init ==
  /\ length = [s \in Spans |-> 0]
  /\ pool_backed = {}
  /\ alloc_size = [s \in Spans |-> 0]
  /\ asked = [s \in Spans |-> 0]
  /\ bins = [t \in Threads |-> [c \in LargeClasses |-> <<>>]]
  /\ counts = [t \in Threads |-> [c \in LargeClasses |-> 0]]
  /\ moving = [t \in Threads |-> {}]

-----------------------------------------------------------------------------
(* Sizes *)

(* The class of a length: the rounded-up logarithm of its pages. *)
LargeSizeToClass(size) ==
  CHOOSE c \in LargeClasses :
    /\ size <= Page * 2 ^ c \/ c = NumClasses - 1
    /\ \A d \in 0 .. c - 1 : size > Page * 2 ^ d

(* PageRoundUp: (n + page - 1) & ~(page - 1). *)
PageRoundUp(n) == LET m == (n + Page - 1) % SizeMod IN m - (m % Page)

(* The span fast_malloc needs for a request, or 0 when it would overflow. *)
SpanFor(size) ==
  LET n == (size + Header) % SizeMod
  IN IF n < size \/ n > SizeMod - 1 - Page + 1 THEN 0 ELSE PageRoundUp(n)

GetMaxLargeCacheSize(size) ==
  LET n == CacheBudget \div size
  IN IF n < MinEntries THEN MinEntries ELSE IF n > MaxEntries THEN MaxEntries ELSE n

-----------------------------------------------------------------------------
(* AllocateLargeCached and DeallocateLargeCached *)

(* The entries of the bin that are long enough; the walk takes the first. *)
FirstFit(t, size) ==
  LET bin == bins[t][LargeSizeToClass(size)]
      fit == {i \in DOMAIN bin : alloc_size[bin[i]] >= size}
  IN {i \in fit : \A j \in fit : i <= j}

(* Bug: the header of a span from the cache records what was asked for. *)
HeaderAsRequested(s, size) == size

(* header->alloc_size = entry->alloc_size *)
HeaderOfCached(s, size) == alloc_size[s]

(* Bug: the head of the list is unlinked, whatever entry was taken. *)
UnlinkedHead(bin, i) == Tail(bin)

Unlinked(bin, i) == RemoveAt(bin, i)

(* A block of a span of the thread's cache. *)
TakeCached(t, size, n) ==
  LET c == LargeSizeToClass(size)
  IN \E i \in FirstFit(t, size) :
       LET s == bins[t][c][i]
       IN /\ bins' = [bins EXCEPT ![t][c] = Unlinked(@, i)]
          /\ counts' = [counts EXCEPT ![t][c] = @ - 1]
          /\ alloc_size' = [alloc_size EXCEPT ![s] = HeaderOfCached(s, size)]
          /\ asked' = [asked EXCEPT ![s] = n]
          /\ UNCHANGED <<length, pool_backed>>

(* AllocateLarge: a span from the page heap, cut to the size. *)
TakeFresh(t, size, n) ==
  /\ FirstFit(t, size) = {}
  /\ \E s \in {x \in Spans : length[x] = 0} :
       /\ length' = [length EXCEPT ![s] = size]
       /\ pool_backed' \in {pool_backed, pool_backed \cup {s}}
       /\ alloc_size' = [alloc_size EXCEPT ![s] = size]
       /\ asked' = [asked EXCEPT ![s] = n]
  /\ UNCHANGED <<bins, counts>>

(* Bug: the cap admits one entry too many. *)
MayCacheOneMore(t, c, size) == counts[t][c] <= GetMaxLargeCacheSize(size)

MayCache(t, c, size) == counts[t][c] < GetMaxLargeCacheSize(size)

(* DeallocateLargeCached(s), with the length its header records. *)
Release(t, s) ==
  LET size == alloc_size[s]
      c == LargeSizeToClass(size)
  IN IF MayCache(t, c, size)
     THEN /\ bins' = [bins EXCEPT ![t][c] = <<s>> \o @]
          /\ counts' = [counts EXCEPT ![t][c] = @ + 1]
          /\ UNCHANGED <<length, pool_backed, alloc_size>>
     ELSE /\ length' = [length EXCEPT ![s] = @ - size]
          /\ pool_backed' = pool_backed \ {s}
          /\ alloc_size' = [alloc_size EXCEPT ![s] = 0]
          /\ UNCHANGED <<bins, counts>>

-----------------------------------------------------------------------------
(* fast_malloc, fast_free, fast_realloc, thread exit *)

(* A thread in the middle of fast_realloc makes no other call. *)
Idle(t) == moving[t] = {}

(* fast_malloc of a large request; a null return changes nothing. *)
fast_malloc(t, n) ==
  /\ Idle(t) /\ n > MaxSmall /\ SpanFor(n) # 0
  /\ TakeCached(t, SpanFor(n), n) \/ TakeFresh(t, SpanFor(n), n)
  /\ UNCHANGED moving

fast_free(t, s) ==
  /\ Idle(t) /\ s \in Live \ Moving
  /\ Release(t, s)
  /\ asked' = [asked EXCEPT ![s] = 0]
  /\ UNCHANGED moving

(* Bug: the header is counted as usable. *)
OldSizeWithHeader(s) == alloc_size[s]

(* old_size in fast_realloc *)
OldSize(s) == alloc_size[s] - Header

(* needed in fast_realloc: not checked for overflow. *)
Needed(n) == PageRoundUp((n + Header) % SizeMod)

(* The block stays where it is, with the size asked for now. *)
Kept(s, n) ==
  /\ asked' = [asked EXCEPT ![s] = n]
  /\ UNCHANGED <<length, pool_backed, alloc_size, bins, counts, moving>>

(* mremap gave the span its new length, and the header follows. *)
Resized(s, n) ==
  /\ length' = [length EXCEPT ![s] = Needed(n)]
  /\ alloc_size' = [alloc_size EXCEPT ![s] = Needed(n)]
  /\ asked' = [asked EXCEPT ![s] = n]
  /\ UNCHANGED <<pool_backed, bins, counts, moving>>

(* Shrinking by less than a page, or to as many pages, or a span of the      *)
(* pool, or mremap fails: the block is kept.                               *)
ReallocShrink(t, s, n) ==
  /\ Idle(t) /\ s \in Live \ Moving /\ n <= OldSize(s)
  /\ \/ Kept(s, n)
     \/ /\ OldSize(s) - n >= Page /\ Needed(n) < alloc_size[s]
        /\ s \notin pool_backed
        /\ Resized(s, n)

(* Growing within the pages the span has: the block is kept. *)
ReallocSamePages(t, s, n) ==
  /\ Idle(t) /\ s \in Live \ Moving /\ n > OldSize(s)
  /\ Needed(n) <= alloc_size[s]
  /\ Kept(s, n)

ReallocGrow(t, s, n) ==
  /\ Idle(t) /\ s \in Live \ Moving /\ n > OldSize(s)
  /\ Needed(n) > alloc_size[s] /\ s \notin pool_backed
  /\ Resized(s, n)

(* A span of the pool, or mremap fails: fast_malloc and copy ... *)
ReallocCopy(t, s, n) ==
  /\ Idle(t) /\ s \in Live \ Moving /\ n > OldSize(s)
  /\ Needed(n) > alloc_size[s] /\ SpanFor(n) # 0
  /\ TakeCached(t, SpanFor(n), n) \/ TakeFresh(t, SpanFor(n), n)
  /\ moving' = [moving EXCEPT ![t] = {s}]

(* ... then fast_free of the old block. *)
ReallocFree(t) ==
  /\ \E s \in moving[t] : Release(t, s) /\ asked' = [asked EXCEPT ![s] = 0]
  /\ moving' = [moving EXCEPT ![t] = {}]

(* FlushToGlobalHeap gives every cached span back with the length its       *)
(* entry records.                                                          *)
FlushLarge(t) ==
  /\ Idle(t)
  /\ LET S == UNION {ToSet(bins[t][c]) : c \in LargeClasses}
     IN /\ S # {}
        /\ length' = [s \in Spans |-> IF s \in S THEN length[s] - alloc_size[s] ELSE length[s]]
        /\ alloc_size' = [s \in Spans |-> IF s \in S THEN 0 ELSE alloc_size[s]]
        /\ pool_backed' = pool_backed \ S
  /\ bins' = [bins EXCEPT ![t] = [c \in LargeClasses |-> <<>>]]
  /\ counts' = [counts EXCEPT ![t] = [c \in LargeClasses |-> 0]]
  /\ UNCHANGED <<asked, moving>>

Call(t) ==
  \/ ReallocFree(t) \/ FlushLarge(t)
  \/ \E n \in Requests : fast_malloc(t, n)
  \/ \E s \in Spans : fast_free(t, s)
  \/ \E s \in Spans, n \in Requests :
       \/ ReallocShrink(t, s, n) \/ ReallocSamePages(t, s, n)
       \/ ReallocGrow(t, s, n) \/ ReallocCopy(t, s, n)

Next == \E t \in Threads : Call(t)

Spec == Init /\ [][Next]_vars

-----------------------------------------------------------------------------
(* Properties *)

Binned(t, c) == ToSet(bins[t][c])

Cached == UNION {Binned(t, c) : t \in Threads, c \in LargeClasses}

(* A header never lies: the length recorded in a live block or in a free    *)
(* entry is the length of the span, through cache hits of a longer span,   *)
(* resizes and moves; so free, munmap and the statistics use the true one. *)
LengthsTrue == \A s \in Live \cup Cached : alloc_size[s] = length[s] /\ length[s] > 0

(* A mapped span is the program's or in one bin once, never both and never *)
(* forgotten.                                                              *)
SpansAccounted ==
  /\ Live \cap Cached = {}
  /\ {s \in Spans : length[s] > 0} = Live \cup Cached
  /\ FoldSet(LAMBDA t, n : n + FoldSet(LAMBDA c, k : k + Len(bins[t][c]), 0, LargeClasses),
             0, Threads) = Cardinality(Cached)

(* Each bin holds spans of its class, its count is the length of its list,  *)
(* and no list is longer than the cap for the shortest span of the class.  *)
BinsExact ==
  \A t \in Threads, c \in LargeClasses :
    /\ counts[t][c] = Len(bins[t][c])
    /\ \A s \in Binned(t, c) : LargeSizeToClass(alloc_size[s]) = c
    /\ Len(bins[t][c]) <= GetMaxLargeCacheSize(IF c = 0 THEN Page ELSE Page * (2 ^ (c - 1) + 1))

(* A block has room for what was asked, whether it came from fast_malloc,   *)
(* from a longer cached span, or from fast_realloc in place ("Same page    *)
(* count: the span already has room").                                     *)
BlocksFit == \A s \in Live : asked[s] + Header <= length[s]

(* The same for every size that fast_malloc accepts: through hits of longer *)
(* spans, shrinks, growths and copies in any order, a block has room for    *)
(* the size last asked for, unless its computation wraps around.           *)
AcceptedFit == \A s \in Live : SpanFor(asked[s]) # 0 => asked[s] + Header <= length[s]
=============================================================================
