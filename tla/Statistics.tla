----------------------------- MODULE Statistics -----------------------------
(***************************************************************************)
(* The statistics of live memory (src/src/tls_cache.h CountSmallAlloc to    *)
(* CountRealloc, src/src/tls_cache.cpp FlushStats, src/src/debug_aid.cpp    *)
(* namespace stats): every thread counts in a batch of its own and adds the *)
(* batch to shared atomic counters when it has counted FlushOps operations, *)
(* when it asks for statistics and when it ends.                           *)
(*                                                                         *)
(* A flush is not atomic: it adds the four parts of the batch one after    *)
(* another, blocks before bytes, and each allocation part then reads the   *)
(* counter of blocks and raises its peak; the peak of bytes is kept in the *)
(* same way and left out, as are the totals of calls.  Counters are        *)
(* unsigned numbers modulo CounterMod, as size_t is modulo 2^64.  Any      *)
(* thread may free a block.                                                *)
(* What is counted for a large block is the length in its header, which    *)
(* fast_realloc changes when mremap resizes the span.  The build is one    *)
(* without the registry, which counts usable bytes.                        *)
(***************************************************************************)
EXTENDS Integers, FiniteSets, FiniteSetsExt

CONSTANTS
  Threads,
  Small, Large,    \* bound: the blocks there are
  SmallBytes,      \* usable bytes of a small block
  LargeBytes,      \* usable bytes a large block may have
  MaxCalls,        \* bound: calls of the API
  FlushOps,        \* kStatsFlushOps
  CounterMod       \* modulus of size_t

Blocks == Small \cup Large

ASSUME StatisticsAssumption ==
  /\ IsFiniteSet(Threads) /\ IsFiniteSet(Blocks) /\ Small \cap Large = {}
  /\ SmallBytes \in Nat \ {0} /\ LargeBytes \subseteq Nat \ {0}
  /\ MaxCalls \in Nat /\ FlushOps \in Nat \ {0} /\ CounterMod \in Nat \ {0}

VARIABLES
  bytes,        \* bytes of each live block, 0 for the others
  batch,        \* LocalStats of each thread
  flush,        \* the flush each thread is in
  live_blocks, live_bytes,            \* g_live_blocks, g_live_bytes
  peak_live_blocks,                   \* g_peak_live_blocks
  resized,      \* history: has mremap changed the length of a live block?
  calls         \* bound: calls so far

counters == <<live_blocks, live_bytes, peak_live_blocks>>
vars == <<bytes, batch, flush, counters, resized, calls>>

(* The parts of a batch in the order in which FlushStats adds them. *)
Parts == <<"small_alloc", "small_free", "large_alloc", "large_free">>

IsAlloc(part) == part \in {"small_alloc", "large_alloc"}

EmptyBatch == [n |-> [p \in {Parts[i] : i \in 1 .. 4} |-> 0],
               bytes |-> [p \in {Parts[i] : i \in 1 .. 4} |-> 0],
               ops |-> 0]

(* i: the part a flush is at, 0 when there is no flush; b: the load.          *)
NoFlush == [i |-> 0, step |-> "blocks", b |-> 0]

Init ==
  /\ bytes = [x \in Blocks |-> 0]
  /\ batch = [t \in Threads |-> EmptyBatch]
  /\ flush = [t \in Threads |-> NoFlush]
  /\ live_blocks = 0 /\ live_bytes = 0
  /\ peak_live_blocks = 0
  /\ resized = FALSE
  /\ calls = 0

-----------------------------------------------------------------------------
(* Counting *)

Running(t) == flush[t].i = 0

Calls(t) == Running(t) /\ calls < MaxCalls /\ calls' = calls + 1

FirstPart == [NoFlush EXCEPT !.i = 1]

(* CountSmallAlloc, CountSmallFree, CountLargeAlloc, CountLargeFree *)
Counts(t, part, n) ==
  /\ batch' = [batch EXCEPT ![t].n[part] = @ + 1, ![t].bytes[part] = @ + n, ![t].ops = @ + 1]
  /\ flush' = [flush EXCEPT ![t] = IF batch[t].ops + 1 >= FlushOps THEN FirstPart ELSE NoFlush]

(* fast_malloc *)
Malloc(t, x, n) ==
  /\ Calls(t) /\ bytes[x] = 0
  /\ bytes' = [bytes EXCEPT ![x] = n]
  /\ Counts(t, IF x \in Small THEN "small_alloc" ELSE "large_alloc", n)
  /\ UNCHANGED <<counters, resized>>

(* fast_free, and the end of a fast_realloc that moved the block. *)
Free(t, x) ==
  /\ Calls(t) /\ bytes[x] > 0
  /\ bytes' = [bytes EXCEPT ![x] = 0]
  /\ Counts(t, IF x \in Small THEN "small_free" ELSE "large_free", bytes[x])
  /\ UNCHANGED <<counters, resized>>

(* fast_realloc that keeps the block: CountRealloc, and for a large block    *)
(* perhaps another length.                                                 *)
Realloc(t, x, n) ==
  /\ Calls(t) /\ bytes[x] > 0
  /\ x \in Small => n = bytes[x]
  /\ bytes' = [bytes EXCEPT ![x] = n]
  /\ resized' = (resized \/ n # bytes[x])
  /\ batch' = [batch EXCEPT ![t].ops = @ + 1]
  /\ flush' = [flush EXCEPT ![t] = IF batch[t].ops + 1 >= FlushOps THEN FirstPart ELSE NoFlush]
  /\ UNCHANGED counters

-----------------------------------------------------------------------------
(* FlushStats *)

(* fast_alloc_stats and ~TLSCache flush what there is. *)
FlushStats(t) ==
  /\ Running(t) /\ batch[t].ops > 0
  /\ flush' = [flush EXCEPT ![t] = FirstPart]
  /\ UNCHANGED <<bytes, batch, counters, resized, calls>>

Part(t) == Parts[flush[t].i]

Flushes(t, step) == ~Running(t) /\ flush[t].step = step

(* fetch_add in BumpLive, fetch_sub in DropLive *)
Added(part, n) == IF IsAlloc(part) THEN n ELSE -n

(* Bug: the batch is kept after it was added. *)
BatchKept(t) == [batch[t] EXCEPT !.ops = 0]

(* stats_ = LocalStats{} *)
BatchAfterFlush(t) == EmptyBatch

(* On to the next part, and after the last one the batch starts again. *)
PartDone(t) ==
  IF flush[t].i < 4
  THEN flush' = [flush EXCEPT ![t] = [NoFlush EXCEPT !.i = flush[t].i + 1]] /\ UNCHANGED batch
  ELSE /\ flush' = [flush EXCEPT ![t] = NoFlush]
       /\ batch' = [batch EXCEPT ![t] = BatchAfterFlush(t)]

AddBlocks(t) ==
  /\ Flushes(t, "blocks")
  /\ live_blocks' = (live_blocks + Added(Part(t), batch[t].n[Part(t)])) % CounterMod
  /\ flush' = [flush EXCEPT ![t].step = "bytes"]
  /\ UNCHANGED <<bytes, batch, live_bytes, peak_live_blocks, resized, calls>>

AddBytes(t) ==
  /\ Flushes(t, "bytes")
  /\ live_bytes' = (live_bytes + Added(Part(t), batch[t].bytes[Part(t)])) % CounterMod
  /\ IF IsAlloc(Part(t))
     THEN flush' = [flush EXCEPT ![t].step = "load_blocks"] /\ UNCHANGED batch
     ELSE PartDone(t)
  /\ UNCHANGED <<bytes, live_blocks, peak_live_blocks, resized, calls>>

(* The load of g_live_blocks in BumpLive. *)
LoadBlocks(t) ==
  /\ Flushes(t, "load_blocks")
  /\ flush' = [flush EXCEPT ![t].step = "peak_blocks", ![t].b = live_blocks]
  /\ UNCHANGED <<bytes, batch, counters, resized, calls>>

(* Bug: the peak is stored without a comparison. *)
PeakStored(peak, n) == n

(* compare_exchange_weak until the peak is not below the value: the loop    *)
(* ends in one step that leaves the larger of the two.                     *)
Raised(peak, n) == IF n > peak THEN n ELSE peak

RaisePeakBlocks(t) ==
  /\ Flushes(t, "peak_blocks")
  /\ peak_live_blocks' = Raised(peak_live_blocks, flush[t].b)
  /\ PartDone(t)
  /\ UNCHANGED <<bytes, live_blocks, live_bytes, resized, calls>>

Step(t) ==
  \/ FlushStats(t) \/ AddBlocks(t) \/ AddBytes(t)
  \/ LoadBlocks(t) \/ RaisePeakBlocks(t)

Next ==
  \E t \in Threads :
    \/ Step(t)
    \/ \E x \in Small : Malloc(t, x, SmallBytes) \/ Realloc(t, x, SmallBytes)
    \/ \E x \in Large, n \in LargeBytes : Malloc(t, x, n) \/ Realloc(t, x, n)
    \/ \E x \in Blocks : Free(t, x)

Spec == Init /\ [][Next]_vars

-----------------------------------------------------------------------------
(* Properties *)

(* Has the flush of t already added part i to the counter of blocks, of bytes? *)
BlocksAdded(t, i) == i < flush[t].i \/ (i = flush[t].i /\ flush[t].step # "blocks")
BytesAdded(t, i) == i < flush[t].i \/ (i = flush[t].i /\ flush[t].step \notin {"blocks", "bytes"})

(* What the batch of t still owes the counters. *)
OwedBlocks(t) ==
  MapThenSumSet(LAMBDA i : IF BlocksAdded(t, i) THEN 0 ELSE Added(Parts[i], batch[t].n[Parts[i]]),
                1 .. 4)
OwedBytes(t) ==
  MapThenSumSet(LAMBDA i : IF BytesAdded(t, i) THEN 0 ELSE Added(Parts[i], batch[t].bytes[Parts[i]]),
                1 .. 4)

(* No count is lost or added twice: at every step of every flush, in any   *)
(* interleaving and with frees of other threads' blocks, g_live_blocks and  *)
(* what the batches still hold make the number of live blocks, modulo the   *)
(* width of the counter, so a counter that wrapped below zero comes back.   *)
(* The same holds of g_live_bytes ("Count the span's usable bytes so alloc  *)
(* and free statistics balance") until mremap changes the length of a      *)
(* large block between its allocation and its free.                        *)
LiveConserved ==
  /\ (live_blocks + MapThenSumSet(OwedBlocks, Threads)) % CounterMod
       = Cardinality({x \in Blocks : bytes[x] > 0})
  /\ ~resized => (live_bytes + MapThenSumSet(OwedBytes, Threads)) % CounterMod
                   = MapThenSumSet(LAMBDA x : bytes[x], Blocks)

(* When no flush is in progress the peak is no lower than the counter,     *)
(* unless the counter has wrapped below zero: of two flushes that raise the *)
(* peak at once neither loses the other's raise.                           *)
PeakCovers ==
  (\A t \in Threads : Running(t)) /\ live_blocks < CounterMod \div 2
    => live_blocks <= peak_live_blocks
=============================================================================
