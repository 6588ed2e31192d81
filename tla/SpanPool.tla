------------------------------ MODULE SpanPool ------------------------------
(***************************************************************************)
(* Page spans from the system on Linux (src/src/os_memory.cpp, SpanPool    *)
(* and OSMemory::AllocatePages and FreePages): short spans are carved from *)
(* chunks by bumping a pointer under a spin lock, the others, and all of   *)
(* them once the pool is exhausted, are mappings of their own.  FreePages  *)
(* tells the two apart by looking, without the lock, for a published chunk *)
(* around the pointer: it drops the pages of a pooled span and keeps the   *)
(* mapping, and unmaps any other span.                                     *)
(*                                                                         *)
(* Memory is counted in pages 0 .. NumPages - 1; a span is <<first page,   *)
(* length>>.  The callers of the two functions are the page heap, which    *)
(* splits spans and frees the parts one by one, and fast_realloc, which    *)
(* resizes large blocks in place with mremap.                              *)
(***************************************************************************)
EXTENDS Integers, Sequences, FiniteSets, FiniteSetsExt

CONSTANTS
  Threads, NoThread,
  NumPages,     \* bound: size of the address space
  ChunkSize,    \* kChunkSize
  MaxPooled,    \* kMaxPooledSpan
  MaxChunks,    \* kMaxChunks
  MaxRequest    \* bound: longest span asked for

ASSUME SpanPoolAssumption ==
  /\ NoThread \notin Threads
  /\ {NumPages, ChunkSize, MaxPooled, MaxChunks, MaxRequest} \subseteq Nat \ {0}
  /\ MaxPooled <= ChunkSize

VARIABLES
  chunks,        \* SpanPool::chunks, as many as count: base and bump of each
  lock,          \* SpanPool::lock
  mapped,        \* the pages of the address space that are mapped
  spans,         \* the spans callers hold
  pc,            \* where each thread is
  arg,           \* the span a thread is getting, freeing or resizing
  chunk_pages    \* history: the pages of the chunks mapped so far

vars == <<chunks, lock, mapped, spans, pc, arg, chunk_pages>>

Pages(base, size) == base .. base + size - 1

PagesOf(S) == UNION {Pages(x[1], x[2]) : x \in S}

Init ==
  /\ chunks = <<>>
  /\ lock = NoThread
  /\ mapped = {}
  /\ spans = {}
  /\ pc = [t \in Threads |-> "idle"]
  /\ arg = [t \in Threads |-> <<0, 0>>]
  /\ chunk_pages = {}

Goto(t, to) == pc' = [pc EXCEPT ![t] = to]

(* Where the system can map size more pages. *)
FreeBases(size, used) == {b \in 0 .. NumPages - size : Pages(b, size) \cap used = {}}

(* The thread leaves the allocator; the caller holds the spans S. *)
Return(t, S) ==
  /\ Goto(t, "idle")
  /\ arg' = [arg EXCEPT ![t] = <<0, 0>>]
  /\ spans' = S

-----------------------------------------------------------------------------
(* AllocatePages and Carve *)

IsPooledSpanSize(size) == size # 0 /\ size <= MaxPooled

AllocatePages(t) ==
  /\ pc[t] = "idle"
  /\ \E size \in 1 .. MaxRequest :
       /\ arg' = [arg EXCEPT ![t] = <<0, size>>]
       /\ Goto(t, IF IsPooledSpanSize(size) THEN "carve" ELSE "mmap")
  /\ UNCHANGED <<chunks, lock, mapped, spans, chunk_pages>>

(* Bug: the flag is not looked at. *)
LockFreeAlways == TRUE

LockFree == lock = NoThread

LockCarve(t) ==
  /\ pc[t] = "carve" /\ LockFree
  /\ lock' = t
  /\ Goto(t, "scan")
  /\ UNCHANGED <<chunks, mapped, spans, arg, chunk_pages>>

HasRoom(c, size) == c.bump + size <= c.base + ChunkSize

WithRoom(size) == {i \in DOMAIN chunks : HasRoom(chunks[i], size)}

(* The loop over the chunks: the place found is the bump of the first one  *)
(* with room.                                                              *)
ScanChunks(t) ==
  /\ pc[t] = "scan"
  /\ LET fit == WithRoom(arg[t][2])
     IN IF fit # {}
        THEN arg' = [arg EXCEPT ![t][1] = chunks[Min(fit)].bump] /\ Goto(t, "bump")
        ELSE UNCHANGED arg /\ Goto(t, IF Len(chunks) < MaxChunks THEN "grow" ELSE "full")
  /\ UNCHANGED <<chunks, lock, mapped, spans, chunk_pages>>

(* c.bump = end, and the lock is released. *)
BumpChunk(t) ==
  /\ pc[t] = "bump"
  /\ LET i == Min(WithRoom(arg[t][2]))
     IN chunks' = [chunks EXCEPT ![i].bump = arg[t][1] + arg[t][2]]
  /\ lock' = NoThread
  /\ Return(t, spans \cup {arg[t]})
  /\ UNCHANGED <<mapped, chunk_pages>>

(* mmap of a chunk. *)
MapChunk(t) ==
  /\ pc[t] = "grow"
  /\ \E b \in FreeBases(ChunkSize, mapped) :
       /\ arg' = [arg EXCEPT ![t][1] = b]
       /\ mapped' = mapped \cup Pages(b, ChunkSize)
       /\ chunk_pages' = chunk_pages \cup Pages(b, ChunkSize)
  /\ Goto(t, "publish")
  /\ UNCHANGED <<chunks, lock, spans>>

MapChunkFails(t) ==
  /\ pc[t] = "grow"
  /\ Goto(t, "full")
  /\ UNCHANGED <<chunks, lock, mapped, spans, arg, chunk_pages>>

(* The record is written, count incremented and the lock released. *)
PublishChunk(t) ==
  /\ pc[t] = "publish"
  /\ chunks' = Append(chunks, [base |-> arg[t][1], bump |-> arg[t][1] + arg[t][2]])
  /\ lock' = NoThread
  /\ Return(t, spans \cup {arg[t]})
  /\ UNCHANGED <<mapped, chunk_pages>>

(* Carve returns null: the caller falls back to mmap. *)
CarveFails(t) ==
  /\ pc[t] = "full"
  /\ lock' = NoThread
  /\ Goto(t, "mmap")
  /\ UNCHANGED <<chunks, mapped, spans, arg, chunk_pages>>

MapSpan(t) ==
  /\ pc[t] = "mmap"
  /\ \E b \in FreeBases(arg[t][2], mapped) :
       /\ mapped' = mapped \cup Pages(b, arg[t][2])
       /\ Return(t, spans \cup {<<b, arg[t][2]>>})
  /\ UNCHANGED <<chunks, lock, chunk_pages>>

MapSpanFails(t) ==
  /\ pc[t] = "mmap"
  /\ Return(t, spans)
  /\ UNCHANGED <<chunks, lock, mapped, chunk_pages>>

-----------------------------------------------------------------------------
(* FreePages, and mremap in fast_realloc *)

(* Contains, and IsPoolBacked: one look at count, the records never change. *)
Contains(p) == \E i \in DOMAIN chunks : p \in Pages(chunks[i].base, ChunkSize)

(* Bug: the length decides alone. *)
IsPooledByLength(x) == IsPooledSpanSize(x[2])

IsPooled(x) == IsPooledSpanSize(x[2]) /\ Contains(x[1])

(* FreePages up to its choice.  The caller has given up the span. *)
FreePages(t) ==
  /\ pc[t] = "idle"
  /\ \E x \in spans :
       /\ spans' = spans \ {x}
       /\ arg' = [arg EXCEPT ![t] = x]
       /\ Goto(t, IF IsPooled(x) THEN "madvise" ELSE "munmap")
  /\ UNCHANGED <<chunks, lock, mapped, chunk_pages>>

(* madvise drops what the pages hold and keeps them mapped. *)
DropSpan(t) ==
  /\ pc[t] = "madvise"
  /\ Return(t, spans)
  /\ UNCHANGED <<chunks, lock, mapped, chunk_pages>>

UnmapSpan(t) ==
  /\ pc[t] = "munmap"
  /\ mapped' = mapped \ Pages(arg[t][1], arg[t][2])
  /\ Return(t, spans)
  /\ UNCHANGED <<chunks, lock, chunk_pages>>

(* Bug: fast_realloc resizes every span with mremap. *)
MayRemapAny(p) == TRUE

MayRemap(p) == ~Contains(p)

(* fast_realloc of a large block: a span that is not pool-backed shrinks in *)
(* place, or grows where it is or elsewhere.                               *)
ReallocSpan(t) ==
  /\ pc[t] = "idle"
  /\ \E x \in spans :
       /\ MayRemap(x[1])
       /\ spans' = spans \ {x}
       /\ arg' = [arg EXCEPT ![t] = x]
  /\ Goto(t, "mremap")
  /\ UNCHANGED <<chunks, lock, mapped, chunk_pages>>

Remap(t) ==
  /\ pc[t] = "mremap"
  /\ LET b == arg[t][1]
         old == Pages(b, arg[t][2])
     IN \E size \in 1 .. MaxRequest :
          \E nb \in IF size <= arg[t][2] THEN {b} ELSE FreeBases(size, mapped \ old) :
            /\ mapped' = (mapped \ old) \cup Pages(nb, size)
            /\ Return(t, spans \cup {<<nb, size>>})
  /\ UNCHANGED <<chunks, lock, chunk_pages>>

(* External: the page heap keeps the head and the tail of a span apart. *)
SplitSpan ==
  /\ \E x \in spans : \E k \in 1 .. x[2] - 1 :
       /\ x[2] <= MaxPooled
       /\ spans' = (spans \ {x}) \cup {<<x[1], k>>, <<x[1] + k, x[2] - k>>}
  /\ UNCHANGED <<chunks, lock, mapped, pc, arg, chunk_pages>>

Step(t) ==
  \/ LockCarve(t) \/ ScanChunks(t) \/ BumpChunk(t)
  \/ MapChunk(t) \/ MapChunkFails(t) \/ PublishChunk(t) \/ CarveFails(t)
  \/ MapSpan(t) \/ MapSpanFails(t)
  \/ DropSpan(t) \/ UnmapSpan(t) \/ Remap(t)

Next ==
  \/ SplitSpan
  \/ \E t \in Threads : Step(t) \/ AllocatePages(t) \/ FreePages(t) \/ ReallocSpan(t)

Spec == Init /\ [][Next]_vars

-----------------------------------------------------------------------------
(* Properties *)

(* Spans on their way out of or back into the pool. *)
Carved == {arg[t] : t \in {u \in Threads : pc[u] \in {"bump", "publish"}}}
Leaving == {arg[t] : t \in {u \in Threads : pc[u] \in {"madvise", "munmap", "mremap"}}}

(* No page is handed out twice: the spans of the callers, those being       *)
(* carved and those being freed or resized never overlap, and all of their *)
(* pages are mapped.                                                       *)
SpansDisjoint ==
  /\ PagesOf(spans \cup Carved \cup Leaving) \subseteq mapped
  /\ MapThenSumSet(LAMBDA x : x[2], spans)
       + MapThenSumSet(LAMBDA t : IF pc[t] \in {"bump", "publish", "madvise", "munmap", "mremap"}
                                  THEN arg[t][2] ELSE 0, Threads)
     = Cardinality(PagesOf(spans \cup Carved \cup Leaving))

(* The pool stays whole: neither munmap nor mremap ever takes a page out    *)
(* of a chunk, so bump space is mapped when it is handed out; chunks are   *)
(* never carved past their end, and are never more than the array holds.   *)
ChunksWhole ==
  /\ chunk_pages \subseteq mapped
  /\ Len(chunks) <= MaxChunks
  /\ \A i \in DOMAIN chunks : chunks[i].bump \in chunks[i].base .. chunks[i].base + ChunkSize

(* Nothing leaks: every mapped page belongs to a chunk or to a span that a  *)
(* caller holds or a thread is giving back.                                *)
NothingLeaked == mapped \subseteq chunk_pages \cup PagesOf(spans \cup Leaving)
=============================================================================
