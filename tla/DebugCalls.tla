----------------------------- MODULE DebugCalls -----------------------------
(***************************************************************************)
(* The calls of the public interface in a debug build                      *)
(* (src/src/fast_alloc.cpp with FASTALLOC_DEBUG): fast_malloc, fast_free,   *)
(* fast_realloc and fast_aligned_alloc with the bookkeeping around them,   *)
(* that is the record of every block in the allocation registry, the red   *)
(* zone behind it, and the poison of freed blocks.  A check that fails     *)
(* reports a violation and ends the process.  The program is correct: it   *)
(* frees and resizes what it holds, once, and writes only the bytes it     *)
(* asked for, so every report is a false one.                              *)
(*                                                                         *)
(* A call is a sequence of steps, one for each operation of the heap and   *)
(* of the registry, because the calls of other threads come in between;    *)
(* what a thread does to a block of its own in between needs no step.  The *)
(* heap is a supply of addresses (TLSCache and LargeCache show that it     *)
(* hands out no block twice), the registry is the map of AbstractRegistry, *)
(* which AllocRegistry implements.  Addresses and sizes are numbers, and   *)
(* the bytes of a block are what the checks look at: from where on it is   *)
(* red zone, and whether the sampled windows hold bytes of the program.    *)
(***************************************************************************)
EXTENDS SizeClasses, FiniteSets

CONSTANTS
  Threads,
  SmallBlocks,     \* user addresses of the small blocks
  ClassIndex,      \* the size class of each of them
  LargeBlocks,     \* user addresses where a large span may be mapped
  Spans,           \* usable sizes of large spans
  Requests,        \* the sizes the program asks for
  NoPtr, NoInfo

Blocks == SmallBlocks \cup LargeBlocks

(* The over-aligned pointer fast_aligned_alloc makes of a raw one. *)
Aligned(raw) == AlignDown(raw + STASH + Alignment - 1)

Pointers == Blocks \cup {Aligned(b) : b \in Blocks}

(* The raw pointer: itself, or the one kept in the stash. *)
Raw(p) == IF p \in Blocks THEN p ELSE CHOOSE b \in Blocks : Aligned(b) = p

(* AllocRecord: the fields the calls read. *)
Infos == [size : Nat, usable : Nat]

ASSUME DebugCallsAssumption ==
  /\ Blocks \subseteq Nat /\ SmallBlocks \cap LargeBlocks = {}
  /\ \A a, b \in Blocks : Aligned(a) \notin Blocks /\ (Aligned(a) = Aligned(b) => a = b)
  /\ ClassIndex \in [SmallBlocks -> Nat] /\ \A b \in SmallBlocks : UsableSize(ClassIndex[b]) > 0
  /\ Spans \subseteq Nat \ {0} /\ Requests \subseteq Nat \ {0}
  /\ NoPtr \notin Pointers /\ NoInfo \notin Infos

VARIABLES
  usable,     \* usable bytes of the block at each address, 0 when the heap has it
  zone,       \* offset from which the rest of the block is red zone
  dirty,      \* blocks whose sampled windows hold bytes of the program
  live,       \* the registry: what is recorded of each pointer
  asked,      \* the size of each pointer the program holds, 0 for the others
  call,       \* the call each thread is in
  report,     \* the violation reported, "none" while the process runs
  overtaken   \* history: has the heap reused an address before its record was moved?

vars == <<usable, zone, dirty, live, asked, call, report, overtaken>>

Registry == INSTANCE AbstractRegistry WITH reply <- report, NoReply <- "none"

(* A thread outside the allocator.  at: the next step; ptr: the pointer the  *)
(* step is about; size: what the program asked for; over_aligned: by which  *)
(* function; old: a pointer still to be freed by fast_realloc; ret: the     *)
(* pointer to be returned; info: a record between its Erase and its Insert. *)
Outside == [at |-> "outside", ptr |-> NoPtr, size |-> 0, over_aligned |-> FALSE,
            old |-> NoPtr, ret |-> NoPtr, info |-> NoInfo]

Init ==
  /\ usable = [b \in Blocks |-> 0]
  /\ zone = [b \in Blocks |-> 0]
  /\ dirty = {}
  /\ live = [p \in Pointers |-> NoInfo]
  /\ asked = [p \in Pointers |-> 0]
  /\ call = [t \in Threads |-> Outside]
  /\ report = "none"
  /\ overtaken = FALSE

-----------------------------------------------------------------------------
(* Steps *)

Enters(t) == report = "none" /\ call[t] = Outside

At(t, step) == report = "none" /\ call[t].at = step

GoesOn(t, f) == call' = [call EXCEPT ![t] = f]

(* The size fast_malloc is called with. *)
RawSize(size, over_aligned) == IF over_aligned THEN size + Alignment + STASH ELSE size

(* The blocks the heap may serve a request with, and their usable bytes; a  *)
(* large request may be served with a longer span of the cache.            *)
Serves(size) ==
  IF size <= MaxSmallRequest
  THEN {<<b, UsableSize(ClassIndex[b])>> : b \in {x \in SmallBlocks : ClassIndex[x] = RequestToClass(size)}}
  ELSE LargeBlocks \X {u \in Spans : u >= LargeUsable(size)}

(* The heap hands out b: has a call that moved a block away from there not  *)
(* yet moved its record?                                                   *)
Overtakes(b) ==
  overtaken' = (overtaken \/ \E u \in Threads : call[u].at = "remapped" /\ call[u].ptr = b)

(* AllocateBlock or AllocateLargeCached, the first step of fast_malloc; a   *)
(* null return changes nothing.                                            *)
Take(t, size, over_aligned, old) ==
  \E s \in Serves(RawSize(size, over_aligned)) :
    /\ usable[s[1]] = 0
    /\ usable' = [usable EXCEPT ![s[1]] = s[2]]
    /\ Overtakes(s[1])
    /\ GoesOn(t, [Outside EXCEPT !.at = "register", !.ptr = s[1], !.size = size,
                                 !.over_aligned = over_aligned, !.old = old])
    /\ UNCHANGED <<zone, dirty, live, report>>

(* The pointer goes to the program, which writes every byte it asked for.   *)
(* z: the red zones before that.                                           *)
Returns(t, p, size, z) ==
  LET end == p - Raw(p) + size
  IN /\ asked' = [asked EXCEPT ![p] = size]
     /\ zone' = [z EXCEPT ![Raw(p)] = IF @ < end THEN end ELSE @]
     /\ dirty' = dirty \cup {Raw(p)}
     /\ GoesOn(t, Outside)

(* fast_malloc or fast_aligned_alloc is done: it was the program's call, or  *)
(* that of fast_realloc, which frees the old block next.                   *)
Delivers(t, p, z) ==
  LET f == call[t]
  IN IF f.old = NoPtr
     THEN Returns(t, p, f.size, z)
     ELSE /\ zone' = z
          /\ GoesOn(t, [Outside EXCEPT !.at = IF f.over_aligned THEN "free" ELSE "copy",
                                       !.ptr = f.old, !.ret = p, !.size = f.size])
          /\ UNCHANGED <<asked, dirty>>

-----------------------------------------------------------------------------
(* fast_malloc and fast_aligned_alloc *)

fast_malloc(t, n) == Enters(t) /\ Take(t, n, FALSE, NoPtr) /\ UNCHANGED asked

fast_aligned_alloc(t, n) == Enters(t) /\ Take(t, n, TRUE, NoPtr) /\ UNCHANGED asked

(* CheckReusePattern, and RegistryInsertOrFail for a pointer that is live. *)
AllocVerdict(b) ==
  IF b \in dirty THEN "PoisonDisturbed" ELSE IF Registry!IsLive(b) THEN "DoubleFree" ELSE "none"

(* DebugOnAllocSmall, DebugOnAllocLarge *)
DebugOnAlloc(t) ==
  /\ At(t, "register")
  /\ LET f == call[t]
         size == RawSize(f.size, f.over_aligned)
         z == [zone EXCEPT ![f.ptr] = size]
     IN /\ report' = AllocVerdict(f.ptr)
        /\ IF report' # "none"
           THEN UNCHANGED <<zone, dirty, live, asked, call>>
           ELSE /\ live' = Registry!AfterInsert(f.ptr, [size |-> size, usable |-> usable[f.ptr]])
                /\ IF f.over_aligned
                   THEN /\ zone' = z
                        /\ GoesOn(t, [f EXCEPT !.at = "align"])
                        /\ UNCHANGED <<asked, dirty>>
                   ELSE Delivers(t, f.ptr, z)
  /\ UNCHANGED <<usable, overtaken>>

(* Bug: the record of the raw pointer stays. *)
AlignKeepsRecord(p) == live

(* What Erase of the raw pointer leaves, in fast_aligned_alloc. *)
AlignErases(p) == Registry!AfterErase(p)

(* fast_aligned_alloc: Erase of the raw pointer ... *)
AlignErase(t) ==
  /\ At(t, "align")
  /\ LET f == call[t]
     IN /\ live' = AlignErases(f.ptr)
        /\ IF Registry!IsLive(f.ptr)
           THEN /\ GoesOn(t, [f EXCEPT !.at = "aligned", !.info = [live[f.ptr] EXCEPT !.size = f.size]])
                /\ UNCHANGED <<zone, dirty, asked>>
           ELSE Delivers(t, Aligned(f.ptr), zone)
  /\ UNCHANGED <<usable, report, overtaken>>

(* ... and Insert of the aligned one. *)
AlignInsert(t) ==
  /\ At(t, "aligned")
  /\ live' = Registry!AfterInsert(Aligned(call[t].ptr), call[t].info)
  /\ Delivers(t, Aligned(call[t].ptr), zone)
  /\ UNCHANGED <<usable, report, overtaken>>

-----------------------------------------------------------------------------
(* fast_free *)

fast_free(t, p) ==
  /\ Enters(t) /\ asked[p] > 0
  /\ asked' = [asked EXCEPT ![p] = 0]
  /\ GoesOn(t, [Outside EXCEPT !.at = "free", !.ptr = p])
  /\ UNCHANGED <<usable, zone, dirty, live, report, overtaken>>

(* Bug: the raw record gets the size of the aligned block. *)
RawInfoUnpadded(i) == i

(* rec.size = rec.size + alignment + 32 *)
RawInfo(i) == [i EXCEPT !.size = RawSize(@, TRUE)]

(* An over-aligned block: Erase of its record ... *)
FreeAligned(t) ==
  /\ At(t, "free") /\ call[t].ptr \notin Blocks
  /\ LET f == call[t]
     IN /\ live' = Registry!AfterErase(f.ptr)
        /\ GoesOn(t, IF Registry!IsLive(f.ptr)
                     THEN [f EXCEPT !.at = "reraw", !.info = RawInfo(live[f.ptr])]
                     ELSE [f EXCEPT !.ptr = Raw(f.ptr)])
  /\ UNCHANGED <<usable, zone, dirty, asked, report, overtaken>>

(* ... and Insert of the raw one, which fast_free then frees. *)
FreeRaw(t) ==
  /\ At(t, "reraw")
  /\ LET f == call[t]
     IN /\ live' = Registry!AfterInsert(Raw(f.ptr), f.info)
        /\ GoesOn(t, [f EXCEPT !.at = "free", !.ptr = Raw(f.ptr), !.info = NoInfo])
  /\ UNCHANGED <<usable, zone, dirty, asked, report, overtaken>>

(* The checks of DebugOnFreeSmall and DebugOnFreeLarge. *)
FreeVerdict(b) ==
  IF ~Registry!IsLive(b) THEN "DoubleFree"
  ELSE IF b \in LargeBlocks /\ usable[b] # live[b].usable THEN "BadLargeMagic"
  ELSE IF zone[b] > live[b].size THEN "RearCanaryBroken"
  ELSE "none"

(* DebugOnFreeSmall, DebugOnFreeLarge *)
DebugOnFree(t) ==
  /\ At(t, "free") /\ call[t].ptr \in Blocks
  /\ LET b == call[t].ptr
     IN /\ report' = FreeVerdict(b)
        /\ IF report' # "none"
           THEN UNCHANGED <<dirty, live, call>>
           ELSE /\ live' = Registry!AfterErase(b)
                /\ dirty' = dirty \ {b}
                /\ GoesOn(t, [call[t] EXCEPT !.at = "release"])
  /\ UNCHANGED <<usable, zone, asked, overtaken>>

(* DeallocateBlock, DeallocateLargeCached; the end of fast_free, or of the   *)
(* fast_realloc that called it.                                            *)
Release(t) ==
  /\ At(t, "release")
  /\ LET f == call[t]
     IN /\ usable' = [usable EXCEPT ![f.ptr] = 0]
        /\ IF f.ret = NoPtr
           THEN GoesOn(t, Outside) /\ UNCHANGED <<zone, dirty, asked>>
           ELSE Returns(t, f.ret, f.size, zone)
  /\ UNCHANGED <<live, report, overtaken>>

-----------------------------------------------------------------------------
(* fast_realloc *)

Resizes(t, p) == Enters(t) /\ asked[p] > 0

(* An over-aligned block that need not grow: only the stash changes. *)
ReallocAlignedKept(t, p, n) ==
  /\ Resizes(t, p) /\ p \notin Blocks /\ n <= asked[p]
  /\ asked' = [asked EXCEPT ![p] = n]
  /\ UNCHANGED <<usable, zone, dirty, live, call, report, overtaken>>

ReallocAlignedMoved(t, p, n) ==
  /\ Resizes(t, p) /\ p \notin Blocks /\ n > asked[p]
  /\ asked' = [asked EXCEPT ![p] = 0]
  /\ Take(t, n, TRUE, p)

(* A small block is copied to one of a class at least two below its own;    *)
(* a large one that is not shrunk in place (by less than a page, pooled, or *)
(* mremap fails) is kept.                                                  *)
KeepsBlock(p, n) ==
  n <= usable[p] /\ (p \in SmallBlocks => ClassIndex[p] <= RequestToClass(n) + 1)

ReallocKept(t, p, n) ==
  /\ Resizes(t, p) /\ p \in Blocks /\ KeepsBlock(p, n)
  /\ asked' = [asked EXCEPT ![p] = 0]
  /\ GoesOn(t, [Outside EXCEPT !.at = "kept", !.ptr = p, !.ret = p, !.size = n])
  /\ UNCHANGED <<usable, zone, dirty, live, report, overtaken>>

(* mremap of a large block, to fewer pages in place or to more anywhere.   *)
Remap(t, p, n, q) ==
  /\ asked' = [asked EXCEPT ![p] = 0]
  /\ usable' = [[usable EXCEPT ![p] = 0] EXCEPT ![q] = LargeUsable(n)]
  /\ dirty' = (dirty \ {p}) \cup {q}
  /\ Overtakes(q)
  /\ GoesOn(t, [Outside EXCEPT !.at = "remapped", !.ptr = p, !.ret = q, !.size = n])
  /\ UNCHANGED <<zone, live, report>>

ReallocShrunk(t, p, n) ==
  /\ Resizes(t, p) /\ p \in LargeBlocks
  /\ usable[p] - n >= Page /\ LargeUsable(n) < usable[p]
  /\ Remap(t, p, n, p)

ReallocGrown(t, p, n) ==
  /\ Resizes(t, p) /\ p \in LargeBlocks /\ n > usable[p]
  /\ \E q \in {p} \cup {b \in LargeBlocks : usable[b] = 0} : Remap(t, p, n, q)

(* The generic path: fast_malloc, ... *)
ReallocMoved(t, p, n) ==
  /\ Resizes(t, p) /\ p \in Blocks
  /\ n > usable[p] \/ (p \in SmallBlocks /\ ~KeepsBlock(p, n))
  /\ asked' = [asked EXCEPT ![p] = 0]
  /\ Take(t, n, FALSE, p)

(* ... Erase and Insert of the old record, for its size, then fast_free. *)
CopyErase(t) ==
  /\ At(t, "copy")
  /\ LET f == call[t]
     IN /\ live' = Registry!AfterErase(f.ptr)
        /\ GoesOn(t, IF Registry!IsLive(f.ptr)
                     THEN [f EXCEPT !.at = "copied", !.info = live[f.ptr]]
                     ELSE [f EXCEPT !.at = "free"])
  /\ UNCHANGED <<usable, zone, dirty, asked, report, overtaken>>

CopyInsert(t) ==
  /\ At(t, "copied")
  /\ LET f == call[t]
     IN /\ live' = Registry!AfterInsert(f.ptr, f.info)
        /\ GoesOn(t, [f EXCEPT !.at = "free", !.info = NoInfo])
  /\ UNCHANGED <<usable, zone, dirty, asked, report, overtaken>>

(* The record of a resized block; its usable bytes change only by mremap.  *)
ResizedInfo(i, f) ==
  [size |-> f.size, usable |-> IF f.at = "remapped" THEN usable[f.ret] ELSE i.usable]

(* The record of a block resized in place or by mremap: Erase ... *)
ResizeErase(t) ==
  /\ At(t, "kept") \/ At(t, "remapped")
  /\ LET f == call[t]
     IN /\ live' = Registry!AfterErase(f.ptr)
        /\ IF Registry!IsLive(f.ptr)
           THEN /\ GoesOn(t, [f EXCEPT !.at = "resized", !.info = ResizedInfo(live[f.ptr], f)])
                /\ UNCHANGED <<zone, dirty, asked>>
           ELSE Returns(t, f.ret, f.size, [zone EXCEPT ![f.ret] = f.size])
  /\ UNCHANGED <<usable, report, overtaken>>

(* FillRearRedZone behind the new size. *)
Refilled(f) == [zone EXCEPT ![f.ret] = f.size]

(* ... and Insert, at the address the block has now, and the red zone.     *)
ResizeInsert(t) ==
  /\ At(t, "resized")
  /\ live' = Registry!AfterInsert(call[t].ret, call[t].info)
  /\ Returns(t, call[t].ret, call[t].size, Refilled(call[t]))
  /\ UNCHANGED <<usable, report, overtaken>>

-----------------------------------------------------------------------------
(* ReportViolation does not return. *)
Ended == report # "none" /\ UNCHANGED vars

Step(t) ==
  \/ DebugOnAlloc(t) \/ AlignErase(t) \/ AlignInsert(t)
  \/ FreeAligned(t) \/ FreeRaw(t) \/ DebugOnFree(t) \/ Release(t)
  \/ CopyErase(t) \/ CopyInsert(t) \/ ResizeErase(t) \/ ResizeInsert(t)

Call(t) ==
  \/ \E n \in Requests : fast_malloc(t, n) \/ fast_aligned_alloc(t, n)
  \/ \E p \in Pointers : fast_free(t, p)
  \/ \E p \in Pointers, n \in Requests :
       \/ ReallocAlignedKept(t, p, n) \/ ReallocAlignedMoved(t, p, n)
       \/ ReallocKept(t, p, n) \/ ReallocShrunk(t, p, n)
       \/ ReallocGrown(t, p, n) \/ ReallocMoved(t, p, n)

Next == Ended \/ \E t \in Threads : Step(t) \/ Call(t)

Spec == Init /\ [][Next]_vars

-----------------------------------------------------------------------------
(* Properties *)

(* The pointers the call of t works on. *)
Pending(t) == {call[t].ptr, call[t].old, call[t].ret}

(* The block of p has room for n bytes from p on. *)
Fits(p, n) == p - Raw(p) + n <= usable[Raw(p)]

(* The registry tells the truth: every pointer the program holds has a      *)
(* record with its size and the bytes its block has, which are enough, and *)
(* every record is that of a pointer the program holds or of a call still  *)
(* running (RequestToClass, the rounding to pages, the padding of           *)
(* fast_aligned_alloc and each Erase and Insert agree with each other).  So *)
(* when no call is running a leak report lists what is live, no more and   *)
(* no less.  An over-aligned block may be recorded longer than it is after *)
(* a realloc that shrank it; and a record may be lost once the heap has    *)
(* reused an address before the record of the block that left it moved.    *)
RecordsExact ==
  report = "none" /\ ~overtaken =>
    /\ \A p \in Pointers : asked[p] > 0 =>
         /\ live[p] # NoInfo /\ live[p].usable = usable[Raw(p)] /\ Fits(p, asked[p])
         /\ IF p \in Blocks THEN live[p].size = asked[p] ELSE live[p].size >= asked[p]
    /\ \A p \in Pointers : live[p] # NoInfo =>
         asked[p] > 0 \/ \E t \in Threads : call[t] # Outside /\ p \in Pending(t)

(* A correct program is not accused: no double allocation, double free,     *)
(* broken red zone, broken header or disturbed poison is ever reported of  *)
(* it, but for one race: mremap has moved a block and its record has not   *)
(* followed yet when the heap hands out the old address again.             *)
ReportsExplained == report # "none" => overtaken
=============================================================================
