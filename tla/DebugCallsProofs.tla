-------------------------- MODULE DebugCallsProofs --------------------------
(***************************************************************************)
(* Proofs about DebugCalls, for every set of threads, blocks, sizes and    *)
(* requests: the registry is exact and a correct program is not accused as *)
(* long as the heap has not reused an address that fast_realloc left by    *)
(* mremap before it moved the record.                                      *)
(*                                                                         *)
(* The argument is one of ownership.  Every block is claimed by one call,  *)
(* or held by the program, or free; what the registry, the red zone and    *)
(* the poison must look like follows from that, and from where the call    *)
(* is.  A step touches only blocks its call claims before or after it.     *)
(***************************************************************************)
EXTENDS DebugCalls, TLAPS

Steps == {"outside", "register", "align", "aligned", "free", "reraw", "release",
          "copy", "copied", "kept", "remapped", "resized"}

Calls ==
  [at : Steps, ptr : Pointers \cup {NoPtr}, size : Nat, over_aligned : BOOLEAN,
   old : Pointers \cup {NoPtr}, ret : Pointers \cup {NoPtr}, info : Infos \cup {NoInfo}]

(* The values the variables range over. *)
TypeOK ==
  /\ usable \in [Blocks -> Nat]
  /\ zone \in [Blocks -> Int]
  /\ live \in [Pointers -> Infos \cup {NoInfo}]
  /\ asked \in [Pointers -> Nat]
  /\ call \in [Threads -> Calls]

(* The other pointer into the block of p. *)
Twin(p) == IF p \in Blocks THEN Aligned(p) ELSE Raw(p)

NotAsked(b) == asked[b] = 0 /\ asked[Aligned(b)] = 0

NoRecord(b) == live[b] = NoInfo /\ live[Aligned(b)] = NoInfo

(* A block nobody has, and one a call just got or is about to give back. *)
Free(b) == usable[b] = 0 /\ b \notin dirty /\ NotAsked(b) /\ NoRecord(b)
Fresh(b) == usable[b] > 0 /\ b \notin dirty /\ NotAsked(b) /\ NoRecord(b)

(* The record i is right for the block of p when p is its pointer. *)
Covers(i, p) ==
  /\ i \in Infos /\ i.usable = usable[Raw(p)]
  /\ zone[Raw(p)] <= RawSize(i.size, p \notin Blocks)

(* p has the one record of its block. *)
Recorded(p) == usable[Raw(p)] > 0 /\ live[Twin(p)] = NoInfo /\ Covers(live[p], p)

(* A recorded pointer that the program has, or that a call works on. *)
Held(p) ==
  /\ Recorded(p) /\ asked[p] > 0 /\ asked[Twin(p)] = 0 /\ Fits(p, asked[p])
  /\ IF p \in Blocks THEN live[p].size = asked[p] ELSE live[p].size >= asked[p]
Worked(p) == Recorded(p) /\ NotAsked(Raw(p))

(* A block whose record i is with a call, between an Erase and an Insert. *)
Bare(i, p) == usable[Raw(p)] > 0 /\ NotAsked(Raw(p)) /\ NoRecord(Raw(p)) /\ Covers(i, p)

(* The pointer fast_realloc frees after the allocation under way ... *)
OldOK(f) ==
  /\ f.size > 0
  /\ f.old # NoPtr =>
       Raw(f.old) # f.ptr /\ Worked(f.old) /\ (f.over_aligned \/ f.old \in Blocks)

(* ... and the one it returns after the deallocation under way. *)
RetOK(f) ==
  f.ret # NoPtr =>
    /\ Raw(f.ret) # Raw(f.ptr) /\ Worked(f.ret)
    /\ f.size > 0 /\ live[f.ret].size = f.size /\ Fits(f.ret, f.size)

Allocates(f) == f.at \in {"register", "align", "aligned"}
Frees(f) == f.at \in {"free", "reraw", "release", "copy", "copied"}

(* What the call f may rely on, by where it is. *)
CallOK(f) ==
  /\ Allocates(f) =>
       f.ptr \in Blocks /\ OldOK(f) /\ RawSize(f.size, f.over_aligned) <= usable[f.ptr]
  /\ Frees(f) => f.ptr \in Pointers /\ RetOK(f)
  /\ f.at \in {"kept", "remapped", "resized"} =>
       f.ret \in Blocks /\ f.size > 0 /\ f.size <= usable[f.ret]
  /\ f.at = "register" => Fresh(f.ptr)
  /\ f.at = "align" =>
       f.over_aligned /\ Worked(f.ptr) /\ live[f.ptr].size = RawSize(f.size, TRUE)
  /\ f.at = "aligned" =>
       f.over_aligned /\ Bare(f.info, Aligned(f.ptr)) /\ f.info.size = f.size
  /\ f.at = "free" => Worked(f.ptr)
  /\ f.at = "reraw" => f.ptr \notin Blocks /\ Bare(f.info, Raw(f.ptr))
  /\ f.at = "release" => f.ptr \in Blocks /\ Fresh(f.ptr)
  /\ f.at = "copy" => f.ptr \in Blocks /\ f.ret # NoPtr /\ Worked(f.ptr)
  /\ f.at = "copied" => f.ptr \in Blocks /\ f.ret # NoPtr /\ Bare(f.info, f.ptr)
  /\ f.at = "kept" => f.ptr \in Blocks /\ f.ret = f.ptr /\ Worked(f.ptr)
  /\ f.at = "remapped" =>
       /\ f.ptr \in Blocks /\ NotAsked(f.ptr) /\ NotAsked(f.ret)
       /\ live[f.ptr] \in Infos /\ live[Aligned(f.ptr)] = NoInfo
       /\ live[Aligned(f.ret)] = NoInfo
       /\ f.ptr # f.ret => usable[f.ptr] = 0 /\ f.ptr \notin dirty /\ live[f.ret] = NoInfo
  /\ f.at = "resized" =>
       /\ NotAsked(f.ret) /\ NoRecord(f.ret)
       /\ f.info \in Infos /\ f.info.usable = usable[f.ret] /\ f.info.size = f.size

RawsOf(S) == {Raw(p) : p \in S \ {NoPtr}}

(* The blocks the call f claims. *)
Claims(f) ==
  IF Allocates(f) THEN RawsOf({f.ptr, f.old})
  ELSE IF Frees(f) THEN RawsOf({f.ptr, f.ret})
  ELSE IF f.at \in {"kept", "remapped"} THEN RawsOf({f.ptr, f.ret})
  ELSE IF f.at = "resized" THEN RawsOf({f.ret})
  ELSE {}

Unclaimed(b) == \A t \in Threads : b \notin Claims(call[t])

(* Every block has one owner. *)
Owned ==
  /\ \A t \in Threads : CallOK(call[t])
  /\ \A t, u \in Threads : t # u => Claims(call[t]) \cap Claims(call[u]) = {}
  /\ \A b \in Blocks : Unclaimed(b) => Free(b) \/ Held(b) \/ Held(Aligned(b))

(* The inductive invariant. *)
IInv == ~overtaken => report = "none" /\ TypeOK /\ Owned

(* A leaf is proved by Zenon unless it names another prover. *)
USE Zenon

-----------------------------------------------------------------------------
(* Sizes and pointers *)

(* What rounding down to a multiple of a positive number loses. *)
LEMMA Remainder ==
  ASSUME NEW x \in Nat, NEW m \in Nat \ {0}
  PROVE x % m \in 0 .. m - 1 /\ x \div m \in Nat /\ x < m * (x \div m) + m
<1>1. x % m \in 0 .. m - 1
  BY SMTT(30)
<1>2. x \div m \in Nat
  BY SMTT(30)
<1>3. x < m * (x \div m) + m
  BY SMTT(30)
<1> QED BY <1>1, <1>2, <1>3

(* RequestToClass picks a class whose blocks have room for the request. *)
LEMMA ClassFits ==
  ASSUME NEW n \in Nat PROVE n <= UsableSize(RequestToClass(n))
<1> DEFINE x == n + USER_OFFSET + RED_ZONE_RESERVE
<1>1. ALIGNMENT \in Nat \ {0} /\ USER_OFFSET \in Nat /\ RED_ZONE_RESERVE \in Nat
  BY SizeClassesAssumption
<1>2. x - 1 \in Nat /\ x # 0
  BY SMT, SizeClassesAssumption
<1>3. /\ (x - 1) \div ALIGNMENT \in Nat
      /\ x - 1 < ALIGNMENT * ((x - 1) \div ALIGNMENT) + ALIGNMENT
  BY <1>1, <1>2, Remainder
<1>4. x <= ((x - 1) \div ALIGNMENT + 1) * ALIGNMENT
  BY SMT, <1>1, <1>3
<1> QED
  BY SMT, <1>1, <1>2, <1>4 DEF UsableSize, RequestToClass, SizeToClassIndex, ClassIndexToSize

(* A request rounded up to pages has room behind its header. *)
LEMMA SpanFits ==
  ASSUME NEW n \in Nat PROVE LargeUsable(n) \in Nat /\ n <= LargeUsable(n)
<1> DEFINE x == n + Header + Page - 1
<1>1. Page \in Nat \ {0} /\ Header \in Nat /\ x \in Nat
  BY SMT, SizeClassesAssumption
<1>2. x % Page \in 0 .. Page - 1
  BY <1>1, Remainder
<1> QED BY SMT, <1>1, <1>2 DEF LargeUsable, PageRoundUp

(* The two pointers into a block, and the block of a pointer. *)
LEMMA PointerFacts ==
  /\ NoPtr \notin Pointers /\ NoInfo \notin Infos
  /\ \A b \in Blocks :
       /\ b \in Pointers /\ Raw(b) = b
       /\ Aligned(b) \in Pointers /\ Aligned(b) \notin Blocks /\ Raw(Aligned(b)) = b
  /\ \A p \in Pointers : Raw(p) \in Blocks /\ (p \notin Blocks => p = Aligned(Raw(p)))
<1>1. \A b \in Blocks : Raw(Aligned(b)) = b
  BY DebugCallsAssumption DEF Raw
<1> QED BY <1>1, DebugCallsAssumption DEF Pointers, Raw

(* The padding fast_aligned_alloc asks for makes room for the alignment. *)
LEMMA PaddingFits ==
  ASSUME NEW p \in Pointers, NEW n \in Nat
  PROVE /\ p \in Int /\ Raw(p) \in Nat
        /\ RawSize(n, p \notin Blocks) \in Nat
        /\ p - Raw(p) + n <= RawSize(n, p \notin Blocks)
        /\ p \in Blocks => p - Raw(p) + n = n
<1>1. STASH \in Nat /\ Alignment \in Nat \ {0} /\ Blocks \subseteq Nat
  BY SizeClassesAssumption, DebugCallsAssumption
<1>2. CASE p \in Blocks
  BY SMT, <1>1, <1>2, PointerFacts DEF RawSize
<1>3. CASE p \notin Blocks
  <2> DEFINE x == Raw(p) + STASH + Alignment - 1
  <2>0. p = Aligned(Raw(p))
    BY <1>3, PointerFacts
  <2>1. p = x - (x % Alignment)
    <3>1. Aligned(Raw(p)) = x - (x % Alignment)
      BY Zenon DEF Aligned, AlignDown
    <3> QED BY <2>0, <3>1
  <2>3. Raw(p) \in Nat /\ x \in Nat
    <3>1. Raw(p) \in Blocks
      BY PointerFacts
    <3>2. Raw(p) \in Nat
      BY <1>1, <3>1
    <3> QED BY SMT, <1>1, <3>2
  <2>2. x % Alignment \in 0 .. Alignment - 1
    BY <1>1, <2>3, Remainder
  <2> QED BY SMT, <1>1, <1>3, <2>1, <2>2, <2>3 DEF RawSize
<1> QED BY <1>2, <1>3

-----------------------------------------------------------------------------
(* What a step leaves alone *)

(* The step changes nothing about block b. *)
SameAt(b) ==
  /\ usable'[b] = usable[b] /\ zone'[b] = zone[b] /\ (b \in dirty' <=> b \in dirty)
  /\ live'[b] = live[b] /\ live'[Aligned(b)] = live[Aligned(b)]
  /\ asked'[b] = asked[b] /\ asked'[Aligned(b)] = asked[Aligned(b)]

(* What was true of a block stays true when a step leaves it alone. *)
LEMMA BlockSame ==
  ASSUME NEW b \in Blocks, SameAt(b)
  PROVE /\ NotAsked(b) => NotAsked(b)'
        /\ NoRecord(b) => NoRecord(b)'
        /\ Free(b) => Free(b)'
        /\ Fresh(b) => Fresh(b)'
  BY DEF SameAt, NotAsked, NoRecord, Free, Fresh

LEMMA PointerSame ==
  ASSUME NEW p \in Pointers, SameAt(Raw(p))
  PROVE /\ live'[p] = live[p]
        /\ \A n : Fits(p, n) => Fits(p, n)'
        /\ Worked(p) => Worked(p)'
        /\ Held(p) => Held(p)'
        /\ \A i : Bare(i, p) => Bare(i, p)'
<1>1. Raw(p) \in Blocks /\ p \in {Raw(p), Aligned(Raw(p))} /\ Twin(p) \in {Raw(p), Aligned(Raw(p))}
  BY PointerFacts DEF Twin
<1>2. /\ live'[p] = live[p] /\ asked'[p] = asked[p]
      /\ live'[Twin(p)] = live[Twin(p)] /\ asked'[Twin(p)] = asked[Twin(p)]
  BY <1>1 DEF SameAt
<1>3. usable'[Raw(p)] = usable[Raw(p)] /\ zone'[Raw(p)] = zone[Raw(p)]
  BY DEF SameAt
<1>4. \A i : Covers(i, p) => Covers(i, p)'
  BY <1>3 DEF Covers
<1>5. \A n : Fits(p, n) => Fits(p, n)'
  BY <1>3 DEF Fits
<1>6. Recorded(p) => Recorded(p)'
  BY <1>2, <1>3, <1>4 DEF Recorded
<1>7. NotAsked(Raw(p)) => NotAsked(Raw(p))'
  BY <1>1, BlockSame
<1>8. NoRecord(Raw(p)) => NoRecord(Raw(p))'
  BY <1>1, BlockSame
<1>9. Worked(p) => Worked(p)'
  BY <1>6, <1>7 DEF Worked
<1>10. Held(p) => Held(p)'
  BY <1>2, <1>5, <1>6 DEF Held
<1>11. \A i : Bare(i, p) => Bare(i, p)'
  BY <1>3, <1>4, <1>7, <1>8 DEF Bare
<1> QED BY <1>2, <1>5, <1>9, <1>10, <1>11

(* A call keeps what it relies on when a step leaves its blocks alone. *)
LEMMA CallSame ==
  ASSUME NEW f \in Calls, CallOK(f), \A b \in Claims(f) : SameAt(b)
  PROVE CallOK(f)'
<1>0. \A p \in Pointers : p # NoPtr
  BY PointerFacts
<1>1. CASE Allocates(f)
  <2>1. f.ptr \in Blocks /\ f.ptr \in Pointers /\ Raw(f.ptr) = f.ptr /\ Aligned(f.ptr) \in Pointers
        /\ Raw(Aligned(f.ptr)) = f.ptr
    BY <1>1, PointerFacts DEF CallOK
  <2>2. SameAt(f.ptr) /\ (f.old # NoPtr => SameAt(Raw(f.old)))
    BY <1>0, <1>1, <2>1 DEF Claims, RawsOf
  <2>3. OldOK(f)'
    <3>1. f.old # NoPtr => f.old \in Pointers
      BY DEF Calls
    <3> QED BY <1>1, <2>2, <3>1, PointerSame DEF CallOK, OldOK
  <2>4. RawSize(f.size, f.over_aligned) <= usable'[f.ptr]
    BY <1>1, <2>2 DEF CallOK, SameAt
  <2>5. f.at = "register" => Fresh(f.ptr)'
    BY <2>1, <2>2, BlockSame DEF CallOK
  <2>6. f.at = "align" => Worked(f.ptr)' /\ live'[f.ptr].size = RawSize(f.size, TRUE)
    BY <2>1, <2>2, PointerSame DEF CallOK
  <2>7. f.at = "aligned" => Bare(f.info, Aligned(f.ptr))'
    BY <2>1, <2>2, PointerSame DEF CallOK
  <2> QED BY <1>1, <2>1, <2>3, <2>4, <2>5, <2>6, <2>7 DEF CallOK, Allocates, Frees
<1>2. CASE Frees(f)
  <2>1. f.ptr \in Pointers /\ Raw(f.ptr) \in Blocks /\ Raw(f.ptr) \in Pointers
        /\ Raw(Raw(f.ptr)) = Raw(f.ptr) /\ (f.ptr \in Blocks => Raw(f.ptr) = f.ptr)
    BY <1>2, PointerFacts DEF CallOK
  <2>2. SameAt(Raw(f.ptr)) /\ (f.ret # NoPtr => SameAt(Raw(f.ret)))
    BY <1>0, <1>2, <2>1 DEF Claims, RawsOf, Allocates, Frees
  <2>3. RetOK(f)'
    <3>1. f.ret # NoPtr => f.ret \in Pointers
      BY DEF Calls
    <3> QED BY <1>2, <2>2, <3>1, PointerSame DEF CallOK, RetOK
  <2>4. f.at \in {"free", "copy"} => Worked(f.ptr)'
    BY <2>1, <2>2, PointerSame DEF CallOK
  <2>5. f.at = "reraw" => Bare(f.info, Raw(f.ptr))'
    BY <2>1, <2>2, PointerSame DEF CallOK
  <2>6. f.at = "release" => Fresh(f.ptr)'
    BY <2>1, <2>2, BlockSame DEF CallOK
  <2>7. f.at = "copied" => Bare(f.info, f.ptr)'
    BY <2>1, <2>2, PointerSame DEF CallOK
  <2> QED BY <1>2, <2>1, <2>3, <2>4, <2>5, <2>6, <2>7 DEF CallOK, Allocates, Frees
<1>3. CASE f.at = "kept"
  <2>1. f.ptr \in Blocks /\ f.ptr \in Pointers /\ f.ret = f.ptr /\ Raw(f.ptr) = f.ptr
    BY <1>3, PointerFacts DEF CallOK
  <2>2. SameAt(f.ptr)
    BY <1>0, <1>3, <2>1 DEF Claims, RawsOf, Allocates, Frees
  <2>3. Worked(f.ptr)' /\ f.size <= usable'[f.ret]
    BY SMT, <1>3, <2>1, <2>2, PointerSame DEF CallOK, SameAt
  <2> QED BY <1>3, <2>1, <2>3 DEF CallOK, Allocates, Frees
<1>4. CASE f.at = "remapped"
  <2>1. /\ f.ptr \in Blocks /\ f.ptr \in Pointers /\ Raw(f.ptr) = f.ptr
        /\ f.ret \in Blocks /\ f.ret \in Pointers /\ Raw(f.ret) = f.ret
    BY <1>4, PointerFacts DEF CallOK
  <2>2. SameAt(f.ptr) /\ SameAt(f.ret)
    BY <1>0, <1>4, <2>1 DEF Claims, RawsOf, Allocates, Frees
  <2> QED BY <1>4, <2>1, <2>2 DEF CallOK, Allocates, Frees, SameAt, NotAsked
<1>5. CASE f.at = "resized"
  <2>1. f.ret \in Blocks /\ f.ret \in Pointers /\ Raw(f.ret) = f.ret
    BY <1>5, PointerFacts DEF CallOK
  <2>2. SameAt(f.ret)
    BY <1>0, <1>5, <2>1 DEF Claims, RawsOf, Allocates, Frees
  <2> QED BY <1>5, <2>1, <2>2 DEF CallOK, Allocates, Frees, SameAt, NotAsked, NoRecord
<1> QED BY <1>1, <1>2, <1>3, <1>4, <1>5 DEF CallOK, Allocates, Frees

(* A step of t that touches only the blocks D, which no other call claims, *)
(* and leaves each of them to its own call, to the program or free, keeps  *)
(* the ownership of all blocks.                                            *)
LEMMA Frame ==
  ASSUME TypeOK, Owned, NEW t \in Threads, NEW f \in Calls, NEW D \in SUBSET Blocks,
         call' = [call EXCEPT ![t] = f],
         \A u \in Threads : u # t => Claims(call[u]) \cap D = {},
         Claims(call[t]) \subseteq D, Claims(f) \subseteq D,
         \A b \in Blocks \ D : SameAt(b),
         CallOK(f)',
         \A b \in D : b \in Claims(f) \/ Free(b)' \/ Held(b)' \/ Held(Aligned(b))'
  PROVE Owned'
<1>1. call'[t] = f /\ \A u \in Threads : u # t => call'[u] = call[u]
  BY DEF TypeOK
<1>2. ASSUME NEW u \in Threads PROVE Claims(call[u]) \subseteq Blocks /\ call[u] \in Calls
  <2>1. call[u] \in Calls /\ CallOK(call[u])
    BY DEF TypeOK, Owned
  <2>2. \A p \in Pointers : Raw(p) \in Blocks
    BY PointerFacts
  <2> QED BY SMT, <2>1, <2>2 DEF Claims, RawsOf, Calls
<1>3. ASSUME NEW u \in Threads PROVE CallOK(call[u])'
  <2>1. CASE u = t
    BY <1>1, <2>1
  <2>2. CASE u # t
    <3>1. CallOK(call[u])
      BY DEF Owned
    <3>2. \A b \in Claims(call[u]) : SameAt(b)
      BY <1>2, <2>2
    <3> QED BY <1>1, <1>2, <2>2, <3>1, <3>2, CallSame
  <2> QED BY <2>1, <2>2
<1>4. ASSUME NEW u \in Threads, NEW v \in Threads, u # v
      PROVE (Claims(call[u]) \cap Claims(call[v]) = {})'
  BY <1>1, <1>4 DEF Owned
<1>5. ASSUME NEW b \in Blocks, Unclaimed(b)'
      PROVE (Free(b) \/ Held(b) \/ Held(Aligned(b)))'
  <2>1. CASE b \in D
    BY <1>1, <1>5, <2>1 DEF Unclaimed
  <2>2. CASE b \notin D
    <3>1. Unclaimed(b)
      BY <1>1, <1>5, <2>2 DEF Unclaimed
    <3>2. SameAt(b) /\ (Free(b) \/ Held(b) \/ Held(Aligned(b)))
      BY <2>2, <3>1 DEF Owned
    <3>3. b \in Pointers /\ Raw(b) = b /\ Aligned(b) \in Pointers /\ Raw(Aligned(b)) = b
      BY PointerFacts
    <3> QED BY <3>2, <3>3, BlockSame, PointerSame
  <2> QED BY <2>1, <2>2
<1> QED BY <1>3, <1>4, <1>5 DEF Owned

-----------------------------------------------------------------------------
(* What a call, the program and the heap own *)

(* The blocks of a call, by the kind of step it is at. *)
LEMMA ClaimsOf ==
  ASSUME NEW f \in Calls, CallOK(f)
  PROVE /\ Allocates(f) => Claims(f) = {f.ptr} \cup {Raw(p) : p \in {f.old} \ {NoPtr}}
        /\ Frees(f) => Claims(f) = {Raw(f.ptr)} \cup {Raw(p) : p \in {f.ret} \ {NoPtr}}
        /\ f.at \in {"kept", "remapped"} => Claims(f) = {f.ptr, f.ret}
        /\ f.at = "resized" => Claims(f) = {f.ret}
<1>1. /\ \A p \in Pointers : p # NoPtr /\ Raw(p) \in Blocks
      /\ \A b \in Blocks : b # NoPtr /\ Raw(b) = b
  BY PointerFacts
<1>2. Allocates(f) => Claims(f) = {f.ptr} \cup {Raw(p) : p \in {f.old} \ {NoPtr}}
  BY <1>1 DEF CallOK, Claims, RawsOf
<1>3. Frees(f) => Claims(f) = {Raw(f.ptr)} \cup {Raw(p) : p \in {f.ret} \ {NoPtr}}
  BY <1>1 DEF CallOK, Claims, RawsOf, Allocates, Frees
<1>4. f.at \in {"kept", "remapped"} => Claims(f) = {f.ptr, f.ret}
  BY ZenonT(60), <1>1 DEF CallOK, Claims, RawsOf, Allocates, Frees
<1>5. f.at = "resized" => Claims(f) = {f.ret}
  BY <1>1 DEF CallOK, Claims, RawsOf, Allocates, Frees
<1> QED BY <1>2, <1>3, <1>4, <1>5

(* The program holds no block of a call; the heap has one only while the    *)
(* record of a block that mremap moved is still at its old address.        *)
LEMMA ClaimFacts ==
  ASSUME TypeOK, NEW f \in Calls, CallOK(f), NEW b \in Claims(f)
  PROVE /\ b \in Blocks /\ NotAsked(b)
        /\ usable[b] > 0 \/ (f.at = "remapped" /\ f.ptr = b)
<1>0. /\ \A p \in Pointers : Raw(p) \in Blocks
      /\ \A x \in Blocks : Raw(x) = x /\ Raw(Aligned(x)) = x
      /\ f.old # NoPtr => f.old \in Pointers
      /\ f.ret # NoPtr => f.ret \in Pointers
  BY PointerFacts DEF Calls
<1>1. CASE Allocates(f)
  <2>1. b = f.ptr \/ (f.old # NoPtr /\ b = Raw(f.old))
    BY SMT, <1>1, ClaimsOf
  <2>2. f.ptr \in Blocks /\ NotAsked(f.ptr) /\ usable[f.ptr] > 0
    BY <1>0, <1>1 DEF CallOK, Allocates, Fresh, Worked, Recorded, Bare
  <2>3. f.old # NoPtr => NotAsked(Raw(f.old)) /\ usable[Raw(f.old)] > 0
    BY <1>1 DEF CallOK, OldOK, Worked, Recorded
  <2> QED BY <1>0, <2>1, <2>2, <2>3
<1>2. CASE Frees(f)
  <2>1. b = Raw(f.ptr) \/ (f.ret # NoPtr /\ b = Raw(f.ret))
    BY SMT, <1>2, ClaimsOf
  <2>2. f.ptr \in Pointers /\ NotAsked(Raw(f.ptr)) /\ usable[Raw(f.ptr)] > 0
    BY <1>0, <1>2 DEF CallOK, Frees, Fresh, Worked, Recorded, Bare
  <2>3. f.ret # NoPtr => NotAsked(Raw(f.ret)) /\ usable[Raw(f.ret)] > 0
    BY <1>2 DEF CallOK, RetOK, Worked, Recorded
  <2> QED BY <1>0, <2>1, <2>2, <2>3
<1>3. CASE f.at \in {"kept", "remapped", "resized"}
  <2>1. b \in {f.ptr, f.ret} /\ (f.at = "resized" => b = f.ret)
    BY <1>3, ClaimsOf
  <2>2. f.ret \in Blocks /\ f.size > 0 /\ f.size <= usable[f.ret]
    BY <1>3 DEF CallOK
  <2>3. usable[f.ret] > 0
    BY SMT, <2>2 DEF TypeOK, Calls
  <2>4. NotAsked(f.ret) /\ (f.at # "resized" => f.ptr \in Blocks /\ NotAsked(f.ptr))
    BY <1>0, <1>3 DEF CallOK, Worked
  <2>5. f.at = "kept" => f.ptr = f.ret
    BY DEF CallOK
  <2> QED BY <1>3, <2>1, <2>2, <2>3, <2>4, <2>5
<1> QED BY <1>1, <1>2, <1>3 DEF Claims, Allocates, Frees

LEMMA AskedHeld ==
  ASSUME TypeOK, Owned, NEW p \in Pointers, asked[p] > 0
  PROVE Held(p) /\ Unclaimed(Raw(p))
<1>1. Raw(p) \in Blocks /\ (p \notin Blocks => p = Aligned(Raw(p))) /\ (p \in Blocks => p = Raw(p))
  BY PointerFacts
<1>2. asked[p] # 0 /\ ~NotAsked(Raw(p))
  BY SMT, <1>1 DEF NotAsked, TypeOK
<1>3. Unclaimed(Raw(p))
  BY <1>2, ClaimFacts DEF Unclaimed, Owned, TypeOK
<1>4. Held(Raw(p)) \/ Held(Aligned(Raw(p)))
  BY <1>1, <1>2, <1>3 DEF Owned, Free
<1>5. Twin(Raw(p)) = Aligned(Raw(p)) /\ Twin(Aligned(Raw(p))) = Raw(p)
  BY <1>1, PointerFacts DEF Twin
<1> QED BY <1>1, <1>2, <1>3, <1>4, <1>5 DEF Held

LEMMA FreeBlock ==
  ASSUME TypeOK, Owned, NEW b \in Blocks, usable[b] = 0,
         ~\E u \in Threads : call[u].at = "remapped" /\ call[u].ptr = b
  PROVE Free(b) /\ Unclaimed(b)
<1>1. Unclaimed(b)
  BY SMT, ClaimFacts DEF Unclaimed, Owned, TypeOK
<1>2. Raw(b) = b /\ Raw(Aligned(b)) = b
  BY PointerFacts
<1> QED BY SMT, <1>1, <1>2 DEF Owned, Held, Recorded

(* The step writes the record of p and no other. *)
LEMMA RecordSet ==
  ASSUME TypeOK, NEW p \in Pointers, NEW i \in Infos \cup {NoInfo}, live' = [live EXCEPT ![p] = i]
  PROVE /\ live' \in [Pointers -> Infos \cup {NoInfo}]
        /\ live'[p] = i /\ live'[Twin(p)] = live[Twin(p)]
        /\ \A b \in Blocks \ {Raw(p)} : live'[b] = live[b] /\ live'[Aligned(b)] = live[Aligned(b)]
<1>1. Twin(p) \in Pointers /\ Twin(p) # p
  BY PointerFacts DEF Twin
<1>2. \A b \in Blocks \ {Raw(p)} : b \in Pointers /\ Aligned(b) \in Pointers /\ b # p /\ Aligned(b) # p
  BY PointerFacts
<1> QED BY <1>1, <1>2 DEF TypeOK

(* A step after which the call of t claims some of the blocks it claimed   *)
(* before, and touches only those.                                         *)
LEMMA ShrinkingFrame ==
  ASSUME TypeOK, Owned, NEW t \in Threads, NEW f \in Calls, NEW g \in Calls,
         call[t] = f, call' = [call EXCEPT ![t] = g], CallOK(g)',
         Claims(g) \subseteq Claims(f),
         \A b \in Claims(f) : b \in Claims(g) \/ Free(b)' \/ Held(b)' \/ Held(Aligned(b))',
         \A b \in Blocks \ Claims(f) : SameAt(b)
  PROVE Owned'
<1>1. Claims(f) \in SUBSET Blocks
  BY ClaimFacts DEF Owned
<1>2. \A u \in Threads : u # t => Claims(call[u]) \cap Claims(f) = {}
  BY DEF Owned
<1> QED BY <1>1, <1>2, Frame

-----------------------------------------------------------------------------
(* The ends of calls *)

(* A step changes the record and the size of no block outside D. *)
KeepsOutside(D, z) ==
  \A b \in Blocks \ D :
    /\ usable'[b] = usable[b] /\ z[b] = zone[b]
    /\ live'[b] = live[b] /\ live'[Aligned(b)] = live[Aligned(b)]

(* p is recorded with n bytes, which its block has, and no red zone before  *)
(* their end, when z are the red zones.                                    *)
RecordedFor(p, n, z) ==
  /\ usable[Raw(p)] > 0 /\ live[Twin(p)] = NoInfo /\ Fits(p, n)
  /\ live[p] \in Infos /\ live[p].usable = usable[Raw(p)] /\ live[p].size = n
  /\ z[Raw(p)] <= RawSize(n, p \notin Blocks)

LEMMA OutsideFacts == Outside \in Calls /\ Claims(Outside) = {} /\ CallOK(Outside)'
<1>1. Outside \in Calls
  BY DEF Outside, Calls, Steps
<1>2. Outside.at = "outside"
  BY DEF Outside
<1> QED BY <1>1, <1>2 DEF Claims, CallOK, Allocates, Frees

(* The call of t ends and gives p to the program. *)
LEMMA ReturnsOwned ==
  ASSUME TypeOK, TypeOK', Owned, NEW t \in Threads, NEW p \in Pointers, NEW n \in Nat \ {0},
         NEW z \in [Blocks -> Int], Returns(t, p, n, z),
         Raw(p) \in Claims(call[t]), KeepsOutside(Claims(call[t]), z),
         RecordedFor(p, n, z)',
         \A b \in Claims(call[t]) : b = Raw(p) \/ Free(b)'
  PROVE Owned'
<1> DEFINE D == Claims(call[t])
           end == p - Raw(p) + n
<1>1. /\ Raw(p) \in Blocks /\ Twin(p) \in Pointers /\ Twin(p) # p
      /\ p \in {Raw(p), Aligned(Raw(p))} /\ Twin(p) \in {Raw(p), Aligned(Raw(p))}
      /\ \A b \in Blocks : Raw(b) = b /\ Raw(Aligned(b)) = b /\ b \in Pointers /\ Aligned(b) \in Pointers
  BY PointerFacts DEF Twin
<1>2. /\ asked' = [asked EXCEPT ![p] = n]
      /\ zone' = [z EXCEPT ![Raw(p)] = IF @ < end THEN end ELSE @]
      /\ dirty' = dirty \cup {Raw(p)}
      /\ call' = [call EXCEPT ![t] = Outside]
  BY DEF Returns, GoesOn
<1>3. D \in SUBSET Blocks /\ NotAsked(Raw(p))
  BY ClaimFacts DEF Owned, TypeOK
<1>4. ASSUME NEW b \in Blocks \ D PROVE SameAt(b)
  <2>1. b # Raw(p) /\ b # p /\ Aligned(b) # p
    BY <1>1
  <2> QED BY <1>1, <1>2, <2>1 DEF KeepsOutside, SameAt, TypeOK
<1>5. Held(p)'
  <2>1. asked'[p] = n /\ asked'[Twin(p)] = 0
    BY <1>1, <1>2, <1>3 DEF NotAsked, TypeOK
  <2>2. zone'[Raw(p)] <= RawSize(n, p \notin Blocks)
    BY <1>1, <1>2, PaddingFits DEF RecordedFor
  <2> QED BY SMT, <2>1, <2>2 DEF Held, Recorded, Covers, RecordedFor, TypeOK
<1>6. \A b \in D : Free(b)' \/ Held(b)' \/ Held(Aligned(b))'
  BY <1>1, <1>5
<1>7. \A u \in Threads : u # t => Claims(call[u]) \cap D = {}
  BY DEF Owned
<1> HIDE DEF D, end
<1> QED BY <1>2, <1>3, <1>4, <1>6, <1>7, OutsideFacts, Frame DEF D

(* fast_malloc or fast_aligned_alloc is done with the block of its call. *)
LEMMA DeliversOwned ==
  ASSUME TypeOK, TypeOK', Owned, NEW t \in Threads, NEW f \in Calls, NEW p \in Pointers,
         NEW z \in [Blocks -> Int], Delivers(t, p, z), usable' = usable,
         call[t] = f, Allocates(f), Raw(p) = f.ptr,
         KeepsOutside({Raw(p)}, z), RecordedFor(p, f.size, z)'
  PROVE Owned'
<1> DEFINE g == [Outside EXCEPT !.at = IF f.over_aligned THEN "free" ELSE "copy",
                                !.ptr = f.old, !.ret = p, !.size = f.size]
<1>0. CallOK(f)
  BY DEF Owned
<1>1. OldOK(f) /\ f.ptr \in Blocks /\ f.size \in Nat \ {0}
  BY SMT, <1>0 DEF CallOK, OldOK, Calls
<1>2. Claims(f) = {f.ptr} \cup {Raw(q) : q \in {f.old} \ {NoPtr}}
  BY <1>0, ClaimsOf
<1>3. CASE f.old = NoPtr
  <2>1. Claims(f) = {Raw(p)}
    BY <1>2, <1>3
  <2>2. Returns(t, p, f.size, z)
    BY <1>3 DEF Delivers
  <2> QED BY <1>1, <2>1, <2>2, ReturnsOwned
<1>4. CASE f.old # NoPtr
  <2>1. zone' = z /\ call' = [call EXCEPT ![t] = g] /\ asked' = asked /\ dirty' = dirty
    BY <1>4 DEF Delivers, GoesOn
  <2>2. f.old \in Pointers /\ Raw(f.old) # Raw(p) /\ Worked(f.old) /\ (f.over_aligned \/ f.old \in Blocks)
    BY <1>0, <1>1, <1>4 DEF OldOK, Calls
  <2>3. /\ g \in Calls /\ g.ptr = f.old /\ g.ret = p /\ g.size = f.size
        /\ g.at \in {"free", "copy"} /\ (g.at = "copy" => ~f.over_aligned)
    BY ZenonT(60), <1>1, <2>2 DEF Outside, Calls, Steps
  <2>4. Raw(f.old) \in Blocks /\ Raw(p) \in Blocks /\ p # NoPtr
        /\ Raw(Raw(p)) = Raw(p) /\ p \in {Raw(p), Aligned(Raw(p))}
        /\ Twin(p) \in {Raw(p), Aligned(Raw(p))}
    BY <2>2, PointerFacts DEF Twin
  <2>5. \A b \in Blocks \ {Raw(p)} : SameAt(b)
    BY <2>1 DEF KeepsOutside, SameAt
  <2>6. Worked(f.old)'
    BY <2>2, <2>4, <2>5, PointerSame
  <2>7. Worked(p)' /\ live'[p].size = f.size /\ Fits(p, f.size)'
    <3>1. NotAsked(Raw(p))
      BY <1>0, <1>2, ClaimFacts
    <3>2. NotAsked(Raw(p))'
      BY <2>1, <3>1 DEF NotAsked
    <3> QED BY <2>1, <3>2 DEF Worked, Recorded, Covers, RecordedFor
  <2> HIDE DEF g
  <2>8. CallOK(g)'
    <3>1. g.at = "copy" => g.ptr \in Blocks
      BY Zenon, <2>2, <2>3
    <3>2. RetOK(g)'
      BY SMT, <1>1, <2>2, <2>3, <2>7 DEF RetOK
    <3> QED BY <2>2, <2>3, <2>4, <2>6, <3>1, <3>2 DEF CallOK, Allocates, Frees
  <2>9. Claims(g) = {Raw(f.old), Raw(p)}
    BY <1>4, <2>3, <2>4 DEF Claims, RawsOf, Allocates, Frees
  <2>10. Claims(f) = Claims(g)
    BY ZenonT(60), <1>2, <1>4, <2>9
  <2>11. \A u \in Threads : u # t => Claims(call[u]) \cap Claims(g) = {}
    BY <2>10 DEF Owned
  <2> QED BY ZenonT(60), <2>1, <2>3, <2>4, <2>5, <2>8, <2>9, <2>10, <2>11, Frame
<1> QED BY <1>3, <1>4

LEMMA ReturnsType ==
  ASSUME TypeOK, NEW t \in Threads, NEW p \in Pointers, NEW n \in Nat,
         NEW z \in [Blocks -> Int], Returns(t, p, n, z)
  PROVE /\ zone' \in [Blocks -> Int] /\ asked' \in [Pointers -> Nat]
        /\ call' \in [Threads -> Calls]
<1>1. p - Raw(p) + n \in Int
  BY SMT, PaddingFits
<1> QED BY <1>1, OutsideFacts DEF Returns, GoesOn, TypeOK

LEMMA DeliversType ==
  ASSUME TypeOK, NEW t \in Threads, NEW p \in Pointers,
         NEW z \in [Blocks -> Int], Delivers(t, p, z)
  PROVE /\ zone' \in [Blocks -> Int] /\ asked' \in [Pointers -> Nat]
        /\ call' \in [Threads -> Calls]
<1> DEFINE f == call[t]
           g == [Outside EXCEPT !.at = IF f.over_aligned THEN "free" ELSE "copy",
                                !.ptr = f.old, !.ret = p, !.size = f.size]
<1>1. f.size \in Nat /\ f.old \in Pointers \cup {NoPtr}
  BY DEF TypeOK, Calls
<1>2. CASE f.old = NoPtr
  BY <1>1, <1>2, ReturnsType DEF Delivers
<1>3. CASE f.old # NoPtr
  <2>1. zone' = z /\ call' = [call EXCEPT ![t] = g] /\ asked' = asked
    BY <1>3 DEF Delivers, GoesOn
  <2>2. g \in Calls
    BY <1>1 DEF Outside, Calls, Steps
  <2> HIDE DEF g
  <2> QED BY <2>1, <2>2 DEF TypeOK
<1> QED BY <1>2, <1>3

-----------------------------------------------------------------------------
(* Allocation *)

(* The heap serves a request with a block that is large enough. *)
LEMMA ServesFits ==
  ASSUME NEW n \in Nat, NEW s \in Serves(n)
  PROVE s[1] \in Blocks /\ s[2] \in Nat /\ n <= s[2]
<1>1. CASE n <= MaxSmallRequest
  <2>1. PICK b \in SmallBlocks : ClassIndex[b] = RequestToClass(n) /\ s = <<b, UsableSize(ClassIndex[b])>>
    BY <1>1 DEF Serves
  <2>2. n <= UsableSize(RequestToClass(n))
    BY ClassFits
  <2>3. UsableSize(ClassIndex[b]) \in Int
    BY SMT, SizeClassesAssumption, DebugCallsAssumption DEF UsableSize, ClassIndexToSize
  <2> QED BY SMT, <2>1, <2>2, <2>3 DEF Blocks
<1>2. CASE ~(n <= MaxSmallRequest)
  <2>1. s[1] \in LargeBlocks /\ s[2] \in Spans /\ s[2] >= LargeUsable(n)
    BY <1>2 DEF Serves
  <2>2. LargeUsable(n) \in Nat /\ n <= LargeUsable(n)
    BY SpanFits
  <2>3. s[2] \in Nat
    BY <2>1, DebugCallsAssumption
  <2>4. n <= s[2]
    BY SMT, <2>1, <2>2, <2>3
  <2> QED BY <2>1, <2>3, <2>4 DEF Blocks
<1> QED BY <1>1, <1>2

(* The first step of an allocation, the program's own (o = NoPtr) or that  *)
(* of fast_realloc, to which the program gave o.                           *)
LEMMA TakeOwned ==
  ASSUME TypeOK, Owned, NEW t \in Threads, call[t] = Outside,
         NEW n \in Nat \ {0}, NEW oa \in BOOLEAN, NEW o \in Pointers \cup {NoPtr},
         Take(t, n, oa, o), ~overtaken',
         o = NoPtr => asked' = asked,
         o # NoPtr => asked' = [asked EXCEPT ![o] = 0] /\ asked[o] > 0 /\ (oa \/ o \in Blocks)
  PROVE report' = report /\ TypeOK' /\ Owned'
<1>1. PICK s \in Serves(RawSize(n, oa)) :
        /\ usable[s[1]] = 0
        /\ usable' = [usable EXCEPT ![s[1]] = s[2]]
        /\ Overtakes(s[1])
        /\ call' = [call EXCEPT ![t] = [Outside EXCEPT !.at = "register", !.ptr = s[1], !.size = n,
                                                      !.over_aligned = oa, !.old = o]]
        /\ UNCHANGED <<zone, dirty, live, report>>
  BY Zenon DEF Take, GoesOn
<1> DEFINE g == [Outside EXCEPT !.at = "register", !.ptr = s[1], !.size = n,
                                !.over_aligned = oa, !.old = o]
           D == {s[1]} \cup {Raw(q) : q \in {o} \ {NoPtr}}
<1>2. RawSize(n, oa) \in Nat /\ n <= RawSize(n, oa)
  BY SMT, SizeClassesAssumption DEF RawSize
<1>3. s[1] \in Blocks /\ s[2] \in Nat /\ RawSize(n, oa) <= s[2] /\ s[2] > 0
  BY SMT, <1>2, ServesFits
<1>4. Free(s[1]) /\ Unclaimed(s[1])
  BY <1>1, <1>3, FreeBlock DEF Overtakes
<1>5. s[1] \in Pointers /\ Raw(s[1]) = s[1]
  BY <1>3, PointerFacts
<1>6. o # NoPtr => /\ o \in Pointers /\ Raw(o) \in Blocks /\ o \in {Raw(o), Aligned(Raw(o))}
                   /\ Held(o) /\ Unclaimed(Raw(o)) /\ Raw(o) # s[1]
  <2>1. ASSUME o # NoPtr PROVE o \in Pointers /\ Raw(o) \in Blocks /\ o \in {Raw(o), Aligned(Raw(o))}
    BY <2>1, PointerFacts
  <2>2. ASSUME o # NoPtr PROVE Held(o) /\ Unclaimed(Raw(o))
    BY <2>1, <2>2, AskedHeld
  <2>3. ASSUME o # NoPtr PROVE Raw(o) # s[1]
    BY SMT, <1>1, <2>2, <2>3 DEF Held, Recorded
  <2> QED BY <2>1, <2>2, <2>3
<1>7. /\ g \in Calls /\ g.at = "register" /\ g.ptr = s[1] /\ g.size = n
      /\ g.over_aligned = oa /\ g.old = o
  BY <1>5 DEF Outside, Calls, Steps
<1>8. TypeOK'
  <2>1. asked' \in [Pointers -> Nat]
    BY SMT DEF TypeOK
  <2>2. usable' \in [Blocks -> Nat]
    BY <1>1, <1>3 DEF TypeOK
  <2>3. call' \in [Threads -> Calls]
    BY <1>1, <1>7 DEF TypeOK
  <2> QED BY <1>1, <2>1, <2>2, <2>3 DEF TypeOK
<1> HIDE DEF g
<1>9. Claims(g) = D
  BY SMT, <1>5, <1>7, PointerFacts DEF Claims, RawsOf, Allocates
<1>10. D \in SUBSET Blocks /\ (\A u \in Threads : Claims(call[u]) \cap D = {})
  BY ZenonT(60), <1>3, <1>4, <1>6 DEF Unclaimed
<1>11. ASSUME NEW b \in Blocks \ D PROVE SameAt(b)
  <2>1. b # s[1] /\ (o # NoPtr => b # o /\ Aligned(b) # o)
    BY <1>6, PointerFacts
  <2>2. asked'[b] = asked[b] /\ asked'[Aligned(b)] = asked[Aligned(b)]
    BY <2>1, PointerFacts DEF TypeOK
  <2> QED BY <1>1, <2>1, <2>2 DEF SameAt, TypeOK
<1>12. Fresh(s[1])' /\ usable'[s[1]] = s[2]
  <2>1. usable'[s[1]] = s[2]
    BY <1>1, <1>3 DEF TypeOK
  <2>2. asked'[s[1]] = 0 /\ asked'[Aligned(s[1])] = 0
    BY <1>3, <1>4, <1>6, PointerFacts DEF TypeOK, Free, NotAsked
  <2> QED BY <1>1, <1>3, <1>4, <2>1, <2>2 DEF Free, Fresh, NotAsked, NoRecord
<1>13. o # NoPtr => Worked(o)'
  <2>1. ASSUME o # NoPtr PROVE asked'[o] = 0 /\ asked'[Twin(o)] = 0
    BY <1>6, <2>1, PointerFacts DEF TypeOK, Held, Twin
  <2>2. ASSUME o # NoPtr PROVE NotAsked(Raw(o))'
    BY <1>6, <2>1, <2>2, PointerFacts DEF NotAsked, Twin
  <2>3. ASSUME o # NoPtr PROVE Recorded(o)'
    BY <1>1, <1>6, <2>3 DEF Held, Recorded, Covers, TypeOK
  <2> QED BY <2>2, <2>3 DEF Worked
<1>14. CallOK(g)'
  <2>1. OldOK(g)'
    BY SMT, <1>6, <1>7, <1>13 DEF OldOK
  <2> QED BY <1>3, <1>7, <1>12, <2>1 DEF CallOK, Allocates, Frees
<1>15. Claims(call[t]) \subseteq D
  BY OutsideFacts
<1>16. call' = [call EXCEPT ![t] = g]
  BY <1>1 DEF g
<1> HIDE DEF D
<1>17. Owned'
  BY <1>7, <1>9, <1>10, <1>11, <1>14, <1>15, <1>16, Frame
<1> QED BY <1>1, <1>8, <1>17

(* DebugOnAllocSmall, DebugOnAllocLarge: a block fresh from the heap is    *)
(* not poisoned by the program and has no record.                          *)
LEMMA DebugOnAllocOwned ==
  ASSUME TypeOK, Owned, NEW t \in Threads, DebugOnAlloc(t)
  PROVE report' = "none" /\ TypeOK' /\ Owned'
<1>0. PICK f \in Calls : f = call[t]
  BY DEF TypeOK
<1> DEFINE n == RawSize(f.size, f.over_aligned)
           i == [size |-> n, usable |-> usable[f.ptr]]
<1>z. PICK z : z = [zone EXCEPT ![f.ptr] = n]
  OBVIOUS
<1>1. f.at = "register" /\ CallOK(f)
  BY <1>0 DEF DebugOnAlloc, At, Owned
<1>2. /\ Allocates(f) /\ f.ptr \in Blocks /\ Fresh(f.ptr) /\ OldOK(f)
      /\ n <= usable[f.ptr] /\ f.size \in Nat \ {0}
  BY SMT, <1>1 DEF CallOK, Allocates, OldOK, Calls
<1>3. /\ f.ptr \in Pointers /\ Raw(f.ptr) = f.ptr /\ Twin(f.ptr) = Aligned(f.ptr)
      /\ Aligned(f.ptr) \in Pointers /\ Aligned(f.ptr) # f.ptr
  BY <1>2, PointerFacts DEF Twin
<1>4. AllocVerdict(f.ptr) = "none" /\ live[f.ptr] = NoInfo /\ live[Aligned(f.ptr)] = NoInfo
  BY <1>2 DEF AllocVerdict, Fresh, NoRecord, Registry!IsLive
<1>5. n \in Nat /\ i \in Infos
  BY SMT, <1>2, SizeClassesAssumption DEF RawSize, Infos, TypeOK
<1>6. /\ report' = "none" /\ usable' = usable
      /\ live' = [live EXCEPT ![f.ptr] = i]
      /\ IF f.over_aligned
         THEN /\ zone' = z /\ asked' = asked /\ dirty' = dirty
              /\ call' = [call EXCEPT ![t] = [f EXCEPT !.at = "align"]]
         ELSE Delivers(t, f.ptr, z)
  BY <1>0, <1>z, <1>4 DEF DebugOnAlloc, GoesOn, Registry!AfterInsert, Registry!IsLive
<1>7. z \in [Blocks -> Int] /\ z[f.ptr] = n /\ \A b \in Blocks \ {f.ptr} : z[b] = zone[b]
  BY SMT, <1>z, <1>2, <1>5 DEF TypeOK
<1>8. live' \in [Pointers -> Infos \cup {NoInfo}] /\ live'[f.ptr] = i /\ live'[Aligned(f.ptr)] = NoInfo
  BY <1>3, <1>4, <1>5, <1>6 DEF TypeOK
<1>9. \A b \in Blocks \ {f.ptr} : live'[b] = live[b] /\ live'[Aligned(b)] = live[Aligned(b)]
  BY <1>2, <1>6, PointerFacts DEF TypeOK
<1>10. usable[f.ptr] > 0 /\ i.usable = usable[f.ptr] /\ i.size = n
  BY <1>2 DEF Fresh
<1> HIDE DEF i
<1>11. CASE f.over_aligned
  <2> DEFINE g == [f EXCEPT !.at = "align"]
  <2>1. /\ g \in Calls /\ g.at = "align" /\ g.ptr = f.ptr /\ g.size = f.size
        /\ g.over_aligned = f.over_aligned /\ g.old = f.old
    BY DEF Calls, Steps
  <2>2. zone' = z /\ asked' = asked /\ dirty' = dirty /\ call' = [call EXCEPT ![t] = g]
    BY <1>6, <1>11
  <2> HIDE DEF g
  <2>3. TypeOK'
    BY <1>6, <1>7, <1>8, <2>1, <2>2 DEF TypeOK
  <2>4. \A b \in Blocks \ {f.ptr} : SameAt(b)
    BY <1>6, <1>7, <1>9, <2>2 DEF SameAt
  <2>5. Worked(f.ptr)' /\ live'[f.ptr].size = RawSize(f.size, TRUE)
    <3>1. NotAsked(f.ptr)'
      BY <1>2, <2>2 DEF Fresh, NotAsked
    <3>2. n = RawSize(f.size, TRUE) /\ n = RawSize(n, FALSE)
      BY <1>11 DEF RawSize
    <3> HIDE DEF n
    <3>4. zone'[f.ptr] <= RawSize(i.size, f.ptr \notin Blocks)
      BY SMT, <1>2, <1>5, <1>7, <1>10, <2>2 DEF RawSize
    <3>3. Recorded(f.ptr)'
      BY <1>2, <1>3, <1>5, <1>6, <1>8, <1>10, <3>4 DEF Recorded, Covers
    <3> QED BY <1>3, <1>8, <1>10, <3>1, <3>2, <3>3 DEF Worked
  <2>6. OldOK(g)'
    <3>1. f.old # NoPtr => f.old \in Pointers /\ Raw(f.old) \in Blocks
      BY PointerFacts DEF Calls
    <3> QED BY <1>2, <2>1, <2>4, <3>1, PointerSame DEF OldOK
  <2>7. CallOK(g)'
    BY <1>2, <1>6, <1>11, <2>1, <2>5, <2>6 DEF CallOK, Allocates, Frees
  <2>8. Claims(g) = Claims(f) /\ f.ptr \in Claims(f)
    BY <1>1, <2>1, ClaimsOf DEF Claims, Allocates
  <2> QED BY <1>0, <1>6, <2>1, <2>2, <2>3, <2>4, <2>7, <2>8, ShrinkingFrame
<1>12. CASE ~f.over_aligned
  <2>1. Delivers(t, f.ptr, z)
    BY <1>6, <1>12
  <2>2. TypeOK'
    BY <1>3, <1>6, <1>7, <1>8, <2>1, DeliversType DEF TypeOK
  <2>3. n = f.size
    BY <1>12 DEF RawSize
  <2>4. RecordedFor(f.ptr, f.size, z)'
    <3>1. Fits(f.ptr, f.size)'
      BY <1>2, <1>3, <1>6, <2>3, PaddingFits DEF Fits
    <3>2. n <= RawSize(f.size, f.ptr \notin Blocks)
      BY SMT, <1>2, <2>3 DEF RawSize
    <3> QED BY <1>3, <1>5, <1>6, <1>7, <1>8, <1>10, <2>3, <3>1, <3>2 DEF RecordedFor
  <2>5. KeepsOutside({Raw(f.ptr)}, z)
    BY <1>3, <1>6, <1>7, <1>9 DEF KeepsOutside
  <2> HIDE DEF n
  <2> QED BY <1>0, <1>2, <1>3, <1>6, <1>7, <2>1, <2>2, <2>4, <2>5, DeliversOwned
<1> QED BY <1>11, <1>12

LEMMA AlignEraseOwned ==
  ASSUME TypeOK, Owned, NEW t \in Threads, AlignErase(t)
  PROVE report' = report /\ TypeOK' /\ Owned'
<1>0. PICK f \in Calls : f = call[t]
  BY DEF TypeOK
<1>1. f.at = "align" /\ CallOK(f)
  BY <1>0 DEF AlignErase, At, Owned
<1>2. /\ Allocates(f) /\ f.ptr \in Blocks /\ Worked(f.ptr) /\ OldOK(f) /\ f.over_aligned
      /\ RawSize(f.size, f.over_aligned) <= usable[f.ptr]
      /\ live[f.ptr].size = RawSize(f.size, TRUE)
  BY <1>1 DEF CallOK, Allocates
<1>3. /\ f.ptr \in Pointers /\ Raw(f.ptr) = f.ptr /\ Twin(f.ptr) = Aligned(f.ptr)
      /\ Aligned(f.ptr) \in Pointers /\ Raw(Aligned(f.ptr)) = f.ptr /\ Aligned(f.ptr) \notin Blocks
  BY <1>2, PointerFacts DEF Twin
<1>4. /\ usable[f.ptr] > 0 /\ NotAsked(f.ptr) /\ live[Aligned(f.ptr)] = NoInfo
      /\ live[f.ptr] \in Infos /\ live[f.ptr] # NoInfo /\ live[f.ptr].usable = usable[f.ptr]
      /\ zone[f.ptr] <= RawSize(live[f.ptr].size, f.ptr \notin Blocks)
  BY <1>2, <1>3, PointerFacts DEF Worked, Recorded, Covers
<1>5. PICK i : i = [live[f.ptr] EXCEPT !.size = f.size]
  OBVIOUS
<1>6. i \in Infos /\ i.size = f.size /\ i.usable = usable[f.ptr]
  BY <1>4, <1>5 DEF Infos, Calls
<1> DEFINE g == [f EXCEPT !.at = "aligned", !.info = i]
<1>7. /\ g \in Calls /\ g.at = "aligned" /\ g.ptr = f.ptr /\ g.size = f.size /\ g.info = i
      /\ g.over_aligned = f.over_aligned /\ g.old = f.old
  BY <1>6 DEF Calls, Steps
<1>8. /\ live' = [live EXCEPT ![f.ptr] = NoInfo] /\ call' = [call EXCEPT ![t] = g]
      /\ UNCHANGED <<zone, dirty, asked, usable, report>>
  BY <1>0, <1>4, <1>5 DEF AlignErase, AlignErases, GoesOn, Registry!AfterErase, Registry!IsLive
<1> HIDE DEF g
<1>9. /\ live' \in [Pointers -> Infos \cup {NoInfo}]
      /\ live'[f.ptr] = NoInfo /\ live'[Aligned(f.ptr)] = NoInfo
      /\ \A b \in Blocks \ {f.ptr} : SameAt(b)
  BY <1>3, <1>4, <1>8, RecordSet DEF SameAt
<1>10. TypeOK'
  BY <1>7, <1>8, <1>9 DEF TypeOK
<1>11. Bare(i, Aligned(f.ptr))'
  <2>1. zone[f.ptr] <= RawSize(i.size, Aligned(f.ptr) \notin Blocks)
    BY <1>2, <1>3, <1>4, <1>6 DEF RawSize
  <2>2. Covers(i, Aligned(f.ptr))'
    BY <1>3, <1>6, <1>8, <2>1 DEF Covers
  <2> QED BY <1>3, <1>4, <1>8, <1>9, <2>2 DEF Bare, NoRecord, NotAsked
<1>12. OldOK(g)'
  <2>1. f.old # NoPtr => f.old \in Pointers /\ Raw(f.old) \in Blocks
    BY PointerFacts DEF Calls
  <2> QED BY <1>2, <1>7, <1>9, <2>1, PointerSame DEF OldOK
<1>13. CallOK(g)'
  BY <1>2, <1>6, <1>7, <1>8, <1>11, <1>12 DEF CallOK, Allocates, Frees
<1>14. Claims(g) = Claims(f) /\ f.ptr \in Claims(f)
  BY <1>1, <1>2, <1>7, ClaimsOf DEF Claims, Allocates
<1> QED BY <1>0, <1>7, <1>8, <1>9, <1>10, <1>13, <1>14, ShrinkingFrame

LEMMA AlignInsertOwned ==
  ASSUME TypeOK, Owned, NEW t \in Threads, AlignInsert(t)
  PROVE report' = report /\ TypeOK' /\ Owned'
<1>0. PICK f \in Calls : f = call[t]
  BY DEF TypeOK
<1>z. PICK z : z = zone
  OBVIOUS
<1> DEFINE p == Aligned(f.ptr)
<1>1. f.at = "aligned" /\ CallOK(f)
  BY <1>0 DEF AlignInsert, At, Owned
<1>2. /\ Allocates(f) /\ f.ptr \in Blocks /\ Bare(f.info, p) /\ OldOK(f) /\ f.over_aligned
      /\ RawSize(f.size, f.over_aligned) <= usable[f.ptr] /\ f.info.size = f.size /\ f.size \in Nat
  BY <1>1 DEF CallOK, Allocates, Calls
<1>3. p \in Pointers /\ Raw(p) = f.ptr /\ p \notin Blocks /\ Twin(p) = f.ptr
  BY <1>2, PointerFacts DEF Twin
<1>4. /\ usable[f.ptr] > 0 /\ NotAsked(f.ptr) /\ live[f.ptr] = NoInfo /\ live[p] = NoInfo
      /\ f.info \in Infos /\ f.info.usable = usable[f.ptr]
      /\ zone[f.ptr] <= RawSize(f.info.size, p \notin Blocks)
  BY <1>2, <1>3 DEF Bare, Covers, NoRecord
<1>5. /\ live' = [live EXCEPT ![p] = f.info] /\ Delivers(t, p, z) /\ UNCHANGED <<usable, report>>
  BY <1>0, <1>z, <1>4 DEF AlignInsert, Registry!AfterInsert, Registry!IsLive
<1>6. p - Raw(p) + f.size <= usable[f.ptr]
  <2>1. /\ p \in Int /\ Raw(p) \in Nat
        /\ p - Raw(p) + f.size <= RawSize(f.size, p \notin Blocks)
    BY <1>2, <1>3, PaddingFits
  <2>2. usable[f.ptr] \in Nat /\ f.size \in Nat /\ Alignment \in Nat /\ STASH \in Nat
    BY <1>2, SizeClassesAssumption DEF TypeOK
  <2> HIDE DEF p
  <2> QED BY SMT, <1>2, <1>3, <2>1, <2>2 DEF RawSize
<1> HIDE DEF p
<1>7. /\ live' \in [Pointers -> Infos \cup {NoInfo}]
      /\ live'[p] = f.info /\ live'[f.ptr] = NoInfo
      /\ KeepsOutside({Raw(p)}, z)
  BY <1>z, <1>3, <1>4, <1>5, RecordSet DEF KeepsOutside
<1>8. z \in [Blocks -> Int]
  BY <1>z DEF TypeOK
<1>9. TypeOK'
  BY <1>3, <1>5, <1>7, <1>8, DeliversType DEF TypeOK
<1>10. RecordedFor(p, f.size, z)'
  <2>1. Fits(p, f.size)'
    BY <1>3, <1>5, <1>6 DEF Fits
  <2> QED BY <1>z, <1>2, <1>3, <1>4, <1>5, <1>7, <2>1 DEF RecordedFor
<1> QED BY <1>0, <1>2, <1>3, <1>5, <1>7, <1>8, <1>9, <1>10, DeliversOwned

-----------------------------------------------------------------------------
(* Deallocation *)

(* A step of a deallocation that goes on with the same block and the same  *)
(* pointer to return, and touches only that block.                         *)
LEMMA FreeingFrame ==
  ASSUME TypeOK, Owned, NEW t \in Threads, NEW f \in Calls, NEW g \in Calls,
         call[t] = f, call' = [call EXCEPT ![t] = g], Frees(f), Frees(g),
         g.ptr \in Pointers, Raw(g.ptr) = Raw(f.ptr), g.ret = f.ret, g.size = f.size,
         \A b \in Blocks \ {Raw(f.ptr)} : SameAt(b),
         RetOK(g)' => CallOK(g)'
  PROVE Owned'
<1>1. CallOK(f) /\ f.ptr \in Pointers /\ RetOK(f)
  BY DEF Owned, CallOK
<1>2. f.ret # NoPtr => f.ret \in Pointers /\ Raw(f.ret) \in Blocks
  BY PointerFacts DEF Calls
<1>3. RetOK(g)'
  BY <1>1, <1>2, PointerSame DEF RetOK
<1>4. Claims(g) = Claims(f) /\ Raw(f.ptr) \in Claims(f)
  BY SMT, <1>1, PointerFacts DEF Claims, RawsOf, Allocates, Frees
<1> QED BY <1>3, <1>4, ShrinkingFrame

LEMMA FreeAlignedOwned ==
  ASSUME TypeOK, Owned, NEW t \in Threads, FreeAligned(t)
  PROVE report' = report /\ TypeOK' /\ Owned'
<1>0. PICK f \in Calls : f = call[t]
  BY DEF TypeOK
<1> DEFINE b == Raw(f.ptr)
<1>1. f.at = "free" /\ CallOK(f) /\ f.ptr \notin Blocks
  BY <1>0 DEF FreeAligned, At, Owned
<1>2. Frees(f) /\ f.ptr \in Pointers /\ Worked(f.ptr)
  BY <1>1 DEF CallOK, Frees
<1>3. b \in Blocks /\ b \in Pointers /\ Raw(b) = b /\ Twin(f.ptr) = b /\ f.ptr = Aligned(b)
  BY <1>1, <1>2, PointerFacts DEF Twin
<1>4. /\ usable[b] > 0 /\ NotAsked(b) /\ live[b] = NoInfo
      /\ live[f.ptr] \in Infos /\ live[f.ptr] # NoInfo /\ live[f.ptr].usable = usable[b]
      /\ zone[b] <= RawSize(live[f.ptr].size, f.ptr \notin Blocks)
  BY <1>2, <1>3, PointerFacts DEF Worked, Recorded, Covers
<1>5. PICK i : i = RawInfo(live[f.ptr])
  OBVIOUS
<1>6. i \in Infos /\ i.usable = usable[b] /\ zone[b] <= i.size
  BY SMT, <1>1, <1>4, <1>5, SizeClassesAssumption DEF RawInfo, RawSize, Infos
<1> DEFINE g == [f EXCEPT !.at = "reraw", !.info = i]
<1>7. /\ g \in Calls /\ g.at = "reraw" /\ g.ptr = f.ptr /\ g.ret = f.ret /\ g.size = f.size
      /\ g.info = i
  BY <1>6 DEF Calls, Steps
<1>8. /\ live' = [live EXCEPT ![f.ptr] = NoInfo] /\ call' = [call EXCEPT ![t] = g]
      /\ UNCHANGED <<usable, zone, dirty, asked, report>>
  BY <1>0, <1>4, <1>5 DEF FreeAligned, GoesOn, Registry!AfterErase, Registry!IsLive
<1> HIDE DEF g
<1>9. /\ live' \in [Pointers -> Infos \cup {NoInfo}]
      /\ live'[f.ptr] = NoInfo /\ live'[b] = NoInfo
      /\ \A x \in Blocks \ {b} : SameAt(x)
  BY <1>2, <1>3, <1>4, <1>8, RecordSet DEF SameAt
<1>10. TypeOK'
  BY <1>7, <1>8, <1>9 DEF TypeOK
<1>11. Bare(i, b)'
  <2>1. Covers(i, b)'
    BY <1>3, <1>6, <1>8 DEF Covers, RawSize
  <2> QED BY <1>3, <1>4, <1>8, <1>9, <2>1 DEF Bare, NoRecord, NotAsked
<1>12. RetOK(g)' => CallOK(g)'
  BY <1>1, <1>2, <1>7, <1>11 DEF CallOK, Allocates, Frees
<1> QED BY <1>0, <1>2, <1>7, <1>8, <1>9, <1>10, <1>12, FreeingFrame DEF Frees

LEMMA FreeRawOwned ==
  ASSUME TypeOK, Owned, NEW t \in Threads, FreeRaw(t)
  PROVE report' = report /\ TypeOK' /\ Owned'
<1>0. PICK f \in Calls : f = call[t]
  BY DEF TypeOK
<1> DEFINE b == Raw(f.ptr)
<1>1. f.at = "reraw" /\ CallOK(f)
  BY <1>0 DEF FreeRaw, At, Owned
<1>2. Frees(f) /\ f.ptr \in Pointers /\ Bare(f.info, b)
  BY <1>1 DEF CallOK, Frees
<1>3. b \in Blocks /\ b \in Pointers /\ Raw(b) = b /\ Twin(b) = Aligned(b)
  BY <1>2, PointerFacts DEF Twin
<1>4. /\ usable[b] > 0 /\ NotAsked(b) /\ live[b] = NoInfo /\ live[Aligned(b)] = NoInfo
      /\ f.info \in Infos /\ f.info.usable = usable[b]
      /\ zone[b] <= RawSize(f.info.size, b \notin Blocks)
  BY <1>2, <1>3 DEF Bare, Covers, NoRecord
<1> DEFINE g == [f EXCEPT !.at = "free", !.ptr = Raw(f.ptr), !.info = NoInfo]
<1>7. g \in Calls /\ g.at = "free" /\ g.ptr = b /\ g.ret = f.ret /\ g.size = f.size
  BY <1>3 DEF Calls, Steps
<1>8. /\ live' = [live EXCEPT ![b] = f.info] /\ call' = [call EXCEPT ![t] = g]
      /\ UNCHANGED <<usable, zone, dirty, asked, report>>
  BY <1>0, <1>4 DEF FreeRaw, GoesOn, Registry!AfterInsert, Registry!IsLive
<1> HIDE DEF g, b
<1>9. /\ live' \in [Pointers -> Infos \cup {NoInfo}]
      /\ live'[b] = f.info /\ live'[Aligned(b)] = NoInfo
      /\ \A x \in Blocks \ {b} : SameAt(x)
  BY <1>3, <1>4, <1>8, RecordSet DEF SameAt
<1>10. TypeOK'
  BY <1>7, <1>8, <1>9 DEF TypeOK
<1>11. Worked(b)'
  BY <1>3, <1>4, <1>8, <1>9 DEF Worked, Recorded, Covers, NotAsked
<1>12. RetOK(g)' => CallOK(g)'
  BY <1>3, <1>7, <1>11 DEF CallOK, Allocates, Frees
<1>13. /\ Frees(g) /\ g.ptr \in Pointers /\ Raw(g.ptr) = Raw(f.ptr)
       /\ \A x \in Blocks \ {Raw(f.ptr)} : SameAt(x)
  BY <1>3, <1>7, <1>9 DEF Frees, b
<1> QED BY <1>0, <1>2, <1>7, <1>8, <1>10, <1>12, <1>13, FreeingFrame

LEMMA DebugOnFreeOwned ==
  ASSUME TypeOK, Owned, NEW t \in Threads, DebugOnFree(t)
  PROVE report' = "none" /\ TypeOK' /\ Owned'
<1>0. PICK f \in Calls : f = call[t]
  BY DEF TypeOK
<1> DEFINE b == f.ptr
<1>1. f.at = "free" /\ CallOK(f) /\ b \in Blocks
  BY <1>0 DEF DebugOnFree, At, Owned
<1>2. Frees(f) /\ b \in Pointers /\ Worked(b)
  BY <1>1 DEF CallOK, Frees
<1>3. Raw(b) = b /\ Twin(b) = Aligned(b) /\ Aligned(b) \in Pointers
  BY <1>1, PointerFacts DEF Twin
<1>4. /\ usable[b] > 0 /\ NotAsked(b) /\ live[Aligned(b)] = NoInfo
      /\ live[b] \in Infos /\ live[b] # NoInfo
      /\ zone[b] <= live[b].size /\ usable[b] = live[b].usable
  BY <1>1, <1>2, <1>3, PointerFacts DEF Worked, Recorded, Covers, RawSize
<1>5. FreeVerdict(b) = "none"
  BY SMT, <1>1, <1>4 DEF FreeVerdict, Registry!IsLive, TypeOK, Infos
<1> DEFINE g == [f EXCEPT !.at = "release"]
<1>7. g \in Calls /\ g.at = "release" /\ g.ptr = b /\ g.ret = f.ret /\ g.size = f.size
  BY DEF Calls, Steps
<1>8. /\ live' = [live EXCEPT ![b] = NoInfo] /\ dirty' = dirty \ {b}
      /\ call' = [call EXCEPT ![t] = g] /\ report' = "none" /\ UNCHANGED <<usable, zone, asked>>
  BY <1>0, <1>5 DEF DebugOnFree, GoesOn, Registry!AfterErase
<1> HIDE DEF g
<1>9. /\ live' \in [Pointers -> Infos \cup {NoInfo}]
      /\ live'[b] = NoInfo /\ live'[Aligned(b)] = NoInfo
      /\ \A x \in Blocks \ {b} : SameAt(x)
  BY <1>1, <1>2, <1>3, <1>4, <1>8, RecordSet DEF SameAt
<1>10. TypeOK'
  BY <1>7, <1>8, <1>9 DEF TypeOK
<1>11. Fresh(b)'
  BY <1>3, <1>4, <1>8, <1>9 DEF Fresh, NoRecord, NotAsked
<1>12. RetOK(g)' => CallOK(g)'
  BY <1>1, <1>2, <1>3, <1>7, <1>11 DEF CallOK, Allocates, Frees
<1> QED BY <1>0, <1>2, <1>7, <1>8, <1>9, <1>3, <1>10, <1>12, FreeingFrame DEF Frees

LEMMA ReleaseOwned ==
  ASSUME TypeOK, Owned, NEW t \in Threads, Release(t)
  PROVE report' = report /\ TypeOK' /\ Owned'
<1>0. PICK f \in Calls : f = call[t]
  BY DEF TypeOK
<1>z. PICK z : z = zone
  OBVIOUS
<1> DEFINE b == f.ptr
<1>1. f.at = "release" /\ CallOK(f)
  BY <1>0 DEF Release, At, Owned
<1>2. Frees(f) /\ b \in Blocks /\ Fresh(b) /\ RetOK(f)
  BY <1>1 DEF CallOK, Frees
<1>3. /\ Raw(b) = b /\ b \in Pointers
      /\ Claims(f) = {b} \cup {Raw(p) : p \in {f.ret} \ {NoPtr}}
  BY <1>1, <1>2, PointerFacts, ClaimsOf
<1>4. /\ usable' = [usable EXCEPT ![b] = 0] /\ live' = live /\ report' = report
      /\ usable' \in [Blocks -> Nat] /\ usable'[b] = 0
      /\ \A x \in Blocks \ {b} : usable'[x] = usable[x]
  BY <1>0, <1>2 DEF Release, TypeOK
<1>5. CASE f.ret = NoPtr
  <2>1. call' = [call EXCEPT ![t] = Outside] /\ UNCHANGED <<zone, dirty, asked>>
    BY <1>0, <1>5 DEF Release, GoesOn
  <2>2. TypeOK'
    BY <1>4, <2>1, OutsideFacts DEF TypeOK
  <2>3. Free(b)'
    BY <1>2, <1>4, <2>1 DEF Fresh, Free, NotAsked, NoRecord
  <2>4. \A x \in Blocks \ {b} : SameAt(x)
    BY <1>4, <2>1 DEF SameAt
  <2> QED BY ZenonT(60), <1>0, <1>3, <1>4, <1>5, <2>1, <2>2, <2>3, <2>4, OutsideFacts, ShrinkingFrame
<1>6. CASE f.ret # NoPtr
  <2> DEFINE p == f.ret
  <2>1. Returns(t, p, f.size, z)
    BY <1>0, <1>z, <1>6 DEF Release
  <2>2. /\ p \in Pointers /\ Raw(p) \in Blocks /\ Raw(p) # b /\ Worked(p)
        /\ f.size \in Nat \ {0} /\ live[p].size = f.size /\ Fits(p, f.size)
    BY SMT, <1>2, <1>3, <1>6, PointerFacts DEF RetOK, Calls
  <2>3. z \in [Blocks -> Int]
    BY <1>z DEF TypeOK
  <2>4. TypeOK'
    BY <1>4, <2>1, <2>2, <2>3, ReturnsType DEF TypeOK
  <2>5. RecordedFor(p, f.size, z)'
    <3>1. Fits(p, f.size)'
      BY <1>4, <2>2 DEF Fits
    <3> QED BY <1>z, <1>4, <2>2, <3>1 DEF RecordedFor, Worked, Recorded, Covers
  <2>6. Free(b)'
    <3>1. dirty' = dirty \cup {Raw(p)} /\ asked' = [asked EXCEPT ![p] = f.size]
      BY <2>1 DEF Returns
    <3>2. p # b /\ p # Aligned(b) /\ Aligned(b) \in Pointers
      BY <1>2, <2>2, PointerFacts
    <3> QED BY <1>2, <1>3, <1>4, <2>2, <3>1, <3>2 DEF Fresh, Free, NotAsked, NoRecord, TypeOK
  <2>7. KeepsOutside(Claims(f), z)
    BY <1>z, <1>3, <1>4 DEF KeepsOutside
  <2>8. Claims(f) = {b, Raw(p)}
    BY <1>3, <1>6
  <2> HIDE DEF p
  <2> QED BY <1>0, <1>4, <2>1, <2>2, <2>3, <2>4, <2>5, <2>6, <2>7, <2>8, ReturnsOwned
<1> QED BY <1>5, <1>6

LEMMA CopyEraseOwned ==
  ASSUME TypeOK, Owned, NEW t \in Threads, CopyErase(t)
  PROVE report' = report /\ TypeOK' /\ Owned'
<1>0. PICK f \in Calls : f = call[t]
  BY DEF TypeOK
<1>i. PICK i : i = live[f.ptr]
  OBVIOUS
<1> DEFINE b == f.ptr
<1>1. f.at = "copy" /\ CallOK(f)
  BY <1>0 DEF CopyErase, At, Owned
<1>2. Frees(f) /\ b \in Blocks /\ f.ret # NoPtr /\ Worked(b)
  BY <1>1 DEF CallOK, Frees
<1>3. b \in Pointers /\ Raw(b) = b /\ Twin(b) = Aligned(b)
  BY <1>2, PointerFacts DEF Twin
<1>4. /\ usable[b] > 0 /\ NotAsked(b) /\ live[Aligned(b)] = NoInfo
      /\ i \in Infos /\ i # NoInfo /\ Covers(i, b)
  BY <1>i, <1>2, <1>3, PointerFacts DEF Worked, Recorded, Covers
<1> DEFINE g == [f EXCEPT !.at = "copied", !.info = i]
<1>7. /\ g \in Calls /\ g.at = "copied" /\ g.ptr = b /\ g.ret = f.ret /\ g.size = f.size
      /\ g.info = i
  BY <1>4 DEF Calls, Steps
<1>8. /\ live' = [live EXCEPT ![b] = NoInfo] /\ call' = [call EXCEPT ![t] = g]
      /\ UNCHANGED <<usable, zone, dirty, asked, report>>
  BY <1>0, <1>i, <1>4 DEF CopyErase, GoesOn, Registry!AfterErase, Registry!IsLive
<1> HIDE DEF g
<1>9. /\ live' \in [Pointers -> Infos \cup {NoInfo}]
      /\ live'[b] = NoInfo /\ live'[Aligned(b)] = NoInfo
      /\ \A x \in Blocks \ {b} : SameAt(x)
  BY <1>3, <1>4, <1>8, RecordSet DEF SameAt
<1>10. TypeOK'
  BY <1>7, <1>8, <1>9 DEF TypeOK
<1>11. Bare(i, b)'
  <2>1. Covers(i, b)'
    BY <1>4, <1>8 DEF Covers
  <2> QED BY <1>3, <1>4, <1>8, <1>9, <2>1 DEF Bare, NoRecord, NotAsked
<1>12. RetOK(g)' => CallOK(g)'
  BY <1>2, <1>3, <1>7, <1>11 DEF CallOK, Allocates, Frees
<1> QED BY <1>0, <1>2, <1>3, <1>7, <1>8, <1>9, <1>10, <1>12, FreeingFrame DEF Frees

LEMMA CopyInsertOwned ==
  ASSUME TypeOK, Owned, NEW t \in Threads, CopyInsert(t)
  PROVE report' = report /\ TypeOK' /\ Owned'
<1>0. PICK f \in Calls : f = call[t]
  BY DEF TypeOK
<1> DEFINE b == f.ptr
<1>1. f.at = "copied" /\ CallOK(f)
  BY <1>0 DEF CopyInsert, At, Owned
<1>2. Frees(f) /\ b \in Blocks /\ Bare(f.info, b)
  BY <1>1 DEF CallOK, Frees
<1>3. b \in Pointers /\ Raw(b) = b /\ Twin(b) = Aligned(b)
  BY <1>2, PointerFacts DEF Twin
<1>4. /\ usable[b] > 0 /\ NotAsked(b) /\ live[b] = NoInfo /\ live[Aligned(b)] = NoInfo
      /\ f.info \in Infos /\ f.info.usable = usable[b]
      /\ zone[b] <= RawSize(f.info.size, b \notin Blocks)
  BY <1>2, <1>3 DEF Bare, Covers, NoRecord
<1> DEFINE g == [f EXCEPT !.at = "free", !.info = NoInfo]
<1>7. g \in Calls /\ g.at = "free" /\ g.ptr = b /\ g.ret = f.ret /\ g.size = f.size
  BY DEF Calls, Steps
<1>8. /\ live' = [live EXCEPT ![b] = f.info] /\ call' = [call EXCEPT ![t] = g]
      /\ UNCHANGED <<usable, zone, dirty, asked, report>>
  BY <1>0, <1>4 DEF CopyInsert, GoesOn, Registry!AfterInsert, Registry!IsLive
<1> HIDE DEF g
<1>9. /\ live' \in [Pointers -> Infos \cup {NoInfo}]
      /\ live'[b] = f.info /\ live'[Aligned(b)] = NoInfo
      /\ \A x \in Blocks \ {b} : SameAt(x)
  BY <1>3, <1>4, <1>8, RecordSet DEF SameAt
<1>10. TypeOK'
  BY <1>7, <1>8, <1>9 DEF TypeOK
<1>11. Worked(b)'
  BY <1>3, <1>4, <1>8, <1>9 DEF Worked, Recorded, Covers, NotAsked
<1>12. RetOK(g)' => CallOK(g)'
  BY <1>3, <1>7, <1>11 DEF CallOK, Allocates, Frees
<1> QED BY <1>0, <1>2, <1>3, <1>7, <1>8, <1>9, <1>10, <1>12, FreeingFrame DEF Frees

-----------------------------------------------------------------------------
(* Reallocation in place or by mremap *)

LEMMA ResizeEraseOwned ==
  ASSUME TypeOK, Owned, NEW t \in Threads, ResizeErase(t)
  PROVE report' = report /\ TypeOK' /\ Owned'
<1>0. PICK f \in Calls : f = call[t]
  BY DEF TypeOK
<1>i. PICK i : i = ResizedInfo(live[f.ptr], f)
  OBVIOUS
<1> DEFINE b == f.ptr
           r == f.ret
<1>1. f.at \in {"kept", "remapped"} /\ CallOK(f)
  BY <1>0 DEF ResizeErase, At, Owned
<1>2. b \in Blocks /\ r \in Blocks /\ f.size > 0 /\ f.size <= usable[r] /\ f.size \in Nat
  BY <1>1 DEF CallOK, Calls
<1>3. /\ b \in Pointers /\ Raw(b) = b /\ Twin(b) = Aligned(b)
      /\ r \in Pointers /\ Raw(r) = r
      /\ Claims(f) = {b, r}
  BY <1>1, <1>2, PointerFacts, ClaimsOf DEF Twin
<1>4. /\ NotAsked(b) /\ NotAsked(r)
      /\ live[b] \in Infos /\ live[Aligned(b)] = NoInfo /\ live[Aligned(r)] = NoInfo
      /\ b # r => usable[b] = 0 /\ b \notin dirty /\ live[r] = NoInfo
      /\ f.at = "kept" => b = r /\ live[b].usable = usable[r]
  <2>1. CASE f.at = "kept"
    BY <1>1, <1>3, <2>1 DEF CallOK, Worked, Recorded, Covers
  <2>2. CASE f.at = "remapped"
    BY <1>1, <2>2 DEF CallOK
  <2> QED BY <1>1, <2>1, <2>2
<1>5. i \in Infos /\ i.usable = usable[r] /\ i.size = f.size
  BY <1>i, <1>1, <1>2, <1>4 DEF ResizedInfo, Infos, TypeOK
<1> DEFINE g == [f EXCEPT !.at = "resized", !.info = i]
<1>7. /\ g \in Calls /\ g.at = "resized" /\ g.ret = r /\ g.size = f.size /\ g.info = i
  BY <1>5 DEF Calls, Steps
<1>8. /\ live' = [live EXCEPT ![b] = NoInfo] /\ call' = [call EXCEPT ![t] = g]
      /\ UNCHANGED <<usable, zone, dirty, asked, report>>
  BY <1>0, <1>i, <1>4, PointerFacts DEF ResizeErase, GoesOn, Registry!AfterErase, Registry!IsLive
<1> HIDE DEF g
<1>9. /\ live' \in [Pointers -> Infos \cup {NoInfo}]
      /\ live'[b] = NoInfo /\ live'[Aligned(b)] = NoInfo
      /\ \A x \in Blocks \ {b} : SameAt(x)
  BY <1>3, <1>4, <1>8, RecordSet DEF SameAt
<1>10. TypeOK'
  BY <1>7, <1>8, <1>9 DEF TypeOK
<1>11. NotAsked(b)' /\ NotAsked(r)' /\ NoRecord(b)' /\ NoRecord(r)'
  <2>1. NotAsked(b)' /\ NotAsked(r)' /\ NoRecord(b)'
    BY <1>4, <1>8, <1>9 DEF NotAsked, NoRecord
  <2>2. b # r => NoRecord(r)'
    BY <1>2, <1>4, <1>9 DEF NoRecord, SameAt
  <2> QED BY <2>1, <2>2
<1>12. CallOK(g)'
  BY <1>2, <1>5, <1>7, <1>8, <1>11 DEF CallOK, Allocates, Frees
<1>13. Claims(g) = {r}
  BY SMT, <1>2, <1>3, <1>7, PointerFacts DEF Claims, RawsOf, Allocates, Frees
<1>14. b # r => Free(b)'
  BY <1>4, <1>8, <1>11 DEF Free
<1> HIDE DEF b, r
<1>15. /\ Claims(g) \subseteq Claims(f)
       /\ \A x \in Claims(f) : x \in Claims(g) \/ Free(x)'
       /\ \A x \in Blocks \ Claims(f) : SameAt(x)
  BY <1>3, <1>9, <1>13, <1>14
<1> QED BY <1>0, <1>7, <1>8, <1>10, <1>12, <1>15, ShrinkingFrame

LEMMA ResizeInsertOwned ==
  ASSUME TypeOK, Owned, NEW t \in Threads, ResizeInsert(t)
  PROVE report' = report /\ TypeOK' /\ Owned'
<1>0. PICK f \in Calls : f = call[t]
  BY DEF TypeOK
<1>z. PICK z : z = [zone EXCEPT ![f.ret] = f.size]
  OBVIOUS
<1> DEFINE b == f.ret
<1>1. f.at = "resized" /\ CallOK(f)
  BY <1>0 DEF ResizeInsert, At, Owned
<1>2. /\ b \in Blocks /\ f.size \in Nat \ {0} /\ f.size <= usable[b]
      /\ NotAsked(b) /\ NoRecord(b)
      /\ f.info \in Infos /\ f.info.usable = usable[b] /\ f.info.size = f.size
  BY SMT, <1>1 DEF CallOK, Calls
<1>3. /\ b \in Pointers /\ Raw(b) = b /\ Twin(b) = Aligned(b)
      /\ Claims(f) = {b}
  BY <1>1, <1>2, PointerFacts, ClaimsOf DEF Twin
<1>4. /\ live' = [live EXCEPT ![b] = f.info] /\ Returns(t, b, f.size, z)
      /\ UNCHANGED <<usable, report>>
  BY <1>0, <1>z, <1>2 DEF ResizeInsert, Refilled, NoRecord, Registry!AfterInsert, Registry!IsLive
<1>5. z \in [Blocks -> Int] /\ z[b] = f.size /\ \A x \in Blocks \ {b} : z[x] = zone[x]
  BY SMT, <1>z, <1>2 DEF TypeOK
<1> HIDE DEF b
<1>6. /\ live' \in [Pointers -> Infos \cup {NoInfo}]
      /\ live'[b] = f.info /\ live'[Aligned(b)] = NoInfo
      /\ KeepsOutside({b}, z)
  <2>1. /\ live' \in [Pointers -> Infos \cup {NoInfo}]
        /\ live'[b] = f.info /\ live'[Twin(b)] = live[Twin(b)]
        /\ \A x \in Blocks \ {b} : live'[x] = live[x] /\ live'[Aligned(x)] = live[Aligned(x)]
    BY <1>2, <1>3, <1>4, RecordSet
  <2> QED BY <1>2, <1>3, <1>4, <1>5, <2>1 DEF KeepsOutside, NoRecord
<1>7. TypeOK'
  BY <1>2, <1>3, <1>4, <1>5, <1>6, ReturnsType DEF TypeOK
<1>8. RecordedFor(b, f.size, z)'
  <2>1. b \in Nat /\ usable[b] \in Nat
    BY <1>2, DebugCallsAssumption DEF TypeOK
  <2>2. Fits(b, f.size)'
    BY SMT, <1>2, <1>3, <1>4, <2>1 DEF Fits
  <2> QED BY SMT, <1>2, <1>3, <1>4, <1>5, <1>6, <2>1, <2>2 DEF RecordedFor, RawSize
<1> QED BY <1>0, <1>2, <1>3, <1>4, <1>5, <1>6, <1>7, <1>8, ReturnsOwned

-----------------------------------------------------------------------------
(* The calls of the program *)

(* The program gives a pointer it holds to a call. *)
LEMMA AskedTaken ==
  ASSUME TypeOK, Owned, NEW p \in Pointers, asked[p] > 0, NEW n \in Nat,
         asked' = [asked EXCEPT ![p] = n]
  PROVE /\ asked' \in [Pointers -> Nat] /\ asked'[p] = n /\ asked'[Twin(p)] = 0
        /\ Raw(p) \in Blocks /\ Recorded(p)
        /\ n = 0 => NotAsked(Raw(p))'
        /\ \A b \in Blocks \ {Raw(p)} : asked'[b] = asked[b] /\ asked'[Aligned(b)] = asked[Aligned(b)]
<1>1. Held(p)
  BY AskedHeld
<1>2. /\ Raw(p) \in Blocks /\ Twin(p) \in Pointers /\ Twin(p) # p
      /\ {p, Twin(p)} = {Raw(p), Aligned(Raw(p))}
  BY PointerFacts DEF Twin
<1>3. \A b \in Blocks \ {Raw(p)} : b \in Pointers /\ Aligned(b) \in Pointers /\ b # p /\ Aligned(b) # p
  BY PointerFacts
<1>4. asked' \in [Pointers -> Nat] /\ asked'[p] = n /\ asked'[Twin(p)] = 0
  BY <1>1, <1>2 DEF Held, TypeOK
<1> QED BY <1>1, <1>2, <1>3, <1>4 DEF Held, NotAsked, TypeOK

LEMMA FreeCallOwned ==
  ASSUME TypeOK, Owned, NEW t \in Threads, NEW p \in Pointers, fast_free(t, p)
  PROVE report' = report /\ TypeOK' /\ Owned'
<1> DEFINE g == [Outside EXCEPT !.at = "free", !.ptr = p]
<1>1. /\ call[t] = Outside /\ asked[p] > 0 /\ asked' = [asked EXCEPT ![p] = 0]
      /\ call' = [call EXCEPT ![t] = g]
      /\ UNCHANGED <<usable, zone, dirty, live, report>>
  BY DEF fast_free, Enters, GoesOn
<1>2. g \in Calls /\ g.at = "free" /\ g.ptr = p /\ g.ret = NoPtr
  BY DEF Outside, Calls, Steps
<1> HIDE DEF g
<1>3. /\ asked' \in [Pointers -> Nat] /\ Raw(p) \in Blocks /\ Recorded(p) /\ NotAsked(Raw(p))'
      /\ \A b \in Blocks \ {Raw(p)} : SameAt(b)
  BY <1>1, AskedTaken DEF SameAt
<1>4. TypeOK'
  BY <1>1, <1>2, <1>3 DEF TypeOK
<1>5. Worked(p)'
  BY <1>1, <1>3 DEF Worked, Recorded, Covers
<1>6. CallOK(g)'
  BY <1>2, <1>5 DEF CallOK, RetOK, Allocates, Frees
<1>7. Claims(g) = {Raw(p)}
  BY SMT, <1>2, PointerFacts DEF Claims, RawsOf, Allocates, Frees
<1>8. Unclaimed(Raw(p))
  BY <1>1, AskedHeld
<1>9. \A u \in Threads : u # t => Claims(call[u]) \cap {Raw(p)} = {}
  BY <1>8 DEF Unclaimed
<1> QED BY ZenonT(60), <1>1, <1>2, <1>3, <1>4, <1>6, <1>7, <1>9, Frame, OutsideFacts

LEMMA ReallocAlignedKeptOwned ==
  ASSUME TypeOK, Owned, NEW t \in Threads, NEW p \in Pointers, NEW n \in Nat \ {0},
         ReallocAlignedKept(t, p, n)
  PROVE report' = report /\ TypeOK' /\ Owned'
<1>1. /\ call[t] = Outside /\ asked[p] > 0 /\ asked' = [asked EXCEPT ![p] = n]
      /\ p \notin Blocks /\ n <= asked[p]
      /\ UNCHANGED <<usable, zone, dirty, live, call, report>>
  BY DEF ReallocAlignedKept, Resizes, Enters
<1>2. call' = [call EXCEPT ![t] = Outside]
  BY <1>1 DEF TypeOK
<1>3. /\ asked' \in [Pointers -> Nat] /\ asked'[p] = n /\ asked'[Twin(p)] = 0
      /\ Raw(p) \in Blocks /\ p = Aligned(Raw(p)) /\ \A b \in Blocks \ {Raw(p)} : SameAt(b)
  BY <1>1, AskedTaken, PointerFacts DEF SameAt
<1>4. TypeOK'
  BY <1>1, <1>3 DEF TypeOK
<1>5. Held(p)'
  <2>1. Held(p) /\ p \in Int /\ Raw(p) \in Nat
    BY <1>1, AskedHeld, PaddingFits
  <2>2. Fits(p, n)'
    BY SMT, <1>1, <1>3, <2>1 DEF Held, Fits, TypeOK
  <2>3. live[p].size >= n
    BY SMT, <1>1, <1>3, <2>1 DEF Held, TypeOK, Recorded, Covers, Infos
  <2> QED BY SMT, <1>1, <1>3, <2>1, <2>2, <2>3 DEF Held, Recorded, Covers
<1>8. Unclaimed(Raw(p))
  BY <1>1, AskedHeld
<1>9. \A u \in Threads : u # t => Claims(call[u]) \cap {Raw(p)} = {}
  BY <1>8 DEF Unclaimed
<1>10. PICK D \in SUBSET Blocks : D = {Raw(p)}
  BY <1>3
<1>11. /\ \A b \in D : Free(b)' \/ Held(b)' \/ Held(Aligned(b))'
       /\ \A b \in Blocks \ D : SameAt(b)
       /\ \A u \in Threads : u # t => Claims(call[u]) \cap D = {}
  BY <1>3, <1>5, <1>9, <1>10
<1>12. Claims(call[t]) = {} /\ report' = report
  BY <1>1, OutsideFacts
<1>13. Owned'
  BY <1>2, <1>11, <1>12, Frame, OutsideFacts
<1> QED BY <1>4, <1>12, <1>13

LEMMA ReallocKeptOwned ==
  ASSUME TypeOK, Owned, NEW t \in Threads, NEW p \in Pointers, NEW n \in Nat \ {0},
         ReallocKept(t, p, n)
  PROVE report' = report /\ TypeOK' /\ Owned'
<1> DEFINE g == [Outside EXCEPT !.at = "kept", !.ptr = p, !.ret = p, !.size = n]
<1>1. /\ call[t] = Outside /\ asked[p] > 0 /\ asked' = [asked EXCEPT ![p] = 0]
      /\ p \in Blocks /\ n <= usable[p] /\ call' = [call EXCEPT ![t] = g]
      /\ UNCHANGED <<usable, zone, dirty, live, report>>
  BY DEF ReallocKept, KeepsBlock, Resizes, Enters, GoesOn
<1>2. g \in Calls /\ g.at = "kept" /\ g.ptr = p /\ g.ret = p /\ g.size = n
  BY DEF Outside, Calls, Steps
<1> HIDE DEF g
<1>3. /\ asked' \in [Pointers -> Nat] /\ Raw(p) = p /\ Recorded(p) /\ NotAsked(Raw(p))'
      /\ \A b \in Blocks \ {p} : SameAt(b)
  BY <1>1, AskedTaken, PointerFacts DEF SameAt
<1>4. TypeOK'
  BY <1>1, <1>2, <1>3 DEF TypeOK
<1>5. Worked(p)'
  BY <1>1, <1>3 DEF Worked, Recorded, Covers
<1>6. CallOK(g)'
  BY SMT, <1>1, <1>2, <1>5 DEF CallOK, Allocates, Frees
<1>7. Claims(g) = {p}
  BY SMT, <1>2, <1>3, PointerFacts DEF Claims, RawsOf, Allocates, Frees
<1>8. Unclaimed(p)
  BY <1>1, <1>3, AskedHeld
<1>9. \A u \in Threads : u # t => Claims(call[u]) \cap {p} = {}
  BY <1>8 DEF Unclaimed
<1> QED BY ZenonT(60), <1>1, <1>2, <1>3, <1>4, <1>6, <1>7, <1>9, Frame, OutsideFacts

LEMMA RemapOwned ==
  ASSUME TypeOK, Owned, NEW t \in Threads, call[t] = Outside, NEW p \in Blocks, asked[p] > 0,
         NEW n \in Nat \ {0}, NEW q \in Blocks, q = p \/ usable[q] = 0,
         Remap(t, p, n, q), ~overtaken'
  PROVE report' = report /\ TypeOK' /\ Owned'
<1> DEFINE g == [Outside EXCEPT !.at = "remapped", !.ptr = p, !.ret = q, !.size = n]
           L == LargeUsable(n)
<1>1. /\ asked' = [asked EXCEPT ![p] = 0] /\ usable' = [[usable EXCEPT ![p] = 0] EXCEPT ![q] = L]
      /\ dirty' = (dirty \ {p}) \cup {q} /\ call' = [call EXCEPT ![t] = g]
      /\ UNCHANGED <<zone, live, report>>
      /\ ~\E u \in Threads : call[u].at = "remapped" /\ call[u].ptr = q
  BY DEF Remap, GoesOn, Overtakes
<1>2. /\ p \in Pointers /\ Raw(p) = p /\ Twin(p) = Aligned(p) /\ q \in Pointers /\ Raw(q) = q
      /\ L \in Nat /\ n <= L
  BY PointerFacts, SpanFits DEF Twin
<1>3. g \in Calls /\ g.at = "remapped" /\ g.ptr = p /\ g.ret = q /\ g.size = n
  BY <1>2 DEF Outside, Calls, Steps
<1> HIDE DEF g, L
<1>4. /\ usable' \in [Blocks -> Nat] /\ usable'[q] = L /\ (p # q => usable'[p] = 0)
      /\ \A b \in Blocks \ {p, q} : usable'[b] = usable[b]
  BY <1>1, <1>2 DEF TypeOK
<1>5. /\ asked' \in [Pointers -> Nat] /\ Recorded(p) /\ NotAsked(p)'
      /\ \A b \in Blocks \ {p} : asked'[b] = asked[b] /\ asked'[Aligned(b)] = asked[Aligned(b)]
  BY ZenonT(60), <1>1, <1>2, AskedTaken
<1>6. Unclaimed(p) /\ (p # q => Free(q) /\ Unclaimed(q))
  BY <1>1, <1>2, AskedHeld, FreeBlock
<1>7. TypeOK'
  BY <1>1, <1>3, <1>4, <1>5 DEF TypeOK
<1>8. \A b \in Blocks \ {p, q} : SameAt(b)
  BY <1>1, <1>4, <1>5 DEF SameAt
<1>9. /\ NotAsked(q)' /\ live'[p] \in Infos /\ live'[Aligned(p)] = NoInfo
      /\ live'[Aligned(q)] = NoInfo /\ (p # q => live'[q] = NoInfo)
  <2>1. live'[p] \in Infos /\ live'[Aligned(p)] = NoInfo
    BY <1>1, <1>2, <1>5 DEF Recorded, Covers
  <2>2. p # q => NotAsked(q)' /\ live'[Aligned(q)] = NoInfo /\ live'[q] = NoInfo
    BY <1>1, <1>5, <1>6 DEF Free, NotAsked, NoRecord
  <2> QED BY <1>5, <2>1, <2>2
<1>10. CallOK(g)'
  <2>1. p # q => p \notin dirty'
    BY <1>1
  <2>2. n <= usable'[q] /\ n > 0
    BY SMT, <1>2, <1>4
  <2> QED BY <1>3, <1>4, <1>5, <1>9, <2>1, <2>2 DEF CallOK, Allocates, Frees
<1>11. Claims(g) = {p, q}
  BY SMT, <1>2, <1>3, PointerFacts DEF Claims, RawsOf, Allocates, Frees
<1>12. PICK D \in SUBSET Blocks : D = {p, q}
  OBVIOUS
<1>13. /\ \A u \in Threads : u # t => Claims(call[u]) \cap D = {}
       /\ Claims(g) \subseteq D /\ (\A b \in D : b \in Claims(g)) /\ \A b \in Blocks \ D : SameAt(b)
  BY <1>6, <1>8, <1>11, <1>12 DEF Unclaimed
<1> QED BY <1>1, <1>3, <1>7, <1>10, <1>13, Frame, OutsideFacts

-----------------------------------------------------------------------------
(* The theorems *)

LEMMA InitIInv == Init => IInv
<1> SUFFICES ASSUME Init PROVE TypeOK /\ Owned /\ report = "none"
  BY DEF IInv
<1>1. Outside \in Calls /\ Outside.at = "outside"
  BY DEF Outside, Calls, Steps
<1>2. TypeOK
  BY SMT, <1>1 DEF Init, TypeOK
<1>3. \A t \in Threads : call[t] = Outside
  BY DEF Init
<1>4. CallOK(Outside) /\ Claims(Outside) = {}
  BY <1>1 DEF CallOK, Claims, Allocates, Frees
<1>5. \A b \in Blocks : Free(b)
  BY PointerFacts DEF Init, Free, NotAsked, NoRecord
<1> QED BY <1>2, <1>3, <1>4, <1>5 DEF Owned, Init

LEMMA Unchanged == IInv /\ UNCHANGED vars => IInv'
<1> SUFFICES ASSUME IInv, UNCHANGED vars PROVE IInv'
  OBVIOUS
<1>1. TypeOK => TypeOK'
  BY DEF TypeOK, vars
<1>2. \A f \in Calls : CallOK(f) => CallOK(f)'
  <2>1. \A b : SameAt(b)
    BY DEF vars, SameAt
  <2> QED BY <2>1, CallSame
<1>3. \A b : Free(b) => Free(b)'
  BY DEF vars, Free, NotAsked, NoRecord
<1>4. \A p : Held(p) => Held(p)'
  BY DEF vars, Held, Recorded, Covers, Fits
<1>5. \A b : Unclaimed(b)' => Unclaimed(b)
  BY DEF vars, Unclaimed
<1>6. TypeOK /\ Owned => Owned'
  BY <1>2, <1>3, <1>4, <1>5 DEF vars, Owned, TypeOK
<1> QED BY <1>1, <1>6 DEF IInv, vars

LEMMA StepIInv ==
  ASSUME IInv, NEW t \in Threads, Step(t) PROVE IInv'
<1>1. overtaken' = overtaken /\ report = "none"
  BY DEF Step, DebugOnAlloc, AlignErase, AlignInsert, FreeAligned, FreeRaw, DebugOnFree, Release,
         CopyErase, CopyInsert, ResizeErase, ResizeInsert, At
<1> SUFFICES ASSUME TypeOK, Owned PROVE report' = "none" /\ TypeOK' /\ Owned'
  BY <1>1 DEF IInv
<1> QED
  BY <1>1, DebugOnAllocOwned, AlignEraseOwned, AlignInsertOwned, FreeAlignedOwned, FreeRawOwned,
     DebugOnFreeOwned, ReleaseOwned, CopyEraseOwned, CopyInsertOwned, ResizeEraseOwned,
     ResizeInsertOwned DEF Step

LEMMA CallIInv ==
  ASSUME IInv, NEW t \in Threads, Call(t), ~overtaken' PROVE IInv'
<1>1. ~overtaken
  <2>1. \A n, oa, o : Take(t, n, oa, o) => ~overtaken
    BY DEF Take, Overtakes
  <2>2. \A p, n, q : Remap(t, p, n, q) => ~overtaken
    BY DEF Remap, Overtakes
  <2> QED
    BY <2>1, <2>2
    DEF Call, fast_malloc, fast_aligned_alloc, fast_free, ReallocAlignedKept, ReallocAlignedMoved,
        ReallocKept, ReallocShrunk, ReallocGrown, ReallocMoved
<1>2. report = "none" /\ TypeOK /\ Owned
  BY <1>1 DEF IInv
<1> SUFFICES report' = report /\ TypeOK' /\ Owned'
  BY <1>2 DEF IInv
<1>3. Requests \subseteq Nat \ {0} /\ Blocks \subseteq Pointers /\ LargeBlocks \subseteq Blocks
  BY DebugCallsAssumption, PointerFacts DEF Blocks
<1>4. ASSUME NEW n \in Requests, fast_malloc(t, n) PROVE report' = report /\ TypeOK' /\ Owned'
  BY <1>2, <1>3, <1>4, TakeOwned DEF fast_malloc, Enters
<1>5. ASSUME NEW n \in Requests, fast_aligned_alloc(t, n) PROVE report' = report /\ TypeOK' /\ Owned'
  BY <1>2, <1>3, <1>5, TakeOwned DEF fast_aligned_alloc, Enters
<1>6. ASSUME NEW p \in Pointers, fast_free(t, p) PROVE report' = report /\ TypeOK' /\ Owned'
  BY <1>2, <1>6, FreeCallOwned
<1>7. ASSUME NEW p \in Pointers, NEW n \in Requests,
             ReallocAlignedKept(t, p, n) \/ ReallocKept(t, p, n)
      PROVE report' = report /\ TypeOK' /\ Owned'
  BY <1>2, <1>3, <1>7, ReallocAlignedKeptOwned, ReallocKeptOwned
<1>8. ASSUME NEW p \in Pointers, NEW n \in Requests,
             ReallocAlignedMoved(t, p, n) \/ ReallocMoved(t, p, n)
      PROVE report' = report /\ TypeOK' /\ Owned'
  <2>1. p # NoPtr /\ call[t] = Outside /\ asked[p] > 0 /\ asked' = [asked EXCEPT ![p] = 0]
    BY <1>8, PointerFacts DEF ReallocAlignedMoved, ReallocMoved, Resizes, Enters
  <2>2. CASE ReallocAlignedMoved(t, p, n)
    <3>1. Take(t, n, TRUE, p)
      BY <2>2 DEF ReallocAlignedMoved
    <3> QED BY <1>2, <1>3, <2>1, <3>1, TakeOwned
  <2>3. CASE ReallocMoved(t, p, n)
    <3>1. Take(t, n, FALSE, p) /\ p \in Blocks
      BY <2>3 DEF ReallocMoved
    <3> QED BY <1>2, <1>3, <2>1, <3>1, TakeOwned
  <2> QED BY <1>8, <2>2, <2>3
<1>9. ASSUME NEW p \in Pointers, NEW n \in Requests,
             ReallocShrunk(t, p, n) \/ ReallocGrown(t, p, n)
      PROVE report' = report /\ TypeOK' /\ Owned'
  <2>1. call[t] = Outside /\ asked[p] > 0 /\ p \in Blocks
    BY <1>3, <1>9 DEF ReallocShrunk, ReallocGrown, Resizes, Enters
  <2>2. PICK q \in Blocks : (q = p \/ usable[q] = 0) /\ Remap(t, p, n, q)
    BY <1>3, <1>9, <2>1 DEF ReallocShrunk, ReallocGrown
  <2> QED BY <1>2, <1>3, <2>1, <2>2, RemapOwned
<1> QED BY <1>4, <1>5, <1>6, <1>7, <1>8, <1>9 DEF Call

(* IInv is inductive: from the initial state, every step of every call of   *)
(* every thread leaves each block with one owner and its record, red zone   *)
(* and poison as that owner needs them, until an address is overtaken.     *)
THEOREM RegistryInvariant == Spec => []IInv
<1>1. Init => IInv
  BY InitIInv
<1>2. IInv /\ [Next]_vars => IInv'
  <2> SUFFICES ASSUME IInv, [Next]_vars, ~overtaken' PROVE IInv'
    BY DEF IInv
  <2>1. CASE UNCHANGED vars
    BY <2>1, Unchanged
  <2>2. ASSUME NEW t \in Threads, Step(t) PROVE IInv'
    BY <2>2, StepIInv
  <2>3. ASSUME NEW t \in Threads, Call(t) PROVE IInv'
    BY <2>3, CallIInv
  <2> QED BY <2>1, <2>2, <2>3 DEF Next, Ended
<1> QED BY <1>1, <1>2, PTL DEF Spec

(* A record in a block that a call claims is that of a pointer of the call. *)
LEMMA RecordOwner ==
  ASSUME NEW f \in Calls, CallOK(f), NEW p \in Pointers, Raw(p) \in Claims(f), live[p] # NoInfo
  PROVE p \in {f.ptr, f.old, f.ret}
<1>0. /\ Raw(p) \in Blocks /\ p \in {Raw(p), Aligned(Raw(p))}
      /\ \A x \in Blocks : x \in Pointers /\ Raw(x) = x /\ Raw(Aligned(x)) = x
      /\ f.old # NoPtr => f.old \in Pointers
      /\ f.ret # NoPtr => f.ret \in Pointers
  BY PointerFacts DEF Calls
<1>1. ASSUME NEW q \in Pointers, Raw(q) = Raw(p), live[Twin(q)] = NoInfo PROVE p = q
  BY <1>0, <1>1, PointerFacts DEF Twin
<1>2. ~NoRecord(Raw(p))
  BY <1>0 DEF NoRecord
<1>3. CASE Allocates(f)
  <2>1. Raw(p) = f.ptr \/ (f.old # NoPtr /\ Raw(p) = Raw(f.old))
    BY SMT, <1>3, ClaimsOf
  <2>2. f.old # NoPtr => live[Twin(f.old)] = NoInfo
    BY <1>3 DEF CallOK, OldOK, Worked, Recorded
  <2>3. f.ptr \in Blocks /\ (f.at = "align" => live[Twin(f.ptr)] = NoInfo)
    BY <1>3 DEF CallOK, Worked, Recorded
  <2>4. f.at # "align" => NoRecord(f.ptr)
    BY <1>0, <1>3, <2>3 DEF CallOK, Allocates, Fresh, Bare
  <2> QED BY <1>0, <1>1, <1>2, <2>1, <2>2, <2>3, <2>4
<1>4. CASE Frees(f)
  <2>1. Raw(p) = Raw(f.ptr) \/ (f.ret # NoPtr /\ Raw(p) = Raw(f.ret))
    BY SMT, <1>4, ClaimsOf
  <2>2. f.ret # NoPtr => live[Twin(f.ret)] = NoInfo
    BY <1>4 DEF CallOK, RetOK, Worked, Recorded
  <2>3. f.ptr \in Pointers /\ (f.at \in {"free", "copy"} => live[Twin(f.ptr)] = NoInfo)
    BY <1>4 DEF CallOK, Worked, Recorded
  <2>4. f.at \notin {"free", "copy"} => NoRecord(Raw(f.ptr))
    BY <1>0, <1>4, <2>3, PointerFacts DEF CallOK, Frees, Fresh, Bare
  <2> QED BY <1>0, <1>1, <1>2, <2>1, <2>2, <2>3, <2>4
<1>5. CASE f.at \in {"kept", "remapped"}
  <2>1. Raw(p) \in {f.ptr, f.ret} /\ f.ptr \in Blocks /\ f.ret \in Blocks
    BY <1>5, ClaimsOf DEF CallOK
  <2>2. live[Aligned(f.ptr)] = NoInfo /\ live[Aligned(f.ret)] = NoInfo
    BY <1>5, <2>1 DEF CallOK, Worked, Recorded, Twin
  <2> QED BY <1>0, <2>1, <2>2
<1>6. CASE f.at = "resized"
  BY <1>2, <1>6, ClaimsOf DEF CallOK
<1> QED BY <1>0, <1>3, <1>4, <1>5, <1>6 DEF Claims

(* A correct program is not accused, with any number of threads and blocks  *)
(* and whatever their calls interleave, while no address is overtaken.     *)
THEOREM NoFalseReport == Spec => []ReportsExplained
<1>1. IInv => ReportsExplained
  BY DEF IInv, ReportsExplained
<1> QED BY <1>1, RegistryInvariant, PTL

(* The registry is exact, under the same condition: every pointer the       *)
(* program holds has its record, with a block long enough, and every other *)
(* record belongs to a call that is running.                               *)
THEOREM RegistryExact == Spec => []RecordsExact
<1>1. IInv => RecordsExact
  <2> SUFFICES ASSUME TypeOK, Owned PROVE RecordsExact
    BY DEF IInv, RecordsExact
  <2>1. ASSUME NEW p \in Pointers, asked[p] > 0
        PROVE /\ live[p] # NoInfo /\ live[p].usable = usable[Raw(p)] /\ Fits(p, asked[p])
              /\ IF p \in Blocks THEN live[p].size = asked[p] ELSE live[p].size >= asked[p]
    <3>1. Held(p)
      BY <2>1, AskedHeld
    <3> QED BY <3>1, PointerFacts DEF Held, Recorded, Covers
  <2>2. ASSUME NEW p \in Pointers, live[p] # NoInfo, asked[p] = 0
        PROVE \E t \in Threads : call[t] # Outside /\ p \in Pending(t)
    <3>1. Raw(p) \in Blocks /\ p \in {Raw(p), Aligned(Raw(p))}
      BY PointerFacts
    <3>2. ~Unclaimed(Raw(p))
      <4>1. ~Free(Raw(p))
        BY <2>2, <3>1 DEF Free, NoRecord
      <4>2. Twin(Raw(p)) = Aligned(Raw(p)) /\ Twin(Aligned(Raw(p))) = Raw(p)
        BY <3>1, PointerFacts DEF Twin
      <4>3. ~Held(Raw(p)) /\ ~Held(Aligned(Raw(p)))
        BY SMT, <2>2, <3>1, <4>2 DEF Held, Recorded
      <4> QED BY <3>1, <4>1, <4>3 DEF Owned
    <3>3. PICK t \in Threads : Raw(p) \in Claims(call[t])
      BY <3>2 DEF Unclaimed
    <3>4. PICK f \in Calls : f = call[t]
      BY DEF TypeOK
    <3>5. CallOK(f) /\ Raw(p) \in Claims(f) /\ f # Outside
      BY <3>3, <3>4, OutsideFacts DEF Owned
    <3>6. p \in {f.ptr, f.old, f.ret}
      BY <2>2, <3>5, RecordOwner
    <3> QED BY <3>4, <3>5, <3>6 DEF Pending
  <2>3. asked \in [Pointers -> Nat]
    BY DEF TypeOK
  <2> QED BY SMT, <2>1, <2>2, <2>3 DEF RecordsExact
<1> QED BY <1>1, RegistryInvariant, PTL
=============================================================================
