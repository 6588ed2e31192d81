--------------------------- MODULE TLSCachePlaces ---------------------------
(***************************************************************************)
(* Moving blocks. A step takes a set of blocks out of one place and puts   *)
(* each of them into one other; this module says when such a step keeps    *)
(* every block in one place only and keeps it anchored in a live slab of   *)
(* the right class. TLSCacheHeapMoves and TLSCacheBinMoves apply it to     *)
(* each step.                                                              *)
(***************************************************************************)
EXTENDS TLSCacheLocks

(* Every place holds blocks.                                               *)
LEMMA ContentsType ==
  ASSUME TypeOK, NEW p \in Places
  PROVE Contents(p) \subseteq Blocks
<1>1. \A u \in Threads, c \in Classes : bin[u][c].list \subseteq Blocks
  BY DEF TypeOK, CacheBin
<1>2. \A s \in Spans : hdr[s].free_list \subseteq Blocks
  BY DEF TypeOK, SlabHeader
<1>3. /\ user \subseteq Blocks
      /\ \A u \in Threads : result[u] \subseteq Blocks
      /\ \A u \in Threads, k \in Keys : todo[u][k] \subseteq Blocks
      /\ \A k \in Keys : pending[k] \subseteq Blocks
  BY DEF TypeOK
<1> QED BY <1>1, <1>2, <1>3, PlaceKinds, PlaceContents

(* A step moves the blocks M to the places D: no other place gains a       *)
(* block, the places D gain only blocks of M, every block of M ends up in  *)
(* one of them, and leaves the place it was in.                            *)
Moves(M, D) ==
  /\ IsFiniteSet(M)
  /\ D \subseteq Places
  /\ \A x \in Places \ D : Contents(x)' \subseteq Contents(x) \ M
  /\ \A x \in D : Contents(x)' \subseteq Contents(x) \cup M
  /\ \A x, y \in D : x # y => Contents(x)' \cap Contents(y)' \cap M = {}

(* A step that moves blocks leaves each block in one place only.           *)
LEMMA MovesOnePlace ==
  ASSUME OnePlace, FinitePlaces, NEW M, NEW D, Moves(M, D)
  PROVE OnePlace' /\ FinitePlaces'
<1>1. ASSUME NEW x \in Places, NEW y \in Places, x # y,
             NEW b \in Contents(x)', b \in Contents(y)'
      PROVE FALSE
  <2>1. CASE b \in M
    <3>1. x \in D /\ y \in D
      BY <1>1, <2>1 DEF Moves
    <3> QED BY <1>1, <2>1, <3>1 DEF Moves
  <2>2. CASE b \notin M
    <3>1. b \in Contents(x) /\ b \in Contents(y)
      BY <1>1, <2>2 DEF Moves
    <3> QED BY <1>1, <3>1 DEF OnePlace
  <2> QED BY <2>1, <2>2
<1>2. OnePlace'
  BY <1>1 DEF OnePlace, Places
<1>3. ASSUME NEW x \in Places PROVE IsFiniteSet(Contents(x)')
  <2>1. IsFiniteSet(Contents(x)) /\ IsFiniteSet(M)
    BY DEF FinitePlaces, Moves
  <2>2. IsFiniteSet(Contents(x) \cup M)
    BY Zenon, <2>1, FS_Union
  <2>3. Contents(x)' \subseteq Contents(x) \cup M
    BY DEF Moves
  <2> QED BY <2>2, <2>3, FS_Subset
<1>4. FinitePlaces'
  BY <1>3 DEF FinitePlaces, Places
<1> QED BY <1>2, <1>4

(* A step that moves blocks keeps every block anchored when it keeps the   *)
(* slabs of the blocks that stay, and the moved ones are anchored where    *)
(* they arrive.                                                            *)
LEMMA MovesAnchored ==
  ASSUME TypeOK, TypeOK', Anchored, NEW M, NEW D, Moves(M, D),
         \A x \in Places : \A b \in Contents(x) \cap Contents(x)' : Kept(b[1]),
         \A u \in Threads : result'[u] # {} => own'[u][2] = own[u][2],
         \A x \in D : \A b \in M : b \in Contents(x)' => AnchoredAt(x, b)'
  PROVE Anchored'
<1>1. ASSUME NEW x \in Places, NEW b \in Contents(x)' PROVE AnchoredAt(x, b)'
  <2>1. CASE b \in M
    BY <2>1 DEF Moves
  <2>2. CASE b \notin M
    <3>1. b \in Contents(x)
      BY <2>2 DEF Moves
    <3>2. Kept(b[1]) /\ AnchoredAt(x, b)
      BY <3>1 DEF Anchored
    <3>3. b \in Blocks
      BY <3>1, ContentsType
    <3>4. b[2] \in Nat /\ hdr[b[1]].next_new \in Nat /\ hdr'[b[1]].next_new \in Nat
      BY <3>3 DEF TypeOK, Blocks, SlabHeader
    <3>5. x[1] = "result" => own'[x[2]][2] = own[x[2]][2]
      BY PlaceKinds, PlaceContentsPrime
    <3> QED BY <3>2, <3>4, <3>5 DEF AnchoredAt, Kept
  <2> QED BY <2>1, <2>2
<1> QED BY <1>1 DEF Anchored, Places

(* The blocks of a slab of n blocks are n.                                 *)
LEMMA CarvedFinite ==
  ASSUME NEW s, NEW n \in Nat
  PROVE IsFiniteSet(Carved(s, n)) /\ Cardinality(Carved(s, n)) = n
<1>1. IsFiniteSet({s}) /\ Cardinality({s}) = 1
  BY Zenon, FS_Singleton
<1>2. IsFiniteSet(0 .. n - 1) /\ Cardinality(0 .. n - 1) = n
  BY FS_Interval
<1> QED BY <1>1, <1>2, FS_Product DEF Carved

(* When a slab's free count says it is empty, all its blocks really are on *)
(* its free list: no bin, queue, batch or program holds one.  This is what *)
(* makes releasing the slab right.                                         *)
LEMMA EmptySlabHome ==
  ASSUME TypeOK, SlabsOK, FinitePlaces, OnePlace, Anchored,
         NEW s \in slabs, IsEmpty(hdr[s]),
         NEW x \in Places, NEW b \in Contents(x), b[1] = s
  PROVE x = <<"free", s>>
<1> DEFINE h == hdr[s]
<1>1. s \in Spans /\ h.next_new \in Nat /\ TotalBlocks[h.class_idx] \in Nat
  BY SlabAssumption DEF TypeOK, SlabHeader
<1>2. IsFiniteSet(h.free_list) /\ Cardinality(h.free_list) \in Nat
  BY Zenon, <1>1, PlaceContents, FS_CardinalityType DEF FinitePlaces
<1>3. Cardinality(h.free_list) = h.next_new
  BY SMTT(30), <1>1, <1>2 DEF SlabsOK, IsEmpty
<1>4. h.free_list \subseteq Carved(s, h.next_new)
  <2>1. ASSUME NEW f \in h.free_list PROVE f \in Carved(s, h.next_new)
    <3>1. f \in Blocks /\ f[1] = s /\ f[2] < h.next_new
      BY <1>1, AnchoredFree DEF TypeOK, SlabHeader
    <3> QED BY <1>1, <3>1 DEF Blocks, Carved
  <2> QED BY <2>1
<1>5. h.free_list = Carved(s, h.next_new)
  BY <1>1, <1>3, <1>4, CarvedFinite, FS_Subset
<1>6. b \in Blocks /\ b[2] < h.next_new
  BY ContentsType DEF Anchored, AnchoredAt
<1>7. b \in Carved(s, h.next_new)
  BY <1>1, <1>6 DEF Blocks, Carved
<1>8. <<"free", s>> \in Places /\ b \in Contents(<<"free", s>>)
  BY <1>1, <1>5, <1>7, PlaceContents
<1> QED BY <1>8 DEF OnePlace

(* What the lemmas below show a step to preserve. *)
Placed == OnePlace /\ FinitePlaces /\ Anchored

(* The two lemmas together.                                                *)
LEMMA MovesPlaced ==
  ASSUME TypeOK, TypeOK', Placed, NEW M, NEW D, Moves(M, D),
         \A x \in Places : \A b \in Contents(x) \cap Contents(x)' : Kept(b[1]),
         \A u \in Threads : result'[u] # {} => own'[u][2] = own[u][2],
         \A x \in D : \A b \in M : b \in Contents(x)' => AnchoredAt(x, b)'
  PROVE Placed'
BY MovesOnePlace, MovesAnchored DEF Placed

(* A place that is not a destination gains no block when none of the       *)
(* variables it is stored in does.                                         *)
LEMMA Frame ==
  ASSUME NEW D,
         user' \subseteq user \/ <<"user">> \in D,
         \A u \in Threads, c \in Classes :
           bin'[u][c].list \subseteq bin[u][c].list \/ <<"bin", u, c>> \in D,
         \A u \in Threads :
           result'[u] \subseteq result[u] \/ <<"result", u>> \in D,
         \A u \in Threads, k \in Keys :
           todo'[u][k] \subseteq todo[u][k] \/ <<"todo", u, k>> \in D,
         \A k \in Keys :
           pending'[k] \subseteq pending[k] \/ <<"pending", k>> \in D,
         \A s \in Spans :
           hdr'[s].free_list \subseteq hdr[s].free_list \/ <<"free", s>> \in D
  PROVE \A x \in Places \ D : Contents(x)' \subseteq Contents(x)
BY SMTT(30), PlaceKinds, PlaceContents, PlaceContentsPrime

(* Blocks taken out of one place, src, and put into the places D, each in  *)
(* one of them, are moved.                                                 *)
LEMMA MovesFrom ==
  ASSUME OnePlace, FinitePlaces, NEW src \in Places,
         NEW M \in SUBSET Contents(src), NEW D \in SUBSET Places,
         \A x \in Places \ D : Contents(x)' \subseteq Contents(x),
         Contents(src)' \cap M = {},
         \A x \in D : Contents(x)' \subseteq Contents(x) \cup M,
         \A x, y \in D : x # y => Contents(x)' \cap Contents(y)' \cap M = {}
  PROVE Moves(M, D)
<1>1. IsFiniteSet(M)
  BY FS_Subset DEF FinitePlaces
<1>2. ASSUME NEW x \in Places \ D, NEW b \in Contents(x)', b \in M PROVE FALSE
  <2>1. x = src
    BY <1>2 DEF OnePlace
  <2> QED BY <1>2, <2>1
<1> QED BY <1>1, <1>2 DEF Moves

(* A step that only takes blocks away keeps the others placed.             *)
LEMMA NothingMoves ==
  ASSUME TypeOK, TypeOK', Placed,
         \A x \in Places : Contents(x)' \subseteq Contents(x),
         \A x \in Places : \A b \in Contents(x) \cap Contents(x)' : Kept(b[1]),
         \A u \in Threads : result'[u] # {} => own'[u][2] = own[u][2]
  PROVE Placed'
<1>1. Moves({}, {})
  BY FS_EmptySet DEF Moves
<1> QED BY <1>1, MovesPlaced

(* Headers and slabs unchanged: every slab is kept. *)
LEMMA AllKept ==
  ASSUME TypeOK, Anchored, UNCHANGED <<slabs, hdr>>
  PROVE \A x \in Places : \A b \in Contents(x) : Kept(b[1])
<1>1. ASSUME NEW s \in slabs PROVE Kept(s)
  <2>1. hdr[s].next_new \in Nat
    BY DEF TypeOK, SlabHeader
  <2> QED BY <2>1 DEF Kept, KeyOf
<1> QED BY <1>1 DEF Anchored, AnchoredAt

(* Blocks of a pending queue are taken: some to the batch, the rest to the *)
(* list being returned.                                                    *)
LEMMA FeedPlaced ==
  ASSUME TypeOK, TypeOK', Placed, NEW t \in Threads, NEW k \in Keys,
         NEW S \in SUBSET pending[k], S # {} => own[t][2] = k[2],
         pending' = [pending EXCEPT ![k] = {}],
         todo' = [todo EXCEPT ![t][k] = pending[k] \ S],
         result'[t] \subseteq result[t] \cup S,
         \A u \in Threads \ {t} : result'[u] = result[u],
         UNCHANGED <<slabs, hdr, own, user, bin>>
  PROVE Placed'
<1> DEFINE src == <<"pending", k>>
           M == pending[k]
           D == {<<"result", t>>, <<"todo", t, k>>}
<1>1. /\ src \in Places /\ M = Contents(src) /\ D \in SUBSET Places
      /\ Contents(src)' = {}
      /\ Contents(<<"result", t>>)' \subseteq Contents(<<"result", t>>) \cup S
      /\ Contents(<<"todo", t, k>>)' = M \ S
  BY SMTT(30), PlaceContents, PlaceContentsPrime DEF TypeOK
<1>2. \A x \in Places \ D : Contents(x)' \subseteq Contents(x)
  BY Zenon, Frame DEF TypeOK
<1>3. Contents(<<"result", t>>) \cap M = {}
  BY <1>1 DEF Placed, OnePlace
<1>4. Moves(M, D)
  BY <1>1, <1>2, <1>3, MovesFrom DEF Placed
<1>5. ASSUME NEW x \in D, NEW b \in M, b \in Contents(x)' PROVE AnchoredAt(x, b)'
  <2>1. b[1] \in slabs /\ b[2] < hdr[b[1]].next_new /\ KeyOf(hdr[b[1]]) = k
    BY AnchoredPending DEF Placed
  <2>2. x = <<"result", t>> => own[t][2] = k[2]
    BY <1>1, <1>3, <1>5
  <2> QED BY <2>1, <2>2 DEF AnchoredAt, KeyOf
<1> QED BY <1>4, <1>5, AllKept, MovesPlaced DEF Placed

(* A list goes to its pending queue. *)
LEMMA PushPlaced ==
  ASSUME TypeOK, TypeOK', Placed, NEW t \in Threads, NEW k \in Keys,
         PushPending(t, k), UNCHANGED <<slabs, hdr, own, user, bin, result>>
  PROVE Placed'
<1> DEFINE src == <<"todo", t, k>>
           M == todo[t][k]
           D == {<<"pending", k>>}
<1>1. /\ src \in Places /\ M = Contents(src) /\ D \in SUBSET Places
      /\ Contents(src)' = {}
      /\ Contents(<<"pending", k>>)' = Contents(<<"pending", k>>) \cup M
  BY SMTT(30), PlaceContents, PlaceContentsPrime DEF TypeOK, PushPending
<1>2. \A x \in Places \ D : Contents(x)' \subseteq Contents(x)
  BY Zenon, Frame DEF TypeOK, PushPending
<1>3. Moves(M, D)
  BY <1>1, <1>2, MovesFrom DEF Placed
<1>4. ASSUME NEW x \in D, NEW b \in M, b \in Contents(x)' PROVE AnchoredAt(x, b)'
  <2>1. b[1] \in slabs /\ b[2] < hdr[b[1]].next_new /\ KeyOf(hdr[b[1]]) = k
    BY AnchoredTodo DEF Placed
  <2> QED BY <2>1 DEF AnchoredAt, KeyOf
<1> QED BY <1>3, <1>4, AllKept, MovesPlaced DEF Placed

(* The local variables and locks of one thread move, no block does. *)
LEMMA QuietPlaced ==
  ASSUME TypeOK, TypeOK', Placed,
         UNCHANGED <<slabs, hdr, user, result, todo, pending>>,
         \A u \in Threads, c \in Classes :
           bin'[u][c].list \subseteq bin[u][c].list,
         \A u \in Threads : result[u] # {} => own'[u][2] = own[u][2]
  PROVE Placed'
<1>1. \A x \in Places \ {} : Contents(x)' \subseteq Contents(x)
  BY Zenon, Frame
<1> QED BY <1>1, AllKept, NothingMoves DEF Placed

(* Blocks that were in no place, and are put into the places D, are moved. *)
LEMMA MovesFresh ==
  ASSUME NEW M, IsFiniteSet(M), NEW D \in SUBSET Places,
         \A x \in Places : Contents(x) \cap M = {},
         \A x \in Places \ D : Contents(x)' \subseteq Contents(x),
         \A x \in D : Contents(x)' \subseteq Contents(x) \cup M,
         \A x, y \in D : x # y => Contents(x)' \cap Contents(y)' \cap M = {}
  PROVE Moves(M, D)
BY DEF Moves

(* A block that stays where it is stays in a kept slab.                    *)
LEMMA KeptPlaces ==
  ASSUME Placed, \A s \in slabs : Kept(s)
  PROVE \A x \in Places : \A b \in Contents(x) : Kept(b[1])
BY DEF Placed, Anchored, AnchoredAt
=============================================================================
