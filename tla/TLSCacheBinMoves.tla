-------------------------- MODULE TLSCacheBinMoves --------------------------
(***************************************************************************)
(* Every step of the thread caches keeps blocks in one place and anchored: *)
(* malloc and free in the bin, refills, and lists sent back by free, flush *)
(* and thread exit.                                                        *)
(***************************************************************************)
EXTENDS TLSCachePlaces

(* Replacing one bin leaves every other bin as it was.                     *)
LEMMA OneBinReplaced ==
  ASSUME NEW f \in [Threads -> [Classes -> CacheBin]], NEW t \in Threads,
         NEW c \in Classes, NEW x
  PROVE /\ [f EXCEPT ![t][c] = x][t][c] = x
        /\ \A u \in Threads, d \in Classes :
             u # t \/ d # c => [f EXCEPT ![t][c] = x][u][d] = f[u][d]
OBVIOUS

(* The fast path of malloc moves the head of the bin to the program.       *)
LEMMA AllocateBlockPlaced ==
  ASSUME TypeOK, TypeOK', Placed, NEW t \in Threads, NEW c \in Classes,
         AllocateBlock(t, c)
  PROVE Placed'
<1> USE DEF heapVars, batchVars, listVars
<1>1. PICK b \in bin[t][c].list :
        bin' = [bin EXCEPT ![t][c] = Pop(@, b)] /\ user' = user \cup {b}
  BY Zenon DEF AllocateBlock
<1>2. UNCHANGED <<slabs, hdr, own, result, todo, pending>>
  BY DEF AllocateBlock
<1>3. bin[t][c] \in CacheBin /\ b \in Blocks
  BY DEF TypeOK, CacheBin
<1>4. /\ bin'[t][c].list = bin[t][c].list \ {b}
      /\ \A u \in Threads, d \in Classes :
           bin'[u][d].list \subseteq bin[u][d].list
  <2>1. Pop(bin[t][c], b).list = bin[t][c].list \ {b}
    BY <1>3, BinOperations
  <2>2. bin'[t][c] = Pop(bin[t][c], b)
    BY <1>1 DEF TypeOK
  <2>3. \A u \in Threads, d \in Classes : u # t \/ d # c => bin'[u][d] = bin[u][d]
    BY <1>1 DEF TypeOK
  <2> QED BY <2>1, <2>2, <2>3
<1> DEFINE src == <<"bin", t, c>>
           dst == <<"user">>
<1>5. /\ src \in Places /\ {b} \in SUBSET Contents(src)
      /\ Contents(src)' \cap {b} = {}
      /\ dst \in Places /\ Contents(dst)' = Contents(dst) \cup {b}
  BY <1>1, <1>4, PlaceContents, PlaceContentsPrime
<1>6. \A x \in Places \ {dst} : Contents(x)' \subseteq Contents(x)
  BY Zenon, <1>2, <1>4, Frame
<1>7. Moves({b}, {dst})
  <2> HIDE DEF src, dst
  <2> QED BY <1>5, <1>6, MovesFrom DEF Placed
<1>8. AnchoredAt(dst, b)'
  <2>1. b[1] \in slabs /\ b[2] < hdr[b[1]].next_new
    BY AnchoredBin DEF Placed
  <2> QED BY <1>2, <2>1 DEF AnchoredAt
<1> QED
  <2> HIDE DEF dst
  <2> QED BY <1>2, <1>7, <1>8, AllKept, MovesPlaced DEF Placed

(* The fast path of free moves the block from the program to the bin of    *)
(* its class.                                                              *)
LEMMA DeallocateBlockPlaced ==
  ASSUME TypeOK, TypeOK', Placed, NEW t \in Threads, NEW b \in user,
         DeallocateBlock(t, b)
  PROVE Placed'
<1> USE DEF heapVars, batchVars, listVars
<1>1. PICK c \in Classes : c = hdr[b[1]].class_idx
  BY DEF TypeOK, Blocks, SlabHeader
<1>2. /\ UNCHANGED <<slabs, hdr, own, result, todo, pending>>
      /\ user' = user \ {b}
      /\ bin' = [bin EXCEPT ![t][c] = Push(@, b)]
  BY <1>1 DEF DeallocateBlock
<1>3. bin[t][c] \in CacheBin /\ b \in Blocks
  BY DEF TypeOK
<1>4. /\ bin'[t][c].list = bin[t][c].list \cup {b}
      /\ \A u \in Threads, d \in Classes : u # t \/ d # c => bin'[u][d] = bin[u][d]
  <2>1. Push(bin[t][c], b).list = bin[t][c].list \cup {b}
    BY <1>3, BinOperations
  <2>2. bin'[t][c] = Push(bin[t][c], b)
    BY <1>2 DEF TypeOK
  <2>3. \A u \in Threads, d \in Classes : u # t \/ d # c => bin'[u][d] = bin[u][d]
    BY <1>2 DEF TypeOK
  <2> QED BY <2>1, <2>2, <2>3
<1> DEFINE src == <<"user">>
           dst == <<"bin", t, c>>
<1>5. /\ src \in Places /\ {b} \in SUBSET Contents(src)
      /\ Contents(src)' \cap {b} = {}
      /\ dst \in Places /\ Contents(dst)' = Contents(dst) \cup {b}
  BY <1>2, <1>4, PlaceContents, PlaceContentsPrime
<1>6. \A x \in Places \ {dst} : Contents(x)' \subseteq Contents(x)
  <2>1. \A u \in Threads, d \in Classes :
          bin'[u][d].list \subseteq bin[u][d].list \/ <<"bin", u, d>> \in {dst}
    BY <1>4
  <2> QED BY Zenon, <1>2, <2>1, Frame
<1>7. Moves({b}, {dst})
  <2> HIDE DEF src, dst
  <2> QED BY <1>5, <1>6, MovesFrom DEF Placed
<1>8. AnchoredAt(dst, b)'
  <2>1. b[1] \in slabs /\ b[2] < hdr[b[1]].next_new
    BY AnchoredUser DEF Placed
  <2> QED BY <1>1, <1>2, <2>1 DEF AnchoredAt
<1> QED
  <2> HIDE DEF dst
  <2> QED BY <1>2, <1>7, <1>8, AllKept, MovesPlaced DEF Placed

(* A finished batch moves one block to the program and the others to the   *)
(* bin; an empty one moves nothing.                                        *)
LEMMA RefillPlaced ==
  ASSUME TypeOK, TypeOK', Placed, NEW t \in Threads, Refill(t)
  PROVE Placed'
<1> USE DEF heapVars, batchVars, listVars
<1>1. PICK c \in Classes : c = own[t][2]
  BY KeysType DEF TypeOK
<1>2. /\ UNCHANGED <<slabs, hdr, todo, pending>>
      /\ result'[t] = {}
      /\ \A u \in Threads \ {t} : result'[u] = result[u] /\ own'[u] = own[u]
  BY SMTT(30) DEF Refill, TypeOK
<1>3. CASE result[t] = {} /\ UNCHANGED <<user, bin>>
  <2>1. \A x \in Places \ {} : Contents(x)' \subseteq Contents(x)
    BY <1>2, <1>3, Frame
  <2> QED BY <1>2, <2>1, AllKept, NothingMoves DEF Placed
<1>4. CASE \E b \in result[t] :
             /\ user' = user \cup {b}
             /\ bin' = [bin EXCEPT ![t][c] = Relink(@, result[t] \ {b}, Refilled(t))]
  <2>1. PICK b \in result[t] :
          /\ user' = user \cup {b}
          /\ bin' = [bin EXCEPT ![t][c] = Relink(@, result[t] \ {b}, Refilled(t))]
    BY Zenon, <1>4
  <2>2. /\ bin'[t][c].list = result[t] \ {b}
        /\ \A u \in Threads, d \in Classes : u # t \/ d # c => bin'[u][d] = bin[u][d]
    <3>1. /\ bin[t][c] \in CacheBin /\ result[t] \ {b} \in SUBSET Blocks
          /\ Refilled(t) \in Int
      BY DEF TypeOK, Refilled
    <3>2. Relink(bin[t][c], result[t] \ {b}, Refilled(t)).list = result[t] \ {b}
      BY <3>1, BinOperations
    <3>3. bin'[t][c] = Relink(bin[t][c], result[t] \ {b}, Refilled(t))
      BY <2>1 DEF TypeOK
    <3>4. \A u \in Threads, d \in Classes : u # t \/ d # c => bin'[u][d] = bin[u][d]
      BY <2>1 DEF TypeOK
    <3> QED BY <3>2, <3>3, <3>4
  <2> DEFINE src == <<"result", t>>
             M == result[t]
             d1 == <<"user">>
             d2 == <<"bin", t, c>>
  <2>3. /\ src \in Places /\ M = Contents(src) /\ Contents(src)' = {}
        /\ d1 \in Places /\ Contents(d1)' = Contents(d1) \cup {b}
        /\ d2 \in Places /\ Contents(d2)' = M \ {b}
    BY ZenonT(30), <1>2, <2>1, <2>2, PlaceContents, PlaceContentsPrime
  <2>4. \A x \in Places \ {d1, d2} : Contents(x)' \subseteq Contents(x)
    <3>1. \A u \in Threads, d \in Classes :
            bin'[u][d].list \subseteq bin[u][d].list \/ <<"bin", u, d>> \in {d1, d2}
      BY <2>2
    <3>2. \A u \in Threads : result'[u] \subseteq result[u]
      BY <1>2
    <3> QED BY Zenon, <1>2, <3>1, <3>2, Frame
  <2>5. Contents(d1) \cap M = {}
    BY <2>3 DEF Placed, OnePlace
  <2>6. Moves(M, {d1, d2})
    <3> HIDE DEF src, d1, d2, M
    <3>1. /\ {d1, d2} \in SUBSET Places /\ M \in SUBSET Contents(src)
          /\ Contents(src)' \cap M = {}
      BY <2>3
    <3>2. \A x \in {d1, d2} : Contents(x)' \subseteq Contents(x) \cup M
      BY <2>1, <2>3 DEF M
    <3>3. \A x, y \in {d1, d2} : x # y => Contents(x)' \cap Contents(y)' \cap M = {}
      BY <2>3, <2>5
    <3> QED BY <2>3, <2>4, <3>1, <3>2, <3>3, MovesFrom DEF Placed
  <2>7. ASSUME NEW x \in {d1, d2}, NEW m \in M PROVE AnchoredAt(x, m)'
    <3>1. m[1] \in slabs /\ m[2] < hdr[m[1]].next_new /\ hdr[m[1]].class_idx = c
      BY <1>1, AnchoredResult DEF Placed
    <3> QED BY <1>2, <3>1 DEF AnchoredAt
  <2> QED
    <3> HIDE DEF d1, d2, M
    <3> QED BY <1>2, <2>6, <2>7, AllKept, MovesPlaced DEF Placed
<1> QED BY <1>1, <1>3, <1>4 DEF Refill

(* SplitListByArena sends a block to its slab's arena.                     *)
LEMMA SplitMember ==
  ASSUME NEW c, NEW S, NEW k \in Keys, NEW b \in SplitListByArena(c, S)[k]
  PROVE b \in S /\ k[2] = c /\ hdr[b[1]].arena = k[1]
BY DEF SplitListByArena

(* Blocks S of a bin, and of the blocks N just freed, are handed to        *)
(* DeallocateBatchClass or DeferBinToPending, routed by arena.             *)
LEMMA ReturnPlaced ==
  ASSUME TypeOK, TypeOK', Placed, NEW t \in Threads, NEW c \in Classes,
         NEW N \in SUBSET user, IsFiniteSet(N),
         \A b \in N : hdr[b[1]].class_idx = c,
         NEW S \in SUBSET (bin[t][c].list \cup N),
         user' = user \ N,
         bin'[t][c].list = (bin[t][c].list \cup N) \ S,
         \A u \in Threads, d \in Classes :
           u # t \/ d # c => bin'[u][d] = bin[u][d],
         todo' = [todo EXCEPT ![t] = SplitListByArena(c, S)],
         UNCHANGED <<slabs, hdr, own, result, pending>>
  PROVE Placed'
<1> DEFINE L == bin[t][c].list
           M == L \cup N
           bn == <<"bin", t, c>>
           td == {<<"todo", t, k>> : k \in Keys}
           D == {bn} \cup td
<1>1. /\ bn \in Places /\ Contents(bn) = L /\ Contents(bn)' = M \ S
      /\ <<"user">> \in Places /\ Contents(<<"user">>) = user
      /\ Contents(<<"user">>)' = user \ N
  BY SMTT(30), PlaceContents, PlaceContentsPrime
<1>2. ASSUME NEW k \in Keys
      PROVE /\ <<"todo", t, k>> \in Places
            /\ \A b \in Contents(<<"todo", t, k>>)' :
                 b \in S /\ k[2] = c /\ hdr[b[1]].arena = k[1]
  <2>1. /\ <<"todo", t, k>> \in Places
        /\ Contents(<<"todo", t, k>>)' = todo'[t][k]
    BY SMTT(30), PlaceContents, PlaceContentsPrime
  <2>2. todo'[t][k] = SplitListByArena(c, S)[k]
    BY DEF TypeOK
  <2> QED BY <2>1, <2>2, SplitMember
<1>3. IsFiniteSet(M) /\ D \subseteq Places
  <2>1. IsFiniteSet(L)
    BY <1>1 DEF Placed, FinitePlaces
  <2>2. IsFiniteSet(M)
    BY Zenon, <2>1, FS_Union
  <2> QED BY SMTT(30), <1>1, <1>2, <2>2
<1>4. \A x \in Places \ D : Contents(x)' \subseteq Contents(x)
  <2>1. \A u \in Threads, d \in Classes :
          bin'[u][d].list \subseteq bin[u][d].list \/ <<"bin", u, d>> \in D
    OBVIOUS
  <2>2. \A u \in Threads, k \in Keys :
          todo'[u][k] \subseteq todo[u][k] \/ <<"todo", u, k>> \in D
    BY DEF TypeOK
  <2> HIDE DEF D
  <2> QED BY <2>1, <2>2, Frame
<1>5. ASSUME NEW x \in Places \ D, NEW b \in Contents(x)', b \in M PROVE FALSE
  <2>1. b \in Contents(x)
    BY <1>4, <1>5
  <2>2. CASE b \in L
    BY <1>1, <2>1, <2>2 DEF Placed, OnePlace
  <2>3. CASE b \in N
    <3>1. x = <<"user">>
      BY <1>1, <2>1, <2>3 DEF Placed, OnePlace
    <3> QED BY <1>1, <1>5, <2>3, <3>1
  <2> QED BY <1>5, <2>2, <2>3
<1>6. ASSUME NEW x \in D PROVE Contents(x)' \subseteq M
  <2>1. CASE x = bn
    BY <1>1, <2>1
  <2>2. CASE x \in td
    <3>1. PICK k \in Keys : x = <<"todo", t, k>>
      BY <2>2
    <3> QED BY <1>2, <3>1
  <2> QED BY <2>1, <2>2
<1>7. ASSUME NEW x \in D, NEW y \in D, x # y, NEW b \in Contents(x)',
             b \in Contents(y)'
      PROVE FALSE
  <2>1. \A k \in Keys : k = <<k[1], k[2]>>
    BY KeysType
  <2>2. CASE x = bn \/ y = bn
    <3>1. PICK z \in td : b \in Contents(z)'
      BY <1>7, <2>2
    <3>2. PICK k \in Keys : z = <<"todo", t, k>>
      BY <3>1
    <3>3. b \in S
      BY <1>2, <3>1, <3>2
    <3> QED BY <1>1, <1>7, <2>2, <3>3
  <2>3. CASE x # bn /\ y # bn
    <3>1. PICK i \in Keys, j \in Keys : x = <<"todo", t, i>> /\ y = <<"todo", t, j>>
      BY <2>3
    <3>2. i[2] = c /\ hdr[b[1]].arena = i[1]
      BY <1>2, <1>7, <3>1
    <3>3. j[2] = c /\ hdr[b[1]].arena = j[1]
      BY <1>2, <1>7, <3>1
    <3> QED BY Zenon, <1>7, <2>1, <3>1, <3>2, <3>3
  <2> QED BY <2>2, <2>3
<1>8. Moves(M, D)
  <2> HIDE DEF M, D
  <2> QED BY <1>3, <1>4, <1>5, <1>6, <1>7 DEF Moves
<1>9. ASSUME NEW x \in D, NEW b \in M, b \in Contents(x)' PROVE AnchoredAt(x, b)'
  <2>1. b[1] \in slabs /\ b[2] < hdr[b[1]].next_new /\ hdr[b[1]].class_idx = c
    <3>1. CASE b \in L
      BY SMTT(30), <3>1, AnchoredBin DEF Placed
    <3>2. CASE b \in N
      BY <3>2, AnchoredUser DEF Placed
    <3> QED BY <1>9, <3>1, <3>2
  <2>2. CASE x = bn
    BY <2>1, <2>2 DEF AnchoredAt
  <2>3. CASE x \in td
    <3>1. PICK k \in Keys : x = <<"todo", t, k>>
      BY <2>3
    <3>2. k[2] = c /\ hdr[b[1]].arena = k[1] /\ k = <<k[1], k[2]>>
      BY <1>2, <1>9, <3>1, KeysType
    <3> QED BY <2>1, <3>1, <3>2 DEF AnchoredAt, KeyOf
  <2> QED BY <2>2, <2>3
<1> QED
  <2> HIDE DEF M, D
  <2> QED BY <1>8, <1>9, AllKept, MovesPlaced DEF Placed

(* The slow path of free sends half of the bin, the freed block counted    *)
(* in, back to the heap, or all of it when the list is short.              *)
LEMMA DeallocateBlockSlowPlaced ==
  ASSUME TypeOK, TypeOK', Placed, NEW t \in Threads, NEW b \in user,
         DeallocateBlockSlow(t, b)
  PROVE Placed'
<1> USE DEF heapVars, batchVars
<1>1. PICK c \in Classes : c = hdr[b[1]].class_idx
  BY DEF TypeOK, Blocks, SlabHeader
<1> DEFINE list == bin[t][c].list \cup {b}
           n == HalfLimit(c)
<1>2. /\ user' = user \ {b}
      /\ IF Cardinality(list) < n
         THEN /\ bin' = [bin EXCEPT ![t][c] = EmptyBin]
              /\ ReturnCall(t, c, list, "db_next")
         ELSE \E S \in FirstOf(list, n) :
                /\ bin' = [bin EXCEPT ![t][c] = Relink(@, list \ S, @.count + 1 - n)]
                /\ ReturnCall(t, c, S, "db_next")
  BY Zenon, <1>1 DEF DeallocateBlockSlow
<1>3. PICK S \in SUBSET list, x \in CacheBin :
        /\ ReturnCall(t, c, S, "db_next")
        /\ bin' = [bin EXCEPT ![t][c] = x]
        /\ x.list = list \ S
  <2>1. CASE Cardinality(list) < n
    <3>1. EmptyBin \in CacheBin /\ EmptyBin.list = list \ list
      BY EmptyBinType DEF EmptyBin
    <3> QED BY <1>2, <2>1, <3>1
  <2>2. CASE ~(Cardinality(list) < n)
    <3>1. PICK S \in FirstOf(list, n) :
            /\ bin' = [bin EXCEPT ![t][c] = Relink(@, list \ S, @.count + 1 - n)]
            /\ ReturnCall(t, c, S, "db_next")
      BY Zenon, <1>2, <2>2
    <3> DEFINE x == Relink(bin[t][c], list \ S, bin[t][c].count + 1 - n)
    <3>2. S \in SUBSET list
      BY DEF FirstOf
    <3>3. x \in CacheBin /\ x.list = list \ S
      <4>0. bin \in [Threads -> [Classes -> CacheBin]]
        BY Zenon DEF TypeOK
      <4>1. bin[t][c] \in CacheBin
        BY ZenonT(30), <4>0
      <4>2. list \ S \in SUBSET Blocks
        BY <4>1 DEF TypeOK, CacheBin
      <4>3. bin[t][c].count + 1 - n \in Int
        BY <4>1, HalfLimitType DEF CacheBin
      <4> HIDE DEF list, n
      <4> QED BY SMTT(30), <4>1, <4>2, <4>3, BinOperations
    <3>4. bin' = [bin EXCEPT ![t][c] = x]
      BY Zenon, <3>1 DEF TypeOK
    <3> HIDE DEF x, n
    <3> QED BY Zenon, <3>1, <3>2, <3>3, <3>4
  <2> QED BY <2>1, <2>2
<1>4. /\ bin'[t][c].list = list \ S
      /\ \A u \in Threads, d \in Classes : u # t \/ d # c => bin'[u][d] = bin[u][d]
  <2>1. bin \in [Threads -> [Classes -> CacheBin]]
    BY DEF TypeOK
  <2> HIDE DEF list, n
  <2>2. /\ bin'[t][c] = x
        /\ \A u \in Threads, d \in Classes : u # t \/ d # c => bin'[u][d] = bin[u][d]
    BY SMTT(30), <1>3, <2>1, OneBinReplaced
  <2> QED BY Zenon, <1>3, <2>2
<1>5. /\ todo' = [todo EXCEPT ![t] = SplitListByArena(c, S)]
      /\ UNCHANGED <<slabs, hdr, own, result, pending>>
  BY <1>3 DEF ReturnCall
<1>6. /\ IsFiniteSet({b}) /\ {b} \in SUBSET user
      /\ \A m \in {b} : hdr[m[1]].class_idx = c
      /\ S \in SUBSET (bin[t][c].list \cup {b})
      /\ user' = user \ {b}
      /\ bin'[t][c].list = (bin[t][c].list \cup {b}) \ S
  BY Zenon, <1>1, <1>2, <1>4, FS_Singleton
<1> HIDE DEF list, n
<1> QED BY Zenon, <1>4, <1>5, <1>6, ReturnPlaced

(* A flush sends a whole bin back to the heap, or defers it.               *)
LEMMA FlushBinPlaced ==
  ASSUME TypeOK, TypeOK', Placed, NEW t \in Threads, FlushBin(t)
  PROVE Placed'
<1> USE DEF heapVars, batchVars
<1>1. PICK c \in Classes :
        /\ bin' = [bin EXCEPT ![t][c] = EmptyBin]
        /\ todo' = [todo EXCEPT ![t] = SplitListByArena(c, bin[t][c].list)]
        /\ UNCHANGED <<slabs, hdr, own, result, pending, user>>
  BY Zenon DEF FlushBin, ReturnCall, TypeOK
<1>2. /\ bin'[t][c].list = {}
      /\ \A u \in Threads, d \in Classes : u # t \/ d # c => bin'[u][d] = bin[u][d]
  BY SMTT(30), <1>1 DEF TypeOK, EmptyBin
<1>3. PICK N, S :
        /\ IsFiniteSet(N) /\ N \in SUBSET user /\ user' = user \ N
        /\ \A b \in N : hdr[b[1]].class_idx = c
        /\ S \in SUBSET (bin[t][c].list \cup N)
        /\ bin'[t][c].list = (bin[t][c].list \cup N) \ S
        /\ todo' = [todo EXCEPT ![t] = SplitListByArena(c, S)]
  <2> DEFINE NN == {}  SS == bin[t][c].list
  <2>1. /\ IsFiniteSet(NN) /\ NN \in SUBSET user /\ user' = user \ NN
        /\ \A b \in NN : hdr[b[1]].class_idx = c
        /\ SS \in SUBSET (bin[t][c].list \cup NN)
        /\ bin'[t][c].list = (bin[t][c].list \cup NN) \ SS
        /\ todo' = [todo EXCEPT ![t] = SplitListByArena(c, SS)]
    BY <1>1, <1>2, FS_EmptySet
  <2> HIDE DEF NN, SS
  <2> QED BY Zenon, <2>1
<1>4. UNCHANGED <<slabs, hdr, own, result, pending>>
  BY <1>1
<1>5. \A u \in Threads, d \in Classes : u # t \/ d # c => bin'[u][d] = bin[u][d]
  BY <1>2
<1> QED BY Zenon, <1>3, <1>4, <1>5, ReturnPlaced

(* Every step of the thread caches keeps blocks placed.                    *)
LEMMA OuterPlaced ==
  ASSUME TypeOK, TypeOK', Placed, NEW t \in Threads, Consistent(t),
         CacheStep(t) \/ Request(t)
  PROVE Placed'
<1> USE DEF heapVars, batchVars, listVars, cacheVars
<1>0. CASE UNCHANGED <<slabs, hdr, user, result, todo, pending, own, bin>>
  BY <1>0, QuietPlaced
<1>1. CASE GetSlow(t)
  <2>1. /\ UNCHANGED <<slabs, hdr, user, result, todo, pending, own>>
        /\ bin' = [bin EXCEPT ![t] = [c \in Classes |-> EmptyBin]]
    BY <1>1 DEF GetSlow
  <2>2. \A u \in Threads, c \in Classes : bin'[u][c].list \subseteq bin[u][c].list
    BY SMTT(30), <2>1 DEF TypeOK, EmptyBin
  <2> QED BY <2>1, <2>2, QuietPlaced
<1>2. ASSUME NEW c \in Classes, AllocateBlockSlow(t, c) PROVE Placed'
  <2>1. /\ UNCHANGED <<slabs, hdr, user, result, todo, pending>>
        /\ \E n : bin' = [bin EXCEPT ![t][c] = Ramp(@, n)]
        /\ own' = [own EXCEPT ![t] = <<arena[t], c>>]
        /\ result[t] = {}
    BY Zenon, <1>2 DEF AllocateBlockSlow, AllocateBatchCall, Consistent, InBatch
  <2>2. \A u \in Threads, d \in Classes : bin'[u][d].list \subseteq bin[u][d].list
    BY SMTT(30), <2>1 DEF TypeOK, CacheBin, Ramp
  <2>3. \A u \in Threads : result[u] # {} => own'[u][2] = own[u][2]
    BY <2>1 DEF TypeOK
  <2> QED BY <2>1, <2>2, <2>3, QuietPlaced
<1>3. ASSUME NEW c \in Classes, AllocateBlock(t, c) PROVE Placed'
  BY <1>3, AllocateBlockPlaced
<1>4. ASSUME NEW b \in user, DeallocateBlock(t, b) PROVE Placed'
  BY <1>4, DeallocateBlockPlaced
<1>5. ASSUME NEW b \in user, DeallocateBlockSlow(t, b) PROVE Placed'
  BY <1>5, DeallocateBlockSlowPlaced
<1>6. CASE Refill(t)
  BY <1>6, RefillPlaced
<1>7. CASE FlushBin(t)
  BY <1>7, FlushBinPlaced
<1> QED
  BY Zenon, <1>0, <1>1, <1>2, <1>3, <1>4, <1>5, <1>6, <1>7
     DEF CacheStep, Request, fast_malloc, fast_free, ReturnDone, PurgeDone,
         FlushToGlobalHeap, PurgePageCache, PurgeCall
=============================================================================
