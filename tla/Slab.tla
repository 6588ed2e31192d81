-------------------------------- MODULE Slab --------------------------------
(***************************************************************************)
(* A slab (src/src/slab.h, slab.cpp): one page span cut into equal blocks. *)
(* A block is <<span, i>>; the record below is the slab header.            *)
(*                                                                         *)
(* The intrusive free list is abstracted to the set of its blocks: no      *)
(* property of the heap tells two orders of one list apart, and taking     *)
(* any member covers taking the head.  The counters free_blocks and        *)
(* next_new stay separate fields, as in the code, so that a block counted  *)
(* twice or never is a state the model can reach.                          *)
(***************************************************************************)
EXTENDS Integers, FiniteSets

CONSTANTS
  Spans,        \* the page spans a slab can be created in
  NumArenas,    \* NUM_ARENAS
  Classes,      \* the size classes
  TotalBlocks,  \* total_blocks of a slab, by size class
  EagerWiring   \* TRUE in FASTALLOC_DEBUG_ENABLED builds

ASSUME SlabAssumption ==
  /\ NumArenas \in Nat \ {0}
  /\ TotalBlocks \in [Classes -> Nat \ {0}]
  /\ Classes # {}
  /\ EagerWiring \in BOOLEAN

Arenas == 0 .. NumArenas - 1

(* One class lock, pending queue and pair of slab lists per (arena, class). *)
Keys == Arenas \X Classes

Blocks == Spans \X Nat

SlabHeader ==
  [arena : Arenas, class_idx : Classes, free_list : SUBSET Blocks,
   free_blocks : Int, next_new : Nat]

(* The blocks of span s whose headers have been written. *)
Carved(s, n) == {s} \X (0 .. n - 1)

Create(s, k) ==
  [arena |-> k[1], class_idx |-> k[2],
   free_list |-> IF EagerWiring THEN Carved(s, TotalBlocks[k[2]]) ELSE {},
   free_blocks |-> TotalBlocks[k[2]],
   next_new |-> IF EagerWiring THEN TotalBlocks[k[2]] ELSE 0]

(* The header of a span that is not a slab: nothing is carved in it. *)
NoSlab ==
  [arena |-> 0, class_idx |-> CHOOSE c \in Classes : TRUE, free_list |-> {},
   free_blocks |-> 0, next_new |-> 0]

KeyOf(h) == <<h.arena, h.class_idx>>

IsFull(h) == h.free_blocks = 0

(* Faults the runs must notice: an off-by-one, and virgin blocks that are  *)
(* not counted as free.                                                    *)
IsEmptyOffByOne(h) == h.free_blocks >= TotalBlocks[h.class_idx] - 1

IsEmptyFreeList(h) == Cardinality(h.free_list) = TotalBlocks[h.class_idx]

IsEmpty(h) == h.free_blocks = TotalBlocks[h.class_idx]

(* The blocks Allocate may return: a free-list block, else the next virgin *)
(* block, else none.                                                       *)
Allocatable(s, h) ==
  IF h.free_list # {} THEN h.free_list
  ELSE IF h.next_new < TotalBlocks[h.class_idx] THEN {<<s, h.next_new>>}
  ELSE {}

(* The header after Allocate has returned b. *)
Allocate(h, b) ==
  IF h.free_list # {}
  THEN [h EXCEPT !.free_list = @ \ {b}, !.free_blocks = @ - 1]
  ELSE [h EXCEPT !.next_new = @ + 1, !.free_blocks = @ - 1]

(* The header after Deallocate(b).  The code returns early when b is the   *)
(* head of the free list; here, when it is in the list.                    *)
Deallocate(h, b) ==
  IF b \in h.free_list THEN h
  ELSE [h EXCEPT !.free_list = @ \cup {b}, !.free_blocks = @ + 1]
=============================================================================
