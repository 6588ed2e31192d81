---------------------------- MODULE SizeClasses ----------------------------
(***************************************************************************)
(* The arithmetic of sizes in a debug build (src/src/fast_alloc_config.h,   *)
(* src/src/fast_alloc.cpp).  Masks with a power of two are written with %. *)
(***************************************************************************)
EXTENDS Integers

CONSTANTS
  ALIGNMENT,          \* distance of two size classes
  USER_OFFSET,        \* header in front of a small block
  RED_ZONE_RESERVE,   \* bytes kept behind every small block
  MAX_SLAB_SIZE,      \* the largest small block, header included
  Page,               \* page size
  Header,             \* sizeof(LargeAllocHeader)
  Alignment,          \* alignment asked of fast_aligned_alloc
  STASH               \* bytes in front of an over-aligned block

ASSUME SizeClassesAssumption ==
  /\ {ALIGNMENT, USER_OFFSET, RED_ZONE_RESERVE, MAX_SLAB_SIZE, Page, Header, Alignment, STASH}
       \subseteq Nat \ {0}
  /\ MAX_SLAB_SIZE % ALIGNMENT = 0
  /\ USER_OFFSET + RED_ZONE_RESERVE < MAX_SLAB_SIZE
  /\ Header < Page

SizeToClassIndex(size) == IF size = 0 THEN 0 ELSE (size - 1) \div ALIGNMENT

ClassIndexToSize(index) == (index + 1) * ALIGNMENT

RequestToClass(size) == SizeToClassIndex(size + USER_OFFSET + RED_ZONE_RESERVE)

UsableSize(class_index) == ClassIndexToSize(class_index) - USER_OFFSET - RED_ZONE_RESERVE

MaxSmallRequest == MAX_SLAB_SIZE - USER_OFFSET - RED_ZONE_RESERVE

PageRoundUp(n) == n + Page - 1 - ((n + Page - 1) % Page)

(* The usable bytes of the span that holds a large request. *)
LargeUsable(size) == PageRoundUp(size + Header) - Header

(* x & ~(alignment - 1) *)
AlignDown(x) == x - (x % Alignment)
=============================================================================
