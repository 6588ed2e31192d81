---------------------------- MODULE WinRegistry ----------------------------
(***************************************************************************)
(* Page spans from the system on Windows, and in the emulation of Windows  *)
(* on Linux (src/src/os_memory.cpp, WinReservationRegistry): every         *)
(* AllocatePages makes a reservation of its own and registers it; a span   *)
(* that is part of a reservation can only be decommitted, and the whole    *)
(* reservation is released when its last live page is gone.  The           *)
(* reservation itself is made outside the registry's mutex; the release of *)
(* one and the removal of its record are two steps under it, between which *)
(* the system may reserve the same addresses for another thread.           *)
(*                                                                         *)
(* Memory is counted in pages; a span or a reservation is <<first page,    *)
(* length>>.  The page heap splits spans and frees the parts one by one,   *)
(* and fast_realloc gives the tail of a large block back.                  *)
(***************************************************************************)
EXTENDS Integers, FiniteSets, FiniteSetsExt

CONSTANTS
  Threads, NoThread,
  NumPages,     \* bound: size of the address space
  MaxRequest    \* bound: longest span asked for

ASSUME WinRegistryAssumption ==
  NoThread \notin Threads /\ {NumPages, MaxRequest} \subseteq Nat \ {0}

VARIABLES
  reserved,    \* the reservations of the process
  committed,   \* the pages that can be touched
  regions,     \* regions_: base, size and live of every record
  mu,          \* the mutex of the registry
  spans,       \* the spans callers hold
  pc,          \* where each thread is
  arg,         \* the span a thread is getting or giving back
  kept,        \* the head of a block a thread is shrinking
  stuck        \* history: pages given back whose decommit failed

vars == <<reserved, committed, regions, mu, spans, pc, arg, kept, stuck>>

NoSpan == <<0, 0>>

Pages(base, size) == base .. base + size - 1

PagesOf(S) == UNION {Pages(x[1], x[2]) : x \in S}

Init ==
  /\ reserved = {} /\ committed = {}
  /\ regions = {}
  /\ mu = NoThread
  /\ spans = {}
  /\ pc = [t \in Threads |-> "idle"]
  /\ arg = [t \in Threads |-> NoSpan]
  /\ kept = [t \in Threads |-> NoSpan]
  /\ stuck = {}

Return(t) ==
  /\ pc' = [pc EXCEPT ![t] = "idle"]
  /\ arg' = [arg EXCEPT ![t] = NoSpan]
  /\ kept' = [kept EXCEPT ![t] = NoSpan]

(* The callers' spans once t returns: it hands back the head it has kept. *)
Spans(t) == spans \cup ({kept[t]} \ {NoSpan})

-----------------------------------------------------------------------------
(* AllocatePages *)

Reserve(t) ==
  /\ pc[t] = "idle"
  /\ \E size \in 1 .. MaxRequest : \E b \in 0 .. NumPages - size :
       /\ Pages(b, size) \cap PagesOf(reserved) = {}
       /\ reserved' = reserved \cup {<<b, size>>}
       /\ committed' = committed \cup Pages(b, size)
       /\ arg' = [arg EXCEPT ![t] = <<b, size>>]
  /\ pc' = [pc EXCEPT ![t] = "add"]
  /\ UNCHANGED <<regions, mu, spans, kept, stuck>>

(* The system has no room: AllocatePages returns null. *)
ReserveFails(t) == pc[t] = "idle" /\ UNCHANGED vars

(* Add: the record of an old region with the same base is overwritten. *)
Add(t) ==
  /\ pc[t] = "add" /\ mu = NoThread
  /\ LET x == arg[t]
     IN /\ regions' = {r \in regions : r.base # x[1]}
                        \cup {[base |-> x[1], size |-> x[2], live |-> x[2]]}
        /\ spans' = spans \cup {x}
  /\ Return(t)
  /\ UNCHANGED <<reserved, committed, mu, stuck>>

-----------------------------------------------------------------------------
(* FindRegion, ReleaseSpan, ReleaseRegion, DecommitRange *)

(* The set of the region found: the last one that begins at or below the   *)
(* span, if it contains the span.                                          *)
FindRegion(x) ==
  LET below == {r \in regions : r.base <= x[1]}
  IN {r \in below : /\ \A q \in below : q.base <= r.base
                    /\ x[1] + x[2] <= r.base + r.size}

(* Bug: any span at the base of a reservation counts as all of it. *)
IsWholeByBase(r, x) == x[1] = r.base

IsWhole(r, x) == x[1] = r.base /\ x[2] = r.size /\ r.live = r.size

(* region.live once size pages are decommitted. *)
LiveAfter(r, size) == IF r.live >= size THEN r.live - size ELSE 0

(* Bug: the last page of a region is miscounted as live. *)
IsGoneTooLate(r) == r.live < 0

IsGone(r) == r.live = 0

SetLive(r, n) == (regions \ {r}) \cup {[r EXCEPT !.live = n]}

FreePages(t) ==
  /\ pc[t] = "idle"
  /\ \E x \in spans :
       /\ spans' = spans \ {x}
       /\ arg' = [arg EXCEPT ![t] = x]
  /\ pc' = [pc EXCEPT ![t] = "release"]
  /\ UNCHANGED <<reserved, committed, regions, mu, kept, stuck>>

(* ReleaseSpan of a whole reservation: ReleaseRegion comes next. *)
ReleaseWhole(t) ==
  /\ pc[t] = "release" /\ mu = NoThread
  /\ \E r \in FindRegion(arg[t]) : IsWhole(r, arg[t])
  /\ mu' = t
  /\ pc' = [pc EXCEPT ![t] = "drop"]
  /\ UNCHANGED <<reserved, committed, regions, spans, arg, kept, stuck>>

(* ReleaseSpan of a part: its pages are decommitted; ReleaseRegion comes    *)
(* next when no page of the region is live.                                *)
ReleasePart(t) ==
  /\ pc[t] = "release" /\ mu = NoThread
  /\ \E r \in FindRegion(arg[t]) :
       LET n == LiveAfter(r, arg[t][2])
       IN /\ ~IsWhole(r, arg[t])
          /\ regions' = SetLive(r, n)
          /\ committed' = committed \ Pages(arg[t][1], arg[t][2])
          /\ IF IsGone([r EXCEPT !.live = n])
             THEN mu' = t /\ pc' = [pc EXCEPT ![t] = "drop"] /\ UNCHANGED <<arg, kept>>
             ELSE Return(t) /\ UNCHANGED mu
  /\ UNCHANGED <<reserved, spans, stuck>>

(* Decommit fails, in ReleaseSpan or DecommitRange: nothing is changed. *)
DecommitFails(t) ==
  /\ pc[t] \in {"release", "decommit"} /\ mu = NoThread
  /\ \E r \in FindRegion(arg[t]) : pc[t] = "release" => ~IsWhole(r, arg[t])
  /\ stuck' = stuck \cup Pages(arg[t][1], arg[t][2])
  /\ spans' = Spans(t)
  /\ Return(t)
  /\ UNCHANGED <<reserved, committed, regions, mu>>

RegionAt(t) == CHOOSE r \in FindRegion(arg[t]) : TRUE

(* Bug: the mutex is given up before the record is erased. *)
HolderWhileErasingNone(t) == NoThread

HolderWhileErasing(t) == t

(* ReleaseRegion: the reservation goes first ... *)
ReleaseReservation(t) ==
  /\ pc[t] = "drop"
  /\ LET r == RegionAt(t)
     IN /\ reserved' = reserved \ {<<r.base, r.size>>}
        /\ committed' = committed \ Pages(r.base, r.size)
  /\ mu' = HolderWhileErasing(t)
  /\ pc' = [pc EXCEPT ![t] = "erase"]
  /\ UNCHANGED <<regions, spans, arg, kept, stuck>>

(* ... then its record, and the mutex is released. *)
EraseRegion(t) ==
  /\ pc[t] = "erase"
  /\ regions' = regions \ {RegionAt(t)}
  /\ mu' = NoThread
  /\ Return(t)
  /\ UNCHANGED <<reserved, committed, spans, stuck>>

(* The lengths, rounded up to pages, a block of the span x can shrink to. *)
Shrinks(x) == 1 .. x[2] - 1

(* fast_realloc shrinks a large block: DecommitPages of the tail, while the *)
(* caller cannot use or free the head.                                     *)
ShrinkSpan(t) ==
  /\ pc[t] = "idle"
  /\ \E x \in spans : \E k \in Shrinks(x) :
       /\ spans' = spans \ {x}
       /\ kept' = [kept EXCEPT ![t] = <<x[1], k>>]
       /\ arg' = [arg EXCEPT ![t] = <<x[1] + k, x[2] - k>>]
  /\ pc' = [pc EXCEPT ![t] = "decommit"]
  /\ UNCHANGED <<reserved, committed, regions, mu, stuck>>

(* Bug: the pages stay counted as live. *)
LiveAfterDecommitSame(r, size) == r.live

LiveAfterDecommit(r, size) == LiveAfter(r, size)

DecommitRange(t) ==
  /\ pc[t] = "decommit" /\ mu = NoThread
  /\ \E r \in FindRegion(arg[t]) : regions' = SetLive(r, LiveAfterDecommit(r, arg[t][2]))
  /\ committed' = committed \ Pages(arg[t][1], arg[t][2])
  /\ spans' = Spans(t)
  /\ Return(t)
  /\ UNCHANGED <<reserved, mu, stuck>>

(* External: the page heap keeps the head and the tail of a span apart. *)
SplitSpan ==
  /\ \E x \in spans : \E k \in 1 .. x[2] - 1 :
       spans' = (spans \ {x}) \cup {<<x[1], k>>, <<x[1] + k, x[2] - k>>}
  /\ UNCHANGED <<reserved, committed, regions, mu, pc, arg, kept, stuck>>

Step(t) ==
  \/ Add(t)
  \/ ReleaseWhole(t) \/ ReleasePart(t) \/ DecommitFails(t)
  \/ ReleaseReservation(t) \/ EraseRegion(t) \/ DecommitRange(t)

Next ==
  \/ SplitSpan
  \/ \E t \in Threads :
       Step(t) \/ Reserve(t) \/ ReserveFails(t) \/ FreePages(t) \/ ShrinkSpan(t)

Spec == Init /\ [][Next]_vars

(* A thread that is in the registry goes on, and gets its mutex in the end. *)
LiveSpec == Spec /\ \A t \in Threads : SF_vars(Step(t))

-----------------------------------------------------------------------------
(* Properties *)

(* The spans whose pages callers can touch, or will once realloc returns. *)
Held == spans \cup ({kept[t] : t \in Threads} \ {NoSpan})

(* Spans being given back whose pages still count. *)
Leaving == {arg[t] : t \in {u \in Threads : pc[u] \in {"release", "decommit"}}}

(* A page a caller can touch is committed and inside a reservation: the     *)
(* release of one span never wipes a sibling that was split off it ("wipes *)
(* still-cached split tails (0xC0000005)").                                *)
SpansCommitted == PagesOf(Held) \subseteq committed /\ committed \subseteq PagesOf(reserved)

(* The registry knows every span a caller holds or gives back, with its    *)
(* true reservation, even when the system reuses the base of a reservation *)
(* whose record has not been erased yet.                                   *)
SpansKnown ==
  \A x \in Held \cup Leaving :
    \E r \in FindRegion(x) : <<r.base, r.size>> \in reserved

(* The live count of a region is exact: the pages of it that callers hold, *)
(* are giving back, or could not be decommitted.                           *)
LiveExact ==
  \A r \in regions :
    r.live = Cardinality(Pages(r.base, r.size) \cap (PagesOf(Held \cup Leaving) \cup stuck))
    \/ \E t \in Threads : pc[t] \in {"drop", "erase"} /\ r \in FindRegion(arg[t])

(* Every reservation is released in the end: once its last span has been    *)
(* given back nothing of it stays, unless the system refused a decommit.   *)
ReservationsReleased ==
  \A x \in (0 .. NumPages - 1) \X (1 .. MaxRequest) :
    x \in reserved ~>
      x \notin reserved \/ Pages(x[1], x[2]) \cap (PagesOf(Held) \cup stuck) # {}
=============================================================================
