--------------------------- MODULE AllocRegistry ---------------------------
(***************************************************************************)
(* One shard of the allocation registry of a debug build                   *)
(* (src/src/debug_aid.cpp, class AllocRegistry): an open-addressing hash   *)
(* table from pointers to records, probed linearly, with tombstones for    *)
(* erased records, doubled in size when live entries and tombstones fill   *)
(* seven tenths of it.  Every operation runs under the mutex of the shard, *)
(* so it is one step.  A probe leaves its loop only at an empty slot or at *)
(* the record it looks for; one that meets neither runs for ever and keeps *)
(* the mutex: the shard is then `spinning'.                                *)
(*                                                                         *)
(* The table is a function from slots to Null, Tombstone or a record.  A   *)
(* record keeps the two fields the operations read, its pointer and its    *)
(* size.                                                                   *)
(***************************************************************************)
EXTENDS Integers, FiniteSets, FiniteSetsExt

CONSTANTS
  Pointers,
  Sizes,
  Hash,              \* the hash of each pointer, before it is masked
  InitialCapacity,   \* kInitialShardCapacity
  MaxCapacity,       \* bound: the largest table malloc provides
  Null, Tombstone, NoReply

ASSUME AllocRegistryAssumption ==
  /\ Sizes \subseteq Nat
  /\ Hash \in [Pointers -> Nat]
  /\ {InitialCapacity, MaxCapacity} \subseteq {2 ^ k : k \in 0 .. 10}
  /\ 4 <= InitialCapacity /\ InitialCapacity <= MaxCapacity

VARIABLES
  shard,      \* Shard: table, capacity, count, tombstones, live_bytes
  reply,      \* what the last operation that ended answered
  spinning,   \* does a probe run for ever under the mutex?
  denied      \* history: has GrowShard ever failed to get memory?

vars == <<shard, reply, spinning, denied>>

Records == [ptr : Pointers, size : Sizes]

Slots(cap) == 0 .. cap - 1

EmptyTable(cap) == [i \in Slots(cap) |-> Null]

(* HashPtr and the `(slot + 1) & (capacity - 1)' of the loops: the slot the *)
(* i-th probe for p looks at.                                              *)
Probe(p, i, cap) == (Hash[p] + i) % cap

Holds(tbl, slot, p) == tbl[slot] \in Records /\ tbl[slot].ptr = p

(* The probes at which the loop for p ends. *)
Stops(tbl, cap, p) ==
  {i \in Slots(cap) : LET s == Probe(p, i, cap)
                      IN tbl[s] = Null \/ Holds(tbl, s, p)}

(* AllocRegistry() *)
Init ==
  /\ shard = [table |-> EmptyTable(InitialCapacity), capacity |-> InitialCapacity,
              count |-> 0, tombstones |-> 0, live_bytes |-> 0]
  /\ reply = NoReply
  /\ spinning = FALSE
  /\ denied = FALSE

-----------------------------------------------------------------------------
(* GrowShard *)

(* nt[n]: the new table once n slots of the old one are rehashed into it. *)
Rehashed(s, cap) ==
  LET Place(nt, r) ==
        LET free == {i \in Slots(cap) : nt[Probe(r.ptr, i, cap)] = Null}
        IN [nt EXCEPT ![Probe(r.ptr, Min(free), cap)] = r]
      nt[n \in 0 .. s.capacity] ==
        IF n = 0 THEN EmptyTable(cap)
        ELSE IF s.table[n - 1] \in Records THEN Place(nt[n - 1], s.table[n - 1])
        ELSE nt[n - 1]
  IN nt[s.capacity]

(* Bug: the count of tombstones survives the rehash. *)
DoubledKeepsTombstones(s) ==
  [s EXCEPT !.table = Rehashed(s, 2 * s.capacity), !.capacity = 2 * s.capacity]

Doubled(s) ==
  [s EXCEPT !.table = Rehashed(s, 2 * s.capacity), !.capacity = 2 * s.capacity,
            !.tombstones = 0]

(* The shards a call of GrowShard may leave, malloc failing or not. *)
GrowShard(s) ==
  IF 2 * s.capacity > MaxCapacity THEN {s}
  ELSE {Doubled(s), s}

(* Bug: only live entries count towards the load. *)
HighLoadLiveOnly(s) == s.count * 10 >= s.capacity * 7

HighLoad(s) == (s.count + s.tombstones) * 10 >= s.capacity * 7

AfterLoadCheck(s) == IF HighLoad(s) THEN GrowShard(s) ELSE {s}

-----------------------------------------------------------------------------
(* Insert and Erase *)

(* The slot a new record goes to: the first tombstone met, if there is one. *)
TargetSlot(s, p, last) ==
  LET dead == {i \in 0 .. last : s.table[Probe(p, i, s.capacity)] = Tombstone}
  IN Probe(p, IF dead = {} THEN last ELSE Min(dead), s.capacity)

Stored(s, r, slot) ==
  [s EXCEPT !.table = [@ EXCEPT ![slot] = r],
            !.tombstones = IF s.table[slot] = Tombstone THEN @ - 1 ELSE @,
            !.count = @ + 1,
            !.live_bytes = @ + r.size]

(* Bug: Insert stops at the first tombstone, without looking beyond it. *)
StopsAtTombstone(s, p) ==
  Stops(s.table, s.capacity, p)
    \cup {i \in Slots(s.capacity) : s.table[Probe(p, i, s.capacity)] = Tombstone}

(* The probes at which Insert's search for a duplicate ends. *)
InsertStops(s, p) == Stops(s.table, s.capacity, p)

Insert(p, n) ==
  /\ ~spinning
  /\ \E s \in AfterLoadCheck(shard) :
       LET stops == InsertStops(s, p)
           last == Min(stops)
           found == Holds(s.table, Probe(p, last, s.capacity), p)
       IN /\ denied' = (denied \/ (HighLoad(shard) /\ s = shard))
          /\ IF stops = {}
             THEN shard' = s /\ spinning' = TRUE /\ UNCHANGED reply
             ELSE /\ shard' = IF found THEN s
                              ELSE Stored(s, [ptr |-> p, size |-> n], TargetSlot(s, p, last))
                  /\ reply' = <<"Insert", p, ~found>>
                  /\ UNCHANGED spinning

(* Bug: the slot is cleared, which cuts the probe chains that cross it. *)
RemovedToNull(s, slot) ==
  [s EXCEPT !.table = [@ EXCEPT ![slot] = Null],
            !.live_bytes = IF @ >= s.table[slot].size THEN @ - s.table[slot].size ELSE @,
            !.count = @ - 1]

(* What Erase writes over the record it removes. *)
Removed(s, slot) ==
  [s EXCEPT !.table = [@ EXCEPT ![slot] = Tombstone],
            !.live_bytes = IF @ >= s.table[slot].size THEN @ - s.table[slot].size ELSE @,
            !.count = @ - 1,
            !.tombstones = @ + 1]

Erase(p) ==
  /\ ~spinning
  /\ LET stops == Stops(shard.table, shard.capacity, p)
         slot == Probe(p, Min(stops), shard.capacity)
         found == Holds(shard.table, slot, p)
     IN IF stops = {}
        THEN spinning' = TRUE /\ UNCHANGED <<shard, reply>>
        ELSE /\ shard' = IF found THEN Removed(shard, slot) ELSE shard
             /\ reply' = <<"Erase", p, found>>
             /\ UNCHANGED spinning
  /\ UNCHANGED denied

ResetForTesting ==
  /\ ~spinning
  /\ shard' = [shard EXCEPT !.table = EmptyTable(shard.capacity), !.count = 0,
                            !.tombstones = 0, !.live_bytes = 0]
  /\ UNCHANGED <<reply, spinning, denied>>

(* The loop of a probe that meets neither an empty slot nor its record. *)
ProbeOn == spinning /\ UNCHANGED vars

Next ==
  \/ ResetForTesting
  \/ ProbeOn
  \/ \E p \in Pointers : Erase(p) \/ \E n \in Sizes : Insert(p, n)

Spec == Init /\ [][Next]_vars

-----------------------------------------------------------------------------
(* Properties *)

LiveSlots == {i \in Slots(shard.capacity) : shard.table[i] \in Records}

(* Probe chains are never cut: walking from its hash, Insert and Erase     *)
(* reach every record in the table before they meet an empty slot, so no   *)
(* tombstone reuse, erasure or rehash hides a live allocation.             *)
ChainsIntact ==
  \A i \in LiveSlots :
    LET p == shard.table[i].ptr
        d == (i - Hash[p]) % shard.capacity
    IN \A k \in 0 .. d - 1 : shard.table[Probe(p, k, shard.capacity)] # Null

(* The counters the statistics and the load check read are exact: count    *)
(* and live_bytes (live_count(), live_bytes()) are the records and bytes    *)
(* DumpLeaks would list, tombstones the tombstones a probe walks over.     *)
CountersExact ==
  /\ shard.count = Cardinality(LiveSlots)
  /\ shard.live_bytes = MapThenSumSet(LAMBDA i : shard.table[i].size, LiveSlots)
  /\ shard.tombstones
       = Cardinality({i \in Slots(shard.capacity) : shard.table[i] = Tombstone})

(* What the table holds of p, Null when it has no record of it. *)
SizeOf(p) ==
  LET at == {i \in LiveSlots : shard.table[i].ptr = p}
  IN IF at = {} THEN Null ELSE shard.table[Min(at)].size

(* The shard implements a map of live records: Insert answers false exactly *)
(* for a pointer that is live, Erase exactly for one that is not, whatever  *)
(* collisions, tombstones and rehashes came before.                        *)
Registry == INSTANCE AbstractRegistry
              WITH Infos <- Sizes, NoInfo <- Null, live <- [p \in Pointers |-> SizeOf(p)]
ImplementsRegistry == Registry!Spec

(* Every probe ends, so that Insert and Erase return and release the        *)
(* shard's mutex, as long as the table could grow whenever it asked to:    *)
(* tombstones and collisions alone never use up the last empty slot.       *)
GrownProbesEnd == spinning => denied
=============================================================================
