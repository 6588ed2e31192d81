-------------------------- MODULE MCAllocRegistry --------------------------
(* A small instance of AllocRegistry for TLC: pointers 0 and 1 collide in    *)
(* every table, 2 follows them, 3 and 4 wrap around the smallest table.    *)
EXTENDS AllocRegistry

CONSTANT NumPointers

MCPointers == 0 .. NumPointers - 1
MCSizes == {0, 16}
MCHash == [p \in MCPointers |-> <<0, 0, 1, 3, 7, 6>>[p + 1]]
=============================================================================
