----------------------------- MODULE MCPageHeap -----------------------------
(* A small instance of PageHeap for TLC. *)
EXTENDS PageHeap, TLC

CONSTANTS t1, t2

MCThreads == {t1, t2}
MCSymmetry == Permutations(MCThreads)
=============================================================================
