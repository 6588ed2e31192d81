---------------------------- MODULE MCStatistics ----------------------------
(***************************************************************************)
(* Statistics on two threads that flush every second operation, one small  *)
(* and one large block, and counters of three bits.                         *)
(***************************************************************************)
EXTENDS Statistics, TLC

CONSTANTS s1, l1, t1, t2

MCThreads == {t1, t2}
MCSmall == {s1}
MCLarge == {l1}
MCLargeBytes == {1, 2}

Symmetry == Permutations(MCThreads)
=============================================================================
