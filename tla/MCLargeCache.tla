---------------------------- MODULE MCLargeCache ----------------------------
(* Small instances of LargeCache for TLC: pages of 4 bytes, headers of 1,  *)
(* sizes modulo 32; the largest requests wrap around.                       *)
EXTENDS LargeCache, TLC

CONSTANTS t1, t2, s1, s2, s3

MCThreads == {t1, t2}
MCSpans == {s1, s2, s3}
MCSpans2 == {s1, s2}
MCRequests == {3, 7, 8, 15, 23, 31}
MCLargestRequests == {7, 27, 28, 29, 31}
MCSymmetry == Permutations(MCThreads) \cup Permutations(MCSpans)
=============================================================================
