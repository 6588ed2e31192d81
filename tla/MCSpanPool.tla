----------------------------- MODULE MCSpanPool -----------------------------
(* Small instances of SpanPool for TLC. *)
EXTENDS SpanPool, TLC

CONSTANTS t1, t2

MCThreads == {t1, t2}
MCSymmetry == Permutations(MCThreads)
=============================================================================
