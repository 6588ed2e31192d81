----------------------------- MODULE MCTLSCache -----------------------------
(* Small instances of TLSCache for TLC. *)
EXTENDS TLSCache, TLC

CONSTANTS t1, t2, s1, s2, c1, c2

MCThreads == {t1, t2}
MCSpans1 == {s1}
MCSpans2 == {s1, s2}
MCClasses1 == {c1}
MCClasses2 == {c1, c2}
MCTotal1 == [c \in Classes |-> 1]
MCTotal2 == [c \in Classes |-> 2]
MCLimit2 == [c \in Classes |-> 2]
MCLimit42 == [c \in Classes |-> IF c = c1 THEN 4 ELSE 2]
MCSymmetry == Permutations(MCThreads)
MCSymmetry2 == Permutations(MCThreads) \cup Permutations(MCSpans2)
=============================================================================
