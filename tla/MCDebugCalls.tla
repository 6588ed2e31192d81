---------------------------- MODULE MCDebugCalls ----------------------------
(***************************************************************************)
(* DebugCalls with two threads, a small block of class 3 and two places for *)
(* large spans.  Classes are 4 bytes apart, with a header of 4 and 2 bytes *)
(* in reserve: class 3 serves requests of 7 to 10, over-aligned ones of 2. *)
(* Pages of 8 bytes give spans of 12, 20 or 28 usable bytes.               *)
(***************************************************************************)
EXTENDS DebugCalls, TLC

CONSTANTS t1, t2

MCThreads == {t1, t2}
MCSmallBlocks == {201}
MCClassIndex == [b \in MCSmallBlocks |-> 3]
MCLargeBlocks == {302, 403}
MCSpans == {20, 28}
MCRequests == {2, 9, 20}
MCSymmetry == Permutations(MCThreads)
=============================================================================
