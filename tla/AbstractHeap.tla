---------------------------- MODULE AbstractHeap ----------------------------
(***************************************************************************)
(* What fast_malloc and fast_free promise for small blocks, without        *)
(* caches, arenas, locks or queues: spans are cut into blocks of one size  *)
(* class, malloc returns a block of such a span that nobody holds, and a   *)
(* span changes its use only while none of its blocks is held.             *)
(***************************************************************************)
EXTENDS Integers

CONSTANTS Spans, Classes, TotalBlocks, NoClass

VARIABLES
  live,      \* the blocks the program holds
  class_of   \* the size class each span is cut for, or NoClass

Init ==
  /\ live = {}
  /\ class_of = [s \in Spans |-> NoClass]

Malloc(s) ==
  /\ class_of[s] # NoClass
  /\ \E i \in 0 .. TotalBlocks[class_of[s]] - 1 :
       /\ <<s, i>> \notin live
       /\ live' = live \cup {<<s, i>>}
  /\ UNCHANGED class_of

Free ==
  /\ \E b \in live : live' = live \ {b}
  /\ UNCHANGED class_of

CutSpan(s) ==
  /\ class_of[s] = NoClass
  /\ \E c \in Classes : class_of' = [class_of EXCEPT ![s] = c]
  /\ UNCHANGED live

ReleaseSpan(s) ==
  /\ \A b \in live : b[1] # s
  /\ class_of' = [class_of EXCEPT ![s] = NoClass]
  /\ UNCHANGED live

Next == Free \/ \E s \in Spans : Malloc(s) \/ CutSpan(s) \/ ReleaseSpan(s)

Spec == Init /\ [][Next]_<<live, class_of>>
=============================================================================
