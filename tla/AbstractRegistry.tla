-------------------------- MODULE AbstractRegistry --------------------------
(***************************************************************************)
(* What the allocation registry of a debug build promises: a map from live *)
(* pointers to what was recorded of them, Insert refused exactly when the  *)
(* pointer is live already (a double allocation), Erase refused exactly    *)
(* when it is not (a double or an invalid free).  An operation may also    *)
(* never answer.                                                           *)
(***************************************************************************)
CONSTANTS Pointers, Infos, NoInfo, NoReply

VARIABLES
  live,    \* what is recorded of each pointer, NoInfo where it is not live
  reply    \* the operation answered last, and its answer

IsLive(p) == live[p] # NoInfo

AfterInsert(p, i) == IF IsLive(p) THEN live ELSE [live EXCEPT ![p] = i]

AfterErase(p) == [live EXCEPT ![p] = NoInfo]

Init == live = [p \in Pointers |-> NoInfo] /\ reply = NoReply

Insert(p, i) == reply' = <<"Insert", p, ~IsLive(p)>> /\ live' = AfterInsert(p, i)

Erase(p) == reply' = <<"Erase", p, IsLive(p)>> /\ live' = AfterErase(p)

ResetForTesting == live' = [p \in Pointers |-> NoInfo] /\ UNCHANGED reply

Next ==
  \/ ResetForTesting
  \/ \E p \in Pointers : Erase(p) \/ \E i \in Infos : Insert(p, i)

Spec == Init /\ [][Next]_<<live, reply>>
=============================================================================
