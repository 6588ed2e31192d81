--------------------------- MODULE MCWinRegistry ---------------------------
(* Small instance of WinRegistry for TLC. *)
EXTENDS WinRegistry

CONSTANTS t1, t2

MCThreads == {t1, t2}
=============================================================================
