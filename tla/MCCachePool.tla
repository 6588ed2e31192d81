---------------------------- MODULE MCCachePool ----------------------------
(* Small instance of CachePool for TLC. *)
EXTENDS CachePool

CONSTANTS t1, t2, c1, c2

MCThreads == {t1, t2}
MCCaches == {c1, c2}
=============================================================================
