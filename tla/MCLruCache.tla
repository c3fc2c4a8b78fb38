----------------------------- MODULE MCLruCache -----------------------------
(***************************************************************************)
(* Model values for the run of LruCache.                                   *)
(***************************************************************************)
EXTENDS LruCache, TLC

CONSTANTS t1, t2, n1, n2, n3, n4

AllSymmetric == Permutations({n1, n2, n3, n4}) \cup Permutations({t1, t2})
=============================================================================
