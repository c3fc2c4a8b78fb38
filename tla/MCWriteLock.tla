---------------------------- MODULE MCWriteLock ----------------------------
(***************************************************************************)
(* Model values for the run of WriteLock, which checks liveness too and so *)
(* uses no symmetry.                                                       *)
(***************************************************************************)
EXTENDS WriteLock

CONSTANTS w1, w2, l1, l2
=============================================================================
