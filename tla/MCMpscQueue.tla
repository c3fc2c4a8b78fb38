---------------------------- MODULE MCMpscQueue ----------------------------
(***************************************************************************)
(* Model values for the run of MpscQueue, which checks liveness too and so *)
(* uses no symmetry.                                                       *)
(***************************************************************************)
EXTENDS MpscQueue

CONSTANTS p1, p2, p3, i1, i2, i3
=============================================================================
