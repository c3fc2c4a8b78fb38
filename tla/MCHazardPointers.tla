-------------------------- MODULE MCHazardPointers --------------------------
(***************************************************************************)
(* Model values and symmetry for the runs of HazardPointers.  Threads may  *)
(* be permuted when every role is given to all of them; nodes always.      *)
(***************************************************************************)
EXTENDS HazardPointers, TLC

CONSTANTS t1, t2, t3, n1, n2

AllSymmetric  == Permutations(Threads) \cup Permutations(Nodes)
NodesSymmetric == Permutations(Nodes)
=============================================================================
