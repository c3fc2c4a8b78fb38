--------------------------- MODULE MCLockFreeSet ----------------------------
(***************************************************************************)
(* Model values for the run of LockFreeSet.                                *)
(***************************************************************************)
EXTENDS LockFreeSet

CONSTANTS t1, t2, t3, i1, i2, i3

\* One item comes back.
OneTwice == [i \in Items |-> IF i = i1 THEN 2 ELSE 1]
=============================================================================
