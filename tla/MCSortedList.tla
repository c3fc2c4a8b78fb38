---------------------------- MODULE MCSortedList ----------------------------
(***************************************************************************)
(* Model values for the runs of SortedList, and the lists they start from. *)
(***************************************************************************)
EXTENDS SortedList

CONSTANTS t1, t2, c1, c2

TwoLoaded == {<<1, c1>>, <<2, c1>>}
OneLoaded == {<<2, c1>>}
=============================================================================
