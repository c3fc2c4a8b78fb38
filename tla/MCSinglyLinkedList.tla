------------------------- MODULE MCSinglyLinkedList -------------------------
(***************************************************************************)
(* Model values and symmetry for the runs of SinglyLinkedList.  Items are  *)
(* interchangeable; threads have roles.                                    *)
(***************************************************************************)
EXTENDS SinglyLinkedList, TLC

CONSTANTS t1, t2, t3, i1, i2, i3

ItemsSymmetric == Permutations(Items)
=============================================================================
