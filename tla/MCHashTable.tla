---------------------------- MODULE MCHashTable -----------------------------
(***************************************************************************)
(* Model values for the runs of HashTable, the hash function, and what is  *)
(* in the levels when a run begins.                                        *)
(***************************************************************************)
EXTENDS HashTable

CONSTANTS t1, t2

Identity  == [k \in Keys |-> k]
Nothing   == [l \in Levels |-> {}]
OneInOld  == [l \in Levels |-> IF l = 1 THEN {1} ELSE {}]
=============================================================================
