----------------------------- MODULE GroupLock -----------------------------
(***************************************************************************)
(* What the write lock of the sorted list and of the hash table promises:  *)
(* write operations may overlap each other, holders of the lock may        *)
(* overlap each other, but no write operation overlaps a holder.           *)
(***************************************************************************)
CONSTANTS Writers, Lockers

VARIABLES writing, holding

TypeInvariant == writing \subseteq Writers /\ holding \subseteq Lockers

Init == writing = {} /\ holding = {}

BeginWrite(w) ==
    /\ holding = {} /\ w \in Writers \ writing
    /\ writing' = writing \cup {w} /\ UNCHANGED holding

EndWrite(w) ==
    /\ w \in writing
    /\ writing' = writing \ {w} /\ UNCHANGED holding

Lock(l) ==
    /\ writing = {} /\ l \in Lockers \ holding
    /\ holding' = holding \cup {l} /\ UNCHANGED writing

Unlock(l) ==
    /\ l \in holding
    /\ holding' = holding \ {l} /\ UNCHANGED writing

Next ==
    \/ \E w \in Writers : BeginWrite(w) \/ EndWrite(w)
    \/ \E l \in Lockers : Lock(l) \/ Unlock(l)

Spec == Init /\ [][Next]_<<writing, holding>>
=============================================================================
