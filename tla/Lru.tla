-------------------------------- MODULE Lru ---------------------------------
(***************************************************************************)
(* What lru_cache.c promises: values of given sizes, kept in the order of  *)
(* their last use.  A value comes, moves or goes because a call asks for   *)
(* its key.  To make room, a value leaves only if it is the one that was   *)
(* used longest ago, only while the capacity is exceeded, and never if it  *)
(* is the last one there is.                                               *)
(***************************************************************************)
EXTENDS Integers, SequencesExt

CONSTANTS Keys, Capacity

VARIABLES
    calls,    \* the calls under way, with their keys and sizes
    order,    \* the keys in the cache, the one used longest ago first
    weight    \* the size of every key's value, 0 for a key that is not there

Calls == [op : {"put"}, key : Keys, size : 1..Capacity]
            \cup [op : {"get", "evict"}, key : Keys, size : {0}]

Init == calls = {} /\ order = <<>> /\ weight = [k \in Keys |-> 0]

Total == SumFunction(weight)

CallOrReturn == calls' \subseteq Calls

Put(k, s) ==
    /\ [op |-> "put", key |-> k, size |-> s] \in calls
    /\ order' = Append(RemoveFirst(order, k), k)
    /\ weight' = [weight EXCEPT ![k] = s]

Get(k) ==
    /\ [op |-> "get", key |-> k, size |-> 0] \in calls /\ k \in ToSet(order)
    /\ order' = Append(RemoveFirst(order, k), k)
    /\ UNCHANGED weight

Evict(k) ==
    /\ [op |-> "evict", key |-> k, size |-> 0] \in calls /\ k \in ToSet(order)
    /\ order' = RemoveFirst(order, k)
    /\ weight' = [weight EXCEPT ![k] = 0]

MakeRoom ==
    /\ Total > Capacity /\ Len(order) > 1
    /\ \E c \in calls : c.op = "put"
    /\ order' = Tail(order)
    /\ weight' = [weight EXCEPT ![Head(order)] = 0]

Destroy == calls = {} /\ order' = <<>> /\ weight' = [k \in Keys |-> 0]

Next ==
    /\ CallOrReturn
    /\ \/ UNCHANGED <<order, weight>> \/ MakeRoom \/ Destroy
       \/ \E k \in Keys : Get(k) \/ Evict(k) \/ \E s \in 1..Capacity : Put(k, s)

Spec == Init /\ [][Next]_<<calls, order, weight>>
=============================================================================
