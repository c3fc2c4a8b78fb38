------------------------------ MODULE LruCache ------------------------------
(***************************************************************************)
(* The cache of src/lru_cache.c: a hash table of nodes and a doubly linked *)
(* list of the same nodes, the least recently used first, under one lock.  *)
(*                                                                         *)
(* current_size, the list and the table are touched only by a thread that  *)
(* holds srw_lock exclusively, so what a call does between acquire and     *)
(* release is one action.  A put gives the lock up before it evicts and    *)
(* takes it anew for every node it evicts; that is where others come in.   *)
(* Under the lock the table is a map: HashTable shows what its calls do    *)
(* when they overlap, and here they do not.                                *)
(*                                                                         *)
(* Branches of evict_internal that say that something is wrong (the list   *)
(* is empty, the size would become negative, the compare-and-swap fails,   *)
(* the table does not know the node) have no action, only their negation   *)
(* in the guard of the others: SizeExact states that they are never taken. *)
(***************************************************************************)
EXTENDS Integers, SequencesExt

CONSTANTS
    Threads, Keys, Nodes, NULL,
    Sizes,       \* the sizes clients give their values
    Capacity,
    IntMax,      \* INT64_MAX
    MayFail      \* TRUE: allocations, hazard pointers and the client's copy may fail

ASSUME LruCacheAssumption ==
    /\ Sizes \subseteq Nat \ {0} /\ Capacity \in Nat \ {0}
    /\ IntMax \in Nat /\ IntMax >= Capacity
    /\ NULL \notin Nodes \cup Keys /\ MayFail \in BOOLEAN
\* Keys are pointers, and there are finitely many of those.
ASSUME KeysAreFinite == IsFiniteSet(Keys)

VARIABLES
    list,                        \* head: the nodes from Flink to Blink
    table,                       \* per key its node, or NULL
    node,                        \* key and size of every LRU_NODE
    current_size,
    slot, result, registered, live,  \* of the thread helper
    pc, op, key, size,           \* per thread: where it is, what it runs and on what
    gaveUp       \* history: the table failed an eviction since the size was last in bounds

Helper == INSTANCE ThreadHelper

cache  == <<list, table, node, current_size, gaveUp>>
helper == <<slot, result, registered, live>>
call   == <<op, key, size>>
vars   == <<cache, helper, pc, call>>

\* What a node that no key has holds does not matter.
Unset == [key |-> NULL, size |-> 0]

Used == {n \in Nodes : n \in ToSet(list) \/ \E k \in Keys : table[k] = n}

Init ==
    /\ list = <<>> /\ table = [k \in Keys |-> NULL]
    /\ node = [n \in Nodes |-> Unset]
    /\ current_size = 0 /\ gaveUp = FALSE
    /\ Helper!Init
    /\ pc = [t \in Threads |-> "idle"] /\ op = [t \in Threads |-> "none"]
    /\ key = [t \in Threads |-> NULL] /\ size = [t \in Threads |-> 0]

\* interlocked_add_64 of current_size.
Resize(s) == current_size' = s /\ gaveUp' = (gaveUp /\ s > Capacity)

Goto(t, from, to) == pc[t] = from /\ pc' = [pc EXCEPT ![t] = to]

\* What every return does to the locals.
Return(t, from) ==
    /\ Goto(t, from, "idle")
    /\ op' = [op EXCEPT ![t] = "none"]
    /\ key' = [key EXCEPT ![t] = NULL] /\ size' = [size EXCEPT ![t] = 0]

Call(t, what, k, s) ==
    /\ live /\ Goto(t, "idle", "thread")
    /\ op' = [op EXCEPT ![t] = what]
    /\ key' = [key EXCEPT ![t] = k] /\ size' = [size EXCEPT ![t] = s]
    /\ UNCHANGED <<cache, helper>>

-----------------------------------------------------------------------------
(* Calls, and clds_hazard_pointers_thread_helper_get_thread *)

\* A size above the capacity is refused and changes nothing.
PutStart(t) == \E k \in Keys, s \in Sizes : s <= Capacity /\ Call(t, "put", k, s)

GetStart(t)   == \E k \in Keys : Call(t, "get", k, 0)
EvictStart(t) == \E k \in Keys : Call(t, "evict", k, 0)

ThreadKnown(t) ==
    /\ Goto(t, "thread", "lock") /\ Helper!HasHandle(t)
    /\ UNCHANGED <<cache, call>>

ThreadNew(t) ==
    /\ Goto(t, "thread", "slot") /\ Helper!Register(t)
    /\ UNCHANGED <<cache, call>>

ThreadStored(t) ==
    /\ Goto(t, "slot", "lock") /\ Helper!SetSlot(t)
    /\ UNCHANGED <<cache, call>>

\* The call returns LRU_CACHE_PUT_ERROR, NULL or LRU_CACHE_EVICT_ERROR.
NoThread(t) ==
    \/ Return(t, "thread") /\ Helper!RegisterFails(t) /\ UNCHANGED cache
    \/ Return(t, "slot") /\ Helper!SetSlotFails(t) /\ UNCHANGED cache

ThreadEnds(t) ==
    /\ pc[t] = "idle" /\ Helper!ThreadEnds(t)
    /\ UNCHANGED <<cache, pc, call>>

-----------------------------------------------------------------------------
(* lru_cache_put, under the lock *)

SizeOf(k) == IF table[k] = NULL THEN 0 ELSE node[table[k]].size
Fits(t)   == IntMax - size[t] >= current_size

\* The sum would not fit, or the copy or clds_hash_table_set_value fails.  That the node
\* cannot be allocated is not checked in the code and has no action.
PutFails(t) ==
    /\ op[t] = "put" /\ (MayFail \/ ~Fits(t))
    /\ Return(t, "lock") /\ UNCHANGED <<cache, helper>>

\* The new node takes the key's place in the table and goes to the tail of the list;
\* the old one leaves the list and is released.
Store(t, sum) ==
    \E n \in Nodes \ Used : LET k == key[t]  old == table[k] IN
        /\ op[t] = "put" /\ Goto(t, "lock", "evict")
        /\ node' = [m \in Nodes |-> CASE m = n -> [key |-> k, size |-> size[t]]
                                      [] m = old -> Unset
                                      [] OTHER -> node[m]]
        /\ table' = [table EXCEPT ![k] = n]
        /\ list' = Append(RemoveFirst(list, old), n)
        /\ Resize(sum)
        /\ UNCHANGED <<helper, call>>

\* Mutant: the size of the value that is replaced stays counted.
PutCountsBoth(t) == Fits(t) /\ Store(t, current_size + size[t])

\* Mutant: the sum is not checked before the size is added.
PutUnchecked(t) == Store(t, current_size - SizeOf(key[t]) + size[t])

Put(t) == Fits(t) /\ Store(t, current_size - SizeOf(key[t]) + size[t])

-----------------------------------------------------------------------------
(* evict_internal: one turn of its loop, under the lock *)

\* Mutant: put returns without looking at the size again.
ReturnAnyway(t) == Return(t, "evict") /\ UNCHANGED <<cache, helper>>

InBounds(t) ==
    /\ current_size <= Capacity /\ Return(t, "evict")
    /\ UNCHANGED <<cache, helper>>

\* A turn that takes a node out of the table, the list and the sum.
TakeOut(n) ==
    /\ table' = [table EXCEPT ![node[n].key] = NULL]
    /\ list' = RemoveFirst(list, n)
    /\ Resize(current_size - node[n].size)
    /\ node' = [node EXCEPT ![n] = Unset]

Exceeds(t) ==
    /\ pc[t] = "evict" /\ current_size > Capacity
    /\ list # <<>> /\ current_size - node[Head(list)].size >= 0

\* Mutant: the node at the tail is evicted.
EvictNewest(t) ==
    /\ Exceeds(t)
    /\ TakeOut(Last(list))
    /\ UNCHANGED <<helper, pc, call>>

EvictLeastUsed(t) ==
    /\ Exceeds(t)
    /\ TakeOut(Head(list))
    /\ UNCHANGED <<helper, pc, call>>

\* clds_hash_table_remove fails: the size is added back, on_error_callback called,
\* and put returns LRU_CACHE_PUT_EVICT_ERROR with its own value in the cache.
EvictFails(t) ==
    /\ MayFail /\ Exceeds(t) /\ Return(t, "evict")
    /\ gaveUp' = TRUE
    /\ UNCHANGED <<list, table, node, current_size, helper>>

-----------------------------------------------------------------------------
(* lru_cache_get and lru_cache_evict, under the lock *)

\* Not there; or clds_hash_table_find found no hazard pointer, and says the same.
GetNothing(t) ==
    /\ op[t] = "get" /\ (MayFail \/ table[key[t]] = NULL)
    /\ Return(t, "lock") /\ UNCHANGED <<cache, helper>>

\* The value is read and the reference to the node released; what is returned is the
\* bare value.
Get(t) == LET n == table[key[t]] IN
    /\ op[t] = "get" /\ n # NULL /\ Return(t, "lock")
    /\ list' = IF Last(list) = n THEN list ELSE Append(RemoveFirst(list, n), n)
    /\ UNCHANGED <<table, node, current_size, gaveUp, helper>>

EvictNothing(t) ==
    /\ op[t] = "evict" /\ (MayFail \/ table[key[t]] = NULL)
    /\ Return(t, "lock") /\ UNCHANGED <<cache, helper>>

EvictKey(t) == LET n == table[key[t]] IN
    /\ op[t] = "evict" /\ n # NULL /\ Return(t, "lock")
    /\ TakeOut(n) /\ UNCHANGED helper

\* lru_cache_destroy, which clients call when no call is under way: the table gives
\* up its nodes, and the helper its slot.
Destroy ==
    /\ \A t \in Threads : pc[t] = "idle"
    /\ Helper!Destroy
    /\ list' = <<>> /\ table' = [k \in Keys |-> NULL] /\ current_size' = 0
    /\ node' = [n \in Nodes |-> Unset] /\ gaveUp' = FALSE
    /\ UNCHANGED <<pc, call>>

-----------------------------------------------------------------------------
Step(t) ==
    \/ ThreadKnown(t) \/ ThreadNew(t) \/ ThreadStored(t) \/ NoThread(t)
    \/ PutFails(t) \/ Put(t) \/ InBounds(t) \/ EvictLeastUsed(t) \/ EvictFails(t)
    \/ GetNothing(t) \/ Get(t) \/ EvictNothing(t) \/ EvictKey(t)

Next ==
    \/ \E t \in Threads : \/ PutStart(t) \/ GetStart(t) \/ EvictStart(t)
                          \/ Step(t) \/ ThreadEnds(t)
    \/ Destroy

Spec == Init /\ [][Next]_vars

-----------------------------------------------------------------------------
(* Properties *)

\* Every variable has its type, and a thread that waits for the lock knows why.
TypeOK ==
    /\ list \in Seq(Nodes) /\ table \in [Keys -> Nodes \cup {NULL}]
    /\ node \in [Nodes -> [key : Keys \cup {NULL}, size : {0} \cup Sizes]]
    /\ current_size \in 0..IntMax
    /\ slot \subseteq Threads /\ result \subseteq Threads
    /\ registered \in [Threads -> Nat]
    /\ pc \in [Threads -> {"idle", "thread", "slot", "lock", "evict"}]
    /\ op \in [Threads -> {"none", "put", "get", "evict"}]
    /\ key \in [Threads -> Keys \cup {NULL}] /\ size \in [Threads -> {0} \cup Sizes]
    /\ {live, gaveUp} \subseteq BOOLEAN
    /\ \A t \in Threads : pc[t] = "idle" <=> op[t] = "none"

\* The list holds every node of the table once and nothing else, each under its own
\* key, and current_size is the sum of their sizes.  A node that stayed in the list
\* after the table gave it up would be used after it is freed; a size that is counted
\* twice or not at all would make put evict everything or nothing.  It follows that
\* evict_internal never finds the list empty or the size negative while it is over the
\* capacity, and never a key the table does not have.
ListMatchesTable ==
    /\ IsInjective(list) /\ ToSet(list) = {table[k] : k \in Keys} \ {NULL}
    /\ \A k \in Keys : table[k] # NULL => node[table[k]].key = k
SizeExact ==
    /\ ListMatchesTable
    /\ current_size = SumFunctionOnSet([n \in Nodes |-> node[n].size], ToSet(list))

\* The cache is above its capacity only while a put is still evicting, or since the
\* table failed an eviction and the size did not come back into bounds: no order of
\* puts, evictions and failures leaves it above with nobody to see to it
\* (evict_internal reads the size anew under the lock before it lets put return).
WithinCapacity ==
    current_size > Capacity => gaveUp \/ \E t \in Threads : pc[t] = "evict"

\* While the helper lives, a thread is registered with the hazard pointers once if its
\* slot has a handle or get_thread is about to store one, and not at all otherwise,
\* whatever failed on the way: a thread registered twice, or still registered when no
\* slot knows of it, would hold back reclamation for ever (get_thread and the thread
\* notification of clds_hazard_pointers_thread_helper.c).
HandlesAccounted ==
    /\ slot \cap result = {}
    /\ live => \A t \in Threads : registered[t] = IF t \in slot \cup result THEN 1 ELSE 0

Cached == INSTANCE Lru WITH
    calls  <- {[op |-> op[t], key |-> key[t], size |-> size[t]] :
                                          t \in {u \in Threads : op[u] # "none"}},
    order  <- [i \in DOMAIN list |-> node[list[i]].key],
    weight <- [k \in Keys |-> SizeOf(k)]

\* The cache is a Lru: whatever calls overlap, only the value used longest ago makes
\* room, only while the capacity is exceeded, and never the one that was put or found
\* last (lru_cache_put, lru_cache_get, lru_cache_evict).
ImplementsLru == Cached!Spec
=============================================================================
