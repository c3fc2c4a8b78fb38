------------------------------- MODULE KeyMap -------------------------------
(***************************************************************************)
(* What clds_sorted_list.c promises its clients: a map from keys to items, *)
(* and calls that each take effect in one step of their own, on the key    *)
(* and with the item they were given.  A call has one effect at most, and  *)
(* only a call under way has any; destroy, when none is, clears the map.   *)
(* The list may end a call without effect (GiveUp): its key is there or is *)
(* not, or the list failed.                                                *)
(***************************************************************************)
CONSTANTS
    Threads, Keys, Items, NULL,
    Start   \* the map at the beginning

VARIABLES
    entry,          \* the item every key has, or NULL
    op, key, item,  \* per thread: the call under way, its key, the item it was given
    found,          \* what a call that had its effect took out, replaced or found
    hands,          \* the items a client has references to
    closed          \* the map was destroyed

vars == <<entry, op, key, item, found, hands, closed>>
call == <<op, key, item>>

Setting(t) == op[t] \in {"set", "set_existing"}
Writes(t)  == op[t] = "insert" \/ Setting(t)
Takes(t)   == op[t] \in {"delete_item", "delete_key", "remove"}

Init ==
    /\ entry = Start /\ closed = FALSE
    /\ op = [t \in Threads |-> "none"]
    /\ key = [t \in Threads |-> NULL] /\ item = [t \in Threads |-> NULL]
    /\ found = [t \in Threads |-> NULL] /\ hands = [t \in Threads |-> {}]

\* What is the call's to find is there, and it had no effect yet.
Pending(t) == op[t] # "none" /\ found[t] = NULL
Meets(t)   == IF op[t] = "delete_item" THEN entry[key[t]] = item[t] ELSE entry[key[t]] # NULL

\* A client calls; it gives away its reference to the item it puts in.
Begin(t, what, k, i) ==
    /\ ~closed /\ op[t] = "none" /\ what # "none"
    /\ hands[t] \subseteq {i} /\ hands' = [hands EXCEPT ![t] = {}]
    /\ op' = [op EXCEPT ![t] = what]
    /\ key' = [key EXCEPT ![t] = k] /\ item' = [item EXCEPT ![t] = i]
    /\ UNCHANGED <<entry, found, closed>>

\* The client gets the call's result and a reference to every item of got.
Return(t, got) ==
    /\ op' = [op EXCEPT ![t] = "none"]
    /\ key' = [key EXCEPT ![t] = NULL] /\ item' = [item EXCEPT ![t] = NULL]
    /\ found' = [found EXCEPT ![t] = NULL]
    /\ hands' = [hands EXCEPT ![t] = @ \cup got]
    /\ UNCHANGED closed

\* insert, and set_value where the key is new.
PutNew(t) ==
    /\ Pending(t) /\ op[t] \in {"insert", "set"} /\ entry[key[t]] = NULL
    /\ entry' = [entry EXCEPT ![key[t]] = item[t]]
    /\ Return(t, {})

\* set_value of the item the key has already: the client gets the map's reference.
PutSame(t) ==
    /\ Pending(t) /\ Setting(t) /\ entry[key[t]] = item[t]
    /\ Return(t, {item[t]}) /\ UNCHANGED entry

\* The effect of set_value of another item, of the deletes and of remove ...
Change(t) ==
    /\ Pending(t) /\ (Setting(t) \/ Takes(t)) /\ Meets(t)
    /\ found' = [found EXCEPT ![t] = entry[key[t]]]
    /\ entry' = [entry EXCEPT ![key[t]] = IF Setting(t) THEN item[t] ELSE NULL]
    /\ UNCHANGED <<call, hands, closed>>

\* ... and of find, ...
Find(t) ==
    /\ Pending(t) /\ op[t] = "find" /\ Meets(t)
    /\ found' = [found EXCEPT ![t] = entry[key[t]]]
    /\ UNCHANGED <<entry, call, hands, closed>>

\* ... which return what they found; only the deletes keep it.
Finish(t) ==
    /\ found[t] # NULL
    /\ Return(t, IF op[t] \in {"delete_item", "delete_key"} THEN {} ELSE {found[t]})
    /\ UNCHANGED entry

\* A call ends without effect; the client keeps the item it wanted to put in.
GiveUp(t) ==
    /\ Pending(t)
    /\ Return(t, IF Writes(t) THEN {item[t]} ELSE {}) /\ UNCHANGED entry

\* The client releases what it holds ...
Release(t) ==
    /\ op[t] = "none" /\ hands' = [hands EXCEPT ![t] = {}]
    /\ UNCHANGED <<entry, call, found, closed>>

\* ... or gets everything there is, while no call can change it.
GetAll(t) ==
    /\ ~closed /\ hands[t] = {} /\ \A u \in Threads : op[u] \in {"none", "find"}
    /\ hands' = [hands EXCEPT ![t] = {entry[k] : k \in Keys} \ {NULL}]
    /\ UNCHANGED <<entry, call, found, closed>>

Destroy ==
    /\ ~closed /\ \A t \in Threads : op[t] = "none"
    /\ closed' = TRUE /\ entry' = [k \in Keys |-> NULL]
    /\ UNCHANGED <<call, found, hands>>

Calls == {"insert", "set", "set_existing", "delete_item", "delete_key", "remove", "find"}

Next ==
    \/ \E t \in Threads :
          \/ PutNew(t) \/ PutSame(t) \/ Change(t) \/ Find(t)
          \/ Finish(t) \/ GiveUp(t) \/ Release(t) \/ GetAll(t)
          \/ \E what \in Calls, k \in Keys, i \in Items \cup {NULL} : Begin(t, what, k, i)
    \/ Destroy

Spec == Init /\ [][Next]_vars
=============================================================================
