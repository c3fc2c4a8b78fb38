---------------------------- MODULE LockFreeSet -----------------------------
(***************************************************************************)
(* The set of src/lock_free_set.c: a doubly linked list that grows at the  *)
(* head.  A remove takes the item's previous link and then its next link   *)
(* by setting their low bit, swings the link that leads to the item past   *)
(* it, and mends the link that leads back; of two neighbours the one in    *)
(* front wins, and the other puts its marks back and starts again.         *)
(*                                                                         *)
(* A link is one word: a pointer and the mark.  One action is one access   *)
(* to a shared word, with the private steps around it.  Where the code     *)
(* reads a word and then exchanges it only if it still has the value, and  *)
(* does the same when either fails, the read has no action of its own.     *)
(* Turns of a loop that only waits are no steps.  The branches that log an *)
(* unexpected change of a link that is held have no action: MarksHeld      *)
(* states that they are never taken.                                       *)
(***************************************************************************)
EXTENDS Naturals, FiniteSets

CONSTANTS
    Inserters, Removers,   \* threads, by what they may call
    Items, NULL,
    MaxInserts      \* bound on how often an item is inserted, per item

Threads == Inserters \cup Removers

ASSUME LockFreeSetAssumption == NULL \notin Items /\ MaxInserts \in [Items -> Nat]
ASSUME ItemsAreFinite == IsFiniteSet(Items)

VARIABLES
    head, next, prev,    \* prev: the field previous
    pc, item,            \* per thread: where it is, the item it was called with
    before, after,       \* locals item_previous; item_next, in an insert current_head
    inserted,            \* how often clients have inserted every item
    present,             \* history: items that are in the set
    gone                 \* items the client has back, or has not inserted yet

locals == <<pc, item, before, after>>
client == <<inserted, gone>>
vars   == <<head, next, prev, locals, client, present>>

Link(p)   == [ptr |-> p, mark |-> FALSE]
Marked(p) == [ptr |-> p, mark |-> TRUE]
Nowhere   == Link(NULL)

\* What a walk along the next links meets, and NULL once it has ended.
Walk == LET walk[k \in 0..Cardinality(Items)] ==
              IF k = 0 THEN head
              ELSE IF walk[k - 1] = NULL THEN NULL ELSE next[walk[k - 1]].ptr
        IN  walk
Reached == {i \in Items : \E k \in DOMAIN Walk : Walk[k] = i}

Init ==
    /\ head = NULL
    /\ next = [i \in Items |-> Nowhere] /\ prev = [i \in Items |-> Nowhere]
    /\ pc = [t \in Threads |-> "idle"] /\ item = [t \in Threads |-> NULL]
    /\ before = [t \in Threads |-> NULL] /\ after = [t \in Threads |-> NULL]
    /\ inserted = [i \in Items |-> 0]
    /\ present = {} /\ gone = Items

Goto(t, from, to) == pc[t] = from /\ pc' = [pc EXCEPT ![t] = to]

Return(t, from) ==
    /\ Goto(t, from, "idle")
    /\ item' = [item EXCEPT ![t] = NULL]
    /\ before' = [before EXCEPT ![t] = NULL] /\ after' = [after EXCEPT ![t] = NULL]

\* interlocked_compare_exchange_pointer of next[i] or prev[i].
CasNext(i, old, new) ==
    next[i] = old /\ next' = [next EXCEPT ![i] = new] /\ UNCHANGED <<head, prev>>
CasPrev(i, old, new) ==
    prev[i] = old /\ prev' = [prev EXCEPT ![i] = new] /\ UNCHANGED <<head, next>>
CasHead(old, new) ==
    head = old /\ head' = new /\ UNCHANGED <<next, prev>>

Links == <<head, next, prev>>

-----------------------------------------------------------------------------
(* lock_free_set_insert *)

InsertStart(t) ==
    t \in Inserters /\ \E i \in gone :
        /\ inserted[i] < MaxInserts[i]
        /\ Goto(t, "idle", "insert") /\ item' = [item EXCEPT ![t] = i]
        /\ inserted' = [inserted EXCEPT ![i] = @ + 1] /\ gone' = gone \ {i}
        /\ UNCHANGED <<Links, before, after, present>>

\* The head is read; nobody else knows the item, whose links are set.
InsertReadHead(t) ==
    /\ Goto(t, "insert", "in_front")
    /\ after' = [after EXCEPT ![t] = head]
    /\ next' = [next EXCEPT ![item[t]] = Link(head)]
    /\ prev' = [prev EXCEPT ![item[t]] = Nowhere]
    /\ UNCHANGED <<head, item, before, client, present>>

InsertAtHead(t) ==
    /\ pc[t] = "in_front" /\ CasHead(after[t], item[t])
    /\ present' = present \cup {item[t]}
    /\ IF after[t] = NULL THEN Return(t, "in_front")
       ELSE Goto(t, "in_front", "join") /\ UNCHANGED <<item, before, after>>
    /\ UNCHANGED client

InsertAgain(t) ==
    /\ Goto(t, "in_front", "insert") /\ head # after[t]
    /\ UNCHANGED <<Links, item, before, after, client, present>>

\* The old head's previous becomes the item once it is NULL.
Join(t) ==
    /\ Return(t, "join")
    /\ CasPrev(after[t], Nowhere, Link(item[t]))
    /\ UNCHANGED <<client, present>>

-----------------------------------------------------------------------------
(* lock_free_set_remove: of the item the head points to *)

\* A client removes an item when its insert has returned, and once.
RemoveStart(t) ==
    t \in Removers /\ \E i \in present :
        /\ \A u \in Threads : item[u] # i
        /\ Goto(t, "idle", "remove") /\ item' = [item EXCEPT ![t] = i]
        /\ UNCHANGED <<Links, before, after, client, present>>

RemoveReadHead(t) ==
    /\ Goto(t, "remove", IF head = item[t] THEN "head_next" ELSE "mid_prev")
    /\ before' = [before EXCEPT ![t] = NULL] /\ after' = [after EXCEPT ![t] = NULL]
    /\ UNCHANGED <<Links, item, client, present>>

HeadReadNext(t) ==
    /\ Goto(t, "head_next", "head_lock")
    /\ after' = [after EXCEPT ![t] = next[item[t]].ptr]
    /\ UNCHANGED <<Links, item, before, client, present>>

HeadLockPrev(t) ==
    /\ Goto(t, "head_lock", IF after[t] = NULL THEN "head_swing" ELSE "head_mark")
    /\ CasPrev(item[t], Nowhere, Marked(NULL))
    /\ UNCHANGED <<item, before, after, client, present>>

HeadLockNext(t) ==
    /\ Goto(t, "head_mark", "head_swing")
    /\ CasNext(item[t], Link(after[t]), Marked(after[t]))
    /\ UNCHANGED <<item, before, after, client, present>>

\* Mutant: the head takes over the item's next as it stands, with the mark.
HeadSwingRaw(t) ==
    /\ pc[t] = "head_swing" /\ after[t] # NULL
    /\ CasHead(item[t], next[item[t]])
    /\ present' = present \ {item[t]}
    /\ Goto(t, "head_swing", "head_mend")
    /\ UNCHANGED <<item, before, after, client>>

\* An item that had no next is out of the set with this, and the call returns.
HeadSwing(t) ==
    /\ pc[t] = "head_swing" /\ CasHead(item[t], after[t])
    /\ present' = present \ {item[t]}
    /\ IF after[t] = NULL
       THEN Return(t, "head_swing") /\ gone' = gone \cup {item[t]}
       ELSE Goto(t, "head_swing", "head_mend") /\ UNCHANGED <<item, before, after, gone>>
    /\ UNCHANGED inserted

\* Mutant: the new head's link back is left as it is, and the call returns.
HeadMendNot(t) ==
    /\ Return(t, "head_mend") /\ gone' = gone \cup {item[t]}
    /\ UNCHANGED <<Links, inserted, present>>

\* The new head's previous becomes NULL once nobody holds it.
HeadMend(t) ==
    /\ Return(t, "head_mend") /\ gone' = gone \cup {item[t]}
    /\ CasPrev(after[t], Link(item[t]), Nowhere)
    /\ UNCHANGED <<inserted, present>>

-----------------------------------------------------------------------------
(* of an item that was not the head *)

MidReadPrev(t) ==
    /\ Goto(t, "mid_prev", IF prev[item[t]] = Nowhere THEN "remove" ELSE "mid_lock")
    /\ before' = [before EXCEPT ![t] = prev[item[t]].ptr]
    /\ UNCHANGED <<Links, item, after, client, present>>

MidLockPrev(t) ==
    /\ Goto(t, "mid_lock", "mid_next")
    /\ CasPrev(item[t], Link(before[t]), Marked(before[t]))
    /\ UNCHANGED <<item, before, after, client, present>>

MidReadNext(t) ==
    /\ Goto(t, "mid_next", IF next[item[t]] = Nowhere THEN "mid_head" ELSE "mid_mark")
    /\ after' = [after EXCEPT ![t] = next[item[t]].ptr]
    /\ UNCHANGED <<Links, item, before, client, present>>

MidLockNext(t) ==
    /\ Goto(t, "mid_mark", "mid_head")
    /\ CasNext(item[t], Link(after[t]), Marked(after[t]))
    /\ UNCHANGED <<item, before, after, client, present>>

\* Whether the item has become the head meanwhile.
MidReadHead(t) ==
    /\ Goto(t, "mid_head", IF head = item[t] THEN "mid_back" ELSE "mid_swing")
    /\ UNCHANGED <<Links, item, before, after, client, present>>

\* Mutant: the item in front is swung past this one even if it is itself being removed.
MidSwingMarked(t) ==
    /\ pc[t] = "mid_swing" /\ next[before[t]].ptr = item[t]
    /\ next' = [next EXCEPT ![before[t]].ptr = after[t]] /\ UNCHANGED <<head, prev>>
    /\ present' = present \ {item[t]}
    /\ IF after[t] = NULL
       THEN Return(t, "mid_swing") /\ gone' = gone \cup {item[t]}
       ELSE Goto(t, "mid_swing", "mid_mend") /\ UNCHANGED <<item, before, after, gone>>
    /\ UNCHANGED inserted

MidSwing(t) ==
    /\ pc[t] = "mid_swing" /\ CasNext(before[t], Link(item[t]), Link(after[t]))
    /\ present' = present \ {item[t]}
    /\ IF after[t] = NULL
       THEN Return(t, "mid_swing") /\ gone' = gone \cup {item[t]}
       ELSE Goto(t, "mid_swing", "mid_mend") /\ UNCHANGED <<item, before, after, gone>>
    /\ UNCHANGED inserted

\* The link back is mended once no remove of the next item holds it.
MidMend(t) ==
    /\ Return(t, "mid_mend") /\ gone' = gone \cup {item[t]}
    /\ CasPrev(after[t], Link(item[t]), Link(before[t]))
    /\ UNCHANGED <<inserted, present>>

-----------------------------------------------------------------------------
(* Backing off *)

\* An exchange finds another value than it expects.
LockFails(t) ==
    /\ \/ Goto(t, "head_lock", "remove") /\ prev[item[t]] # Nowhere
       \/ Goto(t, "mid_lock", "remove") /\ prev[item[t]] # Link(before[t])
       \/ Goto(t, "head_mark", "head_back") /\ next[item[t]] # Link(after[t])
       \/ Goto(t, "mid_mark", "mid_back") /\ next[item[t]] # Link(after[t])
    /\ UNCHANGED <<Links, item, before, after, client, present>>

\* The head path puts next back first, the other path previous.
SwingFails(t) ==
    /\ \/ /\ pc[t] = "head_swing" /\ head # item[t]
          /\ Goto(t, "head_swing", IF after[t] = NULL THEN "head_back" ELSE "head_back_next")
       \/ Goto(t, "mid_swing", "mid_back") /\ next[before[t]] # Link(item[t])
    /\ UNCHANGED <<Links, item, before, after, client, present>>

UnlockNext(t) ==
    /\ Goto(t, "head_back_next", "head_back") \/ Goto(t, "mid_back_next", "remove")
    /\ CasNext(item[t], Marked(after[t]), Link(after[t]))
    /\ UNCHANGED <<item, before, after, client, present>>

UnlockPrev(t) ==
    /\ \/ Goto(t, "head_back", "remove") /\ CasPrev(item[t], Marked(NULL), Nowhere)
       \/ /\ pc[t] = "mid_back"
          /\ Goto(t, "mid_back", IF next[item[t]].mark THEN "mid_back_next" ELSE "remove")
          /\ CasPrev(item[t], Marked(before[t]), Link(before[t]))
    /\ UNCHANGED <<item, before, after, client, present>>

\* lock_free_set_purge_not_thread_safe and lock_free_set_destroy, when no other call
\* is under way: the items that are linked go back to the client.
Purge ==
    /\ head # NULL /\ \A t \in Threads : pc[t] = "idle"
    /\ head' = NULL
    /\ present' = {} /\ gone' = gone \cup Reached
    /\ UNCHANGED <<next, prev, locals, inserted>>

-----------------------------------------------------------------------------
Insert(t) == InsertReadHead(t) \/ InsertAtHead(t) \/ InsertAgain(t) \/ Join(t)

RemoveRest(t) ==
    \/ RemoveReadHead(t) \/ HeadReadNext(t) \/ HeadLockPrev(t) \/ HeadLockNext(t)
    \/ HeadSwing(t) \/ HeadMend(t)
    \/ MidReadPrev(t) \/ MidLockPrev(t) \/ MidReadNext(t) \/ MidLockNext(t)
    \/ MidReadHead(t) \/ MidSwing(t) \/ MidMend(t)
    \/ LockFails(t) \/ SwingFails(t) \/ UnlockNext(t) \/ UnlockPrev(t)

Step(t) == Insert(t) \/ RemoveRest(t)

Next ==
    \/ \E t \in Threads : InsertStart(t) \/ RemoveStart(t) \/ Step(t)
    \/ Purge

Spec == Init /\ [][Next]_vars

\* A thread that is in a call is scheduled again.  One that waits in a loop for a link
\* need not look just when the link is free.
FairSpec == Spec /\ \A t \in Threads : WF_vars(Step(t))

-----------------------------------------------------------------------------
(* Properties *)

InHead == {"head_mark", "head_swing", "head_mend", "head_back_next", "head_back"}
InMid  == {"mid_next", "mid_mark", "mid_head", "mid_swing", "mid_mend", "mid_back"}
NextHeld(t) ==
    \/ pc[t] \in {"head_mend", "head_back_next", "mid_mend", "mid_back_next"}
    \/ pc[t] \in {"head_swing", "mid_head", "mid_swing"} /\ after[t] # NULL

\* Only the thread that removes an item marks its links, and until it takes the marks
\* off itself no other thread changes them: the branches of lock_free_set_remove that
\* log an unexpected change are never taken, and none of its exchanges that put a mark
\* back can fail.
MarksHeld ==
    /\ \A t \in Threads :
         /\ pc[t] \in InHead => prev[item[t]] = Marked(NULL)
         /\ pc[t] \in InMid => prev[item[t]] = Marked(before[t]) /\ before[t] # NULL
         /\ NextHeld(t) => next[item[t]] = Marked(after[t])
    /\ \A i \in present :
         /\ prev[i].mark => \E t \in Threads : item[t] = i /\ pc[t] \in InHead \cup InMid
         /\ next[i].mark => \E t \in Threads :
                item[t] = i /\ (NextHeld(t) \/ pc[t] = "mid_back")

PCs == {"idle", "insert", "in_front", "join", "remove", "head_next", "head_lock",
        "mid_prev", "mid_lock", "mid_back_next"} \cup InHead \cup InMid

\* Every variable has its type, and the marks are held by who set them.
TypeOK ==
    /\ head \in Items \cup {NULL}
    /\ next \in [Items -> [ptr : Items \cup {NULL}, mark : BOOLEAN]]
    /\ prev \in [Items -> [ptr : Items \cup {NULL}, mark : BOOLEAN]]
    /\ pc \in [Threads -> PCs] /\ item \in [Threads -> Items \cup {NULL}]
    /\ before \in [Threads -> Items \cup {NULL}] /\ after \in [Threads -> Items \cup {NULL}]
    /\ inserted \in [Items -> Nat] /\ \A i \in Items : inserted[i] <= MaxInserts[i]
    /\ present \subseteq Items /\ gone \subseteq Items
    /\ MarksHeld

\* The next links lead from the head through exactly the items that are in the set,
\* each once; and every previous link leads to the item in front, or a thread that has
\* put an item in front or taken the one in front away is still about to set it; what a
\* remove from the middle has to mend is never NULL, which the code takes for mended.
\* So no insert or remove is lost, whatever neighbours are removed at the same time, and
\* a purge gives back everything (lock_free_set_insert, lock_free_set_remove).
SetIntact ==
    /\ Walk[Cardinality(Items)] = NULL /\ Reached = present
    /\ \A k, l \in DOMAIN Walk : Walk[k] = Walk[l] /\ Walk[k] # NULL => k = l
    /\ \A k \in DOMAIN Walk : LET i == Walk[k] IN i # NULL =>
         \/ prev[i].ptr = IF k = 0 THEN NULL ELSE Walk[k - 1]
         \/ \E t \in Threads :
              /\ after[t] = i
              /\ \/ pc[t] = "join" /\ prev[i].ptr = NULL
                 \/ pc[t] \in {"head_mend", "mid_mend"} /\ prev[i].ptr = item[t]
    /\ \A t \in Threads : pc[t] = "mid_mend" => prev[after[t]] # Nowhere

\* Items whose words the thread's next access reads or writes.
Touches(t) ==
    CASE pc[t] = "idle"                              -> {}
      [] pc[t] \in {"join", "head_mend", "mid_mend"} -> {after[t]}
      [] pc[t] = "mid_swing"                         -> {before[t]}
      [] OTHER                                       -> {item[t]}

\* No thread reads or writes a link of an item whose remove has returned, which the
\* client may have freed or inserted anew: a thread that works on a neighbour's link
\* keeps the neighbour's remove from returning (lock_free_set_remove has no hazard
\* pointers to do it for it).
NoAccessAfterRemove == \A t \in Threads : Touches(t) \cap gone = {}

\* Removes that have met a neighbour's and put their marks back.
BackingOff == {"head_back", "head_back_next", "mid_back", "mid_back_next"}

\* A call that never returns is one of several that removes turn back for ever: it
\* returns when no more calls are made beside it, and all return once no remove backs
\* off any more.  So inserts that wait for removes, and removes that wait for a
\* neighbour's link, do not wait for each other in a circle, and no call leaves a mark
\* or a link behind that a later one waits for (lock_free_set_insert,
\* lock_free_set_remove).
ReturnsUnlessTurnedBack ==
    \A t \in Threads :
        \/ <>[](\A u \in Threads \ {t} : pc[u] = "idle")
        \/ <>[](\A u \in Threads : pc[u] \notin BackingOff)
        => []<>(pc[t] = "idle")
=============================================================================
