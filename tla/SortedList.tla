----------------------------- MODULE SortedList -----------------------------
(***************************************************************************)
(* The lock free list of src/clds_sorted_list.c: items in the order of     *)
(* their keys, one per key.  A call walks from the head, two hazard        *)
(* pointers at a time, and takes effect in one compare-and-swap of the     *)
(* link it stopped at; what takes an item out first marks the low bit of   *)
(* the item's next.  Operations are numbered from one counter, and a       *)
(* number whose operation does not happen is reported as skipped.          *)
(*                                                                         *)
(* A link is what the code keeps in one word: a pointer and the delete     *)
(* mark.  One action is one access to a link or to the counter, with the   *)
(* private steps around it.  Of the hazard pointers the list relies on     *)
(* what HazardPointers states: a node is not given to the reclaim callback *)
(* while a thread protects it through a pointer it has re-read.  The       *)
(* counting of write operations around every call is module WriteLock; here *)
(* no lock is asked for except by get_all, which runs when no write does.  *)
(***************************************************************************)
EXTENDS Integers, FiniteSets

CONSTANTS
    Inserters, Setters, Deleters, Removers, Finders,  \* threads, by what they may call
    Keys, Copies,   \* an item is one of the copies a client makes for a key
    HEAD, NULL,
    Loaded,         \* items that were inserted before the run begins
    MaxSeq,         \* bound on the sequence counter
    MayFail,        \* TRUE: acquiring a hazard pointer and a condition check may fail
    Reinsert        \* TRUE: clients insert an item again that a remove gave them

Threads == Inserters \cup Setters \cup Deleters \cup Removers \cup Finders
Items   == Keys \X Copies
Key(i)  == i[1]

ASSUME SortedListAssumption ==
    /\ Keys \subseteq Nat /\ IsFiniteSet(Items)
    /\ {HEAD, NULL} \cap (Items \cup Keys) = {} /\ HEAD # NULL
    /\ Loaded \subseteq Items /\ \A i, j \in Loaded : Key(i) = Key(j) => i = j
    /\ MaxSeq \in Nat /\ MayFail \in BOOLEAN /\ Reinsert \in BOOLEAN
ASSUME ThreadsAreFinite == IsFiniteSet(Threads)
ASSUME LoadedAreNumbered == Cardinality(Loaded) <= MaxSeq   \* the loaded items have drawn theirs

VARIABLES
    link,              \* head, and the next field of every item
    ref,               \* ref_count
    fresh,             \* items no client has created yet
    retired, freed,    \* handed to clds_hazard_pointers_reclaim; given back to the heap
    seqNo,             \* *sequence_number
    open,              \* history: numbers drawn that no client was told of yet
    born,              \* history: for an item in the list, the number it was put in with
    pc, op,            \* per thread: where it is, what it runs
    key, item,         \* the key it looks for; the item it was given
    num,               \* local_seq_no, insert_seq_no; 0 while it has none
    prev, cur, nxt,    \* locals previous_item, current_item, current_next
    guards,            \* items the thread's hazard pointers protect
    refs,              \* items the client holds a reference to
    absent,            \* history: what it looks for was not there at some moment of the call
    destroyed

memory  == <<link, ref, fresh, retired, freed>>
numbers == <<seqNo, open, born>>
call    == <<op, key, item, absent>>
walk    == <<prev, cur, nxt, guards>>
vars    == <<memory, numbers, pc, call, num, walk, refs, destroyed>>

Link(p)   == [ptr |-> p, mark |-> FALSE]
Marked(p) == [ptr |-> p, mark |-> TRUE]

Writes   == {"insert", "set", "set_existing"}
Takes    == {"delete_item", "delete_key", "remove"}
Setting(t) == op[t] \in {"set", "set_existing"}

\* Items reachable from the head.
InList ==
    LET hop[k \in 0..Cardinality(Items)] ==
            IF k = 0 THEN link[HEAD].ptr
            ELSE LET i == hop[k - 1] IN IF i = NULL THEN NULL ELSE link[i].ptr
    IN  {hop[k] : k \in 0..Cardinality(Items)} \ {NULL}

Has(what, k, i) == IF what = "delete_item" THEN i \in InList
                   ELSE \E j \in InList : Key(j) = k

\* The loaded item that follows i, or the first one.
Following(i) ==
    LET later == {j \in Loaded : i = HEAD \/ Key(j) > Key(i)}
    IN  IF later = {} THEN NULL
        ELSE CHOOSE j \in later : \A l \in later : Key(j) <= Key(l)

Init ==
    /\ link = [i \in Items \cup {HEAD} |-> IF i \in Loaded \cup {HEAD}
                                          THEN Link(Following(i)) ELSE Link(NULL)]
    /\ ref = [i \in Items |-> IF i \in Loaded THEN 1 ELSE 0]
    /\ fresh = Items \ Loaded /\ retired = {} /\ freed = {}
    /\ seqNo = Cardinality(Loaded) /\ open = {}
    /\ born = [i \in Items |-> Cardinality({j \in Loaded : i \in Loaded /\ Key(j) <= Key(i)})]
    /\ pc = [t \in Threads |-> "idle"] /\ op = [t \in Threads |-> "none"]
    /\ key = [t \in Threads |-> NULL] /\ item = [t \in Threads |-> NULL]
    /\ absent = [t \in Threads |-> FALSE] /\ num = [t \in Threads |-> 0]
    /\ prev = [t \in Threads |-> HEAD]
    /\ cur = [t \in Threads |-> NULL] /\ nxt = [t \in Threads |-> NULL]
    /\ guards = [t \in Threads |-> {}] /\ refs = [t \in Threads |-> {}]
    /\ destroyed = FALSE

Goto(t, from, to) == pc[t] = from /\ pc' = [pc EXCEPT ![t] = to]

\* A call begins.
Call(t, what, k, i, at) ==
    /\ ~destroyed /\ Goto(t, "idle", at)
    /\ op' = [op EXCEPT ![t] = what]
    /\ key' = [key EXCEPT ![t] = k] /\ item' = [item EXCEPT ![t] = i]
    /\ absent' = [absent EXCEPT ![t] = ~Has(what, k, i)]

\* It ends, with every hazard pointer released and its locals gone.
Return(t, from) ==
    /\ Goto(t, from, "idle")
    /\ op' = [op EXCEPT ![t] = "none"]
    /\ key' = [key EXCEPT ![t] = NULL] /\ item' = [item EXCEPT ![t] = NULL]
    /\ absent' = [absent EXCEPT ![t] = FALSE] /\ num' = [num EXCEPT ![t] = 0]
    /\ prev' = [prev EXCEPT ![t] = HEAD]
    /\ cur' = [cur EXCEPT ![t] = NULL] /\ nxt' = [nxt EXCEPT ![t] = NULL]
    /\ guards' = [guards EXCEPT ![t] = {}]

\* The number of the call is told: to its client with the result, or to
\* skipped_seq_no_cb.
Tell(t) == open' = open \ {num[t]}

\* The next number is drawn.
Draw(t, told) ==
    /\ seqNo < MaxSeq /\ seqNo' = seqNo + 1
    /\ num' = [num EXCEPT ![t] = seqNo + 1]
    /\ open' = (open \ told) \cup {seqNo + 1}

\* The call ends without effect: the client keeps the item it gave, and the
\* number, if one was taken, is skipped.
GiveUp(t, from) ==
    /\ Tell(t)
    /\ refs' = [refs EXCEPT ![t] = @ \cup (IF op[t] \in Writes THEN {item[t]} ELSE {})]
    /\ Return(t, from)
    /\ UNCHANGED <<memory, seqNo, born, destroyed>>

\* restart_needed: release the hazard pointers and walk from the head again.
Restart(t) ==
    /\ pc' = [pc EXCEPT ![t] = "walk"]
    /\ prev' = [prev EXCEPT ![t] = HEAD]
    /\ cur' = [cur EXCEPT ![t] = NULL] /\ nxt' = [nxt EXCEPT ![t] = NULL]
    /\ guards' = [guards EXCEPT ![t] = {}]

\* internal_node_destroy, for every item of a set: one reference less; the last
\* one runs the cleanup callback and frees the item.
DropRef(items) ==
    /\ ref' = [i \in Items |-> IF i \in items THEN ref[i] - 1 ELSE ref[i]]
    /\ freed' = freed \cup {i \in items : ref[i] = 1}

-----------------------------------------------------------------------------
(* Calls *)

\* A client may set an item that is in the list already, with a reference of its
\* own; no other client then takes out that key, as in the tests of the list.
Renewing(k) == \E u \in Threads : Setting(u) /\ item[u] \in InList /\ key[u] = k
Taking(k)   == \E u \in Threads : (op[u] \in Takes \/ Setting(u)) /\ key[u] = k

\* insert, or set_value, of a new item: a number is taken before the walk.
WriteStart(t, what, i) ==
    /\ \/ what = "insert" /\ t \in Inserters
       \/ what \in {"set", "set_existing"} /\ t \in Setters /\ ~Renewing(Key(i))
    /\ refs[t] = {} /\ i \in fresh
    /\ Call(t, what, Key(i), i, "walk") /\ Draw(t, {})
    /\ fresh' = fresh \ {i}
    /\ ref' = [ref EXCEPT ![i] = 1]
    /\ UNCHANGED <<link, retired, freed, born, walk, refs, destroyed>>

\* insert of an item that was taken out before, set_value of one that is in the list.
RewriteStart(t, what, i) ==
    /\ \/ Reinsert /\ i \notin InList /\ what = "insert" /\ t \in Inserters
       \/ i \in InList /\ what = "set" /\ t \in Setters /\ ~Taking(Key(i))
    /\ refs[t] = {i}
    /\ Call(t, what, Key(i), i, "walk") /\ Draw(t, {})
    /\ refs' = [refs EXCEPT ![t] = {}]
    /\ UNCHANGED <<memory, born, walk, destroyed>>

DeleteItemStart(t, i) ==
    /\ t \in Deleters /\ refs[t] = {} /\ i \notin fresh /\ ~Renewing(Key(i))
    /\ Call(t, "delete_item", Key(i), i, "walk")
    /\ UNCHANGED <<memory, numbers, num, walk, refs, destroyed>>

KeyStart(t, what, k) ==
    /\ \/ what = "delete_key" /\ t \in Deleters /\ ~Renewing(k)
       \/ what = "remove" /\ t \in Removers /\ ~Renewing(k)
       \/ what = "find" /\ t \in Finders
    /\ refs[t] = {}
    /\ Call(t, what, k, NULL, "walk")
    /\ UNCHANGED <<memory, numbers, num, walk, refs, destroyed>>

-----------------------------------------------------------------------------
(* The walk *)

\* Mutants: the mark is not cleared before the comparison with NULL; a marked link
\* is taken for the end.
AtEndUncleared(t) == link[prev[t]] = Link(NULL)
AtEndMarked(t)    == link[prev[t]].ptr = NULL \/ link[prev[t]].mark

AtEnd(t) == link[prev[t]].ptr = NULL

WalkRead(t) ==
    /\ Goto(t, "walk", "check") /\ ~AtEnd(t)
    /\ cur' = [cur EXCEPT ![t] = link[prev[t]].ptr]
    /\ UNCHANGED <<memory, numbers, call, num, prev, nxt, guards, refs, destroyed>>

\* The end of the list: whoever looks for a key gives up ...
WalkMisses(t) ==
    /\ pc[t] = "walk" /\ AtEnd(t) /\ op[t] \notin {"insert", "set"}
    /\ GiveUp(t, "walk")

\* ... and insert and set_value put their item there.
WalkAppend(t) ==
    /\ Goto(t, "walk", "cas") /\ AtEnd(t) /\ op[t] \in {"insert", "set"}
    /\ link' = [link EXCEPT ![item[t]] = Link(NULL)]
    /\ UNCHANGED <<ref, fresh, retired, freed, numbers, call, num, walk, refs, destroyed>>

AcquireFails(t) ==
    /\ MayFail /\ pc[t] = "check"
    /\ GiveUp(t, "check")

\* Mutant: a link that was marked since it was read still counts as unchanged.
StillThereMarked(t) == link[prev[t]].ptr = cur[t]

\* The link is read again: it must hold the item, unmarked.
StillThere(t) == link[prev[t]] = Link(cur[t])

CheckAgain(t) ==
    /\ pc[t] = "check" /\ ~StillThere(t)
    /\ Restart(t)
    /\ UNCHANGED <<memory, numbers, call, num, refs, destroyed>>

Matches(t) == IF op[t] = "delete_item" THEN cur[t] = item[t] ELSE Key(cur[t]) = key[t]

\* insert and set_value stop at the first key that is larger; the others compare
\* for equality only.
Passed(t) == op[t] \in Writes /\ Key(cur[t]) > key[t]

CheckAdvance(t) ==
    /\ Goto(t, "check", "walk")
    /\ StillThere(t) /\ ~Matches(t) /\ ~Passed(t)
    /\ prev' = [prev EXCEPT ![t] = cur[t]]
    /\ cur' = [cur EXCEPT ![t] = NULL]
    /\ guards' = [guards EXCEPT ![t] = {cur[t]}]
    /\ UNCHANGED <<memory, numbers, call, num, nxt, refs, destroyed>>

CheckPassed(t) ==
    /\ Goto(t, "check", "cas")
    /\ StillThere(t) /\ Passed(t) /\ op[t] # "set_existing"
    /\ link' = [link EXCEPT ![item[t]] = Link(cur[t])]
    /\ guards' = [guards EXCEPT ![t] = @ \cup {cur[t]}]
    /\ UNCHANGED <<ref, fresh, retired, freed, numbers, call, num,
                   prev, cur, nxt, refs, destroyed>>

\* set_value of a key that must exist stops at a larger one as at the end.
CheckMisses(t) ==
    /\ pc[t] = "check" /\ StillThere(t) /\ Passed(t) /\ op[t] = "set_existing"
    /\ GiveUp(t, "check")

\* insert: the key exists already.  set_value: the condition check fails or is not met.
CheckRefused(t) ==
    /\ pc[t] = "check" /\ StillThere(t) /\ Matches(t)
    /\ op[t] = "insert" \/ (Setting(t) /\ MayFail)
    /\ GiveUp(t, "check")

CheckFound(t) ==
    /\ Goto(t, "check", IF op[t] = "find" THEN "take_ref" ELSE "mark_read")
    /\ StillThere(t) /\ Matches(t) /\ op[t] # "insert"
    /\ guards' = [guards EXCEPT ![t] = (IF op[t] = "find" THEN {} ELSE @) \cup {cur[t]}]
    /\ UNCHANGED <<memory, numbers, call, num, prev, cur, nxt, refs, destroyed>>

\* find returns the item with a reference for the client.
TakeRef(t) ==
    /\ pc[t] = "take_ref"
    /\ ref' = [ref EXCEPT ![cur[t]] = @ + 1]
    /\ refs' = [refs EXCEPT ![t] = {cur[t]}]
    /\ Return(t, "take_ref")
    /\ UNCHANGED <<link, fresh, retired, freed, numbers, destroyed>>

-----------------------------------------------------------------------------
(* insert and set_value, where the key is not in the list *)

Cas(t) ==
    /\ pc[t] = "cas"
    /\ IF link[prev[t]] = Link(cur[t])
       THEN /\ link' = [link EXCEPT ![prev[t]] = Link(item[t])]
            /\ born' = [born EXCEPT ![item[t]] = num[t]]
            /\ Tell(t) /\ Return(t, "cas")
       ELSE Restart(t) /\ UNCHANGED <<link, open, born, call, num>>
    /\ UNCHANGED <<ref, fresh, retired, freed, seqNo, refs, destroyed>>

-----------------------------------------------------------------------------
(* delete, remove and set_value, where it is *)

MarkRead(t) ==
    /\ Goto(t, "mark_read", "mark")
    /\ nxt' = [nxt EXCEPT ![t] = link[cur[t]].ptr]
    /\ UNCHANGED <<memory, numbers, call, num, prev, cur, guards, refs, destroyed>>

\* Mutant: the compare-and-swap does not ask for the mark to be clear.
MarkAnyway(t) ==
    /\ pc[t] = "mark"
    /\ IF link[cur[t]].ptr = nxt[t]
       THEN /\ Goto(t, "mark", "number")
            /\ link' = [link EXCEPT ![cur[t]] = Marked(nxt[t])]
            /\ UNCHANGED walk
       ELSE Restart(t) /\ UNCHANGED link
    /\ UNCHANGED <<ref, fresh, retired, freed, numbers, call, num, refs, destroyed>>

Mark(t) ==
    /\ pc[t] = "mark"
    /\ IF link[cur[t]] = Link(nxt[t])
       THEN /\ Goto(t, "mark", "number")
            /\ link' = [link EXCEPT ![cur[t]] = Marked(nxt[t])]
            /\ UNCHANGED walk
       ELSE Restart(t) /\ UNCHANGED link
    /\ UNCHANGED <<ref, fresh, retired, freed, numbers, call, num, refs, destroyed>>

\* Mutant: set_value keeps the number it took before the walk.
NumberKept(t) ==
    /\ Goto(t, "number", IF Setting(t) /\ cur[t] = item[t] THEN "same" ELSE "unlink")
    /\ link' = IF Setting(t) /\ cur[t] # item[t]
               THEN [link EXCEPT ![item[t]] = Link(nxt[t])] ELSE link
    /\ IF Setting(t) THEN UNCHANGED <<seqNo, num, open>> ELSE Draw(t, {num[t]})
    /\ UNCHANGED <<ref, fresh, retired, freed, born, call, walk, refs, destroyed>>

\* A number is taken while the mark keeps the item; set_value, which has one from
\* before the walk, skips that one unless it still is the latest.
Number(t) ==
    /\ Goto(t, "number", IF Setting(t) /\ cur[t] = item[t] THEN "same" ELSE "unlink")
    /\ link' = IF Setting(t) /\ cur[t] # item[t]
               THEN [link EXCEPT ![item[t]] = Link(nxt[t])] ELSE link
    /\ IF Setting(t) /\ seqNo = num[t]
       THEN UNCHANGED <<seqNo, num, open>> ELSE Draw(t, {num[t]})
    /\ UNCHANGED <<ref, fresh, retired, freed, born, call, walk, refs, destroyed>>

\* set_value of the item the list has: the client's reference goes to the list and
\* the one of the list to the client.
SameItem(t) ==
    /\ pc[t] = "same" /\ link[cur[t]] = Marked(nxt[t])
    /\ link' = [link EXCEPT ![cur[t]] = Link(nxt[t])]
    /\ born' = [born EXCEPT ![cur[t]] = num[t]]
    /\ refs' = [refs EXCEPT ![t] = {cur[t]}]
    /\ Tell(t) /\ Return(t, "same")
    /\ UNCHANGED <<ref, fresh, retired, freed, seqNo, destroyed>>

\* Mutant: the mark of the predecessor is ignored.
UnlinkAnyway(t) ==
    /\ Goto(t, "unlink", IF link[prev[t]].ptr = cur[t] THEN "retire" ELSE "unmark")
    /\ UNCHANGED <<ref, fresh, retired, freed, seqNo, open,
                   op, key, item, num, walk, refs, destroyed>>
    /\ IF link[prev[t]].ptr = cur[t]
       THEN /\ link' = [link EXCEPT ![prev[t]] = Link(IF Setting(t) THEN item[t] ELSE nxt[t])]
            /\ born' = [i \in Items |-> CASE i = cur[t] -> 0
                                         [] Setting(t) /\ i = item[t] -> num[t]
                                         [] OTHER -> born[i]]
            /\ absent' = [u \in Threads |->
                             absent[u] \/ (op[u] # "none" /\ ~Has(op[u], key[u], item[u])')]
       ELSE UNCHANGED <<link, born, absent>>

\* The predecessor's link, if it still holds the item, unmarked, is swung past the
\* item, or to the new item that takes its place.
Unlink(t) ==
    /\ Goto(t, "unlink", IF link[prev[t]] = Link(cur[t]) THEN "retire" ELSE "unmark")
    /\ UNCHANGED <<ref, fresh, retired, freed, seqNo, open,
                   op, key, item, num, walk, refs, destroyed>>
    /\ IF link[prev[t]] = Link(cur[t])
       THEN /\ link' = [link EXCEPT ![prev[t]] = Link(IF Setting(t) THEN item[t] ELSE nxt[t])]
            /\ born' = [i \in Items |-> CASE i = cur[t] -> 0
                                         [] Setting(t) /\ i = item[t] -> num[t]
                                         [] OTHER -> born[i]]
            /\ absent' = [u \in Threads |->
                             absent[u] \/ (op[u] # "none" /\ ~Has(op[u], key[u], item[u])')]
       ELSE UNCHANGED <<link, born, absent>>

\* The mark is taken back.  A delete skips its number, set_value keeps it.  That
\* the compare-and-swap cannot fail is in WellFormed.
Unmark(t) ==
    /\ pc[t] = "unmark" /\ link[cur[t]] = Marked(nxt[t])
    /\ link' = [link EXCEPT ![cur[t]] = Link(nxt[t])]
    /\ Restart(t)
    /\ IF Setting(t) THEN UNCHANGED <<open, num>>
       ELSE Tell(t) /\ num' = [num EXCEPT ![t] = 0]
    /\ UNCHANGED <<ref, fresh, retired, freed, seqNo, born, call, refs, destroyed>>

\* remove and set_value return the item with a reference for the client; then it
\* is handed to clds_hazard_pointers_reclaim.
Retire(t) ==
    LET returned == IF op[t] = "remove" \/ Setting(t) THEN {cur[t]} ELSE {} IN
    /\ pc[t] = "retire"
    /\ refs' = [refs EXCEPT ![t] = @ \cup returned]
    /\ ref' = [i \in Items |-> IF i \in returned THEN ref[i] + 1 ELSE ref[i]]
    /\ retired' = retired \cup {cur[t]}
    /\ Tell(t) /\ Return(t, "retire")
    /\ UNCHANGED <<link, fresh, freed, seqNo, born, destroyed>>

\* clds_hazard_pointers calls reclaim_list_node for a node nobody protects.
ReclaimNode(i) ==
    /\ i \in retired /\ \A t \in Threads : i \notin guards[t]
    /\ retired' = retired \ {i}
    /\ DropRef({i})
    /\ UNCHANGED <<link, fresh, numbers, pc, call, num, walk, refs, destroyed>>

-----------------------------------------------------------------------------
(* node_release by the client, get_all, destroy *)

NodeRelease(t) ==
    /\ pc[t] = "idle" /\ refs[t] # {}
    /\ DropRef(refs[t])
    /\ refs' = [refs EXCEPT ![t] = {}]
    /\ UNCHANGED <<link, fresh, retired, numbers, pc, call, num, walk, destroyed>>

\* Under the lock for writes only finds may run.
GetAll(t) ==
    /\ t \in Finders /\ pc[t] = "idle" /\ refs[t] = {} /\ ~destroyed
    /\ \A u \in Threads : op[u] \in {"none", "find"}
    /\ InList # {}
    /\ ref' = [i \in Items |-> IF i \in InList THEN ref[i] + 1 ELSE ref[i]]
    /\ refs' = [refs EXCEPT ![t] = InList]
    /\ UNCHANGED <<link, fresh, retired, freed, numbers, pc, call, num, walk, destroyed>>

\* Called when no other call runs; every item still in the list loses the
\* reference of the list.
Destroy ==
    /\ ~destroyed /\ \A t \in Threads : pc[t] = "idle"
    /\ destroyed' = TRUE
    /\ DropRef(InList)
    /\ link' = [link EXCEPT ![HEAD] = Link(NULL)]
    /\ UNCHANGED <<fresh, retired, numbers, pc, call, num, walk, refs>>

-----------------------------------------------------------------------------
\* The steps of a call that has begun.
Step(t) ==
    \/ WalkRead(t) \/ WalkMisses(t) \/ WalkAppend(t) \/ AcquireFails(t)
    \/ CheckAgain(t) \/ CheckAdvance(t) \/ CheckPassed(t) \/ CheckMisses(t)
    \/ CheckRefused(t) \/ CheckFound(t) \/ TakeRef(t) \/ Cas(t)
    \/ MarkRead(t) \/ Mark(t) \/ Number(t) \/ SameItem(t)
    \/ Unlink(t) \/ Unmark(t) \/ Retire(t)

Next ==
    \/ \E t \in Threads :
          \/ Step(t) \/ NodeRelease(t) \/ GetAll(t)
          \/ \E i \in Items :
                \/ DeleteItemStart(t, i)
                \/ \E what \in Writes : WriteStart(t, what, i) \/ RewriteStart(t, what, i)
          \/ \E k \in Keys, what \in {"delete_key", "remove", "find"} : KeyStart(t, what, k)
    \/ \E i \in Items : ReclaimNode(i)
    \/ Destroy

Spec == Init /\ [][Next]_vars

-----------------------------------------------------------------------------
(* Properties *)

PCs == {"idle", "walk", "check", "take_ref", "cas", "mark_read", "mark", "number",
        "same", "unlink", "unmark", "retire"}

\* Every variable stays in its range, no reference count drops below zero, and a
\* call that goes on with an item has one.
TypeOK ==
    /\ link \in [Items \cup {HEAD} -> [ptr : Items \cup {NULL}, mark : BOOLEAN]]
    /\ ref \in [Items -> Nat]
    /\ fresh \subseteq Items /\ retired \subseteq Items /\ freed \subseteq Items
    /\ seqNo \in 0..MaxSeq /\ open \subseteq 1..MaxSeq
    /\ born \in [Items -> 0..MaxSeq]
    /\ pc \in [Threads -> PCs] /\ op \in [Threads -> Writes \cup Takes \cup {"none", "find"}]
    /\ key \in [Threads -> Keys \cup {NULL}] /\ item \in [Threads -> Items \cup {NULL}]
    /\ absent \in [Threads -> BOOLEAN] /\ num \in [Threads -> 0..MaxSeq]
    /\ prev \in [Threads -> Items \cup {HEAD}]
    /\ cur \in [Threads -> Items \cup {NULL}] /\ nxt \in [Threads -> Items \cup {NULL}]
    /\ guards \in [Threads -> SUBSET Items] /\ refs \in [Threads -> SUBSET Items]
    /\ destroyed \in BOOLEAN
    /\ \A t \in Threads : pc[t] \notin {"idle", "walk", "cas"} => cur[t] # NULL

\* Along the list the keys grow: no two inserts that race for a place leave it out
\* of order or with a key twice.  And what the code logs as "This should not happen"
\* does not: from the moment a call has marked an item until it unlinks it or takes
\* the mark back, no other call changes the item's link.
WellFormed ==
    /\ \A i \in InList : link[i].ptr # NULL => Key(i) < Key(link[i].ptr)
    /\ \A t \in Threads : pc[t] \in {"number", "same", "unlink", "unmark"} =>
          link[cur[t]] = Marked(nxt[t])

\* An item that was put in and not taken out is in the list.  The code does not keep this
\* with Reinsert: two threads that insert and remove, three keys of which two are loaded,
\* and TLC finds an insert that returns OK behind an item that was removed and is being
\* inserted again, which has wiped its mark.
NoneLost == \A i \in Items : born[i] > 0 /\ ~destroyed => i \in InList

\* A number that was drawn is told once: until then one call holds it, and no call
\* holds a number that was told.
ToldOnce ==
    /\ open = {num[t] : t \in Threads} \ {0}
    /\ \A t, u \in Threads : num[t] = num[u] /\ num[t] # 0 => t = u

\* No number is lost or told twice.  And whatever takes an item out, or sets it again,
\* has a higher number than what put it in: "has to be greater than the insert".
NumbersTrue ==
    /\ ToldOnce
    /\ \A t \in Threads : pc[t] \in {"same", "unlink"} => num[t] > born[cur[t]]

\* No call reads or writes an item that was given back to the heap; and ref_count is
\* the number of references there are: the list's own, until the reclaim callback has
\* run or destroy has dropped it; that of a call that was given the item; and the
\* client's.  An item that is referenced is not freed, and one without a reference is.
MemorySafe ==
    /\ \A t \in Threads :
        LET touched == CASE pc[t] \in {"walk", "check"} -> {prev[t]}
                         [] pc[t] = "cas" -> {prev[t], item[t]}
                         [] pc[t] = "unlink" -> {prev[t], cur[t]}
                         [] pc[t] \in {"idle", "retire"} -> {}
                         [] OTHER -> {cur[t]}
        IN  touched \cap (freed \cup fresh) = {}
    /\ LET inList == InList IN
       \A i \in Items \ fresh :
        LET users  == {t \in Threads : i \in refs[t]}
            given  == {t \in Threads : op[t] \in Writes /\ item[t] = i /\ pc[t] # "retire"}
            listed == i \in inList \cup retired
                      \/ \E t \in Threads : pc[t] = "retire" /\ cur[t] = i
        IN  /\ ref[i] = Cardinality(users) + Cardinality(given) + (IF listed THEN 1 ELSE 0)
            /\ i \in freed <=> ref[i] = 0

\* delete, remove, find and set_value of an existing key answer "not found" only if
\* what they look for was not in the list at some moment of the call; in
\* particular they never miss a key while set_value replaces its item.
NotFoundJustified ==
    \A t \in Threads :
        \/ pc[t] = "walk" /\ AtEnd(t) /\ op[t] \notin {"insert", "set"}
        \/ pc[t] = "check" /\ StillThere(t) /\ Passed(t) /\ op[t] = "set_existing"
        => absent[t]

ByKey(items) ==
    [k \in Keys |-> IF \E i \in items : Key(i) = k
                    THEN CHOOSE i \in items : Key(i) = k ELSE NULL]

\* What a call holds between its effect and its return.
Obtained(t) == IF pc[t] \in {"retire", "take_ref"} THEN cur[t] ELSE NULL

Map == INSTANCE KeyMap WITH
    Start  <- ByKey(Loaded),
    entry  <- LET items == InList IN ByKey(items),
    found  <- [t \in Threads |-> Obtained(t)],
    hands  <- refs,
    closed <- destroyed

\* Seen from its clients the list is a map whose calls are atomic: a call changes the
\* entry of its own key, to its own item or none, in one step between its start and its
\* return and never twice; what it gives its client is what that step met; and no other
\* step changes an entry, but that of destroy, when no call is under way.
ImplementsKeyMap == Map!Spec
=============================================================================
