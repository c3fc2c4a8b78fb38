-------------------------- MODULE SinglyLinkedList --------------------------
(***************************************************************************)
(* The lock free list of src/clds_singly_linked_list.c: insert pushes at   *)
(* the head; delete walks to its item, marks the low bit of the item's     *)
(* next, and only then swings the link of the predecessor; find walks the  *)
(* same way and takes a reference.                                         *)
(*                                                                         *)
(* A link is what the code keeps in one word: a pointer and the delete     *)
(* mark.  One action is one access to a link or to ref_count.  Of the      *)
(* hazard pointers the list relies only on what HazardPointers states: a   *)
(* node is not given to the reclaim callback while a thread protects it    *)
(* through a pointer it has re-read from an unmarked link.  guards[t] is   *)
(* the set of such nodes; what was acquired but not yet re-read protects   *)
(* nothing.                                                                *)
(*                                                                         *)
(* An item stands for its address: once freed it may be allocated again.   *)
(***************************************************************************)
EXTENDS Integers, Sequences, FiniteSets

CONSTANTS
    Inserters, Deleters, Finders,   \* threads, by what they may call
    Items, HEAD, NULL,
    MayFail,       \* TRUE: acquiring a hazard pointer may fail
    Reuse,         \* TRUE: a freed item may be allocated again
    RereadsNext    \* TRUE: the build loads item->next after insert's
                   \* compare-and-swap, not before it (C leaves the order open)

Threads == Inserters \cup Deleters \cup Finders

ASSUME SinglyLinkedListAssumption ==
    /\ IsFiniteSet(Items) /\ HEAD \notin Items /\ NULL \notin Items /\ HEAD # NULL
    /\ MayFail \in BOOLEAN /\ Reuse \in BOOLEAN /\ RereadsNext \in BOOLEAN

ASSUME ThreadsAreFinite == IsFiniteSet(Threads)

VARIABLES
    link,              \* head, and the next field of every item
    ref,               \* ref_count
    fresh,             \* items a client has not created yet
    retired, freed,    \* handed to clds_hazard_pointers_reclaim; given back to the heap
    pc, op, target,    \* per thread: where it is, what it runs and for which item
    prev, cur, nxt,    \* locals previous_item, current_item, current_next
    guards,            \* items the thread's hazard pointers protect
    refs,              \* items the thread got from find and has not released
    absent,            \* history: the target was not in the list at some moment of the call
    destroyed

memory == <<link, ref, fresh, retired, freed>>
call   == <<op, target, absent>>
walk   == <<prev, cur, nxt, guards>>
vars   == <<memory, pc, call, walk, refs, destroyed>>

Link(p)   == [ptr |-> p, mark |-> FALSE]
Marked(p) == [ptr |-> p, mark |-> TRUE]

\* Items reachable from the head.
InList ==
    LET hop[k \in 0..Cardinality(Items)] ==
            IF k = 0 THEN link[HEAD].ptr
            ELSE LET i == hop[k - 1] IN IF i = NULL THEN NULL ELSE link[i].ptr
    IN  {hop[k] : k \in 0..Cardinality(Items)} \ {NULL}

Init ==
    /\ link = [i \in Items \cup {HEAD} |-> Link(NULL)]
    /\ ref = [i \in Items |-> 0]
    /\ fresh = Items /\ retired = {} /\ freed = {}
    /\ pc = [t \in Threads |-> "idle"] /\ op = [t \in Threads |-> "none"]
    /\ target = [t \in Threads |-> NULL] /\ absent = [t \in Threads |-> FALSE]
    /\ prev = [t \in Threads |-> HEAD]
    /\ cur = [t \in Threads |-> Link(NULL)] /\ nxt = [t \in Threads |-> Link(NULL)]
    /\ guards = [t \in Threads |-> {}] /\ refs = [t \in Threads |-> {}]
    /\ destroyed = FALSE

Goto(t, from, to) == pc[t] = from /\ pc' = [pc EXCEPT ![t] = to]

\* A call begins.
Call(t, what, i, at) ==
    /\ ~destroyed /\ Goto(t, "idle", at)
    /\ op' = [op EXCEPT ![t] = what] /\ target' = [target EXCEPT ![t] = i]
    /\ absent' = [absent EXCEPT ![t] = i \notin InList]

\* It ends, with every hazard pointer released and its locals gone.
Return(t, from) ==
    /\ Goto(t, from, "idle")
    /\ op' = [op EXCEPT ![t] = "none"] /\ target' = [target EXCEPT ![t] = NULL]
    /\ absent' = [absent EXCEPT ![t] = FALSE]
    /\ prev' = [prev EXCEPT ![t] = HEAD]
    /\ cur' = [cur EXCEPT ![t] = Link(NULL)] /\ nxt' = [nxt EXCEPT ![t] = Link(NULL)]
    /\ guards' = [guards EXCEPT ![t] = {}]

\* restart_needed: release the hazard pointers and walk from the head again.
Restart(t) ==
    /\ pc' = [pc EXCEPT ![t] = "walk"]
    /\ prev' = [prev EXCEPT ![t] = HEAD]
    /\ cur' = [cur EXCEPT ![t] = Link(NULL)] /\ nxt' = [nxt EXCEPT ![t] = Link(NULL)]
    /\ guards' = [guards EXCEPT ![t] = {}]

\* internal_node_destroy, for every item of a set: one reference less; the last
\* one runs the cleanup callback and frees the item.
DropRef(items) ==
    /\ ref' = [i \in Items |-> IF i \in items THEN ref[i] - 1 ELSE ref[i]]
    /\ freed' = freed \cup {i \in items : ref[i] = 1}

-----------------------------------------------------------------------------
(* insert, after node_create *)

InsertStart(t, i) ==
    /\ t \in Inserters /\ i \in fresh
    /\ Call(t, "insert", i, "ins_read")
    /\ fresh' = fresh \ {i}
    /\ ref' = [ref EXCEPT ![i] = 1]
    /\ link' = [link EXCEPT ![i] = Link(NULL)]
    /\ UNCHANGED <<retired, freed, walk, refs, destroyed>>

InsertRead(t) ==
    /\ Goto(t, "ins_read", "ins_cas")
    /\ link' = [link EXCEPT ![target[t]] = link[HEAD]]
    /\ cur' = [cur EXCEPT ![t] = link[HEAD]]
    /\ UNCHANGED <<ref, fresh, retired, freed, call, prev, nxt, guards, refs, destroyed>>

\* cur becomes the value found in head, nxt the value it was compared with.
InsertCas(t) ==
    /\ Goto(t, "ins_cas", "ins_compare")
    /\ link' = IF link[HEAD] = cur[t] THEN [link EXCEPT ![HEAD] = Link(target[t])] ELSE link
    /\ cur' = [cur EXCEPT ![t] = link[HEAD]]
    /\ nxt' = [nxt EXCEPT ![t] = cur[t]]
    /\ UNCHANGED <<ref, fresh, retired, freed, call, prev, guards, refs, destroyed>>

\* The value found is compared with item->next: as it was loaded for the
\* compare-and-swap, or, where the build loads it once more, as it is by now.
InsertCompare(t) ==
    /\ pc[t] = "ins_compare"
    /\ IF cur[t] = (IF RereadsNext THEN link[target[t]] ELSE nxt[t])
       THEN Return(t, "ins_compare")
       ELSE Goto(t, "ins_compare", "ins_read") /\ UNCHANGED <<call, walk>>
    /\ UNCHANGED <<memory, refs, destroyed>>

-----------------------------------------------------------------------------
(* The walk of internal_delete and of find *)

DeleteStart(t, i) ==
    /\ t \in Deleters /\ Call(t, "delete", i, "walk")
    /\ UNCHANGED <<memory, walk, refs, destroyed>>

FindStart(t, i) ==
    /\ t \in Finders /\ refs[t] = {} /\ Call(t, "find", i, "walk")
    /\ UNCHANGED <<memory, walk, refs, destroyed>>

\* Mutants: delete does not clear the mark either; a marked link is taken for the end.
AtEndUncleared(t) == link[prev[t]] = Link(NULL)
AtEndMarked(t)    == link[prev[t]].ptr = NULL \/ link[prev[t]].mark

\* delete clears the mark before it compares with NULL; find does not.
AtEnd(t) == link[prev[t]].ptr = NULL /\ (op[t] = "delete" \/ ~link[prev[t]].mark)

WalkEnd(t) ==
    /\ pc[t] = "walk" /\ AtEnd(t)
    /\ Return(t, "walk")
    /\ UNCHANGED <<memory, refs, destroyed>>

WalkRead(t) ==
    /\ Goto(t, "walk", "check") /\ ~AtEnd(t)
    /\ cur' = [cur EXCEPT ![t] = link[prev[t]]]
    /\ UNCHANGED <<memory, call, prev, nxt, guards, refs, destroyed>>

AcquireFails(t) ==
    /\ MayFail /\ pc[t] = "check"
    /\ Return(t, "check")
    /\ UNCHANGED <<memory, refs, destroyed>>

\* Mutant: a link that was marked since it was read still counts as unchanged.
StillThereMarked(t) == link[prev[t]].ptr = cur[t].ptr

\* The link is read again: it must hold the item, unmarked.
StillThere(t) == link[prev[t]] = Link(cur[t].ptr)

CheckAgain(t) ==
    /\ pc[t] = "check" /\ ~StillThere(t)
    /\ Restart(t)
    /\ UNCHANGED <<memory, call, refs, destroyed>>

\* find keeps the pointer as it first read it.  If that was marked and the mark
\* has been taken back since, it goes on with a pointer that is no item.
CheckTagged(t) ==
    /\ Goto(t, "check", "astray")
    /\ StillThere(t) /\ op[t] = "find" /\ cur[t].mark
    /\ UNCHANGED <<memory, call, walk, refs, destroyed>>

CheckAdvance(t) ==
    /\ Goto(t, "check", "walk")
    /\ StillThere(t) /\ (op[t] = "delete" \/ ~cur[t].mark)
    /\ cur[t].ptr # target[t]
    /\ prev' = [prev EXCEPT ![t] = cur[t].ptr]
    /\ cur' = [cur EXCEPT ![t] = Link(NULL)]
    /\ guards' = [guards EXCEPT ![t] = {cur[t].ptr}]
    /\ UNCHANGED <<memory, call, nxt, refs, destroyed>>

CheckMatch(t) ==
    /\ Goto(t, "check", IF op[t] = "delete" THEN "mark_read" ELSE "take_ref")
    /\ StillThere(t) /\ (op[t] = "delete" \/ ~cur[t].mark)
    /\ cur[t].ptr = target[t]
    /\ cur' = [cur EXCEPT ![t] = Link(cur[t].ptr)]
    /\ guards' = [guards EXCEPT ![t] =
                     (IF op[t] = "delete" THEN @ ELSE {}) \cup {cur[t].ptr}]
    /\ UNCHANGED <<memory, call, prev, nxt, refs, destroyed>>

-----------------------------------------------------------------------------
(* internal_delete, once the item is found *)

MarkRead(t) ==
    /\ Goto(t, "mark_read", "mark")
    /\ nxt' = [nxt EXCEPT ![t] = link[cur[t].ptr]]
    /\ UNCHANGED <<memory, call, prev, cur, guards, refs, destroyed>>

Mark(t) ==
    LET i == cur[t].ptr IN
    /\ pc[t] = "mark"
    /\ IF link[i] = Link(nxt[t].ptr)
       THEN /\ Goto(t, "mark", "unlink")
            /\ link' = [link EXCEPT ![i] = Marked(nxt[t].ptr)]
            /\ UNCHANGED walk
       ELSE Restart(t) /\ UNCHANGED link
    /\ UNCHANGED <<ref, fresh, retired, freed, call, refs, destroyed>>

\* Mutant: the mark of the predecessor is ignored.
UnlinkAnyway(t) ==
    LET i == cur[t].ptr IN
    /\ Goto(t, "unlink", IF link[prev[t]].ptr = i THEN "retire" ELSE "unmark")
    /\ IF link[prev[t]].ptr = i
       THEN /\ link' = [link EXCEPT ![prev[t]].ptr = nxt[t].ptr]
            /\ guards' = [guards EXCEPT ![t] = {}]
            /\ absent' = [u \in Threads |-> absent[u] \/ target[u] = i]
       ELSE UNCHANGED <<link, guards, absent>>
    /\ UNCHANGED <<ref, fresh, retired, freed, op, target,
                   prev, cur, nxt, refs, destroyed>>

\* Swing the predecessor's link past the item, if it still holds it, unmarked.
Unlink(t) ==
    LET i == cur[t].ptr IN
    /\ Goto(t, "unlink", IF link[prev[t]] = Link(i) THEN "retire" ELSE "unmark")
    /\ IF link[prev[t]] = Link(i)
       THEN /\ link' = [link EXCEPT ![prev[t]] = Link(nxt[t].ptr)]
            /\ guards' = [guards EXCEPT ![t] = {}]
            /\ absent' = [u \in Threads |-> absent[u] \/ target[u] = i]
       ELSE UNCHANGED <<link, guards, absent>>
    /\ UNCHANGED <<ref, fresh, retired, freed, op, target,
                   prev, cur, nxt, refs, destroyed>>

\* Mutant: the mark stays.
UnmarkNot(t) ==
    /\ pc[t] = "unmark"
    /\ Restart(t)
    /\ UNCHANGED <<memory, call, refs, destroyed>>

Unmark(t) ==
    LET i == cur[t].ptr IN
    /\ pc[t] = "unmark"
    /\ link' = IF link[i] = Marked(nxt[t].ptr)
               THEN [link EXCEPT ![i] = Link(nxt[t].ptr)] ELSE link
    /\ Restart(t)
    /\ UNCHANGED <<ref, fresh, retired, freed, call, refs, destroyed>>

Retire(t) ==
    /\ retired' = retired \cup {cur[t].ptr}
    /\ Return(t, "retire")
    /\ UNCHANGED <<link, ref, fresh, freed, refs, destroyed>>

\* clds_hazard_pointers calls reclaim_list_node for a node nobody protects.
ReclaimNode(i) ==
    /\ i \in retired /\ \A t \in Threads : i \notin guards[t]
    /\ retired' = retired \ {i}
    /\ DropRef({i})
    /\ UNCHANGED <<link, fresh, pc, call, walk, refs, destroyed>>

-----------------------------------------------------------------------------
(* find, once the item is found; release by the client; destroy *)

TakeRef(t) ==
    /\ Return(t, "take_ref")
    /\ ref' = [ref EXCEPT ![target[t]] = @ + 1]
    /\ refs' = [refs EXCEPT ![t] = {target[t]}]
    /\ UNCHANGED <<link, fresh, retired, freed, destroyed>>

NodeRelease(t) ==
    /\ pc[t] = "idle" /\ refs[t] # {}
    /\ DropRef(refs[t])
    /\ refs' = [refs EXCEPT ![t] = {}]
    /\ UNCHANGED <<link, fresh, retired, pc, call, walk, destroyed>>

\* The heap hands out the address of a freed item again.
Allocate(i) ==
    /\ Reuse /\ i \in freed
    /\ freed' = freed \ {i} /\ fresh' = fresh \cup {i}
    /\ UNCHANGED <<link, ref, retired, pc, call, walk, refs, destroyed>>

\* Called when no other call runs; every item still in the list loses the
\* reference of the list.
Destroy ==
    /\ ~destroyed /\ \A t \in Threads : pc[t] = "idle"
    /\ destroyed' = TRUE
    /\ DropRef(InList)
    /\ link' = [link EXCEPT ![HEAD] = Link(NULL)]
    /\ UNCHANGED <<fresh, retired, pc, call, walk, refs>>

-----------------------------------------------------------------------------
\* The steps of a call that has begun.
Step(t) ==
    \/ InsertRead(t) \/ InsertCas(t) \/ InsertCompare(t)
    \/ WalkEnd(t) \/ WalkRead(t) \/ AcquireFails(t)
    \/ CheckAgain(t) \/ CheckTagged(t) \/ CheckAdvance(t) \/ CheckMatch(t)
    \/ MarkRead(t) \/ Mark(t) \/ Unlink(t) \/ Unmark(t) \/ Retire(t)
    \/ TakeRef(t)

Next ==
    \/ \E t \in Threads :
          \/ Step(t) \/ NodeRelease(t)
          \/ \E i \in Items : InsertStart(t, i) \/ DeleteStart(t, i) \/ FindStart(t, i)
    \/ \E i \in Items : ReclaimNode(i) \/ Allocate(i)
    \/ Destroy

Spec == Init /\ [][Next]_vars

\* A thread inside a call keeps running.
FairSpec == Spec /\ \A t \in Threads : WF_vars(Step(t))

-----------------------------------------------------------------------------
(* Properties *)

PCs == {"idle", "ins_read", "ins_cas", "ins_compare", "walk", "check", "astray",
        "mark_read", "mark", "unlink", "unmark", "retire", "take_ref"}

\* Every variable stays in its range, and no reference count drops below zero.
TypeOK ==
    LET Links == [ptr : Items \cup {NULL}, mark : BOOLEAN] IN
    /\ link \in [Items \cup {HEAD} -> Links] /\ ref \in [Items -> Nat]
    /\ fresh \subseteq Items /\ retired \subseteq Items /\ freed \subseteq Items
    /\ pc \in [Threads -> PCs] /\ op \in [Threads -> {"none", "insert", "delete", "find"}]
    /\ target \in [Threads -> Items \cup {NULL}]
    /\ absent \in [Threads -> BOOLEAN]
    /\ prev \in [Threads -> Items \cup {HEAD}]
    /\ cur \in [Threads -> Links] /\ nxt \in [Threads -> Links]
    /\ guards \in [Threads -> SUBSET Items] /\ refs \in [Threads -> SUBSET Items]
    /\ destroyed \in BOOLEAN

\* The threads whose insert of item i has not taken effect, and those whose
\* delete of it has, before the item is retired.
Inserting(i) == {t \in Threads : op[t] = "insert" /\ target[t] = i
                                 /\ (pc[t] = "ins_compare" => cur[t] # nxt[t])}
Unlinking(i) == {t \in Threads : pc[t] = "retire" /\ cur[t].ptr = i}

\* An item that was inserted and not deleted is in the list, and one that was
\* deleted is not: no interleaving of inserts and deletes at neighbouring links
\* drops an item, keeps one, or brings one back; and only one delete succeeds for
\* an item, so that it is retired once.  The delete mark of an item in the list belongs
\* to one delete that is about to unlink the item or to take the mark back: no mark is
\* left behind, where it would turn every later walk back.
ListIntact ==
    /\ InList \cap (fresh \cup retired \cup freed) = {}
    /\ \A i \in Items : Cardinality(Unlinking(i)) <= 1
    /\ \A i \in InList : link[i].mark =>
          Cardinality({t \in Threads : pc[t] \in {"unlink", "unmark"} /\ cur[t].ptr = i}) = 1
    /\ \A i \in Items : Unlinking(i) # {} => i \notin InList \cup retired \cup freed
    /\ \A i \in Items \ (InList \cup fresh \cup retired \cup freed) :
          Inserting(i) # {} \/ Unlinking(i) # {} \/ \E t \in Threads : i \in refs[t] \/ destroyed

\* No call reads or writes an item that was given back to the heap; and ref_count is
\* the number of references there are: the list's own, until the reclaim callback has
\* run or destroy has dropped it, and one for every find whose item is not released.
\* An item that is referenced is not freed, and one without a reference is.
MemorySafe ==
    /\ \A t \in Threads :
        LET touched == CASE pc[t] \in {"walk", "check"} -> {prev[t]}
                         [] pc[t] \in {"mark_read", "mark", "unmark"} -> {cur[t].ptr}
                         [] pc[t] = "unlink" -> {prev[t], cur[t].ptr}
                         [] pc[t] \in {"ins_read", "ins_cas", "take_ref"} -> {target[t]}
                         [] pc[t] = "ins_compare" -> IF RereadsNext THEN {target[t]} ELSE {}
                         [] OTHER -> {}
        IN  touched \cap (freed \cup fresh) = {}
    /\ \A i \in Items \ fresh :
        LET users  == {t \in Threads : i \in refs[t]}
            listed == \/ i \in InList \cup retired
                      \/ Inserting(i) \cup Unlinking(i) # {}
        IN  /\ ref[i] = Cardinality(users) + (IF listed THEN 1 ELSE 0)
            /\ i \in freed <=> ref[i] = 0

\* delete and find answer "not found" only if there was a moment during the call
\* when the item was not in the list.
NotFoundJustified ==
    \A t \in Threads : pc[t] = "walk" /\ AtEnd(t) => absent[t]

\* find goes on with a pointer to an item, never with a marked one.  The code does not
\* keep this: with an inserter, a deleter and a finder, and two items, TLC finds a find
\* that read a link while it was marked and checked it when the mark was taken back.
FindKeepsToItems == \A t \in Threads : pc[t] # "astray"

\* Every call returns: deletes of neighbouring items that turn each other back,
\* and walks that meet marks, do not restart for ever.
CallsReturn ==
    \A t \in Threads : pc[t] \notin {"idle", "astray"} ~> pc[t] \in {"idle", "astray"}
=============================================================================
