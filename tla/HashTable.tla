----------------------------- MODULE HashTable -----------------------------
(***************************************************************************)
(* The hash table of src/clds_hash_table.c: a chain of bucket arrays, here *)
(* the levels 1, 2, ... with the newest and largest in front.  Every level *)
(* counts its items and the inserts that are under way in it; every bucket *)
(* that was ever used has a sorted list.                                   *)
(*                                                                         *)
(* A call on a bucket's list is one step: SortedList shows that it takes   *)
(* effect at one instant, on one key.  Of the write lock the module takes  *)
(* what GroupLock states and WriteLock implements.  Every other access to  *)
(* a shared word is an action.                                             *)
(***************************************************************************)
EXTENDS Integers, FiniteSets

CONSTANTS
    Inserters, Setters, Deleters, Finders, Snapshotters,  \* threads, by what they may call
    Keys, Hash,      \* the keys, and compute_hash
    InitialBuckets,  \* initial_bucket_size
    MaxLevels,       \* bound on the levels: at the last one malloc fails
    Loaded, NULL,    \* per level the keys that were put there before the run begins
    MayFail,         \* TRUE: allocations, hazard pointers and condition checks may fail
    LateRaise,       \* TRUE: a level may be put in front while another thread has read
                     \* the old first and not raised its pending_insert_count yet
    LateCount,       \* TRUE: between the put and the count of set_value the new item may
                     \* be deleted, and its level be passed over
    BlindFind        \* TRUE: find_key may fail for want of a hazard pointer, which its
                     \* callers cannot tell from a key that is not there

Threads == Inserters \cup Setters \cup Deleters \cup Finders \cup Snapshotters
Levels  == 1..MaxLevels

BucketCount(l) == InitialBuckets * 2 ^ (l - 1)

ASSUME HashTableAssumption ==
    /\ Hash \in [Keys -> Nat] /\ InitialBuckets \in Nat \ {0} /\ MaxLevels \in Nat \ {0}
    /\ Loaded \in [Levels -> SUBSET Keys]
    /\ \A l, m \in Levels : l # m => Loaded[l] \cap Loaded[m] = {}
    /\ {MayFail, LateRaise, LateCount, BlindFind} \subseteq BOOLEAN
    /\ NULL \notin Threads \cup {0} /\ Threads # {}
    /\ IsFiniteSet(Threads) /\ IsFiniteSet(Keys)

\* Arithmetic that the provers do not know: they have no powers.
ASSUME BucketsAssumption ==
    \A l \in Levels : BucketCount(l) \in 1..BucketCount(MaxLevels)

VARIABLES
    first,           \* first_hash_table: the newest level
    count, pend,     \* item_count and pending_insert_count of every level
    lists,           \* buckets that have a sorted list, as pairs of level and index
    entry,           \* per level and key the item in its bucket, or NULL.  An item is
                     \* named by the thread that made it, 0 if it was loaded
    writing, holding,\* threads in a write operation; threads that hold the lock
    pc, op,          \* per thread: where it is, what it runs
    key, item,       \* the key it was given; for delete_key_value the item
    top, lvl,        \* locals: first_bucket_array, and the level a walk has come to
    toTop,           \* set_value_in_top_level
    left, got,       \* snapshot: temp_item_count, and the items it has copied
    absent           \* history: what it looks for was not there at some moment of the call

levels == <<first, count, pend, lists, entry>>
lock   == <<writing, holding>>
call   == <<op, key, item>>
copy   == <<left, got>>
vars   == <<levels, lock, pc, call, top, lvl, toTop, copy, absent>>

Lock == INSTANCE GroupLock WITH Writers <- Threads, Lockers <- Threads

Bucket(l, k)   == <<l, Hash[k] % BucketCount(l)>>

Stored(l)  == {k \in Keys : entry[l][k] # NULL}
Makers     == Threads \cup {0}

Init ==
    /\ first \in Levels /\ \A l \in Levels : Loaded[l] # {} => l <= first
    /\ first = 1 \/ Loaded[first] # {}
    /\ count = [l \in Levels |-> Cardinality(Loaded[l])] /\ pend = [l \in Levels |-> 0]
    /\ lists = UNION {{Bucket(l, k) : k \in Loaded[l]} : l \in Levels}
    /\ entry = [l \in Levels |-> [k \in Keys |-> IF k \in Loaded[l] THEN 0 ELSE NULL]]
    /\ Lock!Init
    /\ pc = [t \in Threads |-> "idle"] /\ op = [t \in Threads |-> "none"]
    /\ key = [t \in Threads |-> NULL] /\ item = [t \in Threads |-> NULL]
    /\ top = [t \in Threads |-> 0] /\ lvl = [t \in Threads |-> 0]
    /\ toTop = [t \in Threads |-> TRUE]
    /\ left = [t \in Threads |-> 0] /\ got = [t \in Threads |-> {}]
    /\ absent = [t \in Threads |-> FALSE]

Goto(t, from, to) == pc[t] = from /\ pc' = [pc EXCEPT ![t] = to]

Call(t, what, k, i, at) ==
    /\ Goto(t, "idle", at)
    /\ op' = [op EXCEPT ![t] = what]
    /\ key' = [key EXCEPT ![t] = k] /\ item' = [item EXCEPT ![t] = i]

\* What every return does to the locals.
Forget(t) ==
    /\ op' = [op EXCEPT ![t] = "none"]
    /\ key' = [key EXCEPT ![t] = NULL] /\ item' = [item EXCEPT ![t] = NULL]
    /\ top' = [top EXCEPT ![t] = 0] /\ lvl' = [lvl EXCEPT ![t] = 0]
    /\ toTop' = [toTop EXCEPT ![t] = TRUE]
    /\ left' = [left EXCEPT ![t] = 0] /\ got' = [got EXCEPT ![t] = {}]

-----------------------------------------------------------------------------
(* get_first_bucket_array, and the counting of pending inserts around insert
   and set_value.  A client makes a new item for every call. *)

WriteStart(t, what) ==
    \E k \in Keys :
        /\ \A l \in Levels : entry[l][k] # t
        /\ Lock!BeginWrite(t) /\ Call(t, what, k, NULL, "first")
        /\ UNCHANGED <<levels, top, lvl, toTop, copy>>

\* With LateRaise FALSE no thread reads first while another is about to replace it,
\* and nobody replaces it before those that have read it have raised its count.
Early(t) == \E u \in Threads \ {t} : pc[u] = "grow" /\ top[u] = first
Late(t)  == \E u \in Threads \ {t} : pc[u] \in {"full", "pend"} /\ top[u] = first

ReadFirst(t) ==
    /\ Goto(t, "first", "full")
    /\ LateRaise \/ ~Early(t)
    /\ top' = [top EXCEPT ![t] = first]
    /\ UNCHANGED <<levels, lock, call, lvl, toTop, copy>>

\* The level has room, or a larger one cannot be allocated and this one must do.
HasRoom(t) ==
    /\ Goto(t, "full", "pend")
    /\ count[top[t]] < BucketCount(top[t]) \/ MayFail \/ top[t] = MaxLevels
    /\ UNCHANGED <<levels, lock, call, top, lvl, toTop, copy>>

IsFull(t) ==
    /\ Goto(t, "full", "grow")
    /\ count[top[t]] >= BucketCount(top[t]) /\ top[t] < MaxLevels
    /\ UNCHANGED <<levels, lock, call, top, lvl, toTop, copy>>

\* The compare-and-swap that puts a new level, empty, in front.
Grow(t) ==
    /\ Goto(t, "grow", "pend")
    /\ first = top[t] /\ (LateRaise \/ ~Late(t))
    /\ first' = first + 1 /\ top' = [top EXCEPT ![t] = first + 1]
    /\ UNCHANGED <<count, pend, lists, entry, lock, call, lvl, toTop, copy>>

\* Somebody else did: drop the new one and look again.
GrowLoses(t) ==
    /\ first # top[t] /\ Goto(t, "grow", "first")
    /\ UNCHANGED <<levels, lock, call, top, lvl, toTop, copy>>

RaisePending(t) ==
    /\ Goto(t, "pend", "wait")
    /\ pend' = [pend EXCEPT ![top[t]] = @ + 1]
    /\ UNCHANGED <<first, count, lists, entry, lock, call, top, lvl, toTop, copy>>

\* Mutant: nobody waits for the inserts under way in the level below.
WaitNot(t) ==
    /\ Goto(t, "wait", IF op[t] = "insert" THEN "search" ELSE "set_find")
    /\ lvl' = [lvl EXCEPT ![t] = top[t] - 1]
    /\ UNCHANGED <<levels, lock, call, top, toTop, copy>>

\* Mutant: the insert waits for its own level, where it is under way itself.
WaitSame(t) ==
    /\ Goto(t, "wait", IF op[t] = "insert" THEN "search" ELSE "set_find")
    /\ top[t] > 1 => pend[top[t]] = 0
    /\ lvl' = [lvl EXCEPT ![t] = top[t] - 1]
    /\ UNCHANGED <<levels, lock, call, top, toTop, copy>>

\* The loop that ends when the level below, if any, is seen without pending inserts.
WaitLower(t) ==
    /\ Goto(t, "wait", IF op[t] = "insert" THEN "search" ELSE "set_find")
    /\ top[t] > 1 => pend[top[t] - 1] = 0
    /\ lvl' = [lvl EXCEPT ![t] = top[t] - 1]
    /\ UNCHANGED <<levels, lock, call, top, toTop, copy>>

LowerPending(t) ==
    /\ Goto(t, "unpend", "end")
    /\ pend' = [pend EXCEPT ![top[t]] = @ - 1]
    /\ UNCHANGED <<first, count, lists, entry, lock, call, top, lvl, toTop, copy>>

WriteEnd(t) ==
    /\ Lock!EndWrite(t) /\ Goto(t, "end", "idle") /\ Forget(t)
    /\ UNCHANGED levels

-----------------------------------------------------------------------------
(* insert *)

\* What find_key may answer about the level a walk has come to.
Answers(t) == {entry[lvl[t]][key[t]] # NULL} \cup (IF BlindFind THEN {FALSE} ELSE {})

\* The walk over the levels goes on, or finds its key and goes to pc "to".
Search(t, from, to) ==
    /\ pc[t] = from /\ lvl[t] > 0
    /\ \E found \in Answers(t) :
          /\ Goto(t, from, IF found THEN to ELSE from)
          /\ lvl' = [lvl EXCEPT ![t] = IF found THEN @ ELSE @ - 1]
    /\ UNCHANGED <<levels, lock, call, top, toTop, copy>>

\* Mutant: an insert that finds its key below takes back a count it has not added.
SearchUncounts(t) == Search(t, "search", "uncount")

\* find_key in a lower level, whatever its item_count says: the key exists
\* already, or on to the next.
SearchLower(t) == Search(t, "search", "unpend")

CountInsert(t) ==
    /\ lvl[t] = 0 /\ Goto(t, "search", "list")
    /\ count' = [count EXCEPT ![top[t]] = @ + 1]
    /\ UNCHANGED <<first, pend, lists, entry, lock, call, top, lvl, toTop, copy>>

\* The bucket has a list, or one is created (with nothing shared changed yet).
BucketList(t) ==
    /\ Goto(t, "list", IF Bucket(top[t], key[t]) \in lists THEN "put" ELSE "publish")
    /\ UNCHANGED <<levels, lock, call, top, lvl, toTop, copy>>

ListFails(t) ==
    /\ Goto(t, "list", IF op[t] = "insert" THEN "uncount" ELSE "unpend")
    /\ MayFail /\ Bucket(top[t], key[t]) \notin lists
    /\ UNCHANGED <<levels, lock, call, top, lvl, toTop, copy>>

\* Mutant: the list replaces one that another thread has published meanwhile.
PublishPlain(t) ==
    /\ Goto(t, "publish", "put")
    /\ lists' = lists \cup {Bucket(top[t], key[t])}
    /\ entry' = [entry EXCEPT ![top[t]] = [k \in Keys |->
                    IF Bucket(top[t], k) = Bucket(top[t], key[t]) THEN NULL ELSE @[k]]]
    /\ UNCHANGED <<first, count, pend, lock, call, top, lvl, toTop, copy>>

\* The compare-and-swap of the bucket; who loses destroys his list and restarts.
Publish(t) ==
    /\ Goto(t, "publish", IF Bucket(top[t], key[t]) \in lists THEN "list" ELSE "put")
    /\ lists' = lists \cup {Bucket(top[t], key[t])}
    /\ UNCHANGED <<first, count, pend, entry, lock, call, top, lvl, toTop, copy>>

\* clds_sorted_list_insert succeeds, or the key is there already.
PutInsert(t) ==
    /\ pc[t] = "put" /\ op[t] = "insert"
    /\ IF entry[top[t]][key[t]] = NULL
       THEN Goto(t, "put", "unpend") /\ entry' = [entry EXCEPT ![top[t]][key[t]] = t]
       ELSE Goto(t, "put", "uncount") /\ UNCHANGED entry
    /\ UNCHANGED <<first, count, pend, lists, lock, call, top, lvl, toTop, copy>>

\* The list's operation fails, or a condition check does.
PutFails(t) ==
    /\ MayFail /\ Goto(t, "put", IF op[t] = "insert" THEN "uncount" ELSE "unpend")
    /\ UNCHANGED <<levels, lock, call, top, lvl, toTop, copy>>

Uncount(t) ==
    /\ Goto(t, "uncount", "unpend")
    /\ count' = [count EXCEPT ![top[t]] = @ - 1]
    /\ UNCHANGED <<first, pend, lists, entry, lock, call, top, lvl, toTop, copy>>

-----------------------------------------------------------------------------
(* set_value *)

SetFind(t) == Search(t, "set_find", "set_lower")

\* Where the key was found set_value replaces what is there, only_if_exists, and
\* goes on to the levels below; if the key is gone the top level is not ruled out,
\* but it is if the list's operation fails.
SetLower(t) ==
    /\ Goto(t, "set_lower", "set_find")
    /\ lvl' = [lvl EXCEPT ![t] = @ - 1]
    /\ \/ entry[lvl[t]][key[t]] = NULL /\ UNCHANGED <<entry, toTop>>
       \/ /\ toTop' = [toTop EXCEPT ![t] = FALSE]
          /\ \/ /\ entry[lvl[t]][key[t]] # NULL
                /\ entry' = [entry EXCEPT ![lvl[t]][key[t]] = t]
             \/ MayFail /\ UNCHANGED entry
    /\ UNCHANGED <<first, count, pend, lists, lock, call, top, copy>>

SetWalked(t) ==
    /\ lvl[t] = 0 /\ Goto(t, "set_find", IF toTop[t] THEN "list" ELSE "unpend")
    /\ UNCHANGED <<levels, lock, call, top, lvl, toTop, copy>>

\* In the top level the item replaces another, or is new and will be counted.
PutSet(t) ==
    /\ Goto(t, "put", IF entry[top[t]][key[t]] = NULL THEN "count_set" ELSE "unpend")
    /\ op[t] = "set_value"
    /\ entry' = [entry EXCEPT ![top[t]][key[t]] = t]
    /\ UNCHANGED <<first, count, pend, lists, lock, call, top, lvl, toTop, copy>>

CountSet(t) ==
    /\ Goto(t, "count_set", "unpend")
    /\ count' = [count EXCEPT ![top[t]] = @ + 1]
    /\ UNCHANGED <<first, pend, lists, entry, lock, call, top, lvl, toTop, copy>>

-----------------------------------------------------------------------------
(* find; delete and remove, which differ in what they return; delete_key_value,
   which takes out the item it was given only *)

FindStart(t) ==
    /\ \E k \in Keys : Call(t, "find", k, NULL, "start")
    /\ UNCHANGED <<levels, lock, top, lvl, toTop, copy>>

\* For delete_key_value the client has a reference to an item that is in the table.
DeleteStart(t) ==
    /\ Lock!BeginWrite(t)
    /\ \E k \in Keys :
          \/ Call(t, "delete", k, NULL, "start")
          \/ \E l \in Levels : k \in Stored(l)
                             /\ Call(t, "delete_key_value", k, entry[l][k], "start")
    /\ UNCHANGED <<levels, top, lvl, toTop, copy>>

WalkStart(t) ==
    /\ Goto(t, "start", "level")
    /\ lvl' = [lvl EXCEPT ![t] = first]
    /\ UNCHANGED <<levels, lock, call, top, toTop, copy>>

\* Where a walk goes on when the level has nothing for it.
Below(t) == IF lvl[t] = 1 THEN "missed" ELSE "level"

\* Items that set_value has put into the top level and not counted yet.
Uncounted(l, k) == \E u \in Threads : pc[u] = "count_set" /\ top[u] = l /\ key[u] = k

\* Mutant: the walk ends at a level without items.
WalkStops(t) ==
    /\ Goto(t, "level", IF count[lvl[t]] = 0 THEN "missed" ELSE "bucket")
    /\ UNCHANGED <<levels, lock, call, top, lvl, toTop, copy>>

\* A level whose item_count is 0 is passed over; with LateCount FALSE not while the
\* key is there, put by a set_value and not counted.
WalkLevel(t) ==
    /\ pc[t] = "level"
    /\ \/ count[lvl[t]] # 0 /\ Goto(t, "level", "bucket") /\ UNCHANGED lvl
       \/ /\ count[lvl[t]] = 0 /\ (LateCount \/ ~Uncounted(lvl[t], key[t]))
          /\ Goto(t, "level", Below(t)) /\ lvl' = [lvl EXCEPT ![t] = @ - 1]
    /\ UNCHANGED <<levels, lock, call, top, toTop, copy>>

\* What the call is after is in this level.
Hit(t) == LET e == entry[lvl[t]][key[t]]
          IN  e # NULL /\ (op[t] = "delete_key_value" => e = item[t])

WalkMisses(t) ==
    /\ Goto(t, "bucket", Below(t)) /\ lvl' = [lvl EXCEPT ![t] = @ - 1]
    /\ ~Hit(t) \/ (op[t] = "find" /\ BlindFind)
    /\ UNCHANGED <<levels, lock, call, top, toTop, copy>>

FindHits(t) ==
    /\ Goto(t, "bucket", "idle") /\ Forget(t)
    /\ op[t] = "find" /\ Hit(t)
    /\ UNCHANGED <<levels, lock>>

DeleteHits(t) ==
    /\ Goto(t, "bucket", "drop")
    /\ op[t] # "find" /\ Hit(t) /\ (LateCount \/ ~Uncounted(lvl[t], key[t]))
    /\ entry' = [entry EXCEPT ![lvl[t]][key[t]] = NULL]
    /\ UNCHANGED <<first, count, pend, lists, lock, call, top, lvl, toTop, copy>>

\* The list's operation fails, and with it the call.
DeleteFails(t) ==
    /\ Goto(t, "bucket", "end")
    /\ MayFail /\ op[t] # "find" /\ Bucket(lvl[t], key[t]) \in lists
    /\ UNCHANGED <<levels, lock, call, top, lvl, toTop, copy>>

DropCount(t) ==
    /\ Goto(t, "drop", "end")
    /\ count' = [count EXCEPT ![lvl[t]] = @ - 1]
    /\ UNCHANGED <<first, pend, lists, entry, lock, call, top, lvl, toTop, copy>>

\* Not found in any level.
WalkMissed(t) ==
    /\ IF op[t] = "find"
       THEN Goto(t, "missed", "idle") /\ Forget(t) /\ UNCHANGED lock
       ELSE /\ Goto(t, "missed", "end")
            /\ UNCHANGED <<lock, call, top, lvl, toTop, copy>>
    /\ UNCHANGED levels

-----------------------------------------------------------------------------
(* snapshot *)

\* Mutant: writes under way are not waited for.
SnapshotAnyway(t) ==
    /\ holding' = holding \cup {t} /\ UNCHANGED writing
    /\ Call(t, "snapshot", NULL, NULL, "sum")
    /\ lvl' = [lvl EXCEPT ![t] = first]
    /\ UNCHANGED <<levels, top, toTop, copy>>

\* internal_lock_writes, after which nothing but finds goes on.
SnapshotStart(t) ==
    /\ Lock!Lock(t) /\ Call(t, "snapshot", NULL, NULL, "sum")
    /\ lvl' = [lvl EXCEPT ![t] = first]
    /\ UNCHANGED <<levels, top, toTop, copy>>

SnapshotSum(t) ==
    /\ lvl[t] > 0 /\ Goto(t, "sum", "sum")
    /\ left' = [left EXCEPT ![t] = @ + count[lvl[t]]]
    /\ lvl' = [lvl EXCEPT ![t] = @ - 1]
    /\ UNCHANGED <<levels, lock, call, top, toTop, got>>

\* Nothing to copy; or an array for what was counted is allocated.
SnapshotAllocate(t) ==
    /\ lvl[t] = 0 /\ Goto(t, "sum", IF left[t] = 0 THEN "copied" ELSE "copy")
    /\ lvl' = [lvl EXCEPT ![t] = first]
    /\ UNCHANGED <<levels, lock, call, top, toTop, copy>>

\* get_all of the buckets of a level with items, while the array has room; a list that
\* does not fit in what is left of it makes the call fail.
SnapshotCopy(t) ==
    /\ pc[t] = "copy" /\ lvl[t] > 0
    /\ lvl' = [lvl EXCEPT ![t] = @ - 1]
    /\ IF count[lvl[t]] = 0 \/ left[t] = 0
       THEN Goto(t, "copy", "copy") /\ UNCHANGED copy
       ELSE IF Cardinality(Stored(lvl[t])) > left[t]
       THEN Goto(t, "copy", "overflow") /\ UNCHANGED copy
       ELSE /\ Goto(t, "copy", "copy")
            /\ got' = [got EXCEPT ![t] =
                          @ \cup {<<lvl[t], k, entry[lvl[t]][k]>> : k \in Stored(lvl[t])}]
            /\ left' = [left EXCEPT ![t] = @ - Cardinality(Stored(lvl[t]))]
    /\ UNCHANGED <<levels, lock, call, top, toTop>>

SnapshotCopied(t) ==
    /\ lvl[t] = 0 /\ Goto(t, "copy", "copied")
    /\ UNCHANGED <<levels, lock, call, top, lvl, toTop, copy>>

\* internal_unlock_writes, with the items given to the caller; or released again
\* because the array cannot be allocated, get_all failed or the token is cancelled.
SnapshotEnd(t) ==
    /\ \/ pc[t] \in {"copied", "overflow"}
       \/ pc[t] = "copy" /\ MayFail
    /\ Goto(t, pc[t], "idle")
    /\ Lock!Unlock(t) /\ Forget(t)
    /\ UNCHANGED levels

-----------------------------------------------------------------------------
\* destroy, for which the clients have stopped: every list of every level goes.
Destroy ==
    /\ \A t \in Threads : pc[t] = "idle"
    /\ entry' = [l \in Levels |-> [k \in Keys |-> NULL]]
    /\ lists' = {} /\ pc' = [t \in Threads |-> "destroyed"]
    /\ UNCHANGED <<first, count, pend, lock, call, top, lvl, toTop, copy>>

WriteStep(t) ==
    \/ ReadFirst(t) \/ HasRoom(t) \/ IsFull(t) \/ Grow(t) \/ GrowLoses(t)
    \/ RaisePending(t) \/ WaitLower(t) \/ LowerPending(t) \/ WriteEnd(t)
    \/ BucketList(t) \/ ListFails(t) \/ Publish(t) \/ PutFails(t)
InsertStep(t) == SearchLower(t) \/ CountInsert(t) \/ PutInsert(t) \/ Uncount(t)
SetStep(t)    == SetFind(t) \/ SetLower(t) \/ SetWalked(t) \/ PutSet(t) \/ CountSet(t)
WalkStep(t)   ==
    \/ WalkStart(t) \/ WalkLevel(t) \/ WalkMisses(t) \/ WalkMissed(t)
    \/ FindHits(t) \/ DeleteHits(t) \/ DeleteFails(t) \/ DropCount(t)
CopyStep(t)   ==
    \/ SnapshotSum(t) \/ SnapshotAllocate(t) \/ SnapshotCopy(t)
    \/ SnapshotCopied(t) \/ SnapshotEnd(t)

\* A thread in a call goes on.
Step(t) == WriteStep(t) \/ InsertStep(t) \/ SetStep(t) \/ WalkStep(t) \/ CopyStep(t)

Begin(t) ==
    \/ t \in Inserters /\ WriteStart(t, "insert")
    \/ t \in Setters /\ WriteStart(t, "set_value")
    \/ t \in Deleters /\ DeleteStart(t)
    \/ t \in Finders /\ FindStart(t)
    \/ t \in Snapshotters /\ SnapshotStart(t)

\* What thread t looks for is in the list of no level, counted or not.
Missing(t) ==
    \A l \in Levels :
        LET e == entry[l][key[t]]
        IN  e = NULL \/ (op[t] = "delete_key_value" /\ e # item[t])

Noted ==
    absent' = [t \in Threads |-> op'[t] \in {"find", "delete", "delete_key_value"}
                                 /\ (absent[t] \/ Missing(t)')]

Next == (Destroy \/ \E t \in Threads : Begin(t) \/ Step(t)) /\ Noted

Spec == Init /\ [][Next]_vars

\* A thread in a call is scheduled again; nobody has to begin one.
FairSpec == Spec /\ \A t \in Threads : WF_vars(Step(t) /\ Noted)

-----------------------------------------------------------------------------
(* Properties *)

\* Every variable stays in its range.  The counters are signed words in the code:
\* no path lowers one that it has not raised.
TypeOK ==
    /\ first \in Levels /\ lists \subseteq Levels \X (0..BucketCount(MaxLevels) - 1)
    /\ count \in [Levels -> Nat] /\ pend \in [Levels -> Nat]
    /\ entry \in [Levels -> [Keys -> Makers \cup {NULL}]]
    /\ Lock!TypeInvariant
    /\ key \in [Threads -> Keys \cup {NULL}] /\ item \in [Threads -> Makers \cup {NULL}]
    /\ top \in [Threads -> 0..first] /\ lvl \in [Threads -> 0..first]
    /\ toTop \in [Threads -> BOOLEAN] /\ absent \in [Threads -> BOOLEAN]
    /\ left \in [Threads -> Nat]

\* A key is in one level at most, although levels are added while inserts look
\* for it below and put it on top (get_first_bucket_array, insert, set_value).
OneLevelPerKey ==
    \A k \in Keys : Cardinality({l \in Levels : entry[l][k] # NULL}) <= 1

\* Threads that have counted an item of level l that is not in its list yet or any
\* more; that have put one in and not counted it; that have an insert or a set_value
\* under way in level l.
Counting(l) == {t \in Threads : \/ top[t] = l /\ op[t] = "insert"
                                   /\ pc[t] \in {"list", "publish", "put", "uncount"}
                                \/ lvl[t] = l /\ pc[t] = "drop"}
Uncounting(l) == {t \in Threads : top[t] = l /\ pc[t] = "count_set"}
Pending(l) == {t \in Threads : /\ top[t] = l
                               /\ pc[t] \in {"wait", "search", "set_find", "set_lower", "list",
                                             "publish", "put", "count_set", "uncount", "unpend"}}

\* item_count is the number of items in the lists, but for what a call has counted
\* and not put in yet or takes back, has taken out and not uncounted yet, or has put
\* in and not counted yet; pending_insert_count is the number of calls that are under
\* way.  So no path through insert and set_value, failures included, leaves a count
\* behind for which find would look in vain or a later insert would wait for ever.
CountsExact ==
    \A l \in Levels :
        /\ (\A t \in Threads : pc[t] # "destroyed") =>
               count[l] = Cardinality(Stored(l)) + Cardinality(Counting(l))
                          - Cardinality(Uncounting(l))
        /\ pend[l] = Cardinality(Pending(l))

\* find, delete and remove answer "not found" only if at some moment of the call the
\* key was in the list of no level: no walk misses a key that was there all along because
\* a level was passed over or a new one was put in front.  With LateCount one does: it
\* passes over a level that has the key, put by a set_value that has yet to count it.
NotFoundJustified == \A t \in Threads : pc[t] = "missed" => absent[t]

\* A snapshot that succeeds has every item of the table, once, and the array it
\* allocated from the counts is never too small for the lists.
SnapshotComplete ==
    \A t \in Snapshotters :
        /\ pc[t] # "overflow"
        /\ pc[t] = "copied" =>
              /\ left[t] = 0
              /\ got[t] = UNION {{<<l, k, entry[l][k]>> : k \in Stored(l)} : l \in Levels}

\* Every call returns: what waits for the inserts of the level below is not left
\* waiting, as these do not wait for the level above.
CallsReturn ==
    \A t \in Threads : pc[t] \notin {"idle", "destroyed"} ~> pc[t] \in {"idle", "destroyed"}
=============================================================================
