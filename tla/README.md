# A TLA+ model of clds

`clds` is a C library of lock free data structures: hazard pointers, a singly
linked list, a sorted list, a hash table, an LRU cache, a lock-free set and a
multiple producer, single consumer queue. This directory holds TLA+ modules
translated from `src/src/*.c`, the TLC runs that check them on small instances,
and proofs, checked by TLAPS, of what holds for every instance. Line numbers
below are those of the file that is being discussed.

- [Inventory](#inventory): the parts of the system, their state and what is hard about them
- [Modules](#modules): which module models which code, and how
- [Runs](#runs): what each run checks, its bounds and why they are enough
- [Fairness](#fairness)
- [Proofs](#proofs)
- [Disagreements found](#disagreements-found)
- [What is not modelled](#what-is-not-modelled)
- [Plan](#plan)

## Inventory

Everything the library does happens in the threads of its callers, through
interlocked operations on shared words; the only thread of its own is the
clean-up worker of the hazard pointers. The parts stand on each other:

    lru_cache            mpsc_lock_free_queue     lock_free_set
        |
    clds_hash_table ---- write lock
        |
    clds_sorted_list --- write lock      clds_singly_linked_list
        |                                     |
        +------------ clds_hazard_pointers ---+
                       |            |
          clds_st_hash_set   inactive_hp_thread_queue, worker thread

**Hazard pointers** (`clds_hazard_pointers.c`). State: the list of registered
threads and their `active` flags; per thread the hazard pointer records in use
and those to be used again, and the retired nodes it has not reclaimed yet; for
the domain the list of retired nodes that unregistered threads handed over, the
epoch, the number of running reclaim calls, and the queue of inactive threads
that wait to be freed. Operations: create, destroy, register and unregister a
thread, acquire and release a hazard pointer, reclaim a node, set the reclaim
threshold, and the worker's pass over the list of threads. Hard: every list is
walked by one thread while others change it; a record is put on another list
through the field a scan is following; a node is judged by hazard pointers read
earlier. Correct when: a protected node is not reclaimed; every retired node is
reclaimed once; an active thread is not missed by a scan; a thread object is not
freed while a scan can reach it.

**Singly linked list** (`clds_singly_linked_list.c`). State: the head, and per
item its next, whose low bit is the delete mark, and its reference count.
Operations: insert, delete, delete_if, find, node create, inc_ref and release,
destroy. It calls the hazard pointers, and they call it back to drop the list's
reference. Hard: deletes and inserts at neighbouring links; a link that was read
before its target was protected; memory that comes back under the same address.
Correct when: no item is lost, kept or brought back; no freed item is touched;
the reference count is exact; "not found" is true.

**Sorted list** (`clds_sorted_list.c`). The same, ordered by key with one item
per key, and with set_value, which replaces an item by one compare-and-swap;
remove_key, which returns what it took out; a sequence number for every
operation and a callback for numbers that were drawn in vain; and a lock that
keeps writes out while the list is counted or copied. Hard: as above, and the
numbers: what is skipped, what is reported, what they say about the order.
Correct when: keys ascend; every operation is atomic on its key; every number is
told once; what takes an item out has a higher number than what put it in.

**Write lock** of the sorted list and of the hash table, the same code in both
files: `locked_for_write`, `pending_write_operations`, wait and wake on their
addresses. Hard: a wait on a value that changes before the sleep, wakes that
come too early, back-off. Correct when: no write overlaps a holder, every
locker and every writer goes on in the end.

**MPSC queue** (`mpsc_lock_free_queue.c`). State: the producers' stack, the
consumer's list, next fields. Operations: enqueue, dequeue, peek, is_empty.
Hard: the stack is reversed in pieces while producers push, and items come back
under the same address. Correct when: it is a FIFO queue.

**Hash table** (`clds_hash_table.c`). State: a chain of bucket arrays
("levels"), each with its count of items and of pending inserts and a sorted
list per bucket; a full level gets a larger one in front of it. Operations:
insert, delete, delete_key_value, remove, set_value, find, snapshot, destroy.
Hard: a key must live in one level only, while levels are added and inserts
wait for inserts into the level below; find skips levels whose count is 0;
set_value replaces in the level where the key is; every path through a failing
insert gives back what it counted. Correct when: a key is in one level at most;
find sees a key that is there; the counts are what the lists and the calls
under way account for; a snapshot holds every item once; nobody waits for a
pending insert that never ends.

**LRU cache** (`lru_cache.c`). State: a hash table, a doubly linked list in the
order of use, the current size, a reader-writer lock. Operations: put, get,
evict, and the eviction loop of put. Hard: the loop takes the lock anew every
time; an eviction that fails; the sum of sizes at its limits. Correct when: the
size is the sum of the sizes of the entries, list and table have the same
entries, the size is seen to when put returns, and only what was used longest ago makes room.

**Lock-free set** (`lock_free_set.c`). State: a doubly linked list with marks in
both links. Operations: insert, remove, purge. Hard: neighbours that are removed
at once; marks that are taken back; waits for another thread's step. Correct
when: what is inserted and not removed is in the list, both ways; a mark
belongs to the remove that set it; nothing is touched after its remove returned;
no two operations wait for each other.

**Single-threaded hash set** (`clds_st_hash_set.c`): the set of hazard pointers
that a reclaim cycle builds; sequential. **Inactive thread queue**
(`inactive_hp_thread_queue.c`): an instance of an external queue template.

**Thread helper** (`clds_hazard_pointers_thread_helper.c`). State: a thread-local
slot with the handle of each thread. Operations: create, get_thread, the
notification that a thread ends, destroy. Hard: get_thread fails between two of
its steps. Correct when: a thread is registered once while its slot has a handle, and not otherwise.

The hazards of all of them, each at its line and with the properties that would
catch it going wrong, are the list `hazards` in `PROJECT.json`.

## Modules

In all modules an action is one access to memory that another thread can
observe, together with the private steps around it; `pc` says where in its
function a thread is. A retry loop around a compare-and-swap that only pushes is
one action where the loop has no other effect. Definitions introduced by
`\* Mutant:` are wrong on purpose: each is a plausible mistake in the operator
that follows it, and the property listed with it in `PROJECT.json` fails when it
takes that operator's place.

| module | models | and is used by |
|---|---|---|
| `HazardPointers` | `clds_hazard_pointers.c` | `MCHazardPointers`, `HazardPointers_proofs` |
| `SinglyLinkedList` | `clds_singly_linked_list.c` | `MCSinglyLinkedList`, `SinglyLinkedList_proofs` |
| `KeyMap` | what the sorted list promises: a map whose calls take effect at one instant each | `SortedList` |
| `SortedList` | `clds_sorted_list.c` but for its write lock | `MCSortedList`, `SortedList_proofs` |
| `GroupLock` | what the write lock promises | `WriteLock`, `HashTable` |
| `WriteLock` | `clds_sorted_list.c` 93-140, `clds_hash_table.c` 61-107 | `MCWriteLock`, `WriteLock_proofs` |
| `FifoQueue` | what the queue promises | `MpscQueue` |
| `MpscQueue` | `mpsc_lock_free_queue.c` | `MCMpscQueue`, `MpscQueue_proofs` |
| `HashTable` | `clds_hash_table.c`; its lock is an instance of `GroupLock` | `MCHashTable`, `HashTable_proofs` |
| `Lru` | what the cache promises | `LruCache` |
| `ThreadHelper` | `clds_hazard_pointers_thread_helper.c` | `LruCache` |
| `LruCache` | `lru_cache.c` | `MCLruCache`, `LruCache_proofs` |
| `LockFreeSet` | `lock_free_set.c` | `MCLockFreeSet`, `LockFreeSet_proofs` |

### HazardPointers

`head`, `next`, `active` are the registry; `pointers`, `freePointers`, `recNode`,
`recNext` the records of each thread, linked as in the code, because a release
moves a record from one list to the other through the field that a scan of
another thread may be about to read (195, 728). `reclaimList`, `pendingList`
(the hand-over list) and `chain` (what a cycle has detached) are sets: their
order is of no consequence. `inactive`, `epoch`, `pendingCalls` and `scheduled`
are the clean-up of thread objects, and `wpc`, `waddr`, `wcur`, `wep` its worker.
internal_reclaim is `ReclaimEnter`, then the scan (`ScanHead` to `ScanFails`), the
sweep of the thread's own nodes, the detach, sweep and re-park of those handed
over, and the epoch (`EpochRead` to `FreeThreads`); unregister is
`UnregisterHandOff` and `UnregisterDeactivate`.

The client is the one the lists are: it reads a pointer to a linked node, acquires,
and reads again (`Validate`); it unlinks a node before it retires it. `valid` are
the records whose node it found unchanged. Constants give threads roles
(`Readers`, `Retirers`, `Leavers`), because the two disagreements below need
threads that do particular things, and a run that is to pass must leave those
out. `OldestFirst` says that a client lets go of its older record first, which
all walks in this library do; with FALSE a scan that follows `next` of a record
released meanwhile walks over to the free list and misses a record in use
(reclaimed while protected). The code asks nobody to keep to that order, but
nobody in the repository does otherwise.

### SinglyLinkedList, SortedList

A link is a record of a pointer and the delete mark. `prev`, `cur` and `nxt` are the
locals of a walk, `HEAD` stands for the address of the head. `pc` "walk" is about
to read a link, "check" to read it again, then "mark_read", "mark", "unlink",
"unmark", "retire" for what takes an item out; "cas" in the sorted list for what
puts one in. The walks of delete, remove, find, insert and set_value are one set
of actions, as they are the same code but for where they stop (`Matches`,
`Passed`). In `SinglyLinkedList` the two kinds of match of delete are one, the item.

Of the hazard pointers these modules take what `HazardPointers` states: a node is not
given to the reclaim callback while somebody protects it through a pointer he
read again after publishing. `guards` is the set of such nodes. A pointer that was
acquired but not read again is not in it, so nothing is assumed of the window
between the two. `ReclaimNode` runs the reclaim callback for any retired,
unprotected node at any time, which is more than the real cycle does.

History variables: `absent` says that what a call looks for was not there at some
moment since it began; `born` is the number an item was put in with; `open` are the
numbers nobody has been told of. "astray" in `SinglyLinkedList` is where the
code would use a pointer with its low bit set: the behaviour is undefined from
there, so the thread stops. `RereadsNext` is TRUE for a build that loads
`item->next` after insert's compare-and-swap (see below).

In `SinglyLinkedList` an item stands for its address: with `Reuse` a freed one may
be allocated again, which is what makes ABA possible. In `SortedList` an item is
one of the copies a client makes for a key. Its clients release what they were
given before their next call, and nobody takes out a key whose own item is
being set again, which is how the tests use it (the item states of the chaos
test in `tests/clds_sorted_list_int`): set_value of the item that is in the list already hands
the list the client's reference and cannot tell that the item was removed before.

`KeyMap` is a map with calls. `Begin` notes what a thread asks for and with which key
and item; then the call takes effect in one step, which is one of `PutNew`, `PutSame`, `Change`, `Find`
and depends on what it is: an insert puts its own item where its key has none, a set_value its own
item in place of what its key has, a remove, delete_key or delete_item takes its key's item out (delete_item
only the one it was given). A put where there was nothing ends the call in the same step;
otherwise `found` is what the call took out, replaced or found, and `Finish` returns it. A call whose
`found` is set can have no second effect. `GiveUp` ends a call that had none. `GetAll` is done by a caller that holds the lock, `Release` gives a
reference back, and `Destroy` empties the map when nobody is in a call.

`SortedList!Map` is the refinement: an entry is the item reachable from the head that has the key, and
`found` is `Obtained`: what a thread has unlinked and not retired yet, or is about to count its client's reference of.
`ImplementsKeyMap` says that the list's steps are those of such a map, so that a call changes
the entry of its own key only, in the way its name says, once, and returns what it
changed. Together with `NotFoundJustified` (an answer "not found"
was true at some moment of the call), `WellFormed` and `MemorySafe` it is what
a client sees of the list.

### WriteLock

Both counters, and for each thread the value it read last: a wait compares the
word with that value and goes to sleep in one step, as the platform promises.
`Spurious` lets it return without a wake. `MaxLocks` bounds how often a locker
locks: with lockers that come back for ever, one can starve another, as the code
gives no order between them. get_count and get_all require their caller to hold
the lock; a caller that asks while another still waits for it is not modelled.

### MpscQueue

`enqueue_head`, `dequeue_head` and `next` as in the code, because items are
enqueued again as soon as they were dequeued. `Detach` is the exchange of the
stack, `ReverseItem` one turn of the loop, `DequeuePublish` and `PeekPublish` the
end of it. `Queued` maps the state to the abstract queue: the consumer's list,
then what is being reversed, then the stack. `TypeOK` includes that an item is in
one place: some set of items holds all that the queue's pointers lead to, one
pointer to each, and none that a client or a producer has.

### HashTable

`first`, `count` (item_count), `pend` (pending_insert_count), `lists` (the buckets that have a list)
and `entry` (per level and key what the bucket's list holds) are the table; levels are
numbered from the oldest, so that `first` is first_hash_table and "below" is
next_bucket. A call on a bucket's sorted list is one step, because `SortedList`
implements `KeyMap`; the lock is an instance of `GroupLock`, because `WriteLock` implements it.
Everything else is one access to a shared word at a time: reading first_hash_table,
comparing the counts, putting a new level in front, raising the pending count, the
turns of the wait for the level below, the walk down, the count before the put,
the publication of a bucket's list and losing that race, the put, and the way
back of every failure. set_value walks down with `toTop`, the local that says whether the
value goes into the top level; snapshot sums the counts, allocates and copies list after list.

Three constants name what the code does and the passing run leaves out, because with it a
property below is false: `LateRaise` (a level is put in front between another thread's reading of the
old one and its raising of the count), `LateCount` (between set_value's put of a new item and its
counting of it the item is deleted, or its level passed over because its count is 0), `BlindFind` (find_key fails for want of a hazard
pointer and the caller takes it for "not there"). They are guards on the step that
would do it and change nothing else. An item stands for the thread that made it, which is all
that delete_key_value and set_value tell apart.

### LruCache, ThreadHelper, Lru

What a call of the cache does between acquire and release of the lock is one
action; the lock is given up before every turn of the eviction loop, so a put is its store
and then any number of turns, each its own action. `Exceeds` is the test at the
top of a turn. Failures are actions: of the thread helper, of the client's
copy, of the table in put (`PutFails`), get and evict, and of the eviction itself
(`EvictFails`), after which put returns with the cache too full and `gaveUp` records it.
Branches that log that something is wrong have no action; `SizeExact` says that they are never taken.

`ThreadHelper` is composed as an instance: a call of the cache begins with get_thread,
which registers the thread, stores the handle in the slot or undoes the registration.

`Lru` is the abstract cache: keys in the order of their use and the weight of each.
A key may come or move only on behalf of a put or get of that key under way, may go on behalf
of an evict, and otherwise only the oldest goes while the weights exceed the capacity.

### LockFreeSet

Both links as pointer and mark. The two ways of remove, for an item in front and for
one further back, are the "head_" and the "mid_" places of `pc`; a back-off puts
marks back one access at a time (`UnlockNext`, `UnlockPrev`) and starts again. Turns
of a loop that only waits are no steps. Clients insert an item only while it is theirs and
remove what is in the set, once; `MaxInserts` bounds how often an item is inserted.
`present` and `gone` are history: what is in the set, and what clients have back.

## Runs

`tlc -config X.cfg M` in this directory; the names are those in `PROJECT.json`.

| run | module | distinct states | question |
|---|---|---|---|
| `HpDomain` | `MCHazardPointers` | 923,866 | Two threads that walk, retire, hand over, reclaim and fail to allocate, beside the worker: is anything protected reclaimed, anything retired lost or reclaimed twice? |
| `HpRegistry` | `MCHazardPointers` | 655,970 | Registering, unregistering and the worker against a scan: does it miss an active thread or touch a freed one? |
| `HpHandOver` | `MCHazardPointers` | violated | Is a node that is handed over during a cycle safe from that cycle's scan? |
| `WriteLock` | `MCWriteLock` | 83,100 | Do writers and lock holders exclude each other, is a wake missed, do both sides get through? |
| `MpscQueue` | `MCMpscQueue` | 43,328 | Is the queue a FIFO queue, is an item in one place, does some enqueue always get through, does every item arrive? |
| `SllSafety` | `MCSinglyLinkedList` | 1,975,465 | Inserts, deletes and finds of neighbours whose memory is reused: is an item lost, kept or touched after it was freed? |
| `SllProgress` | `MCSinglyLinkedList` | 68,166 | Does every call return? |
| `SortedList` | `MCSortedList` | 723,154 | Are the operations those of a map, each at one instant; do the numbers add up; is freed memory left alone? |
| `HashTable` | `MCHashTable` | 459,721 | Is a key in one level only, are the counts right, is a key missed or a snapshot incomplete, does every call return? |
| `HashTwoLevels` | `MCHashTable` | violated | Is a key in one level only if a thread is late to raise the pending count? |
| `LruCache` | `MCLruCache` | 120,594 | Do list, table and size agree, is the size seen to, does the right value go, is each thread registered once? |
| `LockFreeSet` | `MCLockFreeSet` | 188,212 | Do both links stay in order, do marks stay with their owner, is a removed item left alone, does a call return unless removes turn each other back for ever? |

Bounds, and why they are enough for what is asked:

- `HpDomain`: two threads, two nodes, two records per thread, both thresholds,
  every allocation may fail. Two records make the walk hand over hand; two nodes
  let one be protected while the other goes; both threads retire, leave and
  reclaim, so that hand-over, detach and re-park meet a running cycle of the other. A re-park that
  meets a third thread's hand-over is beyond this instance and rests on the proof of `Conservation`.
- `HpRegistry`: three threads, so that the worker unlinks one in the middle, while one
  registers and one scans; one of them retires only, because with two that do, the
  epoch is advanced too early (see below).
- `WriteLock`: two writers that write for ever, two lockers that lock twice each, so
  that holders overlap and a lock is taken again while a writer backs off.
- `MpscQueue`: three producers and three items: a producer can be overtaken by an
  item that went around the queue while another pushes, and a reversal has a
  first, a middle and a last item.
- `SllSafety`: three items, one inserter, two deleters, one of them finds; reuse.
  Neighbours that are deleted at once need two items, a predecessor that survives
  needs a third. `SllProgress`: two items, as liveness is checked without symmetry.
- `SortedList`: two threads, one of which inserts and removes while the other sets,
  deletes, finds or reads all; two keys of two items each, one loaded before; four numbers, that
  is three operations that draw one, or fewer with repeated ones. The races that matter are
  between two calls and their neighbours. What needs three calls at once (two
  deletes of neighbours and an insert between them) is checked on the singly
  linked list, whose delete is the same code. Beyond `MaxSeq` no operation that
  needs a number begins.
- `HashTable`: two threads, both of which insert; one deletes and takes snapshots, the
  other sets and finds; two keys that fall into one bucket of the oldest level and two of
  the next; three levels of 1, 2 and 4 buckets, one key in the oldest at first. Three levels are needed for an
  insert that waits for the level below while another one is still in the level
  below that. `HashTwoLevels` has two levels, which is what the violation takes.
- `LruCache`: two threads, three keys of sizes 1, 2 and 4 and a capacity of 3: one value that
  does not fit, two that fit together, and puts that must evict more than one;
  `IntMax` 5, so that the sum meets its limit. With three threads TLC finds no error
  either (2,406,984 states, in about four minutes, which is why it is not the run).
- `LockFreeSet`: three threads that remove and two that insert three items, one of them
  twice: a remove between two others, an insert in front of a remove of the head, and
  an item that comes back while another thread still works on its neighbour.

`CHECK_DEADLOCK FALSE` stands in the runs of the two lists, the hash table, the
cache and the set: there all stops when the structure was destroyed, or when the items or the
numbers are used up. That nobody is stuck before is what the `CallsReturn` of the list and the table and `ReturnsUnlessTurnedBack` of the
set say. The other models never stop: after destroy `HazardPointers` stutters explicitly.

The runs that are expected to be violated are the disagreements below.

## Fairness

- `WriteLock`: weak fairness of each thread's steps once it began an operation: a running thread is
  scheduled again. Nobody has to begin a write or a lock, and spurious returns do not go on for ever.
- `MpscQueue`: the same for a producer inside enqueue and a consumer inside an
  operation. `EveryItemDequeued` needs also a consumer that keeps calling
  dequeue: the queue cannot call itself.
- `SinglyLinkedList`: weak fairness of each thread inside a call. `CallsReturn`
  holds as inserts are finitely many: a thread that pushes for ever can turn
  the delete of the first item back for ever, as in every lock free list.
- `HashTable`: weak fairness of each thread inside a call; nobody has to begin one.
- `LockFreeSet`: weak fairness of each thread's steps inside a call, and nothing stronger, as the code has no delay
  that would give more. That every call returns is then false, and not claimed: TLC finds a remove of the head that
  waits to mend a link, an insert that waits to set one, and the neighbour's remove, which
  marks its links, backs off and marks them again, so that the other two look just when a mark is there. `ReturnsUnlessTurnedBack`
  says that this is all that goes wrong: a call returns if no more calls are made beside it, and
  all return if removes stop backing off.
- `LruCache` has no liveness property: a put may evict for as long as others put, and
  the code promises no more.
- `HazardPointers` has no liveness property: a scan follows the records of a thread
  that walks hand over hand and can chase them as long as that walk goes on.

## Proofs

TLAPS proves, for every value of the constants (any number of threads, nodes, records,
writers, lockers, items, keys, levels):

| theorem | says |
|---|---|
| `HazardPointers_proofs!TypeCorrect` | the model is well typed and no step follows a NULL cursor |
| `HazardPointers_proofs!Conservation` | a retired node is in one place, never lost and never twice |
| `HazardPointers_proofs!RecordLists` | between calls the list a scan reads has the records the client holds, and each record is in one place |
| `HazardPointers_proofs!ActiveThreadsListed` | a walk from the head of the registry meets every registered, active thread |
| `HazardPointers_proofs!NothingLeftBehind` | destroy reclaims every node that is retired |
| `HazardPointers_proofs!RegistryIsSound` | a scan misses no active thread and touches no freed one, with one thread that reclaims |
| `HazardPointers_proofs!ProtectedNodesAreNotReclaimed` | a node in use through a validated hazard pointer is not reclaimed, if records are released oldest first and no leaving thread hands nodes over |
| `WriteLock_proofs!TypeCorrect` | the counters stay at 0 or above |
| `WriteLock_proofs!CountersExact` | each counter is the number of threads it stands for |
| `WriteLock_proofs!WritersExcluded` | no write overlaps a holder of the lock |
| `WriteLock_proofs!WakesArrive` | nobody sleeps on a word that is 0 without a wake on its way |
| `WriteLock_proofs!LockImplementsGroupLock` | the counters implement the group lock |
| `SinglyLinkedList_proofs!ListStaysIntact` | no item is dropped, kept or brought back, and a mark in the list belongs to one delete; this and the next four unless `RereadsNext` |
| `SinglyLinkedList_proofs!MemoryIsSafe` | no call touches a freed item, and each reference count is the number of references |
| `SinglyLinkedList_proofs!NotFoundIsJustified` | who answers "not found" has seen a moment without his item |
| `SinglyLinkedList_proofs!TypesAreCorrect` | the types, and no reference count below zero |
| `SinglyLinkedList_proofs!ListIsASet` | the list changes where an insert puts in its item, once, or a delete that succeeds takes out its own, and in destroy only |
| `SortedList_proofs!EveryNumberToldOnce` | a sequence number that was drawn is told once, with its result or as skipped |
| `SortedList_proofs!ListIsWellFormed` | the keys grow along the list, and the link of a marked item is its marker's; this and the next five unless `Reinsert` |
| `SortedList_proofs!NotFoundIsJustified` | who answers "not found" has seen a moment without what it looks for |
| `SortedList_proofs!MemoryIsSafe` | no call touches a freed item, and each reference count is the number of references |
| `SortedList_proofs!NumbersAreTrue` | what takes an item out has a higher number than what put it in |
| `SortedList_proofs!TypesAreCorrect` | the types and the bounds of the counters, and no step on a NULL item |
| `SortedList_proofs!ListImplementsKeyMap` | the list is a `KeyMap`: each call has one effect, on its own key, and returns what it took or found |
| `MpscQueue_proofs!ItemsHaveOnePlace` | an item is with a client, in one enqueue or once in the queue, although items come back |
| `MpscQueue_proofs!QueueIsFifo` | the queue is a FIFO queue, each operation at one instant |
| `HashTable_proofs!CountsAreExact` | item_count and pending_insert_count are what the lists and the calls under way account for |
| `HashTable_proofs!SnapshotsAreComplete` | a snapshot that returns OK has exactly the keys of the table |
| `HashTable_proofs!TypesAreCorrect` | no count goes below zero, unless `LateCount` |
| `HashTable_proofs!KeysInOneLevel` | a key is in one level at most, unless `LateRaise` or `BlindFind` |
| `HashTable_proofs!NotFoundIsJustified` | who answers NOT_FOUND saw the key in no list at some moment, unless `LateRaise`, `LateCount` or `BlindFind` |
| `HashTable_proofs!TableIsAMap` | the levels are one map: an insert finds its key in none of them when it puts its item in, and each write changes what there is of its own key only, unless `LateRaise` or `BlindFind` |
| `LruCache_proofs!SizeIsSeenTo` | the cache is too full only while somebody evicts, or since the table failed an eviction |
| `LruCache_proofs!RegisteredOnce` | a thread is registered once while its slot has a handle, and not otherwise |
| `LruCache_proofs!ListIsTable` | the list has the nodes of the table, each once |
| `LruCache_proofs!SizeIsExact` | `current_size` is the sum of the sizes of what the list and the table hold |
| `LruCache_proofs!TypesAreCorrect` | the sum stays between 0 and INT64_MAX, and a waiting thread knows what it runs |
| `LruCache_proofs!CacheIsLru` | the cache is an `Lru`: only the value used longest ago makes room, and never the only one |
| `LockFreeSet_proofs!MarksAreHeld` | marks stay with the thread that set them until it takes them off |
| `LockFreeSet_proofs!SetStaysIntact` | the next links lead through the items of the set, each once, and the links back are right where no call is at work |
| `LockFreeSet_proofs!RemovedItemsAreLeftAlone` | nobody reads or writes a link of an item whose remove has returned |

The assumptions are those in the modules: records and constants have the right kind, the
cache's keys are finitely many (`KeysAreFinite`), and the sets of threads
(`ThreadsAreFinite` of `HazardPointers`, `SinglyLinkedList` and `SortedList`), of writers and lockers, of the
table's threads and keys, and of the set's items (`ItemsAreFinite`) are finite.
`BucketsAssumption` of `HashTable` says that a level has a positive number of buckets: the
provers know nothing of powers of 2. `LoadedAreNumbered` of `SortedList` says that
`MaxSeq` leaves room for the numbers of the items that are there at first. TLC evaluates
all of them in the runs. What a theorem needs beyond them stands in it as a hypothesis: a
constant that names a window of the code which makes the property false (`LateCount`,
`LateRaise`, `BlindFind`, `Reinsert`, `RereadsNext`), or a choice of roles (`OneReclaims`, `NoHandOver`,
`OldestFirst`). Without it TLC finds the property violated: see [Disagreements
found](#disagreements-found) and, on `OldestFirst`, what is said of `HazardPointers`
above.

Induction comes in through one lemma, `LeastNat`: a set of natural numbers that is not
empty has a least element, as `<` is well founded on them. What a recursive function
computes, and what is reachable along `next`, is proved by assuming a set of bad numbers
and looking at its least one.

`Conservation` is proved by the invariant `TypeOK /\ EachNodeOnce /\ ChainInHand`.
`EachNodeOnce` alone is not inductive: the step that detaches the hand-over list
overwrites the thread's chain, and the one that begins an unregistration assumes there is
none; `ChainInHand` says that only a thread between "sweep_pending" and "repark" has a
chain. Most steps leave all of it unchanged and are dealt with by one frame lemma; a
thread's own move between its places is `ThreadMoves`, destroy `DestroyConserves`.

`RecordLists` follows every record a thread has through acquire and release
(`RecordsInv`): `HeldOK` says that the links lead through the records in use in the order
in which they were acquired, newest first, `Spliced` what is so in the middle of a
release, and `FreeOK` that the free list stays among records that are not in use and meets
none twice. `RegistryInv` does the same for the list of threads: the links lead from the
head through all threads that were born and neither freed nor in the worker's hands. That
a walk meets all of them (`ActiveListed`) is where `Listed`, a recursive walk, is compared
with that set. `NothingLeftBehind` needs `Conservation` and `NoneOutside`: a thread that
is not registered has no retired node of its own, and only an allocation that failed has
dropped one.

`RegistryIsSound` has one thread that reclaims (`OneReclaims`). `FreeingOK` counts what
pending_reclaim_calls stands for (`CallsOK`), says of the queue that what an unlinked
thread object's next leads to is in the list or was unlinked after it, so that it is freed
after it (`QueueOK`), and that a scan stands on threads that are born and not freed, and
in the list while the worker is about to free (`ScanOK`). With two that reclaim the
theorem is false: the epoch is advanced on a count that was 0 a moment before.

`ProtectedNodesAreNotReclaimed` is about any number of readers and of threads that
reclaim. `CoverOK` is its heart: while a cycle collects, each hazard pointer to a node it
may reclaim has been collected, or is still ahead of the scan, in a thread it will meet
(`Reach`) or further down the list of records it walks. Only a release of the oldest
record leaves what is ahead where it is, which is what `OldestFirst` is for; `NoHandOver`
leaves out the hand-over list, as `HpHandOver` violates the property. The theorem does not
assume `OneReclaims`: where a scan stands on a thread object that is freed, the object is
taken to keep what it held, and that it is not freed is what `RegistryIsSound` says of the
smaller set of roles.

The lock's invariant is `InRange`, `CountersAgree`, `Exclusion`, `SawTaken` and `NoMissedWake`.
The counters are cardinalities of sets of threads, so that each step shows which
thread enters or leaves which set (`OneMore`, `WriterMoves`, `LockerMoves`). `Exclusion`
follows: a locker that reads 0 pending writes knows that no writer is past its own
increment, and a writer that reads 0 locks that no locker is past its. `SawTaken`,
that a waiting thread waits on a value above 0, is needed for the wakes: a sleep
begins only while the word still has that value.

The singly linked list has no order of keys that its links could follow. It is taken for
the least set that holds what the head leads to and what its own items lead to (`Chain`),
which is what `InList` reaches (`ChainIsReached`). An item is ahead of a place if every set
that is closed from there on holds it (`Ahead`). Pushing at the head, cutting an item out and
setting or clearing a mark keep a list a list (`ChainPush`, `ChainCut`, `ChainKept`); that two
links never lead to the same item is what makes the cut right.

The invariant `LInv` adds what each call knows. A mark has one owner from the marking to the
retiring, and while it is there nobody else writes the link (`Owns`): so what a delete
swings into its predecessor is still the item's successor. What a hazard pointer protects
was in the list when it was read again, so it has the list's reference, which the reclaim
callback alone gives back (`Stands`, `Listed`). While the item that a walk looks for is in the
list it stays ahead of the walk, or the walk stands on an item that is out and still leads
on, where it meets the mark (`Looks`). A step is judged once against all other calls (`Progress`,
`ProgressKeeps`), so each action has one lemma about its own thread. `CInv` counts: `ref` is
the number of finds that have not released the item, and one for the list if the item is in
it, out and not yet reclaimed, or about to be put in (`Counted`). `ListIsASet` reads the changes
of the set off `Progress`: an insert returns only after its own compare-and-swap has succeeded,
as it compares what it found with the value loaded before. With `RereadsNext` it does not,
and TLC finds `ListIntact` and `ListIsASet` violated. `IInv` and what `ListIsASet`
states hold on the instance of `SllSafety` too, where TLC was asked before they were proved; they are not
properties of a run, nor is `TableIsAMap`, of which the same is true.

Every step of the sorted list tells the number of its call, draws one for it, or leaves
the numbers alone (`Tells`, `Draws`, `Keeps`); `EveryNumberToldOnce` follows from these
three and from `Drawn`, that a find and an idle thread have no number.

The other theorems on the sorted list rest on `LInv`. It takes the list for a set of items
with links that lead from each to the one with the next key (`Sorted`), and such a set is
exactly what `InList` reaches. Around it stand `Shapes` (types), `Heap` (what was taken
out stays marked, and points to what is or was in the list), and what each call knows:
what it was given (`Args`), what the items are that it stands on (`Stands`), what it wrote
or marked (`Holds`), that its item is its own (`Owns`), and that it has not walked past
what it looks for (`Looks`). `Apart` says that two calls do not hold the same mark, item
to retire, or item to put in. A step of one call is judged once, against what it may do to
all the others (`Progress`, with its `Effect` on the list), and `ProgressKeeps` shows that
nothing an `Effect` does takes from the others what they know; so each action has one
lemma, about its own thread.

`MemoryIsSafe` adds `CInv`: a reference count is the number of the clients that were given
the item, the calls that are about to put it in, and the list, as cardinalities of sets of
threads. `NumbersAreTrue` adds `BInv`: a number that a call drew is in no item before the
call is done, and the number of a call about to take an item out is above the item's
(`Earlier`). `ListImplementsKeyMap` reads the map off `Sorted` (`EntriesAre`): a step that puts in or
takes out (`PutsIn`, `TakesOut`) does it under the key of the call, with the call's item. What is new
in it is what a call has obtained: `ObtainedMoves` says which steps give a call
something, and all others leave the map and what was found alone (`InnerStutters`). `HisInv` is
needed for delete_item, which compares and marks in different steps: what it goes on with is the item it was given. Each
kind of step has a lemma that names the action of the map it is (`CasMaps`, `UnlinkMaps`, `SameItemMaps`, `FindMaps`,
`FinishMaps`, `GiveUpMaps`, `BeginsMap`, `ClientMaps`, `DestroyMaps`). All of them assume
`~Reinsert`; with it `NoneLost` is violated, and the invariant's `Owns` and `Heap` with
it, as an item that is put in again loses the mark that others rely on.

`ItemsHaveOnePlace` needs no more than `TypeOK`, in which a set `S` of items stands for what
is reachable: it is closed under `next`, one pointer leads to each member, and none of
its members is a client's or a producer's. Each action names the set after it; a
compare-and-swap on an address that came back adds its item to whatever the stack has become.

`QueueIsFifo` takes the whole queue for one sequence `q` of items with three cuts
(`Line`): what has been reversed already, what the consumer detached and has yet to turn
round, and what stands in the stack of the producers. A step of the reversal moves a cut
and leaves `q` alone (`CutsMove`); a producer's exchange adds to its end (`Pushes`), a
dequeue takes its first (`Pops`). `ChainSpells` compares the pointers with it.

The table's counts are cardinalities of the keys in the lists and of the threads between a
change of a count and the change it is for (`Counting`, `Uncounting`, `Pending`). The
invariant is `Types`, where each thread may be with what call and level (`OpAt`,
`LevelAt`), and `CountsExact`. It holds also where keys get into two levels, so that what
goes wrong there is not the counting.

`KeysInOneLevel` rests on it. A new level waits only for the inserts of the one just
below. That is enough because a level becomes full only after somebody has got past the
wait in it: from then on nothing is pending in the level below it (`BelowIsDone`), nor
will be, as only the level in front gets new pending inserts (`InFront`, which is where
`LateRaise` matters). So while a thread walks down, nobody puts anything into a level it
has left behind (`NotBelow`), and the key it then puts on top is nowhere else
(`OneLevel`). `NotFoundIsJustified` goes on from there: a walk that has not seen the key
absent has the key's level below it or at it (`WalkAt`), and a level that holds an item
that is counted is not skipped (`FewerUncounted`: then the count is above 0). One that holds the key
uncounted is skipped by the code; that is what the hypothesis `~LateCount` is about.

`TableIsAMap` takes the levels together (`Content`). As each key is in one level before and
after a step (`LInv`), what is written in a level is written in the table (`ContentAfter`): that
an insert finds nothing of its key anywhere, although it has looked at the levels one by one
and some time ago, follows from the item it puts in being the only one afterwards. With `LateRaise`
TLC finds it violated.

A snapshot runs with the lock in its hands: `Apart` says that no write is inside then,
`Within` that the places of a call fit what it runs, and `CopyAt` that the sum it took is
the number of items, and what it has copied is what is in the levels and buckets behind
it. Nothing changes `entry` in between, so at the end the copy is the table.

The cache's invariant is `Types`, the helper's types, `ListMatchesTable`, `WithinCapacity`
and `HandlesAccounted`; what removing and appending do to a list without repetition are
lemmas on sequences. The sum of the sizes is a fold that takes the elements of a set in an
order of its own; `SumTakes` shows that any of them may be taken first, and `SumChanges`
what becomes of the sum when one element comes, goes or has another value. With them
`Counted` and `Weighed` say that `current_size` is the sum over the nodes of the list, and
over the keys. `CacheIsLru` adds what each call asks for (`Calls`) and that no node is
larger than the capacity (`NodeSizes`): so two are left while it is exceeded
(`TwoAtLeast`), and evicting one of them leaves the one that was put. That the order of
the keys moves as the list of nodes does is `OrderWithout`.

For the marks the invariant adds that an item is in the hands of one call (`OneCall`) and
what a thread knows of the two links of its item at every place (`PrevOf`, `NextOf`). A
step of one thread changes a link of an item in another's hands only if that link is not
marked, so what the others know is kept by one lemma (`OthersKnow`), and so is that a mark has
its thread (`HoldersKept`).

The order of the set is `LInv`. `Linked` says that some sequence has the items of the set
once each, in the order in which `next` leads from head. `Places` says where in that order
an insert or remove stands. The link back of an item is right only where nobody is at
work: otherwise it leads to the item in front along the removes that have still to mend
it, one behind the other, the last of which sets it right, or is NULL while the insert of
the item in front has yet to set it (`Backs`, `Chained`). The chain is a sequence of
threads; a remove that takes its item out becomes a link of it, and one that mends takes
itself off its end.

Only model-checked: the liveness properties (`CallsReturn` of two modules, `ReturnsUnlessTurnedBack`,
`BothGetThrough`, `SomeEnqueueReturns`, `EveryItemDequeued`), as liveness, fairness and ENABLED
are out of the prover's reach. Every invariant and every refinement that a run checks is
the subject of a theorem.

## Disagreements found

Two are runs whose one property TLC finds violated; `findings` in `PROJECT.json`
has the lines and what they contradict.

- `HpHandOver` (`clds_hazard_pointers.c:278`): a cycle detaches the hand-over list after its scan. A node that
  an unregistering thread hands over in between is judged by hazard pointers older
  than its protection and is reclaimed while a reader uses it.
- `HashTwoLevels` (`clds_hash_table.c:368`): insert reads first_hash_table and raises its pending count later. In between
  another thread puts a new level in front, finds the old one without pending
  inserts and inserts the key; the first inserts the same key below it, and both return OK.

The others have no run of their own. The modules hold them behind a constant or a choice of
threads, and TLC shows them with the constants given here, in the cfg of the run that is named:

- `HpRegistry` with `Retirers = {t1, t2}`, `Leavers = {t3}` (`clds_hazard_pointers.c:324`): `RegistrySound` is violated. The epoch is
  advanced on a count of running cycles that was 0 a moment before; a cycle that began since
  can still reach a thread object that is freed.
- `SllSafety` with the invariant `FindKeepsToItems`, `Inserters = {t1}`, `Deleters = {t2}`, `Finders = {t3}`, two items, `MayFail`
  and `Reuse` FALSE (`clds_singly_linked_list.c:479`): find compares a link without its low bit and goes on with it.
- `SllSafety` with `RereadsNext` TRUE, `Deleters = {t2}`, two items (`clds_singly_linked_list.c:337`): `ListIntact` is violated. insert names
  `item->next` twice in one expression, and in a build that loads it again after the
  compare-and-swap a delete makes it insert twice.
- `SortedList` with `Reinsert` TRUE, `NoneLost`, `Inserters = Removers = {t1, t2}`, `Keys = {1, 2, 3}`, `Copies = {c1}`,
  `Loaded <- TwoLoaded`, `MaxSeq` 6 (`clds_sorted_list.c:797`, 913): an item that was removed and is inserted
  again loses the mark that keeps others from writing behind it, and an insert that still stands
  on it returns OK with its own item lost. The chaos test uses the list that way.
- `HashTable` with `BlindFind` TRUE (`clds_hash_table.c:402`): `OneLevelPerKey` and `NotFoundJustified` are violated. find_key
  answers NULL when it gets no hazard pointer, and insert, find and set_value take that for "not there".
- `HashTable` with `LateCount` TRUE (`clds_hash_table.c:1011`): `NotFoundJustified` is violated. set_value puts an item in before it
  counts it (1007-1011). Until it has, find, delete and remove pass over the level if its count is 0 (577, 673, 769, 1062): a thread
  whose insert was told that the key exists finds nothing under it, although nobody removes it. And a
  delete of the item in between takes the count to 0, so that the walks pass over the
  level with another key in it.

`HpDomain`, `HpRegistry` and `SllSafety` pass on instances that do not reach these: no third thread hands over during
a scan while another reader acquires, one retirer only, no find next to a delete that takes its mark back while the walk is
followed further ("astray" stops it), `RereadsNext` and `Reinsert` FALSE. `HashTable` passes with the three constants FALSE:
what it shows holds as long as those windows are not hit.

Seen while reading, and not stated as a property:

- put uses the node it has created without a check that it got one (`lru_cache.c:332-334`): what an allocation that
  fails does there is undefined, and `PutFails` does not stand for it.
- A put whose copy of key and value fails releases the node, and the clean-up (`lru_cache.c:271`) calls
  free_key_value_function on a key and a value that nobody set, unless the failed copy did (347).
- get returns the value after it has let go of the node and the lock (`lru_cache.c:465`): an
  eviction may free it before the caller looks.
- A scan follows the records of a thread that walks hand over hand, each of whose steps
  puts a record in front (`clds_hazard_pointers.c:193`); nothing bounds it.
- get_count and get_all of the sorted list look at locked_for_write only, not at who holds it or at pending
  writes (`clds_sorted_list.c:1796`): called while another thread is about to lock, they see a list that changes.
- set_value of the very item that is in the list moves the client's reference to the list and returns the
  same item as the old one (`clds_sorted_list.c:1540`).

## What is not modelled

- The inactive thread queue and the single-threaded hash set as code of their
  own: `HazardPointers` uses a sequence and a set in their place, with the hash set's failure to grow.
- In the hash table: what happens inside a call on a bucket's list (that is `SortedList`), sequence numbers and
  the skipped-number callback, which the table hands through to its lists, and what condition_check
  functions look at: they succeed or fail.
- In the cache: the values and what a client does with one that get returned; the table's
  own concurrency, as the lock is held around each call to it.
- Checks of arguments for NULL, logging, the counters that limit it, failures to allocate in
  create functions: they return before any state changes.
- Sequence numbers that are not asked for (`sequence_number` NULL): the list behaves as
  with numbers that nobody reads. Overflow of the 64 bit counter and of the 32
  bit counters of the lock and the table.
- inc_ref called by a client on its own; get_all without the list's own lock, as the
  hash table calls it (a step of `SnapshotCopy`); get_count, which only reads.
- Weak memory: interlocked operations are sequentially consistent on the
  platforms of c_pal, and plain accesses are modelled in program order.

## Plan

1. *Done*: all modules above, their runs, and the proofs listed.
2. *Done*: a theorem for every invariant and every refinement of the runs.
3. The hash set's chaining as a function, against the set it stands for.
4. A run of `HashTable` with a third thread, once it fits into a few minutes.
