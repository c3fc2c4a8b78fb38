--------------------------- MODULE HazardPointers ---------------------------
(***************************************************************************)
(* The hazard pointer domain of src/clds_hazard_pointers.c: the registry   *)
(* of threads, the hazard pointer records each of them owns, the retired   *)
(* nodes on their way to the reclaim callback, and the worker that removes *)
(* and frees the data of unregistered threads.                             *)
(*                                                                         *)
(* One action is one access to memory another thread can observe.  Reads   *)
(* and writes of memory only the owner can reach are folded into the       *)
(* neighbouring shared access; a compare-and-swap retry loop that only     *)
(* pushes onto a list is one action, its successful attempt.               *)
(*                                                                         *)
(* A thread is identified with its CLDS_HAZARD_POINTERS_THREAD object, so  *)
(* an element of Threads registers at most once.  A node is linked in the  *)
(* client's data structure, is unlinked by one thread and then retired by  *)
(* it, exactly as the list modules do (clds_singly_linked_list.c,          *)
(* internal_delete).                                                       *)
(***************************************************************************)
EXTENDS Integers, Sequences, FiniteSets

CONSTANTS
    Threads,         \* thread objects
    Nodes,           \* nodes, all linked at the start
    MaxRecords,      \* most hazard pointer records one thread holds at a time
    Thresholds,      \* values the reclaim threshold may be set to
    Readers,         \* threads that acquire hazard pointers
    Retirers,        \* readers that unlink and retire nodes
    Leavers,         \* threads that unregister
    OldestFirst,     \* TRUE: records are released in the order they were acquired
    MayFail,         \* TRUE: allocations may fail
    NULL

ASSUME HazardPointersAssumption ==
    /\ MaxRecords \in Nat \ {0}
    /\ Thresholds \subseteq Nat \ {0} /\ 1 \in Thresholds
    /\ Readers \subseteq Threads /\ Retirers \subseteq Readers
    /\ Leavers \subseteq Threads
    /\ OldestFirst \in BOOLEAN /\ MayFail \in BOOLEAN
    /\ NULL \notin Threads /\ NULL \notin Nodes
    /\ NULL \notin Threads \X (1..MaxRecords)

ASSUME ThreadsAreFinite == IsFiniteSet(Threads)

Records == Threads \X (1..MaxRecords)

VARIABLES
    head, next, active, inactive, epoch, pendingCalls, scheduled, freed,
    pointers, freePointers, allocated, recNode, recNext,
    held, valid, op, toRetire,
    linked, reclaimList, pendingList, chain, reclaimed, leaked, reclaimThreshold,
    pc, cur, nxt, rec, recNxt, hps, ep,
    wpc, waddr, wcur, wep,
    destroyed

registry == <<head, next, active, inactive, epoch, pendingCalls, scheduled, freed>>
records  == <<pointers, freePointers, allocated, recNode, recNext>>
client   == <<held, valid, op, toRetire>>
lists    == <<linked, reclaimList, pendingList, chain, reclaimed, leaked, reclaimThreshold>>
scan     == <<cur, nxt, rec, recNxt, hps, ep>>
worker   == <<wpc, waddr, wcur, wep>>
vars     == <<registry, records, client, lists, scan, worker, pc, destroyed>>

PCs == {"unborn", "reg_push", "idle", "acq_link", "acq_publish", "validate",
        "rel_unlink", "rel_free", "enter", "scan_head", "scan_thread",
        "scan_next", "scan_node", "sweep_own", "detach", "sweep_pending",
        "repark", "epoch_read", "leave", "epoch_cas", "free_threads",
        "unregister", "gone", "destroyed"}
WPCs == {"w_idle", "w_epoch", "w_leave", "w_cas", "w_free", "w_head", "w_walk",
         "w_stamp", "w_park", "w_destroyed"}

Goto(t, from, to) == pc[t] = from /\ pc' = [pc EXCEPT ![t] = to]
WGoto(from, to)   == wpc = from /\ wpc' = to

Init ==
    /\ head = NULL
    /\ next = [t \in Threads |-> NULL]
    /\ active = [t \in Threads |-> FALSE]
    /\ inactive = <<>> /\ epoch = 0 /\ pendingCalls = 0 /\ scheduled = FALSE
    /\ freed = {}
    /\ pointers = [t \in Threads |-> NULL]
    /\ freePointers = [t \in Threads |-> NULL]
    /\ allocated = [t \in Threads |-> 0]
    /\ recNode = [r \in Records |-> NULL]
    /\ recNext = [r \in Records |-> NULL]
    /\ held = [t \in Threads |-> <<>>]
    /\ valid = [t \in Threads |-> {}]
    /\ op = [t \in Threads |-> NULL]
    /\ toRetire = [t \in Threads |-> NULL]
    /\ linked = Nodes
    /\ reclaimList = [t \in Threads |-> {}]
    /\ pendingList = {}
    /\ chain = [t \in Threads |-> {}]
    /\ reclaimed = {} /\ leaked = {}
    /\ reclaimThreshold = 1
    /\ pc = [t \in Threads |-> "unborn"]
    /\ cur = [t \in Threads |-> NULL]
    /\ nxt = [t \in Threads |-> NULL]
    /\ rec = [t \in Threads |-> NULL]
    /\ recNxt = [t \in Threads |-> NULL]
    /\ hps = [t \in Threads |-> {}]
    /\ ep = [t \in Threads |-> 0]
    /\ wpc = "w_idle" /\ waddr = NULL /\ wcur = NULL /\ wep = 0
    /\ destroyed = FALSE

-----------------------------------------------------------------------------
(* Registration *)

\* register_thread up to its compare-and-swap: fill the thread object.
RegisterPrepare(t) ==
    /\ Goto(t, "unborn", "reg_push")
    /\ next' = [next EXCEPT ![t] = head]
    /\ active' = [active EXCEPT ![t] = TRUE]
    /\ UNCHANGED <<head, inactive, epoch, pendingCalls, scheduled, freed,
                   records, client, lists, scan, worker, destroyed>>

\* Publish the object at the head of the list; start over if the head moved.
RegisterPush(t) ==
    /\ IF head = next[t]
       THEN Goto(t, "reg_push", "idle") /\ head' = t
       ELSE Goto(t, "reg_push", "unborn") /\ UNCHANGED head
    /\ UNCHANGED <<next, active, inactive, epoch, pendingCalls, scheduled, freed,
                   records, client, lists, scan, worker, destroyed>>

\* Mutant: the retired nodes stay with the object.
UnregisterKeepsList(t) ==
    /\ t \in Leavers /\ held[t] = <<>> /\ toRetire[t] = NULL
    /\ Goto(t, "idle", "unregister")
    /\ UNCHANGED <<lists, registry, records, client, scan, worker, destroyed>>

\* unregister_thread hands the thread's retired nodes to the domain ...
UnregisterHandOff(t) ==
    /\ t \in Leavers /\ held[t] = <<>> /\ toRetire[t] = NULL
    /\ Goto(t, "idle", "unregister")
    /\ pendingList' = pendingList \cup reclaimList[t]
    /\ reclaimList' = [reclaimList EXCEPT ![t] = {}]
    /\ UNCHANGED <<linked, chain, reclaimed, leaked, reclaimThreshold,
                   registry, records, client, scan, worker, destroyed>>

\* ... and only then marks it inactive and schedules the worker.  A failure
\* to schedule is logged and otherwise ignored.
UnregisterDeactivate(t) ==
    /\ Goto(t, "unregister", "gone")
    /\ active' = [active EXCEPT ![t] = FALSE]
    /\ \/ scheduled' = TRUE
       \/ MayFail /\ UNCHANGED scheduled
    /\ UNCHANGED <<head, next, inactive, epoch, pendingCalls, freed,
                   records, client, lists, scan, worker, destroyed>>

-----------------------------------------------------------------------------
(* Acquire and release *)

\* The record k links further down the list of thread t in use.
Hop(t) ==
    LET h[k \in 0..MaxRecords] ==
            IF k = 0 THEN pointers[t]
            ELSE IF h[k - 1] = NULL THEN NULL ELSE recNext[h[k - 1]]
    IN  h
UsedRecords(t) == {Hop(t)[k] : k \in 0..MaxRecords} \ {NULL}

\* Take a record off the free list, or allocate one, and store the node in it.
\* The client has just read the node from a link of its data structure.
AcquireStart(t, n) ==
    /\ t \in Readers /\ toRetire[t] = NULL
    /\ Len(held[t]) < MaxRecords
    /\ \A i \in 1..Len(held[t]) : held[t][i] \in valid[t]
    /\ n \in linked
    /\ Goto(t, "idle", "acq_link")
    /\ IF freePointers[t] # NULL
       THEN LET r == freePointers[t] IN
            /\ freePointers' = [freePointers EXCEPT ![t] = recNext[r]]
            /\ recNode' = [recNode EXCEPT ![r] = n]
            /\ op' = [op EXCEPT ![t] = r]
            /\ UNCHANGED allocated
       ELSE LET r == <<t, allocated[t] + 1>> IN
            /\ allocated[t] < MaxRecords
            /\ allocated' = [allocated EXCEPT ![t] = @ + 1]
            /\ recNode' = [recNode EXCEPT ![r] = n]
            /\ op' = [op EXCEPT ![t] = r]
            /\ UNCHANGED freePointers
    /\ UNCHANGED <<pointers, recNext, held, valid, toRetire,
                   registry, lists, scan, worker, destroyed>>

\* A failed allocation makes the client let go of everything it holds.
AcquireFails(t) ==
    /\ MayFail /\ t \in Readers /\ pc[t] = "idle"
    /\ freePointers[t] = NULL /\ valid[t] # {}
    /\ valid' = [valid EXCEPT ![t] = {}]
    /\ UNCHANGED <<held, op, toRetire,
                   pc, registry, records, lists, scan, worker, destroyed>>

AcquireLink(t) ==
    /\ Goto(t, "acq_link", "acq_publish")
    /\ recNext' = [recNext EXCEPT ![op[t]] = pointers[t]]
    /\ UNCHANGED <<pointers, freePointers, allocated, recNode,
                   registry, client, lists, scan, worker, destroyed>>

AcquirePublish(t) ==
    /\ Goto(t, "acq_publish", "validate")
    /\ pointers' = [pointers EXCEPT ![t] = op[t]]
    /\ held' = [held EXCEPT ![t] = Append(@, op[t])]
    /\ UNCHANGED <<freePointers, allocated, recNode, recNext, valid, op, toRetire,
                   registry, lists, scan, worker, destroyed>>

\* Mutant: the client does not read the link again.
ValidateBlindly(t) ==
    /\ Goto(t, "validate", "idle")
    /\ valid' = [valid EXCEPT ![t] = @ \cup {op[t]}]
    /\ op' = [op EXCEPT ![t] = NULL]
    /\ UNCHANGED <<held, toRetire, registry, records, lists, scan, worker, destroyed>>

\* The client reads the link again: the node is protected if it is still linked;
\* otherwise the client drops every reference it has and restarts its walk.
Validate(t) ==
    /\ Goto(t, "validate", "idle")
    /\ valid' = [valid EXCEPT ![t] =
                    IF recNode[op[t]] \in linked THEN @ \cup {op[t]} ELSE {}]
    /\ op' = [op EXCEPT ![t] = NULL]
    /\ UNCHANGED <<held, toRetire, registry, records, lists, scan, worker, destroyed>>

\* release, first access: clear the record.  The list modules always release
\* the record they acquired first; the interface allows any order.
ReleaseClear(t, i) ==
    LET r == held[t][i] IN
    /\ i <= Len(held[t]) /\ (OldestFirst => i = 1)
    /\ Goto(t, "idle", "rel_unlink")
    /\ recNode' = [recNode EXCEPT ![r] = NULL]
    /\ held' = [held EXCEPT ![t] = SubSeq(@, 1, i - 1) \o SubSeq(@, i + 1, Len(@))]
    /\ valid' = [valid EXCEPT ![t] = @ \ {r}]
    /\ op' = [op EXCEPT ![t] = r]
    /\ UNCHANGED <<pointers, freePointers, allocated, recNext, toRetire,
                   registry, lists, scan, worker, destroyed>>

\* Mutant: the record is taken to be the newest one.
ReleaseUnlinkNewest(t) ==
    /\ Goto(t, "rel_unlink", "rel_free")
    /\ pointers' = [pointers EXCEPT ![t] = recNext[op[t]]]
    /\ UNCHANGED <<recNext, freePointers, allocated, recNode,
                   registry, client, lists, scan, worker, destroyed>>

\* Second access: make the predecessor of the record, or the list head, skip it.
ReleaseUnlink(t) ==
    /\ Goto(t, "rel_unlink", "rel_free")
    /\ IF pointers[t] = op[t]
       THEN /\ pointers' = [pointers EXCEPT ![t] = recNext[op[t]]]
            /\ UNCHANGED recNext
       ELSE /\ recNext' = [x \in Records |->
                  IF x \in UsedRecords(t) /\ recNext[x] = op[t]
                  THEN recNext[op[t]] ELSE recNext[x]]
            /\ UNCHANGED pointers
    /\ UNCHANGED <<freePointers, allocated, recNode,
                   registry, client, lists, scan, worker, destroyed>>

\* Third access: chain the record into the free list, through its own next field.
ReleaseFree(t) ==
    /\ Goto(t, "rel_free", "idle")
    /\ recNext' = [recNext EXCEPT ![op[t]] = freePointers[t]]
    /\ freePointers' = [freePointers EXCEPT ![t] = op[t]]
    /\ op' = [op EXCEPT ![t] = NULL]
    /\ UNCHANGED <<pointers, allocated, recNode, held, valid, toRetire,
                   registry, lists, scan, worker, destroyed>>

-----------------------------------------------------------------------------
(* Retiring nodes *)

\* The client unlinks a node it protects; it then releases its hazard pointers.
Unlink(t, n) ==
    /\ t \in Retirers /\ pc[t] = "idle" /\ toRetire[t] = NULL
    /\ n \in linked /\ \E r \in valid[t] : recNode[r] = n
    /\ linked' = linked \ {n}
    /\ toRetire' = [toRetire EXCEPT ![t] = n]
    /\ valid' = [valid EXCEPT ![t] = {}]
    /\ UNCHANGED <<reclaimList, pendingList, chain, reclaimed, leaked, reclaimThreshold,
                   held, op, pc, registry, records, scan, worker, destroyed>>

\* reclaim: put the node on the thread's own list and, at the threshold, run a
\* reclaim cycle.  If the list entry cannot be allocated the node is dropped.
Reclaim(t) ==
    /\ pc[t] = "idle" /\ toRetire[t] # NULL /\ held[t] = <<>>
    /\ toRetire' = [toRetire EXCEPT ![t] = NULL]
    /\ \/ /\ reclaimList' = [reclaimList EXCEPT ![t] = @ \cup {toRetire[t]}]
          /\ pc' = [pc EXCEPT ![t] =
                IF Cardinality(reclaimList'[t]) >= reclaimThreshold THEN "enter" ELSE "idle"]
          /\ UNCHANGED leaked
       \/ /\ MayFail
          /\ leaked' = leaked \cup {toRetire[t]}
          /\ UNCHANGED <<reclaimList, pc>>
    /\ UNCHANGED <<linked, pendingList, chain, reclaimed, reclaimThreshold,
                   held, valid, op, registry, records, scan, worker, destroyed>>

SetReclaimThreshold(v) ==
    /\ ~destroyed /\ reclaimThreshold # v
    /\ reclaimThreshold' = v
    /\ UNCHANGED <<linked, reclaimList, pendingList, chain, reclaimed, leaked,
                   pc, registry, records, client, scan, worker, destroyed>>

-----------------------------------------------------------------------------
(* internal_reclaim: collect the hazard pointers of every thread ... *)

ReclaimEnter(t) ==
    /\ \E to \in {"scan_head"} \cup (IF MayFail THEN {"epoch_read"} ELSE {}) :
          Goto(t, "enter", to)     \* with no memory for the set, nothing is done
    /\ pendingCalls' = pendingCalls + 1
    /\ hps' = [hps EXCEPT ![t] = {}]
    /\ UNCHANGED <<head, next, active, inactive, epoch, scheduled, freed,
                   cur, nxt, rec, recNxt, ep, records, client, lists, worker, destroyed>>

\* Mutant: the end of the list of threads is not noticed.
AfterThreadUnchecked(n) == "scan_thread"

\* Where the scan continues once thread object n is the next to be looked at.
AfterThread(n) == IF n = NULL THEN "sweep_own" ELSE "scan_thread"

ScanHead(t) ==
    /\ Goto(t, "scan_head", AfterThread(head))
    /\ cur' = [cur EXCEPT ![t] = head]
    /\ UNCHANGED <<nxt, rec, recNxt, hps, ep,
                   registry, records, client, lists, worker, destroyed>>

ScanThread(t) ==
    LET u == cur[t]
        walk == active[u] /\ pointers[u] # NULL
    IN  /\ Goto(t, "scan_thread", IF walk THEN "scan_next" ELSE AfterThread(next[u]))
        /\ nxt' = [nxt EXCEPT ![t] = IF walk THEN next[u] ELSE NULL]
        /\ rec' = [rec EXCEPT ![t] = IF walk THEN pointers[u] ELSE NULL]
        /\ cur' = [cur EXCEPT ![t] = IF walk THEN u ELSE next[u]]
        /\ UNCHANGED <<recNxt, hps, ep, registry, records, client, lists, worker, destroyed>>

ScanRecordNext(t) ==
    /\ Goto(t, "scan_next", "scan_node")
    /\ recNxt' = [recNxt EXCEPT ![t] = recNext[rec[t]]]
    /\ UNCHANGED <<cur, nxt, rec, hps, ep,
                   registry, records, client, lists, worker, destroyed>>

ScanRecordNode(t) ==
    /\ Goto(t, "scan_node", IF recNxt[t] # NULL THEN "scan_next" ELSE AfterThread(nxt[t]))
    /\ hps' = [hps EXCEPT ![t] = @ \cup ({recNode[rec[t]]} \ {NULL})]
    /\ rec' = [rec EXCEPT ![t] = recNxt[t]]
    /\ recNxt' = [recNxt EXCEPT ![t] = NULL]
    /\ cur' = [cur EXCEPT ![t] = IF recNxt[t] # NULL THEN @ ELSE nxt[t]]
    /\ nxt' = [nxt EXCEPT ![t] = IF recNxt[t] # NULL THEN @ ELSE NULL]
    /\ UNCHANGED <<ep, registry, records, client, lists, worker, destroyed>>

\* The set cannot grow: the cycle ends without reclaiming anything.
ScanFails(t) ==
    /\ Goto(t, "scan_node", "epoch_read")
    /\ MayFail /\ recNode[rec[t]] # NULL
    /\ rec' = [rec EXCEPT ![t] = NULL] /\ recNxt' = [recNxt EXCEPT ![t] = NULL]
    /\ cur' = [cur EXCEPT ![t] = NULL] /\ nxt' = [nxt EXCEPT ![t] = NULL]
    /\ UNCHANGED <<hps, ep, registry, records, client, lists, worker, destroyed>>

(* ... reclaim what they do not cover, from the thread's own list first ... *)

SweepOwn(t) ==
    /\ Goto(t, "sweep_own", "detach")
    /\ reclaimed' = reclaimed \cup (reclaimList[t] \ hps[t])
    /\ reclaimList' = [reclaimList EXCEPT ![t] = @ \cap hps[t]]
    /\ UNCHANGED <<linked, pendingList, chain, leaked, reclaimThreshold,
                   registry, records, client, scan, worker, destroyed>>

\* Mutant: the list is read but not emptied.
DetachPendingKeeps(t) ==
    /\ Goto(t, "detach", IF pendingList = {} THEN "epoch_read" ELSE "sweep_pending")
    /\ chain' = [chain EXCEPT ![t] = pendingList]
    /\ UNCHANGED <<linked, pendingList, reclaimList, reclaimed, leaked, reclaimThreshold,
                   registry, records, client, scan, worker, destroyed>>

\* ... then from the list handed over by unregistered threads, taken as a whole.
DetachPending(t) ==
    /\ Goto(t, "detach", IF pendingList = {} THEN "epoch_read" ELSE "sweep_pending")
    /\ chain' = [chain EXCEPT ![t] = pendingList]
    /\ pendingList' = {}
    /\ UNCHANGED <<linked, reclaimList, reclaimed, leaked, reclaimThreshold,
                   registry, records, client, scan, worker, destroyed>>

SweepPending(t) ==
    /\ Goto(t, "sweep_pending",
            IF chain[t] \cap hps[t] = {} THEN "epoch_read" ELSE "repark")
    /\ reclaimed' = reclaimed \cup (chain[t] \ hps[t])
    /\ chain' = [chain EXCEPT ![t] = @ \cap hps[t]]
    /\ UNCHANGED <<linked, reclaimList, pendingList, leaked, reclaimThreshold,
                   registry, records, client, scan, worker, destroyed>>

Repark(t) ==
    /\ Goto(t, "repark", "epoch_read")
    /\ pendingList' = pendingList \cup chain[t]
    /\ chain' = [chain EXCEPT ![t] = {}]
    /\ UNCHANGED <<linked, reclaimList, reclaimed, leaked, reclaimThreshold,
                   registry, records, client, scan, worker, destroyed>>

(* ... and close the epoch if no other cycle is running. *)

EpochRead(t) ==
    /\ Goto(t, "epoch_read", "leave")
    /\ ep' = [ep EXCEPT ![t] = epoch]
    /\ hps' = [hps EXCEPT ![t] = {}]
    /\ UNCHANGED <<cur, nxt, rec, recNxt,
                   registry, records, client, lists, worker, destroyed>>

ReclaimLeave(t) ==
    /\ Goto(t, "leave", IF pendingCalls = 1 THEN "epoch_cas" ELSE "idle")
    /\ pendingCalls' = pendingCalls - 1
    /\ UNCHANGED <<head, next, active, inactive, epoch, scheduled, freed,
                   records, client, lists, scan, worker, destroyed>>

EpochCas(t) ==
    /\ Goto(t, "epoch_cas", IF epoch = ep[t] THEN "free_threads" ELSE "idle")
    /\ epoch' = IF epoch = ep[t] THEN epoch + 1 ELSE epoch
    /\ UNCHANGED <<head, next, active, inactive, pendingCalls, scheduled, freed,
                   records, client, lists, scan, worker, destroyed>>

\* free_inactive_threads_in_previous_epochs: pop from the front of the queue
\* while the stamp is lower than e, and free what was popped.
FreeInactive(e) ==
    \E n \in 0..Len(inactive) :
        /\ \A i \in 1..n : inactive[i].stamp < e
        /\ n < Len(inactive) => inactive[n + 1].stamp >= e
        /\ inactive' = SubSeq(inactive, n + 1, Len(inactive))
        /\ freed' = freed \cup {inactive[i].thread : i \in 1..n}

FreeThreads(t) ==
    /\ Goto(t, "free_threads", "idle")
    /\ FreeInactive(ep[t] + 1)
    /\ UNCHANGED <<head, next, active, epoch, pendingCalls, scheduled,
                   records, client, lists, scan, worker, destroyed>>

-----------------------------------------------------------------------------
(* hp_thread_cleanup_func, run by the one worker thread when scheduled *)

WorkerEnter ==
    /\ WGoto("w_idle", "w_epoch")
    /\ scheduled /\ scheduled' = FALSE
    /\ pendingCalls' = pendingCalls + 1
    /\ UNCHANGED <<head, next, active, inactive, epoch, freed, waddr, wcur, wep,
                   pc, records, client, lists, scan, destroyed>>

WorkerEpochRead ==
    /\ WGoto("w_epoch", "w_leave")
    /\ wep' = epoch
    /\ UNCHANGED <<waddr, wcur, pc, registry, records, client, lists, scan, destroyed>>

\* Mutant: cycles still running are ignored.
WorkerLeaveAlways ==
    /\ WGoto("w_leave", "w_cas")
    /\ pendingCalls' = pendingCalls - 1
    /\ UNCHANGED <<head, next, active, inactive, epoch, scheduled, freed,
                   waddr, wcur, wep, pc, records, client, lists, scan, destroyed>>

WorkerLeave ==
    /\ WGoto("w_leave", IF pendingCalls = 1 THEN "w_cas" ELSE "w_head")
    /\ pendingCalls' = pendingCalls - 1
    /\ UNCHANGED <<head, next, active, inactive, epoch, scheduled, freed,
                   waddr, wcur, wep, pc, records, client, lists, scan, destroyed>>

WorkerEpochCas ==
    /\ WGoto("w_cas", IF epoch = wep THEN "w_free" ELSE "w_head")
    /\ epoch' = IF epoch = wep THEN epoch + 1 ELSE epoch
    /\ UNCHANGED <<head, next, active, inactive, pendingCalls, scheduled, freed,
                   waddr, wcur, wep, pc, records, client, lists, scan, destroyed>>

WorkerFree ==
    /\ WGoto("w_free", "w_head")
    /\ FreeInactive(wep + 1)
    /\ UNCHANGED <<head, next, active, epoch, pendingCalls, scheduled,
                   waddr, wcur, wep, pc, records, client, lists, scan, destroyed>>

\* waddr is the link being looked at: NULL for head, or the object whose next it is.
WorkerHead ==
    /\ WGoto("w_head", IF head = NULL THEN "w_idle" ELSE "w_walk")
    /\ waddr' = NULL /\ wcur' = head /\ wep' = 0
    /\ UNCHANGED <<pc, registry, records, client, lists, scan, destroyed>>

WorkerKeep ==
    /\ wpc = "w_walk" /\ active[wcur]
    /\ wpc' = IF next[wcur] = NULL THEN "w_idle" ELSE "w_walk"
    /\ waddr' = IF next[wcur] = NULL THEN NULL ELSE wcur
    /\ wcur' = next[wcur]
    /\ UNCHANGED <<wep, pc, registry, records, client, lists, scan, destroyed>>

\* Swing the link past an inactive object; give up the walk if the link changed.
WorkerUnlink ==
    /\ wpc = "w_walk" /\ ~active[wcur]
    /\ IF (IF waddr = NULL THEN head ELSE next[waddr]) = wcur
       THEN /\ wpc' = "w_stamp" /\ UNCHANGED <<waddr, wcur>>
            /\ IF waddr = NULL
               THEN head' = next[wcur] /\ UNCHANGED next
               ELSE next' = [next EXCEPT ![waddr] = next[wcur]] /\ UNCHANGED head
       ELSE /\ wpc' = "w_idle" /\ waddr' = NULL /\ wcur' = NULL
            /\ UNCHANGED <<head, next>>
    /\ UNCHANGED <<active, inactive, epoch, pendingCalls, scheduled, freed, wep,
                   pc, records, client, lists, scan, destroyed>>

\* add_to_inactive_threads: read the epoch, then queue the object under it.
WorkerStamp ==
    /\ WGoto("w_stamp", "w_park")
    /\ wep' = epoch
    /\ UNCHANGED <<waddr, wcur, pc, registry, records, client, lists, scan, destroyed>>

WorkerPark ==
    /\ wpc = "w_park"
    /\ wpc' = IF next[wcur] = NULL THEN "w_idle" ELSE "w_walk"
    /\ inactive' = Append(inactive, [thread |-> wcur, stamp |-> wep])
    /\ waddr' = IF next[wcur] = NULL THEN NULL ELSE waddr
    /\ wcur' = next[wcur] /\ wep' = 0
    /\ UNCHANGED <<head, next, active, epoch, pendingCalls, scheduled, freed,
                   pc, records, client, lists, scan, destroyed>>

-----------------------------------------------------------------------------
\* Thread objects reachable from the head of the registry.
Listed ==
    LET h[k \in 0..Cardinality(Threads)] ==
            IF k = 0 THEN head ELSE IF h[k - 1] = NULL THEN NULL ELSE next[h[k - 1]]
    IN  {t \in Threads : \E k \in 0..Cardinality(Threads) : h[k] = t}

\* destroy: called when no thread uses the domain any more, so it runs alone.
\* Every listed thread gets a reclaim cycle; one whose cycle fails for lack of
\* memory loses its entries when its object is freed.  Then the hand-over list
\* is drained and everything is freed.
Destroy ==
    /\ ~destroyed
    /\ \A t \in Threads : pc[t] \in {"unborn", "idle", "gone"}
    /\ \A t \in Threads : held[t] = <<>> /\ toRetire[t] = NULL
    /\ wpc = "w_idle"
    /\ \E failed \in SUBSET Listed :
         LET swept == {n \in Nodes : \E t \in Listed \ failed : n \in reclaimList[t]}
             lost  == {n \in Nodes : \E t \in failed : n \in reclaimList[t]}
         IN  /\ MayFail \/ failed = {}
             /\ reclaimed' = reclaimed \cup swept \cup pendingList
             /\ leaked' = leaked \cup lost
    /\ reclaimList' = [t \in Threads |-> IF t \in Listed THEN {} ELSE reclaimList[t]]
    /\ pendingList' = {}
    /\ freed' = freed \cup Listed \cup {inactive[i].thread : i \in 1..Len(inactive)}
    /\ inactive' = <<>> /\ head' = NULL /\ scheduled' = FALSE
    /\ pc' = [t \in Threads |-> "destroyed"]
    /\ wpc' = "w_destroyed" /\ destroyed' = TRUE
    /\ UNCHANGED <<next, active, epoch, pendingCalls, linked, chain, reclaimThreshold,
                   waddr, wcur, wep, records, client, scan>>

\* Nothing happens after destroy.
Destroyed == destroyed /\ UNCHANGED vars

-----------------------------------------------------------------------------
ThreadStep(t) ==
    \/ RegisterPrepare(t) \/ RegisterPush(t)
    \/ UnregisterHandOff(t) \/ UnregisterDeactivate(t)
    \/ \E n \in Nodes : AcquireStart(t, n) \/ Unlink(t, n)
    \/ AcquireFails(t) \/ AcquireLink(t) \/ AcquirePublish(t) \/ Validate(t)
    \/ \E i \in 1..MaxRecords : ReleaseClear(t, i)
    \/ ReleaseUnlink(t) \/ ReleaseFree(t)
    \/ Reclaim(t) \/ ReclaimEnter(t)
    \/ ScanHead(t) \/ ScanThread(t) \/ ScanRecordNext(t) \/ ScanRecordNode(t) \/ ScanFails(t)
    \/ SweepOwn(t) \/ DetachPending(t) \/ SweepPending(t) \/ Repark(t)
    \/ EpochRead(t) \/ ReclaimLeave(t) \/ EpochCas(t) \/ FreeThreads(t)

WorkerStep ==
    \/ WorkerEnter \/ WorkerEpochRead \/ WorkerLeave \/ WorkerEpochCas \/ WorkerFree
    \/ WorkerHead \/ WorkerKeep \/ WorkerUnlink \/ WorkerStamp \/ WorkerPark

Next ==
    \/ \E t \in Threads : ThreadStep(t)
    \/ \E v \in Thresholds : SetReclaimThreshold(v)
    \/ WorkerStep
    \/ Destroy
    \/ Destroyed

Spec == Init /\ [][Next]_vars

-----------------------------------------------------------------------------
(* Properties *)

MaybeRecord == Records \cup {NULL}
MaybeThread == Threads \cup {NULL}

RegistryTypeOK ==
    /\ head \in MaybeThread /\ next \in [Threads -> MaybeThread]
    /\ active \in [Threads -> BOOLEAN]
    /\ inactive \in Seq([thread : Threads, stamp : Nat])
    /\ epoch \in Nat /\ pendingCalls \in Int /\ scheduled \in BOOLEAN
    /\ freed \subseteq Threads
    /\ wpc \in WPCs /\ waddr \in MaybeThread /\ wcur \in MaybeThread /\ wep \in Nat
    /\ wpc \in {"w_walk", "w_stamp", "w_park"} => wcur # NULL

RecordsTypeOK ==
    /\ pointers \in [Threads -> MaybeRecord] /\ freePointers \in [Threads -> MaybeRecord]
    /\ allocated \in [Threads -> 0..MaxRecords]
    /\ recNode \in [Records -> Nodes \cup {NULL}] /\ recNext \in [Records -> MaybeRecord]
    /\ held \in [Threads -> Seq(Records)] /\ valid \in [Threads -> SUBSET Records]
    /\ op \in [Threads -> MaybeRecord]
    /\ \A t \in Threads :
          pc[t] \in {"acq_link", "acq_publish", "validate", "rel_unlink", "rel_free"}
            => op[t] # NULL

ListsTypeOK ==
    /\ linked \subseteq Nodes /\ reclaimList \in [Threads -> SUBSET Nodes]
    /\ pendingList \subseteq Nodes /\ chain \in [Threads -> SUBSET Nodes]
    /\ reclaimed \subseteq Nodes /\ leaked \subseteq Nodes
    /\ reclaimThreshold \in Thresholds
    /\ toRetire \in [Threads -> Nodes \cup {NULL}]

ScanTypeOK ==
    /\ cur \in [Threads -> MaybeThread] /\ nxt \in [Threads -> MaybeThread]
    /\ rec \in [Threads -> MaybeRecord] /\ recNxt \in [Threads -> MaybeRecord]
    /\ hps \in [Threads -> SUBSET Nodes] /\ ep \in [Threads -> Nat]
    /\ \A t \in Threads :
          /\ pc[t] = "scan_thread" => cur[t] # NULL
          /\ pc[t] \in {"scan_next", "scan_node"} => rec[t] # NULL

\* Every variable stays in its range, and no step of register, acquire, release,
\* internal_reclaim or the worker dereferences NULL: the cursor it is about to
\* follow is an object.
TypeOK ==
    /\ pc \in [Threads -> PCs] /\ destroyed \in BOOLEAN
    /\ RegistryTypeOK /\ RecordsTypeOK /\ ListsTypeOK /\ ScanTypeOK

\* While a thread uses a node through a validated hazard pointer, the reclaim
\* callback has not been called for that node (internal_reclaim, both sweeps).
ProtectedNotReclaimed ==
    \A t \in Threads : \A r \in valid[t] : recNode[r] \notin reclaimed

\* A node that was unlinked is in somebody's hands until its callback runs: with
\* the unlinking thread, on a thread's reclaim list, on the hand-over list, in a
\* chain a reclaim cycle has detached, or dropped by a failed allocation.
NoneLost ==
    \A n \in Nodes \ (linked \cup pendingList \cup reclaimed \cup leaked) :
        \E t \in Threads : toRetire[t] = n \/ n \in reclaimList[t] \/ n \in chain[t]

\* ... and in one place only, so no callback runs twice and no list entry is
\* freed twice, however reclaim cycles and hand-overs interleave.
NoneTwice ==
    LET Local(t) == ({toRetire[t]} \ {NULL}) \cup reclaimList[t] \cup chain[t]
    IN  /\ \A t, u \in Threads : t # u => Local(t) \cap Local(u) = {}
        /\ \A t \in Threads :
              /\ Local(t) \cap (linked \cup pendingList \cup reclaimed \cup leaked) = {}
              /\ toRetire[t] \notin reclaimList[t] \cup chain[t]
              /\ reclaimList[t] \cap chain[t] = {}
        /\ linked \cap (pendingList \cup reclaimed \cup leaked) = {}
        /\ pendingList \cap (reclaimed \cup leaked) = {}
        /\ reclaimed \cap leaked = {}

\* A node that was unlinked is neither lost nor reclaimed twice.
EachNodeOnce == NoneLost /\ NoneTwice

\* A chain is in the hands of a thread only while its cycle sweeps it.
ChainInHand ==
    \A t \in Threads : pc[t] \notin {"sweep_pending", "repark"} => chain[t] = {}

\* destroy leaves no retired node behind except those an allocation failure
\* dropped: what threads handed over when they unregistered is drained too.
DestroyReclaimsAll ==
    destroyed => /\ Nodes \ linked = reclaimed \cup leaked
                 /\ MayFail \/ leaked = {}

\* Between operations the in-use list of a thread holds exactly the records its
\* client holds, newest first, and the free list none of them (acquire, release).
RecordListsAgree ==
    \A t \in Threads : pc[t] = "idle" =>
        /\ \A k \in 0..MaxRecords :
              Hop(t)[k] = IF k < Len(held[t]) THEN held[t][Len(held[t]) - k] ELSE NULL
        /\ freePointers[t] \notin UsedRecords(t)
        /\ \A i \in 1..Len(held[t]) : recNode[held[t][i]] # NULL

\* Every registered, active thread stays reachable from the head of the registry
\* whatever the worker unlinks meanwhile, so that no scan can miss it.
ActiveListed ==
    \A t \in Threads :
        active[t] /\ pc[t] \notin {"unborn", "reg_push", "destroyed"} => t \in Listed

\* No reclaim cycle holds a pointer to a thread object that was freed.
ScannedNotFreed ==
    \A t \in Threads :
        pc[t] \in {"scan_thread", "scan_next", "scan_node"} =>
            cur[t] \notin freed /\ nxt[t] \notin freed

\* A scan of the registry misses no active thread and touches no freed one
\* (internal_reclaim against register, unregister and hp_thread_cleanup_func).
RegistrySound == ActiveListed /\ ScannedNotFreed
=============================================================================
