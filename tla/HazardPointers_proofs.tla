----------------------- MODULE HazardPointers_proofs -----------------------
(***************************************************************************)
(* The safety properties of the hazard pointer domain, proved for any      *)
(* number of threads, nodes, records and thresholds: type correctness,     *)
(* conservation of retired nodes, the record lists of a thread, the        *)
(* registry, destroy, and under named conditions on the roles of threads   *)
(* that a scan touches no freed object and that no protected node is       *)
(* reclaimed.                                                              *)
(***************************************************************************)
EXTENDS HazardPointers, TLAPS, WellFoundedInduction, FiniteSetTheorems

\* What is left of a sequence when its first k elements are popped, and what was popped.
LEMMA PopFront ==
    ASSUME NEW S, NEW s \in Seq(S), NEW k \in 0..Len(s)
    PROVE  /\ SubSeq(s, k + 1, Len(s)) \in Seq(S)
           /\ \A j \in 1..k : s[j] \in S
  OBVIOUS

\* What is left of a sequence when its element i is removed.
LEMMA RemoveOne ==
    ASSUME NEW S, NEW s \in Seq(S), NEW i \in 1..Len(s)
    PROVE  SubSeq(s, 1, i - 1) \o SubSeq(s, i + 1, Len(s)) \in Seq(S)
  OBVIOUS

\* A step of a registered thread keeps every variable in its range.
LEMMA TypeThread ==
    ASSUME TypeOK, NEW t \in Threads, ThreadStep(t)
    PROVE  TypeOK'
  <1> USE HazardPointersAssumption
        DEF TypeOK, RegistryTypeOK, RecordsTypeOK, ListsTypeOK, ScanTypeOK, Goto,
            registry, records, client, lists, scan, worker, MaybeThread, MaybeRecord
  <1>1. CASE RegisterPrepare(t)
    BY <1>1 DEF RegisterPrepare, PCs
  <1>2. CASE RegisterPush(t)
    <2>1. pc' \in [Threads -> PCs] /\ destroyed' \in BOOLEAN
      BY ZenonT(60), <1>2 DEF RegisterPush, PCs
    <2>2. RegistryTypeOK'
      BY <1>2 DEF RegisterPush
    <2>3. RecordsTypeOK'
      BY SMTT(30), <1>2 DEF RegisterPush
    <2>4. ListsTypeOK'
      BY <1>2 DEF RegisterPush
    <2>5. ScanTypeOK'
      BY <1>2 DEF RegisterPush
    <2> QED  BY <2>1, <2>2, <2>3, <2>4, <2>5
  <1>3. CASE UnregisterHandOff(t)
    BY <1>3 DEF UnregisterHandOff, PCs
  <1>4. CASE UnregisterDeactivate(t)
    BY <1>4 DEF UnregisterDeactivate, PCs
  <1>5. ASSUME NEW n \in Nodes, AcquireStart(t, n) PROVE TypeOK'
    <2> DEFINE r == IF freePointers[t] # NULL THEN freePointers[t] ELSE <<t, allocated[t] + 1>>
    <2>1. r \in Records /\ r # NULL
      BY SMTT(30), <1>5 DEF AcquireStart, Records
    <2>2. /\ op' = [op EXCEPT ![t] = r]
          /\ recNode' = [recNode EXCEPT ![r] = n]
      BY <1>5 DEF AcquireStart
    <2>3. /\ freePointers' \in [Threads -> MaybeRecord]
          /\ allocated' \in [Threads -> 0..MaxRecords]
      <3>1. CASE freePointers[t] # NULL
        <4>1. /\ freePointers' = [freePointers EXCEPT ![t] = recNext[freePointers[t]]]
              /\ allocated' = allocated
          BY <1>5, <3>1 DEF AcquireStart
        <4>2. recNext[freePointers[t]] \in MaybeRecord
          BY <3>1
        <4> QED  BY <4>1, <4>2
      <3>2. CASE freePointers[t] = NULL
        <4>1. /\ allocated' = [allocated EXCEPT ![t] = @ + 1]
              /\ allocated[t] < MaxRecords
              /\ freePointers' = freePointers
          BY <1>5, <3>2 DEF AcquireStart
        <4>2. allocated[t] + 1 \in 0..MaxRecords
          BY SMTT(30), <4>1
        <4> QED  BY <4>1, <4>2
      <3> QED  BY <3>1, <3>2
    <2>4. /\ pc' = [pc EXCEPT ![t] = "acq_link"]
          /\ UNCHANGED <<pointers, recNext, held, valid, toRetire,
                         registry, lists, scan, worker, destroyed>>
      BY <1>5 DEF AcquireStart
    <2> HIDE DEF r
    <2> QED  BY <2>1, <2>2, <2>3, <2>4 DEF PCs
  <1>6. ASSUME NEW n \in Nodes, Unlink(t, n) PROVE TypeOK'
    BY <1>6 DEF Unlink, PCs
  <1>7. CASE AcquireFails(t)
    BY <1>7 DEF AcquireFails, PCs
  <1>8. CASE AcquireLink(t)
    BY <1>8 DEF AcquireLink, PCs
  <1>9. CASE AcquirePublish(t)
    BY SMTT(30), <1>9 DEF AcquirePublish, PCs
  <1>10. CASE Validate(t)
    BY <1>10 DEF Validate, PCs
  <1>11. ASSUME NEW i \in 1..MaxRecords, ReleaseClear(t, i) PROVE TypeOK'
    <2>1. i \in 1..Len(held[t]) /\ held[t] \in Seq(Records) /\ held[t][i] \in Records
      BY <1>11 DEF ReleaseClear
    <2>2. SubSeq(held[t], 1, i - 1) \o SubSeq(held[t], i + 1, Len(held[t])) \in Seq(Records)
      BY <2>1, RemoveOne
    <2>3. held' \in [Threads -> Seq(Records)]
      BY <1>11, <2>2 DEF ReleaseClear
    <2>4. held[t][i] # NULL
      BY <2>1 DEF Records
    <2> QED
      BY ZenonT(60), <1>11, <2>1, <2>3, <2>4 DEF ReleaseClear, PCs
  <1>12. CASE ReleaseUnlink(t)
    <2>1. pc' \in [Threads -> PCs] /\ destroyed' \in BOOLEAN
      BY <1>12 DEF ReleaseUnlink, PCs
    <2>2. RegistryTypeOK'
      BY <1>12 DEF ReleaseUnlink
    <2>3. RecordsTypeOK'
      <3>1. op[t] \in Records /\ recNext[op[t]] \in MaybeRecord
        BY <1>12 DEF ReleaseUnlink
      <3>2. pointers' \in [Threads -> MaybeRecord]
        BY <1>12, <3>1 DEF ReleaseUnlink
      <3>3. recNext' \in [Records -> MaybeRecord]
        <4>1. CASE pointers[t] = op[t]
          BY <1>12, <4>1 DEF ReleaseUnlink
        <4>2. CASE pointers[t] # op[t]
          <5>1. recNext' = [x \in Records |->
                    IF x \in UsedRecords(t) /\ recNext[x] = op[t]
                    THEN recNext[op[t]] ELSE recNext[x]]
            BY <1>12, <4>2 DEF ReleaseUnlink
          <5> QED  BY <5>1, <3>1
        <4> QED  BY <4>1, <4>2
      <3> QED  BY <1>12, <3>2, <3>3 DEF ReleaseUnlink
    <2>4. ListsTypeOK'
      BY <1>12 DEF ReleaseUnlink
    <2>5. ScanTypeOK'
      BY <1>12 DEF ReleaseUnlink
    <2> QED  BY <2>1, <2>2, <2>3, <2>4, <2>5
  <1>13. CASE ReleaseFree(t)
    BY <1>13 DEF ReleaseFree, PCs
  <1>14. CASE Reclaim(t)
    <2>1. pc' \in [Threads -> PCs] /\ destroyed' \in BOOLEAN
      BY <1>14 DEF Reclaim, PCs
    <2>2. RegistryTypeOK'
      BY <1>14 DEF Reclaim
    <2>3. RecordsTypeOK'
      BY <1>14 DEF Reclaim
    <2>4. ListsTypeOK'
      <3>1. toRetire[t] \in Nodes
        BY <1>14 DEF Reclaim
      <3>2. CASE reclaimList' = [reclaimList EXCEPT ![t] = @ \cup {toRetire[t]}]
        BY <1>14, <3>1, <3>2 DEF Reclaim
      <3>3. CASE reclaimList' = reclaimList
        BY <1>14, <3>1, <3>3 DEF Reclaim
      <3> QED  BY <1>14, <3>2, <3>3 DEF Reclaim
    <2>5. ScanTypeOK'
      BY <1>14 DEF Reclaim
    <2> QED  BY <2>1, <2>2, <2>3, <2>4, <2>5
  <1>15. CASE ReclaimEnter(t)
    <2>1. PICK to \in {"scan_head", "epoch_read"} : Goto(t, "enter", to)
      BY <1>15 DEF ReclaimEnter
    <2> QED
      BY SMTT(30), <1>15, <2>1 DEF ReclaimEnter, PCs
  <1>16. CASE ScanHead(t)
    BY <1>16 DEF ScanHead, PCs, AfterThread
  <1>17. CASE ScanThread(t)
    <2>1. cur[t] \in Threads /\ UNCHANGED <<destroyed, recNxt, hps, ep>>
      BY <1>17 DEF ScanThread
    <2>2. PICK u \in Threads, walk \in BOOLEAN :
            /\ walk => pointers[u] # NULL
            /\ pc' = [pc EXCEPT ![t] = IF walk THEN "scan_next" ELSE AfterThread(next[u])]
            /\ nxt' = [nxt EXCEPT ![t] = IF walk THEN next[u] ELSE NULL]
            /\ rec' = [rec EXCEPT ![t] = IF walk THEN pointers[u] ELSE NULL]
            /\ cur' = [cur EXCEPT ![t] = IF walk THEN u ELSE next[u]]
      BY <1>17, <2>1 DEF ScanThread
    <2>3. RegistryTypeOK' /\ RecordsTypeOK' /\ ListsTypeOK'
      <3>1. UNCHANGED <<registry, records, client, lists, worker>>
        BY <1>17 DEF ScanThread
      <3>2. \A v \in Threads : pc'[v] = pc[v] \/ pc'[v] \in {"scan_next", "sweep_own", "scan_thread"}
        BY <2>2 DEF AfterThread
      <3> QED  BY <3>1, <3>2
    <2>4. ScanTypeOK' /\ pc' \in [Threads -> PCs]
      <3>1. CASE walk
        BY <2>1, <2>2, <3>1 DEF PCs
      <3>2. CASE ~walk
        BY <2>1, <2>2, <3>2 DEF PCs, AfterThread
      <3> QED  BY <3>1, <3>2
    <2> QED  BY <2>1, <2>3, <2>4
  <1>18. CASE ScanRecordNext(t)
    BY <1>18 DEF ScanRecordNext, PCs
  <1>19. CASE ScanRecordNode(t)
    BY SMTT(30), <1>19 DEF ScanRecordNode, PCs, AfterThread
  <1>20. CASE ScanFails(t)
    BY <1>20 DEF ScanFails, PCs
  <1>21. CASE SweepOwn(t)
    BY <1>21 DEF SweepOwn, PCs
  <1>22. CASE DetachPending(t)
    BY <1>22 DEF DetachPending, PCs
  <1>23. CASE SweepPending(t)
    BY <1>23 DEF SweepPending, PCs
  <1>24. CASE Repark(t)
    BY <1>24 DEF Repark, PCs
  <1>25. CASE EpochRead(t)
    BY <1>25 DEF EpochRead, PCs
  <1>26. CASE ReclaimLeave(t)
    BY <1>26 DEF ReclaimLeave, PCs
  <1>27. CASE EpochCas(t)
    <2>1. pc' \in [Threads -> PCs] /\ destroyed' \in BOOLEAN
      BY <1>27 DEF EpochCas, PCs
    <2>2. RegistryTypeOK'
      BY <1>27 DEF EpochCas
    <2>3. RecordsTypeOK'
      BY <1>27 DEF EpochCas
    <2>4. ListsTypeOK'
      BY <1>27 DEF EpochCas
    <2>5. ScanTypeOK'
      BY <1>27 DEF EpochCas
    <2> QED  BY <2>1, <2>2, <2>3, <2>4, <2>5
  <1>28. CASE FreeThreads(t)
    <2>1. PICK k \in 0..Len(inactive) :
              /\ inactive' = SubSeq(inactive, k + 1, Len(inactive))
              /\ freed' = freed \cup {inactive[j].thread : j \in 1..k}
      BY <1>28 DEF FreeThreads, FreeInactive
    <2>2. /\ inactive' \in Seq([thread : Threads, stamp : Nat])
          /\ \A j \in 1..k : inactive[j] \in [thread : Threads, stamp : Nat]
      BY <2>1, PopFront
    <2>3. \A j \in 1..k : inactive[j].thread \in Threads
      BY <2>2
    <2>4. freed' \subseteq Threads
      <3> SUFFICES ASSUME NEW u \in freed' PROVE u \in Threads
        OBVIOUS
      <3>1. CASE u \in freed
        BY <3>1
      <3>2. ASSUME NEW j \in 1..k, u = inactive[j].thread PROVE u \in Threads
        BY <3>2, <2>3
      <3> QED  BY <2>1, <3>1, <3>2
    <2> QED
      BY <1>28, <2>2, <2>4 DEF FreeThreads, PCs
  <1> QED
    BY <1>1, <1>2, <1>3, <1>4, <1>5, <1>6, <1>7, <1>8, <1>9, <1>10, <1>11, <1>12, <1>13, <1>14, <1>15, <1>16, <1>17, <1>18, <1>19, <1>20, <1>21, <1>22, <1>23, <1>24, <1>25, <1>26, <1>27, <1>28 DEF ThreadStep

\* So does a step of the worker.
LEMMA TypeWorker ==
    ASSUME TypeOK, WorkerStep
    PROVE  TypeOK'
  <1> USE HazardPointersAssumption
        DEF TypeOK, RegistryTypeOK, RecordsTypeOK, ListsTypeOK, ScanTypeOK, WGoto,
            registry, records, client, lists, scan, worker, MaybeThread, MaybeRecord
  <1>1. CASE WorkerEnter
    <2>1. pc' \in [Threads -> PCs] /\ destroyed' \in BOOLEAN
      BY <1>1 DEF WorkerEnter
    <2>2. RegistryTypeOK'
      <3>1. /\ wpc' = "w_epoch" /\ scheduled' = FALSE /\ pendingCalls' = pendingCalls + 1
            /\ UNCHANGED <<head, next, active, inactive, epoch, freed, waddr, wcur, wep>>
        BY <1>1 DEF WorkerEnter
      <3>2. scheduled' \in BOOLEAN
        BY <3>1
      <3> QED  BY <3>1, <3>2 DEF WPCs
    <2>3. RecordsTypeOK' /\ ListsTypeOK' /\ ScanTypeOK'
      BY <1>1 DEF WorkerEnter
    <2> QED  BY <2>1, <2>2, <2>3
  <1>2. CASE WorkerEpochRead
    BY <1>2 DEF WorkerEpochRead, WPCs
  <1>3. CASE WorkerLeave
    BY SMTT(30), <1>3 DEF WorkerLeave, WPCs
  <1>4. CASE WorkerEpochCas
    BY <1>4 DEF WorkerEpochCas, WPCs
  <1>5. CASE WorkerFree
    <2>1. PICK k \in 0..Len(inactive) :
              /\ inactive' = SubSeq(inactive, k + 1, Len(inactive))
              /\ freed' = freed \cup {inactive[j].thread : j \in 1..k}
      BY <1>5 DEF WorkerFree, FreeInactive
    <2>2. /\ inactive' \in Seq([thread : Threads, stamp : Nat])
          /\ \A j \in 1..k : inactive[j] \in [thread : Threads, stamp : Nat]
      BY <2>1, PopFront
    <2>3. \A j \in 1..k : inactive[j].thread \in Threads
      BY <2>2
    <2>4. freed' \subseteq Threads
      <3> SUFFICES ASSUME NEW u \in freed' PROVE u \in Threads
        OBVIOUS
      <3>1. CASE u \in freed
        BY <3>1
      <3>2. ASSUME NEW j \in 1..k, u = inactive[j].thread PROVE u \in Threads
        BY <3>2, <2>3
      <3> QED  BY <2>1, <3>1, <3>2
    <2> QED
      BY <1>5, <2>2, <2>4 DEF WorkerFree, WPCs
  <1>6. CASE WorkerHead
    BY <1>6 DEF WorkerHead, WPCs
  <1>7. CASE WorkerKeep
    BY <1>7 DEF WorkerKeep, WPCs
  <1>8. CASE WorkerUnlink
    <2>1. pc' \in [Threads -> PCs] /\ destroyed' \in BOOLEAN
      BY <1>8 DEF WorkerUnlink
    <2>2. RegistryTypeOK'
      <3>1. wcur \in Threads /\ next[wcur] \in MaybeThread
        BY <1>8 DEF WorkerUnlink
      <3>2. head' \in MaybeThread /\ next' \in [Threads -> MaybeThread]
        <4>1. CASE waddr = NULL
          BY <1>8, <3>1, <4>1 DEF WorkerUnlink
        <4>2. CASE waddr # NULL
          BY <1>8, <3>1, <4>2 DEF WorkerUnlink
        <4> QED  BY <4>1, <4>2
      <3>3. \/ wpc' = "w_stamp" /\ UNCHANGED <<waddr, wcur>>
            \/ wpc' = "w_idle" /\ waddr' = NULL /\ wcur' = NULL
        BY <1>8 DEF WorkerUnlink
      <3>4. UNCHANGED <<active, inactive, epoch, pendingCalls, scheduled, freed, wep>>
        BY <1>8 DEF WorkerUnlink
      <3> QED  BY <3>1, <3>2, <3>3, <3>4 DEF WPCs
    <2>3. RecordsTypeOK' /\ ListsTypeOK' /\ ScanTypeOK'
      BY <1>8 DEF WorkerUnlink
    <2> QED  BY <2>1, <2>2, <2>3
  <1>9. CASE WorkerStamp
    BY <1>9 DEF WorkerStamp, WPCs
  <1>10. CASE WorkerPark
    <2>1. wcur \in Threads /\ next[wcur] \in MaybeThread /\ wep \in Nat
      BY <1>10 DEF WorkerPark
    <2>2. inactive' \in Seq([thread : Threads, stamp : Nat])
      BY <1>10, <2>1 DEF WorkerPark
    <2>3. /\ wpc' = (IF next[wcur] = NULL THEN "w_idle" ELSE "w_walk")
          /\ waddr' = (IF next[wcur] = NULL THEN NULL ELSE waddr)
          /\ wcur' = next[wcur] /\ wep' = 0
          /\ UNCHANGED <<head, next, active, epoch, pendingCalls, scheduled, freed>>
      BY <1>10 DEF WorkerPark
    <2>4. RegistryTypeOK'
      BY <2>1, <2>2, <2>3 DEF WPCs
    <2>5. /\ pc' \in [Threads -> PCs] /\ destroyed' \in BOOLEAN
          /\ RecordsTypeOK' /\ ListsTypeOK' /\ ScanTypeOK'
      BY <1>10 DEF WorkerPark
    <2> QED  BY <2>4, <2>5
  <1> QED
    BY <1>1, <1>2, <1>3, <1>4, <1>5, <1>6, <1>7, <1>8, <1>9, <1>10 DEF WorkerStep

\* destroy empties the lists and frees the listed threads, which are all threads.
LEMMA TypeDestroy ==
    ASSUME TypeOK, Destroy
    PROVE  TypeOK'
  <1> USE HazardPointersAssumption
        DEF TypeOK, RegistryTypeOK, RecordsTypeOK, ListsTypeOK, ScanTypeOK,
            registry, records, client, lists, scan, worker, MaybeThread, MaybeRecord
  <1>1. freed' \subseteq Threads
    <2> SUFFICES ASSUME NEW u \in freed' PROVE u \in Threads
      OBVIOUS
    <2>1. Listed \subseteq Threads
      BY DEF Listed
    <2>2. \A j \in 1..Len(inactive) : inactive[j] \in [thread : Threads, stamp : Nat]
      <3>1. inactive \in Seq([thread : Threads, stamp : Nat]) /\ Len(inactive) \in 0..Len(inactive)
        OBVIOUS
      <3> QED  BY <3>1, PopFront
    <2>3. ASSUME NEW j \in 1..Len(inactive), u = inactive[j].thread PROVE u \in Threads
      BY <2>2, <2>3
    <2> QED  BY <2>1, <2>3 DEF Destroy
  <1>2. pc' \in [Threads -> PCs] /\ destroyed' \in BOOLEAN
    BY DEF Destroy, PCs
  <1>3. RegistryTypeOK'
    <2>1. /\ inactive' = <<>> /\ head' = NULL /\ scheduled' = FALSE /\ wpc' = "w_destroyed"
          /\ UNCHANGED <<next, active, epoch, pendingCalls, waddr, wcur, wep>>
      BY DEF Destroy
    <2>2. inactive' \in Seq([thread : Threads, stamp : Nat])
      BY <2>1
    <2>3. scheduled' \in BOOLEAN
      BY <2>1
    <2> QED  BY <1>1, <2>1, <2>2, <2>3 DEF WPCs
  <1>4. RecordsTypeOK'
    BY DEF Destroy
  <1>5. ListsTypeOK'
    <2>1. reclaimed' \subseteq Nodes /\ leaked' \subseteq Nodes
      BY DEF Destroy, Listed
    <2> QED  BY <2>1 DEF Destroy
  <1>6. ScanTypeOK'
    BY DEF Destroy
  <1> QED
    BY <1>2, <1>3, <1>4, <1>5, <1>6

LEMMA TypeInit == Init => TypeOK
  <1> SUFFICES ASSUME Init PROVE TypeOK
    OBVIOUS
  <1> USE HazardPointersAssumption DEF Init, MaybeThread, MaybeRecord
  <1>1. pc \in [Threads -> PCs] /\ destroyed \in BOOLEAN
    BY DEF PCs
  <1>2. RegistryTypeOK
    <2>1. inactive \in Seq([thread : Threads, stamp : Nat])
      OBVIOUS
    <2>2. scheduled \in BOOLEAN
      OBVIOUS
    <2> QED  BY <2>1, <2>2 DEF RegistryTypeOK, WPCs
  <1>3. RecordsTypeOK
    <2>1. held \in [Threads -> Seq(Records)]
      OBVIOUS
    <2> QED  BY <2>1 DEF RecordsTypeOK
  <1>4. ListsTypeOK
    BY DEF ListsTypeOK
  <1>5. ScanTypeOK
    BY DEF ScanTypeOK
  <1> QED
    BY <1>1, <1>2, <1>3, <1>4, <1>5 DEF TypeOK

LEMMA TypeStep == TypeOK /\ [Next]_vars => TypeOK'
  <1> SUFFICES ASSUME TypeOK, [Next]_vars PROVE TypeOK'
    OBVIOUS
  <1>1. ASSUME NEW t \in Threads, ThreadStep(t) PROVE TypeOK'
    BY <1>1, TypeThread
  <1>2. CASE WorkerStep
    BY <1>2, TypeWorker
  <1>3. CASE Destroy
    BY <1>3, TypeDestroy
  <1>4. ASSUME NEW v \in Thresholds, SetReclaimThreshold(v) PROVE TypeOK'
    BY <1>4 DEF SetReclaimThreshold, TypeOK, RegistryTypeOK, RecordsTypeOK, ListsTypeOK,
         ScanTypeOK, registry, records, client, scan, worker, MaybeThread, MaybeRecord
  <1>5. CASE UNCHANGED vars
    BY <1>5 DEF vars, TypeOK, RegistryTypeOK, RecordsTypeOK, ListsTypeOK, ScanTypeOK,
         registry, records, client, lists, scan, worker, MaybeThread, MaybeRecord
  <1> QED
    BY <1>1, <1>2, <1>3, <1>4, <1>5 DEF Next, Destroyed

\* Every variable keeps its type and no cursor about to be followed is NULL.
THEOREM TypeCorrect == Spec => []TypeOK
  <1> QED  BY TypeInit, TypeStep, PTL DEF Spec

-----------------------------------------------------------------------------
(***************************************************************************)
(* Conservation of retired nodes.  ChainInHand is what makes it inductive: *)
(* a cycle that detaches the hand-over list must not overwrite a chain it  *)
(* already has.                                                            *)
(***************************************************************************)
IInv == TypeOK /\ EachNodeOnce /\ ChainInHand

nodeVars == <<linked, reclaimList, pendingList, chain, reclaimed, leaked, toRetire>>

\* Steps that touch neither a list nor a node in hand conserve the nodes.
LEMMA EachNodeOnceFrame == EachNodeOnce /\ UNCHANGED nodeVars => EachNodeOnce'
  BY DEF EachNodeOnce, NoneLost, NoneTwice, nodeVars

\* The steps of a thread that do not move a node.
LEMMA ThreadFrame ==
    ASSUME IInv, NEW t \in Threads,
           \/ RegisterPrepare(t) \/ RegisterPush(t) \/ UnregisterDeactivate(t)
           \/ \E n \in Nodes : AcquireStart(t, n)
           \/ AcquireFails(t) \/ AcquireLink(t) \/ AcquirePublish(t) \/ Validate(t)
           \/ \E i \in 1..MaxRecords : ReleaseClear(t, i)
           \/ ReleaseUnlink(t) \/ ReleaseFree(t) \/ ReclaimEnter(t)
           \/ ScanHead(t) \/ ScanThread(t) \/ ScanRecordNext(t) \/ ScanRecordNode(t)
           \/ ScanFails(t) \/ EpochRead(t) \/ ReclaimLeave(t) \/ EpochCas(t) \/ FreeThreads(t)
    PROVE  UNCHANGED nodeVars /\ ChainInHand'
  <1> USE DEF IInv, TypeOK, ChainInHand, nodeVars, lists, client, Goto, AfterThread
  <1>1. CASE RegisterPrepare(t) \/ RegisterPush(t) \/ UnregisterDeactivate(t)
    BY <1>1 DEF RegisterPrepare, RegisterPush, UnregisterDeactivate
  <1>2. CASE \E n \in Nodes : AcquireStart(t, n)
    BY <1>2 DEF AcquireStart
  <1>3. CASE AcquireFails(t) \/ AcquireLink(t) \/ AcquirePublish(t) \/ Validate(t)
    BY <1>3 DEF AcquireFails, AcquireLink, AcquirePublish, Validate
  <1>4. CASE \E i \in 1..MaxRecords : ReleaseClear(t, i)
    BY <1>4 DEF ReleaseClear
  <1>5. CASE ReleaseUnlink(t) \/ ReleaseFree(t) \/ ReclaimEnter(t)
    BY <1>5 DEF ReleaseUnlink, ReleaseFree, ReclaimEnter
  <1>6. CASE ScanHead(t) \/ ScanThread(t) \/ ScanRecordNext(t)
    BY <1>6 DEF ScanHead, ScanThread, ScanRecordNext
  <1>7. CASE ScanRecordNode(t) \/ ScanFails(t)
    BY <1>7 DEF ScanRecordNode, ScanFails
  <1>8. CASE EpochRead(t) \/ ReclaimLeave(t) \/ EpochCas(t) \/ FreeThreads(t)
    BY <1>8 DEF EpochRead, ReclaimLeave, EpochCas, FreeThreads
  <1> QED
    BY <1>1, <1>2, <1>3, <1>4, <1>5, <1>6, <1>7, <1>8

\* The steps of a thread that do: each takes a node from one place to another.
LEMMA ThreadMoves ==
    ASSUME IInv, NEW t \in Threads,
           \/ UnregisterHandOff(t) \/ (\E n \in Nodes : Unlink(t, n)) \/ Reclaim(t)
           \/ SweepOwn(t) \/ DetachPending(t) \/ SweepPending(t) \/ Repark(t)
    PROVE  EachNodeOnce' /\ ChainInHand'
  <1> USE HazardPointersAssumption
        DEF IInv, EachNodeOnce, NoneLost, NoneTwice, ChainInHand, TypeOK, ListsTypeOK, Goto
  <1>1. CASE UnregisterHandOff(t)
    BY <1>1 DEF UnregisterHandOff, client
  <1>2. ASSUME NEW n \in Nodes, Unlink(t, n) PROVE EachNodeOnce' /\ ChainInHand'
    BY <1>2 DEF Unlink
  <1>3. CASE Reclaim(t)
    BY <1>3 DEF Reclaim
  <1>4. CASE SweepOwn(t)
    BY <1>4 DEF SweepOwn, client
  <1>5. CASE DetachPending(t)
    BY <1>5 DEF DetachPending, client
  <1>6. CASE SweepPending(t)
    BY <1>6 DEF SweepPending, client
  <1>7. CASE Repark(t)
    BY <1>7 DEF Repark, client
  <1> QED
    BY <1>1, <1>2, <1>3, <1>4, <1>5, <1>6, <1>7

LEMMA DestroyConserves ==
    ASSUME IInv, Destroy
    PROVE  EachNodeOnce' /\ ChainInHand'
  <1> USE HazardPointersAssumption
        DEF IInv, EachNodeOnce, NoneLost, NoneTwice, ChainInHand, TypeOK, ListsTypeOK
  <1>1. PICK failed \in SUBSET Listed :
            /\ reclaimed' = reclaimed \cup {n \in Nodes : \E t \in Listed \ failed : n \in reclaimList[t]}
                                       \cup pendingList
            /\ leaked' = leaked \cup {n \in Nodes : \E t \in failed : n \in reclaimList[t]}
    BY DEF Destroy
  <1>2. /\ reclaimList' = [t \in Threads |-> IF t \in Listed THEN {} ELSE reclaimList[t]]
        /\ pendingList' = {}
        /\ UNCHANGED <<linked, chain, toRetire>>
    BY DEF Destroy, client
  <1>3. \A t \in Threads : chain[t] = {} /\ toRetire[t] = NULL
    BY DEF Destroy
  <1>4. Listed \subseteq Threads
    BY DEF Listed
  <1>5. NoneLost'
    <2> SUFFICES ASSUME NEW n \in Nodes, n \notin linked' \cup pendingList' \cup reclaimed' \cup leaked'
                 PROVE  \E t \in Threads : n \in reclaimList'[t]
      BY DEF NoneLost
    <2>1. PICK t \in Threads : n \in reclaimList[t]
      BY <1>1, <1>2, <1>3
    <2>2. t \notin Listed
      BY <1>1, <2>1
    <2> QED  BY <1>2, <2>1, <2>2
  <1>6. reclaimed' \cap leaked' = {}
    BY <1>1, <1>4
  <1>7. linked \cap (reclaimed' \cup leaked') = {}
    BY <1>1, <1>4
  <1>8. ASSUME NEW t \in Threads
        PROVE  reclaimList'[t] \cap (linked' \cup pendingList' \cup reclaimed' \cup leaked') = {}
    BY <1>1, <1>2, <1>4
  <1>9. NoneTwice'
    BY <1>2, <1>3, <1>6, <1>7, <1>8
  <1>10. ChainInHand'
    BY <1>2, <1>3
  <1> QED
    BY <1>5, <1>9, <1>10 DEF EachNodeOnce

\* Retired nodes are conserved by every step of the domain.
LEMMA ConservationStep == IInv /\ [Next]_vars => IInv'
  <1> SUFFICES ASSUME IInv, [Next]_vars PROVE IInv'
    OBVIOUS
  <1>1. SUFFICES EachNodeOnce' /\ ChainInHand'
    BY TypeStep DEF IInv
  <1>2. ASSUME NEW t \in Threads, ThreadStep(t) PROVE EachNodeOnce' /\ ChainInHand'
    <2>1. CASE \/ UnregisterHandOff(t) \/ (\E n \in Nodes : Unlink(t, n)) \/ Reclaim(t)
               \/ SweepOwn(t) \/ DetachPending(t) \/ SweepPending(t) \/ Repark(t)
      BY <2>1, ThreadMoves
    <2>2. CASE ~ \/ UnregisterHandOff(t) \/ (\E n \in Nodes : Unlink(t, n)) \/ Reclaim(t)
                 \/ SweepOwn(t) \/ DetachPending(t) \/ SweepPending(t) \/ Repark(t)
      <3>1. UNCHANGED nodeVars /\ ChainInHand'
        BY <1>2, <2>2, ThreadFrame DEF ThreadStep
      <3> QED  BY <3>1, EachNodeOnceFrame DEF IInv
    <2> QED  BY <2>1, <2>2
  <1>3. CASE WorkerStep
    <2>1. UNCHANGED <<nodeVars, pc>>
      BY <1>3
      DEF nodeVars, WorkerStep, WorkerEnter, WorkerEpochRead, WorkerLeave, WorkerEpochCas,
          WorkerFree, WorkerHead, WorkerKeep, WorkerUnlink, WorkerStamp, WorkerPark, lists, client
    <2>2. ChainInHand'
      BY <2>1 DEF IInv, ChainInHand, nodeVars
    <2> QED  BY <2>1, <2>2, EachNodeOnceFrame DEF IInv
  <1>4. CASE Destroy
    BY <1>4, DestroyConserves
  <1>5. CASE (\E v \in Thresholds : SetReclaimThreshold(v)) \/ UNCHANGED vars
    <2>1. UNCHANGED <<nodeVars, pc>>
      BY <1>5 DEF nodeVars, SetReclaimThreshold, vars, lists, client
    <2>2. ChainInHand'
      BY <2>1 DEF IInv, ChainInHand, nodeVars
    <2> QED  BY <2>1, <2>2, EachNodeOnceFrame DEF IInv
  <1> QED
    BY <1>2, <1>3, <1>4, <1>5 DEF Next, Destroyed

\* No retired node is ever lost and none is in two places: the reclaim callback
\* of a node runs at most once, for any number of threads unregistering,
\* reclaiming and failing to allocate in any interleaving.
THEOREM Conservation == Spec => []EachNodeOnce
  <1>1. Init => IInv
    <2>1. Init => EachNodeOnce /\ ChainInHand
      BY HazardPointersAssumption DEF Init, EachNodeOnce, NoneLost, NoneTwice, ChainInHand
    <2> QED  BY <2>1, TypeInit DEF IInv
  <1>2. IInv => EachNodeOnce
    BY DEF IInv
  <1> QED
    BY <1>1, <1>2, ConservationStep, PTL DEF Spec

\* Induction over the natural numbers, stated with a set.
LEMMA LeastNat ==
    ASSUME NEW T, T \subseteq Nat, T # {}
    PROVE  \E x \in T : \A y \in T : x <= y
  <1> DEFINE R == OpToRel(<, Nat)
  <1>1. IsWellFoundedOn(R, Nat)
    BY NatLessThanWellFounded
  <1>2. \E x \in T : \A y \in T : ~ (<<y, x>> \in R)
    <2> HIDE DEF R
    <2> QED  BY <1>1, WFMin
  <1>3. PICK x \in T : \A y \in T : ~ (<<y, x>> \in R)
    BY <1>2
  <1>4. ASSUME NEW y \in T PROVE x <= y
    <2>1. ~ (<<y, x>> \in R)
      BY <1>3
    <2>2. ~ (y < x)
      BY <2>1 DEF OpToRel
    <2> QED  BY <2>2
  <1> QED  BY <1>4

\* The in-use list of a thread as release walks it: when the links spell the
\* sequence s, the k-th hop is its k-th element counted from the end.
LEMMA HopAlong ==
    ASSUME NEW t, NEW m \in 0..MaxRecords, NEW s \in [1..m -> Records],
           pointers[t] = IF m = 0 THEN NULL ELSE s[m],
           \A i \in 1..m : recNext[s[i]] = IF i = 1 THEN NULL ELSE s[i - 1]
    PROVE  \A k \in 0..MaxRecords : Hop(t)[k] = IF k < m THEN s[m - k] ELSE NULL
  <1> DEFINE F(h) == [k \in 0..MaxRecords |->
                        IF k = 0 THEN pointers[t]
                        ELSE IF h[k - 1] = NULL THEN NULL ELSE recNext[h[k - 1]]]
             g == [k \in 0..MaxRecords |-> IF k < m THEN s[m - k] ELSE NULL]
  <1>1. \A i \in 1..m : s[i] # NULL
    BY HazardPointersAssumption DEF Records
  <1>2. g = F(g)
    <2> SUFFICES ASSUME NEW k \in 0..MaxRecords PROVE g[k] = F(g)[k]
      OBVIOUS
    <2>1. CASE k = 0
      BY <2>1, HazardPointersAssumption
    <2>2. CASE k # 0
      <3>1. k - 1 \in 0..MaxRecords /\ m \in Nat
        BY <2>2, HazardPointersAssumption
      <3>2. F(g)[k] = IF g[k - 1] = NULL THEN NULL ELSE recNext[g[k - 1]]
        BY <2>2
      <3>3. g[k - 1] = IF k - 1 < m THEN s[m - (k - 1)] ELSE NULL
        BY <3>1
      <3>4. CASE k - 1 < m
        <4>1. m - (k - 1) \in 1..m
          BY <3>1, <3>4, <2>2, HazardPointersAssumption
        <4>2. F(g)[k] = recNext[s[m - (k - 1)]]
          BY <3>2, <3>3, <3>4, <4>1, <1>1
        <4>3. recNext[s[m - (k - 1)]] = IF k = m THEN NULL ELSE s[m - k]
          BY <4>1, <3>1, HazardPointersAssumption
        <4> QED  BY <4>2, <4>3, <3>1, <3>4
      <3>5. CASE ~(k - 1 < m)
        BY <3>1, <3>2, <3>3, <3>5
      <3> QED  BY <3>4, <3>5
    <2> QED  BY <2>1, <2>2
  <1>3. Hop(t) = CHOOSE h : h = F(h)
    BY DEF Hop
  <1>4. Hop(t) = F(Hop(t))
    <2> HIDE DEF F, g
    <2> QED  BY <1>2, <1>3
  <1>5. \A k \in 0..MaxRecords : Hop(t)[k] = g[k]
    <2> DEFINE B == {k \in 0..MaxRecords : Hop(t)[k] # g[k]}
    <2> SUFFICES ASSUME B # {} PROVE FALSE
      OBVIOUS
    <2>1. PICK k \in B : \A y \in B : k <= y
      <3>1. B \subseteq Nat
        BY HazardPointersAssumption
      <3> HIDE DEF B
      <3> QED  BY <3>1, LeastNat
    <2>2. Hop(t)[k] = F(Hop(t))[k] /\ g[k] = F(g)[k] /\ k \in 0..MaxRecords /\ Hop(t)[k] # g[k]
      BY <1>2, <1>4
    <2>3. CASE k = 0
      BY <2>2, <2>3
    <2>4. CASE k # 0
      <3>1. k - 1 \in 0..MaxRecords
        BY <2>2, <2>4, HazardPointersAssumption
      <3>2. k - 1 \notin B
        BY <2>1, <2>2, HazardPointersAssumption
      <3>3. Hop(t)[k - 1] = g[k - 1]
        BY <3>1, <3>2
      <3> HIDE DEF g
      <3> QED  BY <2>2, <2>4, <3>3
    <2> QED  BY <2>3, <2>4
  <1> QED  BY <1>5

\* What UsedRecords collects on the way.
LEMMA UsedAlong ==
    ASSUME NEW t, NEW m \in 0..MaxRecords, NEW s \in [1..m -> Records],
           pointers[t] = IF m = 0 THEN NULL ELSE s[m],
           \A i \in 1..m : recNext[s[i]] = IF i = 1 THEN NULL ELSE s[i - 1]
    PROVE  UsedRecords(t) = {s[i] : i \in 1..m}
  <1>1. \A k \in 0..MaxRecords : Hop(t)[k] = IF k < m THEN s[m - k] ELSE NULL
    BY HopAlong
  <1>2. \A i \in 1..m : s[i] # NULL /\ m - i \in 0..MaxRecords /\ m - (m - i) = i /\ m - i < m
    BY HazardPointersAssumption DEF Records
  <1>3. ASSUME NEW x \in UsedRecords(t) PROVE x \in {s[i] : i \in 1..m}
    <2>1. PICK k \in 0..MaxRecords : x = Hop(t)[k] /\ x # NULL
      BY DEF UsedRecords
    <2>2. k < m /\ x = s[m - k]
      BY <1>1, <2>1
    <2>3. m - k \in 1..m
      BY <2>2, HazardPointersAssumption
    <2> QED  BY <2>2, <2>3
  <1>4. ASSUME NEW i \in 1..m PROVE s[i] \in UsedRecords(t)
    <2>1. Hop(t)[m - i] = s[i]
      BY <1>1, <1>2
    <2> QED  BY <1>2, <2>1 DEF UsedRecords
  <1> QED  BY <1>3, <1>4

\* Two sequences put together, element by element.
LEMMA JoinAt ==
    ASSUME NEW S, NEW a \in Seq(S), NEW b \in Seq(S)
    PROVE  /\ a \o b \in Seq(S) /\ Len(a \o b) = Len(a) + Len(b)
           /\ \A j \in 1..Len(a) + Len(b) :
                 (a \o b)[j] = IF j <= Len(a) THEN a[j] ELSE b[j - Len(a)]
  OBVIOUS

LEMMA SubSeqAt ==
    ASSUME NEW S, NEW s \in Seq(S), NEW m \in 1..Len(s) + 1, NEW n \in 0..Len(s), m <= n + 1
    PROVE  /\ SubSeq(s, m, n) \in Seq(S) /\ Len(SubSeq(s, m, n)) = n - m + 1
           /\ \A j \in 1..n - m + 1 : SubSeq(s, m, n)[j] = s[m + j - 1]
  OBVIOUS

\* The two ends of s around its element i, put together.
LEMMA Around ==
    ASSUME NEW S, NEW s \in Seq(S), NEW a \in Seq(S), NEW b \in Seq(S), NEW i \in 1..Len(s),
           Len(a) = i - 1, Len(b) = Len(s) - i,
           \A j \in 1..i - 1 : a[j] = s[j],
           \A j \in 1..Len(s) - i : b[j] = s[i + j]
    PROVE  \A j \in 1..Len(s) - 1 : (a \o b)[j] = IF j < i THEN s[j] ELSE s[j + 1]
  <1>1. \A j \in 1..Len(s) - 1 : (a \o b)[j] = IF j <= i - 1 THEN a[j] ELSE b[j - (i - 1)]
    BY JoinAt
  <1>2. ASSUME NEW j \in 1..Len(s) - 1, j < i PROVE (a \o b)[j] = s[j]
    BY <1>1, <1>2
  <1>3. ASSUME NEW j \in 1..Len(s) - 1, ~(j < i) PROVE (a \o b)[j] = s[j + 1]
    <2>1. j - (i - 1) \in 1..Len(s) - i /\ i + (j - (i - 1)) = j + 1
      BY <1>3
    <2>2. b[j - (i - 1)] = s[j + 1]
      BY <2>1
    <2> QED  BY <1>1, <1>3, <2>2
  <1> QED  BY <1>2, <1>3

\* What is left of a sequence when its element i is removed, element by element.
LEMMA Without ==
    ASSUME NEW S, NEW s \in Seq(S), NEW i \in 1..Len(s),
           NEW r, r = SubSeq(s, 1, i - 1) \o SubSeq(s, i + 1, Len(s))
    PROVE  /\ r \in Seq(S) /\ Len(r) = Len(s) - 1
           /\ \A j \in 1..Len(s) - 1 : r[j] = IF j < i THEN s[j] ELSE s[j + 1]
  <1> DEFINE a == SubSeq(s, 1, i - 1)
             b == SubSeq(s, i + 1, Len(s))
  <1>1. a \in Seq(S) /\ Len(a) = i - 1 /\ \A j \in 1..i - 1 : a[j] = s[j]
    BY SubSeqAt
  <1>2. b \in Seq(S) /\ Len(b) = Len(s) - i /\ \A j \in 1..Len(s) - i : b[j] = s[i + j]
    BY SubSeqAt
  <1>3. r = a \o b
    OBVIOUS
  <1> HIDE DEF a, b
  <1>4. \A j \in 1..Len(s) - 1 : (a \o b)[j] = IF j < i THEN s[j] ELSE s[j + 1]
    BY <1>1, <1>2, Around
  <1>5. a \o b \in Seq(S) /\ Len(a \o b) = Len(a) + Len(b)
    BY <1>1, <1>2, JoinAt
  <1>6. Len(a) + Len(b) = Len(s) - 1
    BY <1>1, <1>2
  <1> QED  BY <1>3, <1>4, <1>5, <1>6

-----------------------------------------------------------------------------
(***************************************************************************)
(* The records of a thread: its in-use list spells what its client holds,  *)
(* with the record being released still somewhere in it until release has  *)
(* unlinked it; the free list holds only records that are in neither.      *)
(***************************************************************************)
Own(t) == {t} \X (1..MaxRecords)
InCall == {"acq_link", "acq_publish", "rel_unlink", "rel_free"}

HeldSet(t) == {held[t][i] : i \in 1..Len(held[t])}
FreeSet(t) == {r \in Own(t) : /\ r[2] <= allocated[t] /\ r \notin HeldSet(t)
                              /\ pc[t] \in InCall => r # op[t]}

HeldOK(t) ==
    /\ Len(held[t]) <= MaxRecords
    /\ \A i \in 1..Len(held[t]) :
          /\ held[t][i] \in Own(t) /\ held[t][i][2] <= allocated[t]
          /\ recNode[held[t][i]] # NULL
    /\ \A i, j \in 1..Len(held[t]) : held[t][i] = held[t][j] => i = j
    /\ pc[t] \notin InCall \cup {"idle", "validate"} => held[t] = <<>>

OpOK(t) ==
    /\ pc[t] \in InCall =>
          /\ Len(held[t]) < MaxRecords
          /\ op[t] \in Own(t) /\ op[t][2] <= allocated[t] /\ op[t] \notin HeldSet(t)
    /\ pc[t] \in {"acq_link", "acq_publish"} => recNode[op[t]] # NULL
    /\ pc[t] = "acq_publish" => recNext[op[t]] = pointers[t]
    /\ pc[t] = "validate" => Len(held[t]) # 0 /\ op[t] = held[t][Len(held[t])]

\* The in-use list, with record x above the p-th of those held.
Spliced(t, p, x) ==
    /\ recNext[x] = IF p = 0 THEN NULL ELSE held[t][p]
    /\ pointers[t] = IF p = Len(held[t]) THEN x ELSE held[t][Len(held[t])]
    /\ \A i \in 1..Len(held[t]) :
          recNext[held[t][i]] = IF i = p + 1 THEN x
                                ELSE IF i = 1 THEN NULL ELSE held[t][i - 1]

Plain(t) ==
    /\ pointers[t] = IF Len(held[t]) = 0 THEN NULL ELSE held[t][Len(held[t])]
    /\ \A i \in 1..Len(held[t]) : recNext[held[t][i]] = IF i = 1 THEN NULL ELSE held[t][i - 1]

InUseOK(t) ==
    IF pc[t] = "rel_unlink"
    THEN \E p \in 0..Len(held[t]) : (OldestFirst => p = 0) /\ Spliced(t, p, op[t])
    ELSE Plain(t)

FreeOK(t) ==
    /\ freePointers[t] \in FreeSet(t) \cup {NULL}
    /\ \A x \in FreeSet(t) :
          /\ recNext[x] \in FreeSet(t) \cup {NULL}
          /\ recNext[x] # NULL => recNext[x] # freePointers[t]
    /\ \A x, y \in FreeSet(t) : recNext[x] # NULL /\ recNext[x] = recNext[y] => x = y

RecordsOK(t) == HeldOK(t) /\ OpOK(t) /\ InUseOK(t) /\ FreeOK(t)

\* Nothing of thread u's records changes.
SameRecords(u) ==
    /\ held'[u] = held[u] /\ pointers'[u] = pointers[u]
    /\ freePointers'[u] = freePointers[u] /\ allocated'[u] = allocated[u]
    /\ \A r \in Own(u) : recNode'[r] = recNode[r] /\ recNext'[r] = recNext[r]

\* A step that leaves the records of u alone, and does not take u into or out of
\* acquire or release, leaves them in order.
LEMMA RecordsFrame ==
    ASSUME NEW u, RecordsOK(u), SameRecords(u),
           \/ pc'[u] = pc[u] /\ op'[u] = op[u]
           \/ /\ pc[u] \notin InCall \cup {"validate"} /\ pc'[u] \notin InCall \cup {"validate"}
              /\ pc'[u] = "idle" \/ held[u] = <<>>
    PROVE  RecordsOK(u)'
  <1> USE DEF SameRecords
  <1>1. FreeSet(u)' = FreeSet(u) /\ HeldSet(u)' = HeldSet(u)
    BY DEF FreeSet, HeldSet
  <1>2. HeldOK(u)'
    BY DEF RecordsOK, HeldOK
  <1>3. OpOK(u)'
    <2>1. CASE pc'[u] = pc[u] /\ op'[u] = op[u]
      <3>1. pc[u] \in {"acq_link", "acq_publish"} => recNode'[op[u]] = recNode[op[u]]
        BY DEF RecordsOK, OpOK, InCall
      <3>2. pc[u] = "acq_publish" => recNext'[op[u]] = recNext[op[u]]
        BY DEF RecordsOK, OpOK, InCall
      <3> QED  BY <1>1, <2>1, <3>1, <3>2 DEF RecordsOK, OpOK
    <2>2. CASE pc'[u] \notin InCall \cup {"validate"}
      BY <2>2 DEF OpOK, InCall
    <2> QED  BY <2>1, <2>2
  <1>4. \A i \in 1..Len(held[u]) : held[u][i] \in Own(u)
    BY DEF RecordsOK, HeldOK
  <1>5. InUseOK(u)'
    <2>1. CASE pc[u] = "rel_unlink"
      <3>1. pc'[u] = "rel_unlink" /\ op'[u] = op[u] /\ op[u] \in Own(u)
        BY <2>1 DEF InCall, RecordsOK, OpOK
      <3>2. PICK p \in 0..Len(held[u]) : (OldestFirst => p = 0) /\ Spliced(u, p, op[u])
        BY <2>1 DEF RecordsOK, InUseOK
      <3>3. Spliced(u, p, op[u])'
        BY <1>4, <3>1, <3>2 DEF Spliced
      <3> QED  BY <3>1, <3>2, <3>3 DEF InUseOK
    <2>2. CASE pc[u] # "rel_unlink"
      <3>1. Plain(u)
        BY <2>2 DEF RecordsOK, InUseOK
      <3>2. Plain(u)'
        BY <1>4, <3>1 DEF Plain
      <3>3. pc'[u] # "rel_unlink"
        BY <2>2 DEF InCall
      <3> QED  BY <3>2, <3>3 DEF InUseOK
    <2> QED  BY <2>1, <2>2
  <1>6. FreeOK(u)'
    <2>1. FreeSet(u) \subseteq Own(u)
      BY DEF FreeSet
    <2> QED  BY <1>1, <2>1 DEF RecordsOK, FreeOK
  <1> QED  BY <1>2, <1>3, <1>5, <1>6 DEF RecordsOK

\* Records of different threads are different.
LEMMA OwnApart ==
    ASSUME NEW t, NEW u, t # u
    PROVE  Own(t) \cap Own(u) = {}
  BY DEF Own

LEMMA OwnRecords ==
    ASSUME NEW t \in Threads
    PROVE  Own(t) \subseteq Records
  BY DEF Own, Records

\* acquire takes a record off the free list or makes one.
LEMMA AcquireStartOwn ==
    ASSUME TypeOK, NEW t \in Threads, NEW n \in Nodes, RecordsOK(t), AcquireStart(t, n)
    PROVE  RecordsOK(t)'
  <1> DEFINE r == IF freePointers[t] # NULL THEN freePointers[t] ELSE <<t, allocated[t] + 1>>
  <1>0. /\ pc[t] = "idle" /\ pc'[t] = "acq_link" /\ op'[t] = r /\ held' = held
        /\ pointers' = pointers /\ recNext' = recNext
        /\ Len(held[t]) < MaxRecords /\ Len(held[t]) \in Nat
        /\ recNode' = [recNode EXCEPT ![r] = n] /\ n # NULL
    <2>1. /\ pc[t] = "idle" /\ pc'[t] = "acq_link" /\ held' = held
          /\ pointers' = pointers /\ recNext' = recNext
          /\ Len(held[t]) < MaxRecords /\ Len(held[t]) \in Nat /\ n # NULL
      BY HazardPointersAssumption
      DEF AcquireStart, TypeOK, RecordsTypeOK, Goto
    <2>2. op' = [op EXCEPT ![t] = r] /\ recNode' = [recNode EXCEPT ![r] = n]
      BY DEF AcquireStart
    <2> HIDE DEF r
    <2> QED  BY <2>1, <2>2 DEF TypeOK, RecordsTypeOK
  <1>1. /\ r \in Own(t) /\ r \notin HeldSet(t)
        /\ allocated'[t] \in Nat /\ allocated[t] \in Nat /\ allocated[t] <= allocated'[t]
        /\ r[2] <= allocated'[t]
        /\ FreeSet(t)' = FreeSet(t) \ {r}
        /\ freePointers'[t] = IF freePointers[t] # NULL THEN recNext[r] ELSE NULL
        /\ freePointers[t] = NULL => r \notin FreeSet(t)
    <2>1. CASE freePointers[t] # NULL
      <3>1. r \in FreeSet(t) /\ r = freePointers[t]
        BY <2>1 DEF RecordsOK, FreeOK
      <3>2. /\ freePointers'[t] = recNext[r] /\ allocated' = allocated
            /\ allocated[t] \in Nat
        BY <2>1 DEF AcquireStart, TypeOK, RecordsTypeOK
      <3>3. FreeSet(t)' = FreeSet(t) \ {r}
        BY <1>0, <3>2 DEF FreeSet, HeldSet, InCall
      <3> HIDE DEF r
      <3> QED  BY <2>1, <3>1, <3>2, <3>3 DEF FreeSet
    <2>2. CASE freePointers[t] = NULL
      <3>1. r = <<t, allocated[t] + 1>> /\ allocated[t] \in 0..MaxRecords /\ allocated[t] < MaxRecords
            /\ allocated'[t] = allocated[t] + 1 /\ freePointers'[t] = NULL
        BY <2>2 DEF AcquireStart, TypeOK, RecordsTypeOK
      <3>2. r \in Own(t) /\ r[2] = allocated[t] + 1
        BY <3>1, HazardPointersAssumption DEF Own
      <3>3. r \notin HeldSet(t)
        BY <3>1, <3>2 DEF HeldSet, RecordsOK, HeldOK
      <3>4. \A x \in Own(t) : x # r => (x[2] <= allocated[t] + 1 <=> x[2] <= allocated[t])
        BY <3>1, HazardPointersAssumption DEF Own
      <3>5. r \notin FreeSet(t)
        BY <3>1, <3>2 DEF FreeSet
      <3>6. FreeSet(t)' = {x \in Own(t) : /\ x[2] <= allocated[t] + 1 /\ x \notin HeldSet(t)
                                          /\ x # r}
        BY <1>0, <3>1 DEF FreeSet, HeldSet, InCall
      <3>7. FreeSet(t) = {x \in Own(t) : x[2] <= allocated[t] /\ x \notin HeldSet(t)}
        BY <1>0 DEF FreeSet, InCall
      <3> HIDE DEF r
      <3>8. FreeSet(t)' = FreeSet(t) \ {r}
        BY <3>4, <3>5, <3>6, <3>7
      <3> QED  BY <2>2, <3>1, <3>2, <3>3, <3>5, <3>8
    <2> QED  BY <2>1, <2>2
  <1> HIDE DEF r
  <1>2. HeldOK(t)'
    <2>1. HeldOK(t)
      BY DEF RecordsOK
    <2>2. \A i \in 1..Len(held[t]) : held[t][i][2] <= allocated'[t]
      <3> SUFFICES ASSUME NEW i \in 1..Len(held[t]) PROVE held[t][i][2] <= allocated'[t]
        OBVIOUS
      <3>1. held[t][i] \in Own(t) /\ held[t][i][2] <= allocated[t]
        BY <2>1 DEF HeldOK
      <3>2. held[t][i][2] \in Int
        BY <3>1 DEF Own
      <3> QED  BY <1>1, <3>1, <3>2
    <2>3. \A i \in 1..Len(held[t]) : recNode'[held[t][i]] # NULL
      BY <1>0, <2>1, OwnRecords DEF HeldOK, TypeOK, RecordsTypeOK
    <2> QED  BY <1>0, <2>1, <2>2, <2>3 DEF HeldOK, InCall
  <1>3. OpOK(t)'
    <2>1. recNode'[r] # NULL
      BY <1>0, <1>1, OwnRecords DEF TypeOK, RecordsTypeOK
    <2> QED  BY <1>0, <1>1, <2>1 DEF OpOK, HeldSet
  <1>4. InUseOK(t)'
    BY <1>0 DEF RecordsOK, InUseOK, Plain
  <1>5. FreeOK(t)'
    <2>1. FreeOK(t) /\ (freePointers[t] # NULL => r = freePointers[t])
      BY DEF RecordsOK, r
    <2>2. \A x \in FreeSet(t) : recNext[x] # r
      BY <1>1, <2>1, HazardPointersAssumption, OwnRecords DEF FreeOK, Records
    <2>3. freePointers'[t] \in FreeSet(t)' \cup {NULL}
      BY <1>1, <2>1, <2>2 DEF FreeOK
    <2>4. \A x \in FreeSet(t)' :
            /\ recNext[x] \in FreeSet(t)' \cup {NULL}
            /\ recNext[x] # NULL => recNext[x] # freePointers'[t]
      BY <1>1, <2>1, <2>2 DEF FreeOK
    <2> QED  BY <1>0, <1>1, <2>1, <2>3, <2>4 DEF FreeOK
  <1> QED  BY <1>2, <1>3, <1>4, <1>5 DEF RecordsOK

LEMMA AcquireLinkOwn ==
    ASSUME TypeOK, NEW t \in Threads, RecordsOK(t), AcquireLink(t)
    PROVE  RecordsOK(t)'
  <1>1. /\ pc[t] = "acq_link" /\ pc'[t] = "acq_publish"
        /\ UNCHANGED <<pointers, freePointers, allocated, recNode, held, op>>
        /\ recNext' = [recNext EXCEPT ![op[t]] = pointers[t]]
        /\ op[t] \in Own(t) /\ op[t] \in Records /\ op[t] \notin HeldSet(t)
    BY OwnRecords DEF AcquireLink, TypeOK, Goto, client, RecordsOK, OpOK, InCall
  <1>2. FreeSet(t)' = FreeSet(t) /\ op[t] \notin FreeSet(t)
    BY <1>1 DEF FreeSet, HeldSet, InCall
  <1>3. \A x \in Own(t) : x # op[t] => recNext'[x] = recNext[x]
    BY <1>1, OwnRecords DEF TypeOK, RecordsTypeOK
  <1>4. HeldOK(t)'
    BY <1>1 DEF RecordsOK, HeldOK, InCall
  <1>5. OpOK(t)'
    <2>1. recNext'[op[t]] = pointers[t]
      BY <1>1 DEF TypeOK, RecordsTypeOK
    <2> QED  BY <1>1, <2>1 DEF RecordsOK, OpOK, HeldSet, InCall
  <1>6. InUseOK(t)'
    <2>1. \A i \in 1..Len(held[t]) : held[t][i] \in Own(t) /\ held[t][i] # op[t]
      BY <1>1 DEF RecordsOK, HeldOK, HeldSet
    <2> QED  BY <1>1, <1>3, <2>1 DEF RecordsOK, InUseOK, Plain
  <1>7. FreeOK(t)'
    <2>1. \A x \in FreeSet(t) : recNext'[x] = recNext[x]
      BY <1>2, <1>3 DEF FreeSet
    <2> QED  BY <1>1, <1>2, <2>1 DEF RecordsOK, FreeOK
  <1> QED  BY <1>4, <1>5, <1>6, <1>7 DEF RecordsOK

\* What appending an element does, element by element.
LEMMA AppendAt ==
    ASSUME NEW S, NEW s \in Seq(S), NEW x \in S
    PROVE  /\ Append(s, x) \in Seq(S) /\ Len(Append(s, x)) = Len(s) + 1
           /\ \A j \in 1..Len(s) + 1 : Append(s, x)[j] = IF j = Len(s) + 1 THEN x ELSE s[j]
  OBVIOUS

LEMMA AcquirePublishOwn ==
    ASSUME TypeOK, NEW t \in Threads, RecordsOK(t), AcquirePublish(t)
    PROVE  RecordsOK(t)'
  <1> DEFINE h == held[t]
             L == Len(held[t])
  <1>1. /\ pc[t] = "acq_publish" /\ pc'[t] = "validate"
        /\ UNCHANGED <<freePointers, allocated, recNode, recNext, op>>
        /\ pointers'[t] = op[t] /\ held'[t] = Append(held[t], op[t])
        /\ op[t] \in Own(t) /\ op[t] \in Records /\ op[t] \notin HeldSet(t)
        /\ op[t][2] <= allocated[t] /\ recNode[op[t]] # NULL /\ recNext[op[t]] = pointers[t]
        /\ Len(held[t]) < MaxRecords /\ Len(held[t]) \in Nat /\ held[t] \in Seq(Records)
    BY OwnRecords
    DEF AcquirePublish, TypeOK, RecordsTypeOK, Goto, client, RecordsOK, OpOK, InCall
  <1>2. /\ Len(held'[t]) = L + 1
        /\ \A j \in 1..L + 1 : held'[t][j] = IF j = L + 1 THEN op[t] ELSE h[j]
    BY <1>1, AppendAt
  <1>3. \A j \in 1..L + 1 : j # L + 1 => j \in 1..L
    BY <1>1
  <1>4. HeldSet(t)' = HeldSet(t) \cup {op[t]}
    <2>1. HeldSet(t)' = {held'[t][j] : j \in 1..L + 1}
      BY <1>2 DEF HeldSet
    <2>2. \A j \in 1..L : j \in 1..L + 1 /\ j # L + 1
      BY <1>1
    <2>3. L + 1 \in 1..L + 1
      BY <1>1
    <2> QED  BY <1>2, <1>3, <2>1, <2>2, <2>3 DEF HeldSet
  <1>5. FreeSet(t)' = FreeSet(t)
    BY <1>1, <1>4 DEF FreeSet, InCall
  <1> HIDE DEF h, L
  <1>6. HeldOK(t)'
    <2>1. \A i \in 1..L : h[i] \in Own(t) /\ h[i][2] <= allocated[t] /\ recNode[h[i]] # NULL /\ h[i] # op[t]
      BY <1>1 DEF RecordsOK, HeldOK, HeldSet, h, L
    <2>2. \A i, j \in 1..L : h[i] = h[j] => i = j
      BY DEF RecordsOK, HeldOK, h, L
    <2>3. L + 1 <= MaxRecords
      BY <1>1, HazardPointersAssumption DEF L
    <2>4. \A i \in 1..L + 1 :
            held'[t][i] \in Own(t) /\ held'[t][i][2] <= allocated[t] /\ recNode[held'[t][i]] # NULL
      BY <1>1, <1>2, <1>3, <2>1
    <2>5. \A i, j \in 1..L + 1 : held'[t][i] = held'[t][j] => i = j
      BY <1>2, <1>3, <2>1, <2>2
    <2> QED  BY <1>1, <1>2, <2>3, <2>4, <2>5 DEF HeldOK, InCall
  <1>7. OpOK(t)'
    <2>1. L \in Nat /\ L + 1 \in 1..L + 1 /\ L + 1 # 0
      BY <1>1 DEF L
    <2> QED  BY <1>1, <1>2, <2>1 DEF OpOK, InCall
  <1>8. InUseOK(t)'
    <2>1. Plain(t)
      BY <1>1 DEF RecordsOK, InUseOK
    <2>2. L \in Nat /\ L + 1 \in 1..L + 1 /\ L + 1 # 0
      BY <1>1 DEF L
    <2>3. ASSUME NEW i \in 1..L + 1
          PROVE  recNext[held'[t][i]] = IF i = 1 THEN NULL ELSE held'[t][i - 1]
      <3>1. CASE i = L + 1
        <4>1. recNext[held'[t][i]] = IF L = 0 THEN NULL ELSE h[L]
          BY <1>1, <1>2, <2>1, <3>1 DEF Plain, h, L
        <4>2. L # 0 => L \in 1..L + 1 /\ L # L + 1 /\ held'[t][L] = h[L]
          BY <1>2, <2>2
        <4> QED  BY <2>2, <3>1, <4>1, <4>2
      <3>2. CASE i # L + 1
        <4>1. i \in 1..L /\ held'[t][i] = h[i]
          BY <1>2, <1>3, <3>2
        <4>2. i # 1 => i - 1 \in 1..L + 1 /\ i - 1 # L + 1 /\ held'[t][i - 1] = h[i - 1]
          BY <1>2, <2>2, <4>1
        <4> QED  BY <2>1, <4>1, <4>2 DEF Plain, h, L
      <3> QED  BY <3>1, <3>2
    <2>4. pointers'[t] = held'[t][L + 1]
      BY <1>1, <1>2, <2>2
    <2> QED  BY <1>1, <1>2, <2>2, <2>3, <2>4 DEF InUseOK, Plain
  <1>9. FreeOK(t)'
    BY <1>1, <1>5 DEF RecordsOK, FreeOK
  <1> QED  BY <1>6, <1>7, <1>8, <1>9 DEF RecordsOK

LEMMA ValidateOwn ==
    ASSUME TypeOK, NEW t \in Threads, RecordsOK(t), Validate(t)
    PROVE  RecordsOK(t)'
  <1>1. /\ pc[t] = "validate" /\ pc'[t] = "idle"
        /\ UNCHANGED <<pointers, freePointers, allocated, recNode, recNext, held>>
    BY DEF Validate, TypeOK, Goto, records
  <1>2. FreeSet(t)' = FreeSet(t)
    BY <1>1 DEF FreeSet, HeldSet, InCall
  <1> QED
    BY <1>1, <1>2 DEF RecordsOK, HeldOK, OpOK, InUseOK, Plain, FreeOK, InCall

\* release takes any record out of what the client holds; it stays in the list,
\* on top of the ones acquired before it.
LEMMA ReleaseClearOwn ==
    ASSUME TypeOK, NEW t \in Threads, NEW i \in 1..MaxRecords, RecordsOK(t), ReleaseClear(t, i)
    PROVE  RecordsOK(t)'
  <1> DEFINE h == held[t]
             L == Len(held[t])
             g == held'[t]
             r == held[t][i]
  <1>1. /\ pc[t] = "idle" /\ pc'[t] = "rel_unlink" /\ op'[t] = r
        /\ UNCHANGED <<pointers, freePointers, allocated, recNext>>
        /\ recNode' = [recNode EXCEPT ![r] = NULL]
        /\ i \in 1..L /\ L \in Nat /\ h \in Seq(Records) /\ (OldestFirst => i = 1)
        /\ g = SubSeq(h, 1, i - 1) \o SubSeq(h, i + 1, L)
    <2>1. /\ pc[t] = "idle" /\ pc'[t] = "rel_unlink"
          /\ UNCHANGED <<pointers, freePointers, allocated, recNext>>
          /\ i \in 1..L /\ L \in Nat /\ h \in Seq(Records) /\ (OldestFirst => i = 1)
      BY DEF ReleaseClear, TypeOK, RecordsTypeOK, Goto
    <2>2. op'[t] = r /\ recNode' = [recNode EXCEPT ![r] = NULL]
      BY DEF ReleaseClear, TypeOK, RecordsTypeOK
    <2>3. g = SubSeq(h, 1, i - 1) \o SubSeq(h, i + 1, L)
      BY DEF ReleaseClear, TypeOK, RecordsTypeOK
    <2> QED  BY <2>1, <2>2, <2>3
  <1> HIDE DEF h, L, g, r
  <1>2. /\ Len(g) = L - 1 /\ g \in Seq(Records)
        /\ \A j \in 1..L - 1 : g[j] = IF j < i THEN h[j] ELSE h[j + 1]
    <2>1. i \in 1..Len(h) /\ L = Len(h)
      BY <1>1 DEF L, h
    <2> QED  BY <1>1, <2>1, Without
  <1>3. /\ \A j \in 1..L : h[j] \in Own(t) /\ h[j][2] <= allocated[t] /\ recNode[h[j]] # NULL
        /\ \A j, k \in 1..L : h[j] = h[k] => j = k
        /\ L <= MaxRecords
    BY DEF RecordsOK, HeldOK, h, L
  <1>4. r = h[i] /\ r \in Own(t) /\ r \in Records
    BY <1>1, <1>3, OwnRecords DEF r, h
  <1>5. \A j \in 1..L - 1 : IF j < i THEN j \in 1..L /\ g[j] = h[j] /\ j # i
                            ELSE j + 1 \in 1..L /\ g[j] = h[j + 1] /\ j + 1 # i
    <2> SUFFICES ASSUME NEW j \in 1..L - 1
                 PROVE  IF j < i THEN j \in 1..L /\ g[j] = h[j] /\ j # i
                        ELSE j + 1 \in 1..L /\ g[j] = h[j + 1] /\ j + 1 # i
      OBVIOUS
    <2>1. j \in 1..L /\ j + 1 \in 1..L /\ (j < i => j # i) /\ (~(j < i) => j + 1 # i)
      BY <1>1
    <2> QED  BY <1>2, <2>1
  <1>6. \A j \in 1..L - 1 : g[j] # r
    <2>1. i \in 1..L /\ \A j, k \in 1..L : h[j] = h[k] => j = k
      BY <1>1, <1>3
    <2> QED  BY <1>4, <1>5, <2>1
  <1>7. HeldSet(t)' = HeldSet(t) \ {r}
    <2>1. HeldSet(t)' = {g[j] : j \in 1..L - 1} /\ HeldSet(t) = {h[j] : j \in 1..L}
      BY <1>2 DEF HeldSet, g, h, L
    <2>2. ASSUME NEW j \in 1..L, h[j] # r PROVE \E k \in 1..L - 1 : g[k] = h[j]
      <3>1. CASE j < i
        <4>1. j \in 1..L - 1 /\ g[j] = h[j]
          BY <1>1, <1>2, <3>1
        <4> QED  BY <4>1
      <3>2. CASE j > i
        <4>1. j - 1 \in 1..L - 1 /\ ~(j - 1 < i) /\ (j - 1) + 1 = j
          BY <1>1, <3>2
        <4>2. g[j - 1] = h[j]
          BY <1>2, <4>1
        <4> QED  BY <4>1, <4>2
      <3>3. j # i
        BY <1>4, <2>2
      <3>4. j < i \/ j > i
        <4>1. i \in Int /\ j \in Int
          BY <1>1
        <4> QED  BY <3>3, <4>1
      <3> QED  BY <3>1, <3>2, <3>4
    <2>3. ASSUME NEW j \in 1..L - 1 PROVE g[j] # r /\ \E k \in 1..L : g[j] = h[k]
      BY <1>5, <1>6
    <2> QED  BY <2>1, <2>2, <2>3
  <1>8. FreeSet(t)' = FreeSet(t)
    <2>1. r \in HeldSet(t)
      BY <1>1, <1>4 DEF HeldSet, h, L
    <2> QED  BY <1>1, <1>7, <2>1 DEF FreeSet, InCall
  <1>9. HeldOK(t)'
    <2>1. \A j \in 1..L - 1 : g[j] \in Own(t) /\ g[j][2] <= allocated[t] /\ recNode[g[j]] # NULL
      BY <1>3, <1>5
    <2>2. \A j \in 1..L - 1 : recNode'[g[j]] # NULL
      BY <1>1, <1>6, <2>1, OwnRecords DEF TypeOK, RecordsTypeOK
    <2>3. ASSUME NEW j \in 1..L - 1, NEW k \in 1..L - 1, g[j] = g[k] PROVE j = k
      <3>1. CASE j < i /\ k < i
        BY <1>3, <1>5, <2>3, <3>1
      <3>2. CASE j < i /\ ~(k < i)
        BY <1>1, <1>3, <1>5, <2>3, <3>2
      <3>3. CASE ~(j < i) /\ k < i
        BY <1>1, <1>3, <1>5, <2>3, <3>3
      <3>4. CASE ~(j < i) /\ ~(k < i)
        <4>1. h[j + 1] = h[k + 1] /\ j + 1 \in 1..L /\ k + 1 \in 1..L
          BY <1>5, <2>3, <3>4
        <4>2. j + 1 = k + 1
          BY <1>3, <4>1
        <4> QED  BY <4>2
      <3> QED  BY <3>1, <3>2, <3>3, <3>4
    <2>4. L - 1 <= MaxRecords
      BY <1>1, <1>3, HazardPointersAssumption
    <2> QED  BY <1>1, <1>2, <2>1, <2>2, <2>3, <2>4 DEF HeldOK, InCall, g
  <1>10. OpOK(t)'
    <2>1. L - 1 < MaxRecords
      BY <1>1, <1>3, HazardPointersAssumption
    <2>2. r[2] <= allocated[t] /\ r \notin HeldSet(t)'
      BY <1>1, <1>3, <1>4, <1>7
    <2> QED  BY <1>1, <1>2, <1>4, <2>1, <2>2 DEF OpOK, InCall, g
  <1>11. InUseOK(t)'
    <2>1. Plain(t)
      BY <1>1 DEF RecordsOK, InUseOK
    <2>2. /\ pointers[t] = IF L = 0 THEN NULL ELSE h[L]
          /\ \A j \in 1..L : recNext[h[j]] = IF j = 1 THEN NULL ELSE h[j - 1]
      BY <2>1 DEF Plain, h, L
    <2>3. recNext[r] = IF i - 1 = 0 THEN NULL ELSE g[i - 1]
      <3>1. i # 1 => i - 1 \in 1..L - 1 /\ i - 1 < i
        BY <1>1
      <3>2. i # 1 => g[i - 1] = h[i - 1]
        BY <1>2, <3>1
      <3> QED  BY <1>1, <1>4, <2>2, <3>2
    <2>4. pointers[t] = IF i - 1 = L - 1 THEN r ELSE g[L - 1]
      <3>1. i # L => L - 1 \in 1..L - 1 /\ ~(L - 1 < i) /\ (L - 1) + 1 = L
        BY <1>1
      <3>2. i # L => g[L - 1] = h[L]
        BY <1>2, <3>1
      <3>3. L # 0 /\ (i - 1 = L - 1 <=> i = L)
        BY <1>1
      <3> QED  BY <1>4, <2>2, <3>2, <3>3
    <2>5. ASSUME NEW j \in 1..L - 1
          PROVE  recNext[g[j]] = IF j = (i - 1) + 1 THEN r ELSE IF j = 1 THEN NULL ELSE g[j - 1]
      <3>1. CASE j < i
        <4>1. j \in 1..L /\ g[j] = h[j] /\ j # (i - 1) + 1
          BY <1>1, <1>2, <3>1
        <4>2. j # 1 => j - 1 \in 1..L - 1 /\ g[j - 1] = h[j - 1]
          BY <1>1, <1>2, <3>1
        <4> QED  BY <2>2, <4>1, <4>2
      <3>2. CASE j = i
        <4>1. j + 1 \in 1..L /\ g[j] = h[j + 1] /\ (j + 1) - 1 = i /\ j + 1 # 1
          BY <1>1, <1>2, <3>2
        <4> QED  BY <1>1, <1>4, <2>2, <3>2, <4>1
      <3>3. CASE j > i
        <4>1. /\ j + 1 \in 1..L /\ g[j] = h[j + 1] /\ (j + 1) - 1 = j /\ j + 1 # 1
              /\ j # (i - 1) + 1 /\ j # 1
          <5>1. j + 1 \in 1..L /\ ~(j < i) /\ (j + 1) - 1 = j /\ j + 1 # 1 /\ j # (i - 1) + 1 /\ j # 1
            BY <1>1, <3>3
          <5> QED  BY <1>2, <5>1
        <4>2. j - 1 \in 1..L - 1 /\ ~(j - 1 < i) /\ (j - 1) + 1 = j
          BY <1>1, <3>3
        <4>3. g[j - 1] = h[j]
          BY <1>2, <4>2
        <4> QED  BY <2>2, <4>1, <4>3
      <3> QED  BY <1>1, <3>1, <3>2, <3>3
    <2>6. i - 1 \in 0..L - 1 /\ (OldestFirst => i - 1 = 0)
      BY <1>1
    <2>7. Spliced(t, i - 1, op[t])'
      BY <1>1, <1>2, <2>3, <2>4, <2>5 DEF Spliced, g
    <2>8. Len(held'[t]) = L - 1
      BY <1>2 DEF g
    <2> QED  BY <1>1, <2>6, <2>7, <2>8 DEF InUseOK
  <1>12. FreeOK(t)'
    BY <1>1, <1>8 DEF RecordsOK, FreeOK
  <1> QED  BY <1>9, <1>10, <1>11, <1>12 DEF RecordsOK

\* release makes its neighbour skip the record: UsedRecords finds it.
LEMMA ReleaseUnlinkOwn ==
    ASSUME TypeOK, NEW t \in Threads, RecordsOK(t), ReleaseUnlink(t)
    PROVE  RecordsOK(t)' /\ \A x \in Records : x \notin Own(t) => recNext'[x] = recNext[x]
  <1> DEFINE h == held[t]
             L == Len(held[t])
             r == op[t]
  <1>1. /\ pc[t] = "rel_unlink" /\ pc'[t] = "rel_free"
        /\ UNCHANGED <<freePointers, allocated, recNode, held, op>>
        /\ L \in Nat /\ h \in Seq(Records) /\ L < MaxRecords
        /\ r \in Own(t) /\ r \in Records /\ r \notin HeldSet(t) /\ r # NULL
    BY OwnRecords, HazardPointersAssumption
    DEF ReleaseUnlink, TypeOK, RecordsTypeOK, Goto, client, RecordsOK, OpOK, InCall, Records
  <1>2. PICK p \in 0..L : (OldestFirst => p = 0) /\ Spliced(t, p, r)
    BY <1>1 DEF RecordsOK, InUseOK
  <1> HIDE DEF h, L, r
  <1>3. /\ recNext[r] = IF p = 0 THEN NULL ELSE h[p]
        /\ pointers[t] = IF p = L THEN r ELSE h[L]
        /\ \A i \in 1..L : recNext[h[i]] = IF i = p + 1 THEN r ELSE IF i = 1 THEN NULL ELSE h[i - 1]
    BY <1>2 DEF Spliced, h, L, r
  <1>4. \A i \in 1..L : h[i] \in Own(t) /\ h[i] \in Records /\ h[i] # r
    BY <1>1, OwnRecords DEF RecordsOK, HeldOK, HeldSet, h, L
  <1>5. FreeSet(t)' = FreeSet(t) /\ FreeSet(t) \subseteq Own(t) /\ r \notin FreeSet(t)
        /\ \A i \in 1..L : h[i] \notin FreeSet(t)
    BY <1>1 DEF FreeSet, HeldSet, InCall, r, h, L
  <1>6. HeldOK(t)' /\ OpOK(t)'
    BY <1>1 DEF RecordsOK, HeldOK, OpOK, HeldSet, InCall
  <1>7. CASE pointers[t] = r
    <2>1. p = L
      BY <1>1, <1>3, <1>4, <1>7
    <2>2. pointers'[t] = recNext[r] /\ recNext' = recNext
      BY <1>7 DEF ReleaseUnlink, TypeOK, RecordsTypeOK, r
    <2>3. Plain(t)'
      BY <1>1, <1>3, <2>1, <2>2 DEF Plain, h, L
    <2>4. InUseOK(t)'
      BY <1>1, <2>3 DEF InUseOK
    <2>5. FreeOK(t)'
      BY <1>1, <1>5, <2>2 DEF RecordsOK, FreeOK
    <2> QED  BY <1>6, <2>2, <2>4, <2>5 DEF RecordsOK
  <1>8. CASE pointers[t] # r
    <2> DEFINE s == [i \in 1..L + 1 |-> IF i <= p THEN h[i] ELSE IF i = p + 1 THEN r ELSE h[i - 1]]
    <2>1. p < L
      BY <1>1, <1>3, <1>8
    <2>2. /\ pointers' = pointers
          /\ \A x \in Records : recNext'[x] = IF x \in UsedRecords(t) /\ recNext[x] = r
                                              THEN recNext[r] ELSE recNext[x]
      BY <1>8 DEF ReleaseUnlink, r
    <2>3. L + 1 \in 0..MaxRecords /\ s \in [1..L + 1 -> Records]
      <3>1. \A i \in 1..L + 1 : IF i <= p THEN i \in 1..L ELSE i # p + 1 => i - 1 \in 1..L
        BY <1>1, <2>1
      <3> QED  BY <1>1, <1>4, <3>1, HazardPointersAssumption
    <2>4. pointers[t] = IF L + 1 = 0 THEN NULL ELSE s[L + 1]
      BY <1>1, <1>3, <2>1
    <2>5. ASSUME NEW i \in 1..L + 1 PROVE recNext[s[i]] = IF i = 1 THEN NULL ELSE s[i - 1]
      <3>1. CASE i <= p
        <4>1. i \in 1..L /\ i # p + 1 /\ s[i] = h[i] /\ (i # 1 => s[i - 1] = h[i - 1])
          BY <1>1, <2>1, <3>1
        <4> HIDE DEF s
        <4> QED  BY <1>3, <4>1
      <3>2. CASE i = p + 1
        <4>1. s[i] = r /\ (i # 1 => s[i - 1] = h[p]) /\ (i = 1 <=> p = 0)
          BY <1>1, <2>1, <3>2
        <4> HIDE DEF s
        <4> QED  BY <1>3, <4>1
      <3>3. CASE i > p + 1
        <4>1. /\ i - 1 \in 1..L /\ s[i] = h[i - 1] /\ i # 1 /\ i - 1 \in 1..L + 1
              /\ i - 1 = p + 1 => s[i - 1] = r
              /\ i - 1 # p + 1 => s[i - 1] = h[i - 1 - 1] /\ i - 1 # 1
          BY <1>1, <2>1, <3>3
        <4> HIDE DEF s
        <4> QED  BY <1>3, <4>1
      <3> QED  BY <1>1, <3>1, <3>2, <3>3
    <2>6. \A i \in 1..L : \E j \in 1..L + 1 : s[j] = h[i]
      <3> SUFFICES ASSUME NEW i \in 1..L PROVE \E j \in 1..L + 1 : s[j] = h[i]
        OBVIOUS
      <3>1. CASE i <= p
        <4>1. i \in 1..L + 1 /\ s[i] = h[i]
          BY <1>1, <3>1
        <4> QED  BY <4>1
      <3>2. CASE ~(i <= p)
        <4>1. i + 1 \in 1..L + 1 /\ s[i + 1] = h[i]
          BY <1>1, <3>2
        <4> QED  BY <4>1
      <3> QED  BY <3>1, <3>2
    <2>7. \A i \in 1..L + 1 : s[i] = r \/ \E j \in 1..L : s[i] = h[j]
      <3> SUFFICES ASSUME NEW i \in 1..L + 1 PROVE s[i] = r \/ \E j \in 1..L : s[i] = h[j]
        OBVIOUS
      <3>1. i <= p => i \in 1..L
        BY <1>1
      <3>2. ~(i <= p) /\ i # p + 1 => i - 1 \in 1..L
        BY <1>1
      <3> QED  BY <3>1, <3>2
    <2> HIDE DEF s
    <2>8. UsedRecords(t) = {s[i] : i \in 1..L + 1}
      BY <2>3, <2>4, <2>5, UsedAlong
    <2>9. \A i \in 1..L : recNext'[h[i]] = IF i = 1 THEN NULL ELSE h[i - 1]
      <3> SUFFICES ASSUME NEW i \in 1..L PROVE recNext'[h[i]] = IF i = 1 THEN NULL ELSE h[i - 1]
        OBVIOUS
      <3>1. h[i] \in UsedRecords(t) /\ h[i] \in Records
        BY <1>4, <2>6, <2>8
      <3>2. CASE i = p + 1
        <4>1. recNext'[h[i]] = recNext[r] /\ (p = 0 <=> i = 1) /\ i - 1 = p
          BY <1>3, <2>2, <3>1, <3>2
        <4> QED  BY <1>3, <4>1
      <3>3. CASE i # p + 1
        <4>1. recNext[h[i]] = IF i = 1 THEN NULL ELSE h[i - 1]
          BY <1>3, <3>3
        <4>2. i # 1 => i - 1 \in 1..L
          BY <1>1
        <4>3. recNext[h[i]] # r
          BY <1>1, <1>4, <4>1, <4>2
        <4> QED  BY <2>2, <3>1, <4>1, <4>3
      <3> QED  BY <3>2, <3>3
    <2>10. ASSUME NEW x \in Records, \A i \in 1..L : x # h[i] PROVE recNext'[x] = recNext[x]
      <3>1. CASE x = r
        <4>1. recNext[r] # r
          BY <1>1, <1>3, <1>4
        <4> QED  BY <2>2, <3>1, <4>1
      <3>2. CASE x # r
        BY <2>2, <2>7, <2>8, <2>10, <3>2
      <3> QED  BY <3>1, <3>2
    <2>11. pointers'[t] = IF L = 0 THEN NULL ELSE h[L]
      BY <1>1, <1>3, <2>1, <2>2
    <2>12. InUseOK(t)'
      BY <1>1, <2>9, <2>11 DEF InUseOK, Plain, h, L
    <2>13. FreeOK(t)'
      <3>1. \A x \in FreeSet(t) : recNext'[x] = recNext[x]
        BY <1>5, <2>10, OwnRecords
      <3> QED  BY <1>1, <1>5, <3>1 DEF RecordsOK, FreeOK
    <2>14. \A x \in Records : x \notin Own(t) => recNext'[x] = recNext[x]
      BY <1>4, <2>10
    <2> QED  BY <1>6, <2>12, <2>13, <2>14 DEF RecordsOK
  <1> QED  BY <1>7, <1>8

LEMMA ReleaseFreeOwn ==
    ASSUME TypeOK, NEW t \in Threads, RecordsOK(t), ReleaseFree(t)
    PROVE  RecordsOK(t)'
  <1> DEFINE r == op[t]
  <1>1. /\ pc[t] = "rel_free" /\ pc'[t] = "idle" /\ freePointers'[t] = r
        /\ UNCHANGED <<pointers, allocated, recNode, held>>
        /\ recNext'[r] = freePointers[t]
        /\ \A x \in Records : x # r => recNext'[x] = recNext[x]
        /\ r \in Own(t) /\ r \in Records /\ r \notin HeldSet(t) /\ r[2] <= allocated[t]
    BY OwnRecords
    DEF ReleaseFree, TypeOK, RecordsTypeOK, Goto, RecordsOK, OpOK, InCall
  <1> HIDE DEF r
  <1>2. FreeSet(t)' = FreeSet(t) \cup {r} /\ r \notin FreeSet(t) /\ FreeSet(t) \subseteq Own(t)
    BY <1>1 DEF FreeSet, HeldSet, InCall, r
  <1>3. HeldOK(t)' /\ OpOK(t)'
    BY <1>1 DEF RecordsOK, HeldOK, OpOK, InCall
  <1>4. InUseOK(t)'
    <2>1. \A i \in 1..Len(held[t]) : held[t][i] \in Records /\ held[t][i] # r
      BY <1>1, OwnRecords DEF RecordsOK, HeldOK, HeldSet
    <2> QED  BY <1>1, <2>1 DEF RecordsOK, InUseOK, Plain
  <1>5. FreeOK(t)'
    <2>1. \A x \in FreeSet(t) : recNext'[x] = recNext[x] /\ recNext[x] # r /\ x # r
      BY <1>1, <1>2, OwnRecords, HazardPointersAssumption DEF RecordsOK, FreeOK, Records
    <2>2. freePointers[t] \in FreeSet(t) \cup {NULL}
      BY DEF RecordsOK, FreeOK
    <2>3. \A x \in FreeSet(t) : /\ recNext[x] \in FreeSet(t) \cup {NULL}
                                /\ recNext[x] # NULL => recNext[x] # freePointers[t]
      BY DEF RecordsOK, FreeOK
    <2>4. \A x, y \in FreeSet(t) : recNext[x] # NULL /\ recNext[x] = recNext[y] => x = y
      BY DEF RecordsOK, FreeOK
    <2>5. r # freePointers[t]
      BY <1>1, <1>2, <2>2, HazardPointersAssumption DEF Records
    <2> QED  BY <1>1, <1>2, <2>1, <2>2, <2>3, <2>4, <2>5 DEF FreeOK
  <1> QED  BY <1>3, <1>4, <1>5 DEF RecordsOK

\* The steps of a thread that leave every record alone, and take the thread neither
\* into acquire or release nor out of it.
Elsewhere(t) ==
    \/ RegisterPrepare(t) \/ RegisterPush(t)
    \/ UnregisterHandOff(t) \/ UnregisterDeactivate(t)
    \/ \E n \in Nodes : Unlink(t, n)
    \/ AcquireFails(t) \/ Reclaim(t) \/ ReclaimEnter(t)
    \/ ScanHead(t) \/ ScanThread(t) \/ ScanRecordNext(t) \/ ScanRecordNode(t) \/ ScanFails(t)
    \/ SweepOwn(t) \/ DetachPending(t) \/ SweepPending(t) \/ Repark(t)
    \/ EpochRead(t) \/ ReclaimLeave(t) \/ EpochCas(t) \/ FreeThreads(t)

\* Those that do not: the calls of acquire and release.
AtRecords(t) ==
    \/ \E n \in Nodes : AcquireStart(t, n)
    \/ AcquireLink(t) \/ AcquirePublish(t) \/ Validate(t)
    \/ \E i \in 1..MaxRecords : ReleaseClear(t, i)
    \/ ReleaseUnlink(t) \/ ReleaseFree(t)

LEMMA TwoKinds == \A t \in Threads : ThreadStep(t) <=> Elsewhere(t) \/ AtRecords(t)
  BY DEF ThreadStep, Elsewhere, AtRecords

LEMMA ElsewhereKeeps ==
    ASSUME TypeOK, NEW t \in Threads, Elsewhere(t)
    PROVE  /\ UNCHANGED <<records, held, op>>
           /\ \A u \in Threads : u # t => pc'[u] = pc[u]
           /\ \/ pc'[t] = pc[t]
              \/ /\ pc[t] \notin InCall \cup {"validate"} /\ pc'[t] \notin InCall \cup {"validate"}
                 /\ pc'[t] = "idle" \/ pc[t] # "idle" \/ held[t] = <<>>
  <1> USE DEF TypeOK, Goto, client, InCall
  <1>1. CASE RegisterPrepare(t) \/ RegisterPush(t)
    BY <1>1 DEF RegisterPrepare, RegisterPush
  <1>2. CASE UnregisterHandOff(t) \/ UnregisterDeactivate(t)
    BY <1>2 DEF UnregisterHandOff, UnregisterDeactivate
  <1>3. CASE (\E n \in Nodes : Unlink(t, n)) \/ AcquireFails(t)
    BY <1>3 DEF Unlink, AcquireFails
  <1>4. CASE Reclaim(t)
    BY <1>4 DEF Reclaim
  <1>5. CASE ReclaimEnter(t)
    BY <1>5 DEF ReclaimEnter
  <1>6. CASE ScanHead(t) \/ ScanThread(t)
    BY <1>6 DEF ScanHead, ScanThread, AfterThread
  <1>7. CASE ScanRecordNext(t) \/ ScanRecordNode(t) \/ ScanFails(t)
    BY <1>7 DEF ScanRecordNext, ScanRecordNode, ScanFails, AfterThread
  <1>8. CASE SweepOwn(t) \/ DetachPending(t) \/ SweepPending(t) \/ Repark(t)
    BY <1>8 DEF SweepOwn, DetachPending, SweepPending, Repark
  <1>9. CASE EpochRead(t) \/ ReclaimLeave(t) \/ EpochCas(t) \/ FreeThreads(t)
    BY <1>9 DEF EpochRead, ReclaimLeave, EpochCas, FreeThreads
  <1> QED
    BY <1>1, <1>2, <1>3, <1>4, <1>5, <1>6, <1>7, <1>8, <1>9 DEF Elsewhere

\* acquire and release of one thread leave the records of the others alone.
LEMMA OthersRecords ==
    ASSUME TypeOK, NEW t \in Threads, NEW u \in Threads, u # t, RecordsOK(t), AtRecords(t)
    PROVE  SameRecords(u) /\ pc'[u] = pc[u] /\ op'[u] = op[u]
  <1>0. /\ Own(t) \cap Own(u) = {} /\ Own(u) \subseteq Records /\ Own(t) \subseteq Records
        /\ recNode \in [Records -> Nodes \cup {NULL}] /\ recNext \in [Records -> MaybeRecord]
        /\ pointers \in [Threads -> MaybeRecord] /\ freePointers \in [Threads -> MaybeRecord]
        /\ allocated \in [Threads -> 0..MaxRecords] /\ held \in [Threads -> Seq(Records)]
        /\ op \in [Threads -> MaybeRecord] /\ pc \in [Threads -> PCs]
    BY OwnApart, OwnRecords DEF TypeOK, RecordsTypeOK
  <1>1. ASSUME NEW n \in Nodes, AcquireStart(t, n)
        PROVE  SameRecords(u) /\ pc'[u] = pc[u] /\ op'[u] = op[u]
    <2> DEFINE r == IF freePointers[t] # NULL THEN freePointers[t] ELSE <<t, allocated[t] + 1>>
    <2>1. r \in Own(t)
      <3>1. CASE freePointers[t] # NULL
        BY <3>1 DEF RecordsOK, FreeOK, FreeSet
      <3>2. CASE freePointers[t] = NULL
        <4>1. allocated[t] + 1 \in 1..MaxRecords
          BY <1>0, <1>1, <3>2, HazardPointersAssumption DEF AcquireStart
        <4> QED  BY <3>2, <4>1 DEF Own
      <3> QED  BY <3>1, <3>2
    <2>2. /\ op' = [op EXCEPT ![t] = r] /\ recNode' = [recNode EXCEPT ![r] = n]
          /\ pc' = [pc EXCEPT ![t] = "acq_link"]
          /\ UNCHANGED <<pointers, recNext, held>>
      BY <1>1 DEF AcquireStart, Goto
    <2>3. freePointers'[u] = freePointers[u] /\ allocated'[u] = allocated[u]
      <3>1. CASE freePointers[t] # NULL
        BY <1>0, <1>1, <3>1 DEF AcquireStart
      <3>2. CASE freePointers[t] = NULL
        BY <1>0, <1>1, <3>2 DEF AcquireStart
      <3> QED  BY <3>1, <3>2
    <2> HIDE DEF r
    <2> QED  BY <1>0, <2>1, <2>2, <2>3 DEF SameRecords
  <1>2. CASE AcquireLink(t) \/ ReleaseFree(t)
    <2>1. op[t] \in Own(t)
      BY <1>2 DEF AcquireLink, ReleaseFree, Goto, RecordsOK, OpOK, InCall
    <2>2. \A x \in Records : x # op[t] => recNext'[x] = recNext[x]
      BY <1>0, <1>2, <2>1 DEF AcquireLink, ReleaseFree
    <2>3. /\ pc'[u] = pc[u] /\ op'[u] = op[u] /\ freePointers'[u] = freePointers[u]
          /\ UNCHANGED <<pointers, allocated, recNode, held>>
      BY <1>0, <1>2 DEF AcquireLink, ReleaseFree, Goto, client
    <2> QED  BY <1>0, <2>1, <2>2, <2>3 DEF SameRecords
  <1>3. CASE AcquirePublish(t) \/ Validate(t)
    BY <1>0, <1>3 DEF AcquirePublish, Validate, Goto, SameRecords, records
  <1>4. ASSUME NEW i \in 1..MaxRecords, ReleaseClear(t, i)
        PROVE  SameRecords(u) /\ pc'[u] = pc[u] /\ op'[u] = op[u]
    <2>1. held[t][i] \in Own(t)
      BY <1>0, <1>4 DEF ReleaseClear, RecordsOK, HeldOK
    <2>2. /\ recNode' = [recNode EXCEPT ![held[t][i]] = NULL]
          /\ op' = [op EXCEPT ![t] = held[t][i]] /\ pc' = [pc EXCEPT ![t] = "rel_unlink"]
          /\ UNCHANGED <<pointers, freePointers, allocated, recNext>>
          /\ held'[u] = held[u]
      BY <1>0, <1>4 DEF ReleaseClear, Goto
    <2> QED  BY <1>0, <2>1, <2>2 DEF SameRecords
  <1>5. CASE ReleaseUnlink(t)
    <2>1. \A x \in Records : x \notin Own(t) => recNext'[x] = recNext[x]
      BY <1>5, ReleaseUnlinkOwn
    <2>2. /\ pc'[u] = pc[u] /\ pointers'[u] = pointers[u]
          /\ UNCHANGED <<freePointers, allocated, recNode, held, op>>
      BY <1>0, <1>5 DEF ReleaseUnlink, Goto, client
    <2> QED  BY <1>0, <2>1, <2>2 DEF SameRecords
  <1> QED  BY <1>1, <1>2, <1>3, <1>4, <1>5 DEF AtRecords

LEMMA AtRecordsOwn ==
    ASSUME TypeOK, NEW t \in Threads, RecordsOK(t), AtRecords(t)
    PROVE  RecordsOK(t)'
  BY AcquireStartOwn, AcquireLinkOwn, AcquirePublishOwn, ValidateOwn, ReleaseClearOwn,
     ReleaseUnlinkOwn, ReleaseFreeOwn DEF AtRecords

RecordsInv == \A u \in Threads : RecordsOK(u)

LEMMA RecordsStep == TypeOK /\ RecordsInv /\ [Next]_vars => RecordsInv'
  <1> SUFFICES ASSUME TypeOK, RecordsInv, [Next]_vars, NEW u \in Threads PROVE RecordsOK(u)'
    BY DEF RecordsInv
  <1>0. RecordsOK(u)
    BY DEF RecordsInv
  <1>1. ASSUME NEW t \in Threads, ThreadStep(t) PROVE RecordsOK(u)'
    <2>1. CASE Elsewhere(t)
      <3>1. SameRecords(u) /\ op'[u] = op[u]
        BY <2>1, ElsewhereKeeps DEF SameRecords, records
      <3>2. CASE u # t
        BY <1>0, <2>1, <3>1, <3>2, ElsewhereKeeps, RecordsFrame
      <3>3. CASE u = t
        <4>1. pc[u] \notin InCall \cup {"idle", "validate"} => held[u] = <<>>
          BY <1>0 DEF RecordsOK, HeldOK
        <4>2. \/ pc'[u] = pc[u]
              \/ /\ pc[u] \notin InCall \cup {"validate"} /\ pc'[u] \notin InCall \cup {"validate"}
                 /\ pc'[u] = "idle" \/ held[u] = <<>>
          BY <2>1, <3>3, <4>1, ElsewhereKeeps
        <4> QED  BY <1>0, <3>1, <4>2, RecordsFrame
      <3> QED  BY <3>2, <3>3
    <2>2. CASE AtRecords(t)
      <3>1. RecordsOK(t)
        BY DEF RecordsInv
      <3>2. CASE u # t
        BY <1>0, <2>2, <3>1, <3>2, OthersRecords, RecordsFrame
      <3>3. CASE u = t
        BY <1>0, <2>2, <3>3, AtRecordsOwn
      <3> QED  BY <3>2, <3>3
    <2> QED  BY <1>1, <2>1, <2>2, TwoKinds
  <1>2. CASE WorkerStep \/ (\E v \in Thresholds : SetReclaimThreshold(v)) \/ UNCHANGED vars
    <2>1. UNCHANGED <<records, held, op, pc>>
      BY <1>2
      DEF WorkerStep, WorkerEnter, WorkerEpochRead, WorkerLeave, WorkerEpochCas,
          WorkerFree, WorkerHead, WorkerKeep, WorkerUnlink, WorkerStamp, WorkerPark,
          SetReclaimThreshold, vars, client
    <2>2. SameRecords(u) /\ pc'[u] = pc[u] /\ op'[u] = op[u]
      BY <2>1 DEF SameRecords, records
    <2> QED  BY <1>0, <2>2, RecordsFrame
  <1>3. CASE Destroy
    <2>1. SameRecords(u) /\ held[u] = <<>>
      BY <1>3 DEF Destroy, SameRecords, records, client
    <2>2. pc[u] \notin InCall \cup {"validate"} /\ pc'[u] \notin InCall \cup {"validate"}
      BY <1>3 DEF Destroy, InCall
    <2> QED  BY <1>0, <2>1, <2>2, RecordsFrame
  <1> QED  BY <1>1, <1>2, <1>3 DEF Next, Destroyed

LEMMA RecordsInit == Init => RecordsInv
  <1> SUFFICES ASSUME Init, NEW t \in Threads PROVE RecordsOK(t)
    BY DEF RecordsInv
  <1>1. /\ held[t] = <<>> /\ Len(held[t]) = 0 /\ pc[t] = "unborn" /\ allocated[t] = 0
        /\ pointers[t] = NULL /\ freePointers[t] = NULL
    BY DEF Init
  <1>2. FreeSet(t) = {}
    BY <1>1, HazardPointersAssumption DEF FreeSet, Own
  <1> QED
    BY <1>1, <1>2, HazardPointersAssumption
    DEF RecordsOK, HeldOK, OpOK, InUseOK, Plain, FreeOK, InCall

\* Between calls, hopping down the in-use list from its head meets exactly the records
\* the client holds, newest first; none of them is next to be handed out, and none
\* was cleared: whatever the order of releases, for any number of records.
THEOREM RecordLists == Spec => []RecordListsAgree
  <1>1. TypeOK /\ RecordsInv => RecordListsAgree
    <2> SUFFICES ASSUME TypeOK, RecordsInv, NEW t \in Threads, pc[t] = "idle"
                 PROVE  /\ \A k \in 0..MaxRecords :
                              Hop(t)[k] = IF k < Len(held[t]) THEN held[t][Len(held[t]) - k] ELSE NULL
                        /\ freePointers[t] \notin UsedRecords(t)
                        /\ \A i \in 1..Len(held[t]) : recNode[held[t][i]] # NULL
      BY DEF RecordListsAgree
    <2> DEFINE L == Len(held[t])
               s == held[t]
    <2>1. HeldOK(t) /\ Plain(t) /\ FreeOK(t)
      BY DEF RecordsInv, RecordsOK, InUseOK
    <2>2. L \in 0..MaxRecords /\ s \in [1..L -> Records]
      <3>1. s \in Seq(Records)
        BY DEF TypeOK, RecordsTypeOK
      <3> QED  BY <2>1, <3>1, HazardPointersAssumption DEF HeldOK
    <2>3. /\ pointers[t] = IF L = 0 THEN NULL ELSE s[L]
          /\ \A i \in 1..L : recNext[s[i]] = IF i = 1 THEN NULL ELSE s[i - 1]
      BY <2>1 DEF Plain
    <2> HIDE DEF L, s
    <2>4. \A k \in 0..MaxRecords : Hop(t)[k] = IF k < L THEN s[L - k] ELSE NULL
      BY <2>2, <2>3, HopAlong
    <2>5. ASSUME NEW x \in UsedRecords(t)  PROVE x \in {s[i] : i \in 1..L}
      <3>1. PICK k \in 0..MaxRecords : x = Hop(t)[k] /\ x # NULL
        BY DEF UsedRecords
      <3>2. k < L /\ x = s[L - k]
        BY <2>4, <3>1
      <3>3. L - k \in 1..L
        BY <2>2, <3>2
      <3> QED  BY <3>2, <3>3
    <2>6. freePointers[t] \notin UsedRecords(t)
      <3>1. NULL \notin UsedRecords(t)
        BY DEF UsedRecords
      <3>2. freePointers[t] # NULL => freePointers[t] \notin HeldSet(t)
        BY <2>1 DEF FreeOK, FreeSet
      <3> QED  BY <2>5, <3>1, <3>2 DEF HeldSet, s, L
    <2> QED  BY <2>1, <2>4, <2>6 DEF HeldOK, s, L
  <1>2. Init => TypeOK /\ RecordsInv
    BY TypeInit, RecordsInit
  <1>3. (TypeOK /\ RecordsInv) /\ [Next]_vars => (TypeOK /\ RecordsInv)'
    BY TypeStep, RecordsStep
  <1> QED  BY <1>1, <1>2, <1>3, PTL DEF Spec

-----------------------------------------------------------------------------
(***************************************************************************)
(* The registry.  A thread object is in the list from the moment it is     *)
(* published until the worker has unlinked it; the list is described by    *)
(* what it holds, so that a walk can be reasoned about wherever it stands. *)
(***************************************************************************)
Born == {t \in Threads : pc[t] \notin {"unborn", "reg_push"}}
Queued == {inactive[i].thread : i \in 1..Len(inactive)}
InHand == IF wpc \in {"w_stamp", "w_park"} THEN {wcur} ELSE {}
InList == Born \ (freed \cup Queued \cup InHand)

\* Every object of the list but the first has one predecessor in it.
ListShape ==
    /\ head \in InList \cup {NULL}
    /\ \A x \in InList : next[x] \in InList \cup {NULL}
    /\ \A u \in InList : u = head \/ \E x \in InList : next[x] = u
    /\ \A x \in InList : next[x] # NULL => next[x] # head
    /\ \A x, y \in InList : next[x] # NULL /\ next[x] = next[y] => x = y

\* Going back along the links ends: no set of threads feeds itself.
Rooted ==
    \A S \in SUBSET Threads : S # {} => \E x \in S : \A y \in S : next[y] # x

WorkerAt ==
    /\ wpc = "w_walk" =>
          /\ wcur \in InList
          /\ waddr # NULL => waddr \in InList /\ next[waddr] = wcur
    /\ wpc \in {"w_stamp", "w_park"} =>
          /\ next[wcur] \in InList \cup {NULL}
          /\ waddr # NULL => waddr \in InList /\ next[waddr] = next[wcur]

Lives ==
    /\ \A t \in Threads : next[t] \in Born \cup {NULL}
    /\ \A t \in Threads : pc[t] # "unborn" => (active[t] <=> pc[t] # "gone")
    /\ \A t \in freed \cup Queued \cup InHand : t \in Threads /\ pc[t] = "gone"
    /\ \A t \in Threads : pc[t] # "destroyed"
    /\ wpc # "w_destroyed"

RegistryOK == ListShape /\ Rooted /\ WorkerAt /\ Lives

\* A step that moves no object and changes no link.
LEMMA RegistryFrame ==
    ASSUME RegistryOK, UNCHANGED <<head, next, active>>,
           Born' = Born, (freed \cup Queued \cup InHand)' = freed \cup Queued \cup InHand,
           \A t \in Threads : /\ pc'[t] = "gone" <=> pc[t] = "gone"
                              /\ pc'[t] # "destroyed"
                              /\ pc[t] = "unborn" => pc'[t] = "unborn",
           \/ wpc' \notin {"w_walk", "w_stamp", "w_park", "w_destroyed"}
           \/ UNCHANGED <<wpc, waddr, wcur>>
    PROVE  RegistryOK' /\ InList' = InList
  <1>1. InList' = InList
    BY DEF InList
  <1>2. ListShape' /\ Rooted'
    BY <1>1 DEF RegistryOK, ListShape, Rooted
  <1>3. WorkerAt'
    BY <1>1 DEF RegistryOK, WorkerAt
  <1>4. Lives'
    <2>1. \A t \in Born : t \in Threads
      BY DEF Born
    <2> QED  BY <2>1 DEF RegistryOK, Lives
  <1> QED  BY <1>1, <1>2, <1>3, <1>4 DEF RegistryOK

\* Freeing what is at the front of the queue.
LEMMA FreeMoves ==
    ASSUME TypeOK, NEW e, FreeInactive(e)
    PROVE  /\ (freed \cup Queued)' = freed \cup Queued
           /\ freed \subseteq freed' /\ freed' \subseteq freed \cup Queued
  <1>1. PICK n \in 0..Len(inactive) :
            /\ inactive' = SubSeq(inactive, n + 1, Len(inactive))
            /\ freed' = freed \cup {inactive[i].thread : i \in 1..n}
    BY DEF FreeInactive
  <1>2. inactive \in Seq([thread : Threads, stamp : Nat]) /\ Len(inactive) \in Nat
    BY DEF TypeOK, RegistryTypeOK
  <1>3. /\ Len(inactive') = Len(inactive) - n
        /\ \A j \in 1..Len(inactive) - n : inactive'[j] = inactive[n + j]
    <2>1. n + 1 \in 1..Len(inactive) + 1 /\ Len(inactive) \in 0..Len(inactive) /\ n + 1 <= Len(inactive) + 1
      BY <1>2
    <2>2. /\ Len(inactive') = Len(inactive) - (n + 1) + 1
          /\ \A j \in 1..Len(inactive) - (n + 1) + 1 : inactive'[j] = inactive[(n + 1) + j - 1]
      BY <1>1, <1>2, <2>1, SubSeqAt
    <2>3. Len(inactive) - (n + 1) + 1 = Len(inactive) - n /\ \A j \in Int : (n + 1) + j - 1 = n + j
      BY <1>2
    <2> QED  BY <2>2, <2>3
  <1>4. ASSUME NEW i \in 1..Len(inactive), ~(i <= n)
        PROVE  \E j \in 1..Len(inactive') : inactive'[j] = inactive[i]
    <2>1. i - n \in 1..Len(inactive) - n /\ n + (i - n) = i
      BY <1>2, <1>4
    <2> QED  BY <1>3, <2>1
  <1>5. ASSUME NEW j \in 1..Len(inactive')
        PROVE  \E i \in 1..Len(inactive) : inactive'[j] = inactive[i]
    <2>1. n + j \in 1..Len(inactive)
      BY <1>2, <1>3
    <2> QED  BY <1>3, <2>1
  <1>6. \A i \in 1..n : i \in 1..Len(inactive)
    BY <1>2
  <1>7. \A i \in 1..Len(inactive) : i <= n => i \in 1..n
    BY <1>2
  <1>8. ASSUME NEW x \in freed \cup Queued PROVE x \in freed' \cup Queued'
    <2>1. CASE x \in freed
      BY <1>1, <2>1
    <2>2. ASSUME NEW i \in 1..Len(inactive), x = inactive[i].thread PROVE x \in freed' \cup Queued'
      BY <1>1, <1>4, <1>7, <2>2 DEF Queued
    <2> QED  BY <2>1, <2>2 DEF Queued
  <1>9. ASSUME NEW x \in freed' \cup Queued' PROVE x \in freed \cup Queued
    <2>1. CASE x \in freed'
      BY <1>1, <1>6, <2>1 DEF Queued
    <2>2. ASSUME NEW j \in 1..Len(inactive'), x = inactive'[j].thread PROVE x \in Queued
      BY <1>5, <2>2 DEF Queued
    <2> QED  BY <2>1, <2>2 DEF Queued
  <1>10. freed \subseteq freed' /\ freed' \subseteq freed \cup Queued
    BY <1>1, <1>6 DEF Queued
  <1> QED  BY <1>8, <1>9, <1>10

LEMMA RegisterPrepareList ==
    ASSUME TypeOK, RegistryOK, NEW t \in Threads, RegisterPrepare(t)
    PROVE  RegistryOK' /\ InList' = InList
  <1>1. /\ pc[t] = "unborn" /\ pc' = [pc EXCEPT ![t] = "reg_push"]
        /\ next' = [next EXCEPT ![t] = head] /\ active' = [active EXCEPT ![t] = TRUE]
        /\ UNCHANGED <<head, inactive, freed, wpc, waddr, wcur>>
        /\ pc \in [Threads -> PCs] /\ next \in [Threads -> MaybeThread]
        /\ active \in [Threads -> BOOLEAN]
    BY DEF RegisterPrepare, Goto, worker, TypeOK, RegistryTypeOK
  <1>2. Born' = Born /\ t \notin Born /\ Born \subseteq Threads
    BY <1>1 DEF Born
  <1>3. InList' = InList /\ InList \subseteq Born
    BY <1>1, <1>2 DEF InList, Queued, InHand
  <1>4. \A x \in Threads : next'[x] = IF x = t THEN head ELSE next[x]
    BY <1>1
  <1>5. \A x \in Born : next'[x] = next[x]
    BY <1>2, <1>4
  <1>6. ListShape'
    BY <1>1, <1>3, <1>5 DEF RegistryOK, ListShape
  <1>7. head \in Born \cup {NULL} /\ \A x \in Threads : next[x] \in Born \cup {NULL}
    BY <1>3 DEF RegistryOK, ListShape, Lives
  <1>8. Rooted'
    <2> SUFFICES ASSUME NEW S \in SUBSET Threads, S # {}
                 PROVE  \E x \in S : \A y \in S : next'[y] # x
      BY DEF Rooted
    <2>1. \A y \in S : next'[y] # t
      BY <1>2, <1>4, <1>7, HazardPointersAssumption
    <2>2. CASE t \in S
      BY <2>1, <2>2
    <2>3. CASE t \notin S
      <3>1. PICK x \in S : \A y \in S : next[y] # x
        BY DEF RegistryOK, Rooted
      <3> QED  BY <1>4, <2>3, <3>1
    <2> QED  BY <2>2, <2>3
  <1>9. WorkerAt'
    <2>1. wpc \in {"w_stamp", "w_park"} => wcur \in Born
      BY DEF RegistryOK, Lives, InHand, Born
    <2> QED  BY <1>1, <1>3, <1>5, <2>1 DEF RegistryOK, WorkerAt
  <1>10. Lives'
    <2>1. \A x \in Threads : next'[x] \in Born \cup {NULL}
      BY <1>4, <1>7
    <2>2. \A x \in Threads : IF x = t THEN active'[x] /\ pc'[x] = "reg_push"
                                ELSE active'[x] = active[x] /\ pc'[x] = pc[x]
      BY <1>1
    <2>3. \A x \in Threads : (pc[x] = "gone" => pc'[x] = "gone") /\ pc'[x] # "destroyed"
      BY <1>1 DEF RegistryOK, Lives
    <2> QED  BY <1>1, <1>2, <2>1, <2>2, <2>3 DEF RegistryOK, Lives, Queued, InHand
  <1> QED  BY <1>3, <1>6, <1>8, <1>9, <1>10 DEF RegistryOK

LEMMA RegisterPushList ==
    ASSUME TypeOK, RegistryOK, NEW t \in Threads, RegisterPush(t)
    PROVE  /\ RegistryOK' /\ InList' \subseteq InList \cup {t}
           /\ InList \subseteq InList'
  <1>1. /\ pc[t] = "reg_push"
        /\ UNCHANGED <<next, active, inactive, freed, wpc, waddr, wcur>>
        /\ pc \in [Threads -> PCs] /\ active \in [Threads -> BOOLEAN]
    BY DEF RegisterPush, Goto, worker, TypeOK, RegistryTypeOK
  <1>2. \A x \in freed \cup Queued \cup InHand : x # t
    BY <1>1 DEF RegistryOK, Lives
  <1>3. CASE head # next[t]
    <2>1. pc' = [pc EXCEPT ![t] = "unborn"] /\ head' = head
      BY <1>3 DEF RegisterPush, Goto
    <2>2. Born' = Born
      BY <1>1, <2>1 DEF Born
    <2>3. RegistryOK'
      <3>1. InList' = InList
        BY <1>1, <2>2 DEF InList, Queued, InHand
      <3>2. \A x \in Threads : IF x = t THEN pc'[x] = "unborn" ELSE pc'[x] = pc[x]
        BY <1>1, <2>1
      <3>3. Lives'
        BY <1>1, <1>2, <2>2, <3>2 DEF RegistryOK, Lives, Queued, InHand
      <3> QED  BY <1>1, <2>1, <3>1, <3>3 DEF RegistryOK, ListShape, Rooted, WorkerAt
    <2> QED  BY <1>1, <2>2, <2>3 DEF InList, Queued, InHand
  <1>4. CASE head = next[t]
    <2>1. pc' = [pc EXCEPT ![t] = "idle"] /\ head' = t
      BY <1>4 DEF RegisterPush, Goto
    <2>2. Born' = Born \cup {t} /\ t \notin Born
      BY <1>1, <2>1 DEF Born
    <2>3. InList' = InList \cup {t} /\ t \notin InList
      BY <1>1, <1>2, <2>2 DEF InList, Queued, InHand
    <2>4. \A x \in Threads : next[x] # t
      BY <2>2, HazardPointersAssumption DEF RegistryOK, Lives
    <2>5. \A x \in InList : x \in Threads
      BY DEF InList, Born
    <2>6. ListShape'
      <3>1. head' \in InList' \cup {NULL}
        BY <2>1, <2>3
      <3>2. \A x \in InList' : next[x] \in InList' \cup {NULL}
        BY <1>4, <2>3 DEF RegistryOK, ListShape
      <3>3. \A u \in InList' : u = t \/ \E x \in InList' : next[x] = u
        BY <1>4, <2>3 DEF RegistryOK, ListShape
      <3>4. \A x \in InList' : next[x] # t
        BY <2>3, <2>4, <2>5
      <3>5. \A x, y \in InList' : next[x] # NULL /\ next[x] = next[y] => x = y
        BY <1>4, <2>3 DEF RegistryOK, ListShape
      <3> QED  BY <1>1, <2>1, <3>1, <3>2, <3>3, <3>4, <3>5 DEF ListShape
    <2>7. Rooted'
      BY <1>1 DEF RegistryOK, Rooted
    <2>8. WorkerAt'
      BY <1>1, <2>3 DEF RegistryOK, WorkerAt
    <2>9. Lives'
      <3>1. active[t] /\ pc'[t] # "gone"
        BY <1>1, <2>1 DEF RegistryOK, Lives
      <3>2. \A x \in Threads : x # t => pc'[x] = pc[x]
        BY <1>1, <2>1
      <3>3. \A x \in Born : x \in Threads /\ x # t
        BY <2>2 DEF Born
      <3>4. \A x \in Threads : pc'[x] # "destroyed"
        BY <1>1, <2>1 DEF RegistryOK, Lives
      <3>5. \A x \in Threads : pc'[x] # "unborn" => (active[x] <=> pc'[x] # "gone")
        BY <3>1, <3>2 DEF RegistryOK, Lives
      <3> QED  BY <1>1, <1>2, <2>2, <3>2, <3>4, <3>5 DEF RegistryOK, Lives, Queued, InHand
    <2> QED  BY <2>3, <2>6, <2>7, <2>8, <2>9 DEF RegistryOK
  <1> QED  BY <1>3, <1>4

LEMMA DeactivateList ==
    ASSUME TypeOK, RegistryOK, NEW t \in Threads, UnregisterDeactivate(t)
    PROVE  RegistryOK' /\ InList' = InList
  <1>1. /\ pc[t] = "unregister" /\ pc' = [pc EXCEPT ![t] = "gone"]
        /\ active' = [active EXCEPT ![t] = FALSE]
        /\ UNCHANGED <<head, next, inactive, freed, wpc, waddr, wcur>>
        /\ pc \in [Threads -> PCs] /\ active \in [Threads -> BOOLEAN]
    BY DEF UnregisterDeactivate, Goto, worker, TypeOK, RegistryTypeOK
  <1>2. Born' = Born
    BY <1>1 DEF Born
  <1>3. InList' = InList
    BY <1>1, <1>2 DEF InList, Queued, InHand
  <1>4. \A x \in Threads : IF x = t THEN ~active'[x] /\ pc'[x] = "gone"
                           ELSE active'[x] = active[x] /\ pc'[x] = pc[x]
    BY <1>1
  <1>5. Lives'
    <2>1. \A x \in Threads : pc'[x] # "destroyed" /\ (pc[x] = "gone" => pc'[x] = "gone")
      BY <1>4 DEF RegistryOK, Lives
    <2>2. \A x \in Threads : pc'[x] # "unborn" => (active'[x] <=> pc'[x] # "gone")
      BY <1>4 DEF RegistryOK, Lives
    <2> QED  BY <1>1, <1>2, <2>1, <2>2 DEF RegistryOK, Lives, Queued, InHand
  <1> QED  BY <1>1, <1>3, <1>5 DEF RegistryOK, ListShape, Rooted, WorkerAt

\* Every other step of a thread.
LEMMA ThreadList ==
    ASSUME TypeOK, RegistryOK, NEW t \in Threads, ThreadStep(t),
           ~RegisterPrepare(t), ~RegisterPush(t), ~UnregisterDeactivate(t)
    PROVE  /\ RegistryOK' /\ InList' = InList /\ Born' = Born
           /\ UNCHANGED <<head, next, wpc, waddr, wcur>>
           /\ UNCHANGED <<inactive, freed>> \/ (FreeThreads(t) /\ FreeInactive(ep[t] + 1))
  <1>1. /\ UNCHANGED <<head, next, active, wpc, waddr, wcur>>
        /\ \E from \in PCs \ {"unborn", "reg_push", "gone", "destroyed", "unregister"},
              to \in PCs \ {"unborn", "reg_push", "gone", "destroyed"} :
                 pc[t] = from /\ pc' = [pc EXCEPT ![t] = to]
        /\ UNCHANGED <<inactive, freed>> \/ (FreeThreads(t) /\ FreeInactive(ep[t] + 1))
    <2> USE DEF Goto, registry, worker, PCs, TypeOK
    <2>1. CASE UnregisterHandOff(t) \/ SweepOwn(t) \/ DetachPending(t) \/ SweepPending(t) \/ Repark(t)
      BY <2>1 DEF UnregisterHandOff, SweepOwn, DetachPending, SweepPending, Repark
    <2>2. CASE (\E n \in Nodes : AcquireStart(t, n)) \/ AcquireLink(t) \/ AcquirePublish(t) \/ Validate(t)
      BY <2>2 DEF AcquireStart, AcquireLink, AcquirePublish, Validate
    <2>3. CASE (\E n \in Nodes : Unlink(t, n)) \/ AcquireFails(t)
      <3>1. pc' = pc /\ pc[t] = "idle" /\ UNCHANGED <<registry, worker>>
        BY <2>3 DEF Unlink, AcquireFails
      <3>2. pc' = [pc EXCEPT ![t] = "idle"]
        BY <3>1
      <3> QED  BY <3>1, <3>2
    <2>4. CASE (\E i \in 1..MaxRecords : ReleaseClear(t, i)) \/ ReleaseUnlink(t) \/ ReleaseFree(t)
      BY <2>4 DEF ReleaseClear, ReleaseUnlink, ReleaseFree
    <2>5. CASE Reclaim(t)
      <3>1. pc[t] = "idle" /\ UNCHANGED <<registry, worker>>
            /\ (pc' = [pc EXCEPT ![t] = "idle"] \/ pc' = [pc EXCEPT ![t] = "enter"])
        BY <2>5 DEF Reclaim
      <3> QED  BY <3>1
    <2>6. CASE ReclaimEnter(t)
      BY <2>6 DEF ReclaimEnter
    <2>7. CASE ScanHead(t) \/ ScanThread(t)
      BY <2>7 DEF ScanHead, ScanThread, AfterThread
    <2>8. CASE ScanRecordNext(t) \/ ScanRecordNode(t) \/ ScanFails(t)
      BY <2>8 DEF ScanRecordNext, ScanRecordNode, ScanFails, AfterThread
    <2>9. CASE EpochRead(t) \/ ReclaimLeave(t) \/ EpochCas(t) \/ FreeThreads(t)
      BY <2>9 DEF EpochRead, ReclaimLeave, EpochCas, FreeThreads
    <2> QED  BY <2>1, <2>2, <2>3, <2>4, <2>5, <2>6, <2>7, <2>8, <2>9 DEF ThreadStep
  <1>2. PICK from \in PCs \ {"unborn", "reg_push", "gone", "destroyed", "unregister"},
             to \in PCs \ {"unborn", "reg_push", "gone", "destroyed"} :
                pc[t] = from /\ pc' = [pc EXCEPT ![t] = to]
    BY <1>1
  <1>3. \A x \in Threads : IF x = t THEN pc[x] = from /\ pc'[x] = to ELSE pc'[x] = pc[x]
    BY <1>2 DEF TypeOK
  <1>4. Born' = Born
    BY <1>3 DEF Born
  <1>5. (freed \cup Queued \cup InHand)' = freed \cup Queued \cup InHand
    <2>1. CASE UNCHANGED <<inactive, freed>>
      BY <1>1, <2>1 DEF Queued, InHand
    <2>2. CASE FreeInactive(ep[t] + 1)
      BY <1>1, <2>2, FreeMoves DEF InHand
    <2> QED  BY <1>1, <2>1, <2>2
  <1>6. \A x \in Threads : /\ pc'[x] = "gone" <=> pc[x] = "gone"
                           /\ pc'[x] # "destroyed"
                           /\ pc[x] = "unborn" => pc'[x] = "unborn"
    BY <1>3 DEF RegistryOK, Lives
  <1> QED  BY <1>1, <1>4, <1>5, <1>6, RegistryFrame

\* The worker takes an object out of the list.
LEMMA UnlinkList ==
    ASSUME TypeOK, RegistryOK, WorkerUnlink
    PROVE  RegistryOK' /\ InList' \subseteq InList /\ InList \subseteq InList' \cup {wcur}
  <1> DEFINE z == next[wcur]
  <1>1. /\ wpc = "w_walk" /\ wcur \in InList /\ ~active[wcur]
        /\ UNCHANGED <<active, inactive, freed, pc>>
        /\ next \in [Threads -> MaybeThread]
        /\ z \in InList \cup {NULL} /\ NULL \notin InList
        /\ InHand = {}
    BY HazardPointersAssumption
    DEF WorkerUnlink, TypeOK, RegistryTypeOK, RegistryOK, WorkerAt, ListShape, InHand, InList, Born
  <1>2. InList \subseteq Born /\ Born' = Born /\ Queued' = Queued /\ Born \subseteq Threads
    BY <1>1 DEF InList, Born, Queued
  <1>3. pc[wcur] = "gone"
    BY <1>1, <1>2 DEF RegistryOK, Lives, Born
  <1>4. z # wcur
    <2>1. {wcur} \in SUBSET Threads /\ {wcur} # {}
      BY <1>1, <1>2
    <2>2. \E x \in {wcur} : \A y \in {wcur} : next[y] # x
      BY <2>1 DEF RegistryOK, Rooted
    <2> QED  BY <2>2
  <1> HIDE DEF z
  <1>5. CASE (IF waddr = NULL THEN head ELSE next[waddr]) # wcur
    <2>1. wpc' = "w_idle" /\ UNCHANGED <<head, next>>
      BY <1>5 DEF WorkerUnlink
    <2>2. InHand' = {}
      BY <2>1 DEF InHand
    <2>3. \A x \in Threads : pc[x] # "destroyed"
      BY DEF RegistryOK, Lives
    <2> QED  BY <1>1, <1>2, <2>1, <2>2, <2>3, RegistryFrame
  <1>6. CASE (IF waddr = NULL THEN head ELSE next[waddr]) = wcur
    <2>1. wpc' = "w_stamp" /\ UNCHANGED <<waddr, wcur>>
      BY <1>6 DEF WorkerUnlink
    <2>2. InList' = InList \ {wcur}
      BY <1>1, <1>2, <2>1 DEF InList, InHand
    <2>3. CASE waddr = NULL
      <3>1. head = wcur /\ head' = z /\ next' = next
        BY <1>6, <2>3 DEF WorkerUnlink, z
      <3>2. \A x \in InList : next[x] # wcur
        BY <1>1, <3>1, HazardPointersAssumption DEF RegistryOK, ListShape
      <3>3. ListShape'
        <4>1. head' \in InList' \cup {NULL}
          BY <1>1, <1>4, <2>2, <3>1
        <4>2. \A x \in InList' : next[x] \in InList' \cup {NULL}
          BY <2>2, <3>2 DEF RegistryOK, ListShape
        <4>3. \A u \in InList' : u = z \/ \E x \in InList' : next[x] = u
          BY <2>2, <3>1 DEF RegistryOK, ListShape, z
        <4>4. \A x \in InList' : next[x] # NULL => next[x] # z
          BY <1>1, <2>2 DEF RegistryOK, ListShape, z
        <4>5. \A x, y \in InList' : next[x] # NULL /\ next[x] = next[y] => x = y
          BY <2>2 DEF RegistryOK, ListShape
        <4> QED  BY <3>1, <4>1, <4>2, <4>3, <4>4, <4>5 DEF ListShape
      <3>4. Rooted'
        BY <3>1 DEF RegistryOK, Rooted
      <3>5. WorkerAt'
        BY <1>1, <1>4, <2>1, <2>2, <2>3, <3>1 DEF WorkerAt, z
      <3>6. Lives'
        BY <1>1, <1>2, <1>3, <2>1, <3>1 DEF RegistryOK, Lives, InHand
      <3> QED  BY <2>2, <3>3, <3>4, <3>5, <3>6 DEF RegistryOK
    <2>4. CASE waddr # NULL
      <3>1. /\ waddr \in InList /\ next[waddr] = wcur /\ head' = head
            /\ \A x \in Threads : next'[x] = IF x = waddr THEN z ELSE next[x]
        BY <1>1, <1>6, <2>4 DEF WorkerUnlink, z, RegistryOK, WorkerAt
      <3>2. \A x \in InList : x # waddr => next[x] # wcur
        BY <1>1, <3>1 DEF RegistryOK, ListShape
      <3>3. head # wcur /\ waddr # wcur
        BY <1>1, <1>4, <3>1 DEF RegistryOK, ListShape, z
      <3>4. \A x \in InList : next'[x] = IF x = waddr THEN z ELSE next[x]
        BY <1>2, <3>1
      <3>5. ListShape'
        <4>1. head' \in InList' \cup {NULL}
          BY <2>2, <3>1, <3>3 DEF RegistryOK, ListShape
        <4>2. \A x \in InList' : next'[x] \in InList' \cup {NULL}
          BY <1>1, <1>4, <2>2, <3>2, <3>4 DEF RegistryOK, ListShape
        <4>3. \A u \in InList' : u = head' \/ \E x \in InList' : next'[x] = u
          <5> SUFFICES ASSUME NEW u \in InList', u # head PROVE \E x \in InList' : next'[x] = u
            BY <3>1
          <5>1. PICK x \in InList : next[x] = u
            BY <2>2 DEF RegistryOK, ListShape
          <5>2. CASE x = wcur
            BY <2>2, <3>1, <3>3, <3>4, <5>1, <5>2 DEF z
          <5>3. CASE x # wcur
            BY <2>2, <3>1, <3>4, <5>1, <5>3
          <5> QED  BY <5>2, <5>3
        <4>4. \A x \in InList' : next'[x] # NULL => next'[x] # head'
          BY <1>1, <2>2, <3>1, <3>4 DEF RegistryOK, ListShape, z
        <4>5. \A x, y \in InList' : next'[x] # NULL /\ next'[x] = next'[y] => x = y
          BY <1>1, <2>2, <3>1, <3>4 DEF RegistryOK, ListShape, z
        <4> QED  BY <4>1, <4>2, <4>3, <4>4, <4>5 DEF ListShape
      <3>6. Rooted'
        <4> SUFFICES ASSUME NEW S \in SUBSET Threads, S # {}
                     PROVE  \E x \in S : \A y \in S : next'[y] # x
          BY DEF Rooted
        <4>1. CASE waddr \in S /\ z \in S
          <5>1. PICK x \in S \cup {wcur} : \A y \in S \cup {wcur} : next[y] # x
            BY <1>1, <1>2 DEF RegistryOK, Rooted
          <5>2. x # wcur /\ x # z
            BY <3>1, <4>1, <5>1 DEF z
          <5> QED  BY <3>1, <5>1, <5>2
        <4>2. CASE ~(waddr \in S /\ z \in S)
          <5>1. PICK x \in S : \A y \in S : next[y] # x
            BY DEF RegistryOK, Rooted
          <5> QED  BY <3>1, <4>2, <5>1
        <4> QED  BY <4>1, <4>2
      <3>7. WorkerAt'
        <4>1. next'[wcur] = z /\ next'[waddr] = z
          BY <1>1, <3>1, <3>3, <3>4 DEF z
        <4> QED  BY <1>1, <1>4, <2>1, <2>2, <3>1, <3>3, <4>1 DEF WorkerAt
      <3>8. Lives'
        BY <1>1, <1>2, <1>3, <2>1, <3>1 DEF RegistryOK, Lives, InHand
      <3> QED  BY <2>2, <3>5, <3>6, <3>7, <3>8 DEF RegistryOK
    <2> QED  BY <2>3, <2>4
  <1> QED  BY <1>5, <1>6

\* Its other steps move it along the list, or what it holds on to the queue.
LEMMA WorkerList ==
    ASSUME TypeOK, RegistryOK, WorkerStep, ~WorkerUnlink
    PROVE  RegistryOK' /\ InList' = InList
  <1>0. \A x \in Threads : /\ pc[x] # "destroyed"
                           /\ pc'[x] = pc[x] => /\ pc'[x] = "gone" <=> pc[x] = "gone"
                                                /\ pc'[x] # "destroyed"
                                                /\ pc[x] = "unborn" => pc'[x] = "unborn"
    BY DEF RegistryOK, Lives
  <1>1. CASE WorkerEnter \/ WorkerEpochRead \/ WorkerLeave \/ WorkerEpochCas
    <2>1. /\ UNCHANGED <<head, next, active, inactive, freed, pc>>
          /\ wpc \in {"w_idle", "w_epoch", "w_leave", "w_cas"}
          /\ wpc' \in {"w_epoch", "w_leave", "w_cas", "w_head", "w_free"}
      BY <1>1 DEF WorkerEnter, WorkerEpochRead, WorkerLeave, WorkerEpochCas, WGoto, registry
    <2>2. Born' = Born /\ (freed \cup Queued \cup InHand)' = freed \cup Queued \cup InHand
      BY <2>1 DEF Born, Queued, InHand
    <2> QED  BY <1>0, <2>1, <2>2, RegistryFrame
  <1>2. CASE WorkerFree
    <2>1. /\ UNCHANGED <<head, next, active, pc>> /\ wpc = "w_free" /\ wpc' = "w_head"
          /\ FreeInactive(wep + 1)
      BY <1>2 DEF WorkerFree, WGoto
    <2>2. (freed \cup Queued)' = freed \cup Queued
      BY <2>1, FreeMoves
    <2>3. Born' = Born /\ (freed \cup Queued \cup InHand)' = freed \cup Queued \cup InHand
      BY <2>1, <2>2 DEF Born, InHand
    <2> QED  BY <1>0, <2>1, <2>3, RegistryFrame
  <1>3. CASE WorkerHead
    <2>1. /\ UNCHANGED <<head, next, active, inactive, freed, pc>>
          /\ wpc = "w_head" /\ wpc' = IF head = NULL THEN "w_idle" ELSE "w_walk"
          /\ waddr' = NULL /\ wcur' = head
      BY <1>3 DEF WorkerHead, WGoto, registry
    <2>2. InList' = InList /\ InHand = {} /\ InHand' = {}
      BY <2>1 DEF InList, Born, Queued, InHand
    <2>3. WorkerAt'
      BY <2>1, <2>2 DEF RegistryOK, ListShape, WorkerAt
    <2>4. Lives'
      BY <2>1, <2>2 DEF RegistryOK, Lives, Born, Queued
    <2> QED  BY <2>1, <2>2, <2>3, <2>4 DEF RegistryOK, ListShape, Rooted
  <1>4. CASE WorkerKeep
    <2>1. /\ UNCHANGED <<head, next, active, inactive, freed, pc>>
          /\ wpc = "w_walk" /\ wpc' = IF next[wcur] = NULL THEN "w_idle" ELSE "w_walk"
          /\ waddr' = IF next[wcur] = NULL THEN NULL ELSE wcur
          /\ wcur' = next[wcur]
      BY <1>4 DEF WorkerKeep, registry
    <2>2. InList' = InList /\ InHand = {} /\ InHand' = {}
      BY <2>1 DEF InList, Born, Queued, InHand
    <2>3. WorkerAt'
      BY <2>1, <2>2 DEF RegistryOK, ListShape, WorkerAt
    <2>4. Lives'
      BY <2>1, <2>2 DEF RegistryOK, Lives, Born, Queued
    <2> QED  BY <2>1, <2>2, <2>3, <2>4 DEF RegistryOK, ListShape, Rooted
  <1>5. CASE WorkerStamp
    <2>1. /\ UNCHANGED <<head, next, active, inactive, freed, pc, waddr, wcur>>
          /\ wpc = "w_stamp" /\ wpc' = "w_park"
      BY <1>5 DEF WorkerStamp, WGoto, registry
    <2>2. InList' = InList /\ InHand' = InHand /\ Queued' = Queued
      BY <2>1 DEF InList, Born, Queued, InHand
    <2>3. WorkerAt'
      BY <2>1, <2>2 DEF RegistryOK, WorkerAt
    <2>4. Lives'
      BY <2>1, <2>2 DEF RegistryOK, Lives, Born
    <2> QED  BY <2>1, <2>2, <2>3, <2>4 DEF RegistryOK, ListShape, Rooted
  <1>6. CASE WorkerPark
    <2>1. /\ UNCHANGED <<head, next, active, freed, pc>>
          /\ wpc = "w_park" /\ wpc' = IF next[wcur] = NULL THEN "w_idle" ELSE "w_walk"
          /\ waddr' = IF next[wcur] = NULL THEN NULL ELSE waddr
          /\ wcur' = next[wcur]
          /\ inactive' = Append(inactive, [thread |-> wcur, stamp |-> wep])
      BY <1>6 DEF WorkerPark
    <2>2. InHand = {wcur} /\ InHand' = {} /\ wcur \in Threads /\ wep \in Nat
      BY <2>1 DEF InHand, TypeOK, RegistryTypeOK, MaybeThread
    <2>3. Queued' = Queued \cup {wcur}
      <3> DEFINE L == Len(inactive)
                 x == [thread |-> wcur, stamp |-> wep]
      <3>1. x \in [thread : Threads, stamp : Nat] /\ inactive \in Seq([thread : Threads, stamp : Nat])
        BY <2>2 DEF TypeOK, RegistryTypeOK
      <3>2. x.thread = wcur
        OBVIOUS
      <3> HIDE DEF x
      <3>3. /\ Len(inactive') = L + 1 /\ L \in Nat
            /\ \A j \in 1..L + 1 : inactive'[j] = IF j = L + 1 THEN x ELSE inactive[j]
        BY <2>1, <3>1, AppendAt DEF x
      <3>4. \A j \in 1..L : j \in 1..L + 1 /\ j # L + 1
        BY <3>3
      <3>5. \A j \in 1..L + 1 : j # L + 1 => j \in 1..L
        BY <3>3
      <3>6. L + 1 \in 1..L + 1
        BY <3>3
      <3>7. Queued' = {inactive'[j].thread : j \in 1..L + 1}
        BY <3>3 DEF Queued
      <3>8. Queued' \subseteq Queued \cup {wcur}
        BY <3>2, <3>3, <3>5, <3>7 DEF Queued
      <3>9. Queued \subseteq Queued'
        BY <3>3, <3>4, <3>7 DEF Queued
      <3>10. wcur \in Queued'
        BY <3>2, <3>3, <3>6, <3>7
      <3> QED  BY <3>8, <3>9, <3>10
    <2>4. Born' = Born /\ (freed \cup Queued \cup InHand)' = freed \cup Queued \cup InHand
      BY <2>1, <2>2, <2>3 DEF Born
    <2>5. InList' = InList
      BY <2>4 DEF InList
    <2>6. WorkerAt'
      BY <2>1, <2>5 DEF RegistryOK, WorkerAt
    <2>7. Lives'
      BY <2>1, <2>4 DEF RegistryOK, Lives
    <2> QED  BY <2>1, <2>5, <2>6, <2>7 DEF RegistryOK, ListShape, Rooted
  <1> QED  BY <1>1, <1>2, <1>3, <1>4, <1>5, <1>6 DEF WorkerStep

\* Until destroy takes it down, and nothing happens after that.
RegistryInv ==
    IF destroyed THEN wpc = "w_destroyed" /\ \A t \in Threads : pc[t] = "destroyed"
    ELSE RegistryOK

\* What is left to do once the domain is destroyed.
LEMMA AfterDestroy ==
    ASSUME TypeOK, RegistryInv, destroyed, [Next]_vars
    PROVE  UNCHANGED vars
  <1>1. wpc = "w_destroyed" /\ \A t \in Threads : pc[t] = "destroyed"
    BY DEF RegistryInv
  <1>2. ASSUME NEW t \in Threads, ThreadStep(t) PROVE FALSE
    <2>1. pc[t] = "destroyed"
      BY <1>1
    <2>2. CASE Elsewhere(t)
      <3> USE <2>1 DEF Goto
      <3>1. CASE RegisterPrepare(t) \/ RegisterPush(t) \/ UnregisterHandOff(t) \/ UnregisterDeactivate(t)
        BY <3>1 DEF RegisterPrepare, RegisterPush, UnregisterHandOff, UnregisterDeactivate
      <3>2. CASE (\E n \in Nodes : Unlink(t, n)) \/ AcquireFails(t) \/ Reclaim(t) \/ ReclaimEnter(t)
        BY <3>2 DEF Unlink, AcquireFails, Reclaim, ReclaimEnter
      <3>3. CASE ScanHead(t) \/ ScanThread(t) \/ ScanRecordNext(t) \/ ScanRecordNode(t) \/ ScanFails(t)
        BY <3>3 DEF ScanHead, ScanThread, ScanRecordNext, ScanRecordNode, ScanFails
      <3>4. CASE SweepOwn(t) \/ DetachPending(t) \/ SweepPending(t) \/ Repark(t)
        BY <3>4 DEF SweepOwn, DetachPending, SweepPending, Repark
      <3>5. CASE EpochRead(t) \/ ReclaimLeave(t) \/ EpochCas(t) \/ FreeThreads(t)
        BY <3>5 DEF EpochRead, ReclaimLeave, EpochCas, FreeThreads
      <3> QED  BY <2>2, <3>1, <3>2, <3>3, <3>4, <3>5 DEF Elsewhere
    <2>3. CASE AtRecords(t)
      BY <2>1, <2>3
      DEF AtRecords, AcquireStart, AcquireLink, AcquirePublish, Validate, ReleaseClear,
          ReleaseUnlink, ReleaseFree, Goto
    <2> QED  BY <1>2, <2>2, <2>3, TwoKinds
  <1>3. ~WorkerStep
    BY <1>1
    DEF WorkerStep, WorkerEnter, WorkerEpochRead, WorkerLeave, WorkerEpochCas, WorkerFree,
        WorkerHead, WorkerKeep, WorkerUnlink, WorkerStamp, WorkerPark, WGoto
  <1>4. ~Destroy /\ \A v \in Thresholds : ~SetReclaimThreshold(v)
    BY DEF Destroy, SetReclaimThreshold
  <1> QED  BY <1>2, <1>3, <1>4 DEF Next, Destroyed

LEMMA RegistryStep == TypeOK /\ RegistryInv /\ [Next]_vars => RegistryInv'
  <1> SUFFICES ASSUME TypeOK, RegistryInv, [Next]_vars PROVE RegistryInv'
    OBVIOUS
  <1>1. CASE destroyed
    <2>1. UNCHANGED <<destroyed, wpc, pc>>
      BY <1>1, AfterDestroy DEF vars, worker
    <2> QED  BY <1>1, <2>1 DEF RegistryInv
  <1>2. CASE ~destroyed
    <2>0. RegistryOK
      BY <1>2 DEF RegistryInv
    <2>1. ASSUME NEW t \in Threads, ThreadStep(t) PROVE RegistryInv'
      <3>1. destroyed' = destroyed
        BY <2>1
        DEF ThreadStep, RegisterPrepare, RegisterPush, UnregisterHandOff, UnregisterDeactivate,
            AcquireStart, Unlink, AcquireFails, AcquireLink, AcquirePublish, Validate, ReleaseClear,
            ReleaseUnlink, ReleaseFree, Reclaim, ReclaimEnter, ScanHead, ScanThread, ScanRecordNext,
            ScanRecordNode, ScanFails, SweepOwn, DetachPending, SweepPending, Repark, EpochRead,
            ReclaimLeave, EpochCas, FreeThreads
      <3>2. RegistryOK'
        BY <2>0, <2>1, RegisterPrepareList, RegisterPushList, DeactivateList, ThreadList
      <3> QED  BY <1>2, <3>1, <3>2 DEF RegistryInv
    <2>2. CASE WorkerStep
      <3>1. destroyed' = destroyed
        BY <2>2
        DEF WorkerStep, WorkerEnter, WorkerEpochRead, WorkerLeave, WorkerEpochCas, WorkerFree,
            WorkerHead, WorkerKeep, WorkerUnlink, WorkerStamp, WorkerPark
      <3>2. RegistryOK'
        BY <2>0, <2>2, WorkerList, UnlinkList
      <3> QED  BY <1>2, <3>1, <3>2 DEF RegistryInv
    <2>3. CASE (\E v \in Thresholds : SetReclaimThreshold(v)) \/ UNCHANGED vars
      <3>1. UNCHANGED <<registry, worker, pc, destroyed>>
        BY <2>3 DEF SetReclaimThreshold, vars
      <3>2. RegistryOK'
        BY <2>0, <3>1
        DEF RegistryOK, ListShape, Rooted, WorkerAt, Lives, InList, Born, Queued, InHand, registry, worker
      <3> QED  BY <1>2, <3>1, <3>2 DEF RegistryInv
    <2>4. CASE Destroy
      BY <2>4 DEF Destroy, RegistryInv
    <2> QED  BY <2>1, <2>2, <2>3, <2>4 DEF Next, Destroyed
  <1> QED  BY <1>1, <1>2

LEMMA RegistryInit == Init => RegistryInv
  <1> SUFFICES ASSUME Init PROVE RegistryOK
    BY DEF RegistryInv, Init
  <1>1. Born = {} /\ InHand = {} /\ Queued = {}
    BY DEF Init, Born, InHand, Queued
  <1>2. ListShape
    BY <1>1 DEF Init, ListShape, InList
  <1>3. Rooted
    BY HazardPointersAssumption DEF Init, Rooted
  <1>4. WorkerAt /\ Lives
    BY <1>1 DEF Init, WorkerAt, Lives
  <1> QED  BY <1>2, <1>3, <1>4 DEF RegistryOK

-----------------------------------------------------------------------------
(* What a walk from the head reaches. *)

\* A set that holds the first object, and with an object the one it links to, holds
\* the whole list.
LEMMA ListedByLinks ==
    ASSUME TypeOK, RegistryOK, NEW S, head # NULL => head \in S,
           \A x \in S \cap InList : next[x] # NULL => next[x] \in S
    PROVE  InList \subseteq S
  <1> SUFFICES ASSUME InList \ S # {} PROVE FALSE
    OBVIOUS
  <1>1. InList \ S \in SUBSET Threads
    BY DEF InList, Born
  <1>2. PICK x \in InList \ S : \A y \in InList \ S : next[y] # x
    BY <1>1 DEF RegistryOK, Rooted
  <1>3. x # NULL
    BY <1>1, HazardPointersAssumption
  <1>4. PICK y \in InList : next[y] = x
    BY <1>2, <1>3 DEF RegistryOK, ListShape
  <1> QED  BY <1>2, <1>3, <1>4

\* g follows the links of f from x, n times; there is such a g.
Follows(g, x, f, n) == \A k \in 0..n : g[k] = IF k = 0 THEN x ELSE f[g[k - 1]]

LEMMA StepsExist ==
    ASSUME NEW x, NEW f, NEW n \in Nat
    PROVE  \E g : Follows(g, x, f, n)
  <1> DEFINE T == {m \in Nat : ~ \E g : Follows(g, x, f, m)}
  <1> SUFFICES ASSUME T # {} PROVE FALSE
    OBVIOUS
  <1>1. PICK m \in T : \A y \in T : m <= y
    <2>1. T \subseteq Nat
      OBVIOUS
    <2> HIDE DEF T
    <2> QED  BY <2>1, LeastNat
  <1>2. CASE m = 0
    <2> DEFINE g == [k \in 0..0 |-> x]
    <2>1. Follows(g, x, f, 0)
      BY DEF Follows
    <2> HIDE DEF g
    <2> QED  BY <1>1, <1>2, <2>1
  <1>3. CASE m # 0
    <2>1. m - 1 \in Nat /\ m - 1 \notin T
      <3>1. m \in Nat
        OBVIOUS
      <3>2. m - 1 \in Nat /\ ~(m <= m - 1)
        BY <1>3, <3>1
      <3> HIDE DEF T
      <3> QED  BY <1>1, <3>2
    <2>2. PICK g : Follows(g, x, f, m - 1)
      BY <2>1
    <2> DEFINE e == [k \in 0..m |-> IF k = m THEN f[g[m - 1]] ELSE g[k]]
    <2>3. Follows(e, x, f, m)
      <3> SUFFICES ASSUME NEW k \in 0..m
                   PROVE  e[k] = IF k = 0 THEN x ELSE f[e[k - 1]]
        BY DEF Follows
      <3>1. k # 0 => k - 1 \in 0..m - 1 /\ k - 1 # m /\ k - 1 \in 0..m
        BY <1>1
      <3>2. k # 0 => e[k - 1] = g[k - 1]
        BY <3>1
      <3>3. CASE k = m
        BY <1>3, <3>2, <3>3
      <3>4. CASE k # m
        <4>1. k \in 0..m - 1 /\ e[k] = g[k]
          BY <1>1, <3>4
        <4>2. g[k] = IF k = 0 THEN x ELSE f[g[k - 1]]
          BY <2>2, <4>1 DEF Follows
        <4> QED  BY <3>2, <4>1, <4>2
      <3> QED  BY <3>3, <3>4
    <2> HIDE DEF e
    <2> QED  BY <1>1, <2>3
  <1> QED  BY <1>2, <1>3

\* Listed follows the links as often as there are threads, which is far enough.
LEMMA AllListed ==
    ASSUME TypeOK, RegistryOK
    PROVE  InList \subseteq Listed
  <1> DEFINE N == Cardinality(Threads)
             F(h) == [k \in 0..N |-> IF k = 0 THEN head
                                     ELSE IF h[k - 1] = NULL THEN NULL ELSE next[h[k - 1]]]
             H == CHOOSE h : h = F(h)
  <1>1. N \in Nat
    BY ThreadsAreFinite, FS_CardinalityType
  <1>2. H = F(H)
    <2> DEFINE f == [x \in Threads \cup {NULL} |-> IF x = NULL THEN NULL ELSE next[x]]
    <2>1. PICK g : \A k \in 0..N : g[k] = IF k = 0 THEN head ELSE f[g[k - 1]]
      <3> HIDE DEF f, N
      <3>1. \E g : Follows(g, head, f, N)
        BY <1>1, StepsExist
      <3> QED  BY <3>1 DEF Follows
    <2>2. \A k \in 0..N : g[k] \in Threads \cup {NULL}
      <3> DEFINE B == {k \in 0..N : g[k] \notin Threads \cup {NULL}}
      <3> SUFFICES ASSUME B # {} PROVE FALSE
        OBVIOUS
      <3>1. PICK k \in B : \A y \in B : k <= y
        <4>1. B \subseteq Nat
          BY <1>1
        <4> HIDE DEF B
        <4> QED  BY <4>1, LeastNat
      <3>2. k \in 0..N /\ g[k] \notin Threads \cup {NULL}
        OBVIOUS
      <3>3. g[k] = IF k = 0 THEN head ELSE f[g[k - 1]]
        <4> HIDE DEF f, N, B
        <4> QED  BY <2>1, <3>2
      <3>4. k # 0 => k - 1 \in 0..N /\ k - 1 \notin B
        <4>1. k # 0 => k - 1 \in 0..N /\ ~(k <= k - 1)
          BY <1>1, <3>2
        <4> HIDE DEF B
        <4> QED  BY <3>1, <4>1
      <3>5. k # 0 => g[k - 1] \in Threads \cup {NULL}
        BY <3>4
      <3>6. head \in Threads \cup {NULL} /\ \A x \in Threads : next[x] \in Threads \cup {NULL}
        BY DEF TypeOK, RegistryTypeOK, MaybeThread
      <3>7. k # 0 => f[g[k - 1]] \in Threads \cup {NULL}
        BY <3>5, <3>6, HazardPointersAssumption
      <3> HIDE DEF f, B, N
      <3> QED  BY <3>2, <3>3, <3>6, <3>7
    <2> DEFINE e == [k \in 0..N |-> g[k]]
    <2>3. e = F(e)
      <3> SUFFICES ASSUME NEW k \in 0..N
                   PROVE  g[k] = IF k = 0 THEN head ELSE IF g[k - 1] = NULL THEN NULL ELSE next[g[k - 1]]
        <4>1. \A k \in 0..N : k # 0 => k - 1 \in 0..N
          BY <1>1
        <4>2. \A k \in 0..N : k # 0 => e[k - 1] = g[k - 1]
          BY <4>1
        <4>3. \A k \in 0..N : g[k] = IF k = 0 THEN head ELSE IF e[k - 1] = NULL THEN NULL ELSE next[e[k - 1]]
          BY <4>2
        <4> QED  BY <4>3
      <3>1. g[k] = IF k = 0 THEN head ELSE f[g[k - 1]]
        <4> HIDE DEF f, N
        <4> QED  BY <2>1
      <3>2. k # 0 => k - 1 \in 0..N
        BY <1>1
      <3>3. k # 0 => g[k - 1] \in Threads \cup {NULL}
        BY <2>2, <3>2
      <3> QED  BY <3>1, <3>3
    <2> HIDE DEF F, e
    <2> QED  BY <2>3
  <1>3. Listed = {t \in Threads : \E k \in 0..N : H[k] = t}
    BY DEF Listed
  <1> HIDE DEF H
  <1>4. \A k \in 0..N : H[k] = IF k = 0 THEN head ELSE IF H[k - 1] = NULL THEN NULL ELSE next[H[k - 1]]
    <2> HIDE DEF N
    <2> QED  BY <1>2
  <1> HIDE DEF N, F
  <1>5. head \in Threads \cup {NULL} /\ \A x \in Threads : next[x] \in Threads \cup {NULL}
    BY DEF TypeOK, RegistryTypeOK, MaybeThread
  <1>6. \A k \in 0..N : H[k] \in Threads \cup {NULL}
    <2> DEFINE B == {k \in 0..N : H[k] \notin Threads \cup {NULL}}
    <2> SUFFICES ASSUME B # {} PROVE FALSE
      OBVIOUS
    <2>1. PICK k \in B : \A y \in B : k <= y
      <3>1. B \subseteq Nat
        BY <1>1
      <3> HIDE DEF B
      <3> QED  BY <3>1, LeastNat
    <2>2. k # 0 => k - 1 \in 0..N /\ k - 1 \notin B
      <3>1. k # 0 => k - 1 \in 0..N /\ ~(k <= k - 1)
        BY <1>1
      <3> HIDE DEF B
      <3> QED  BY <2>1, <3>1
    <2> QED  BY <1>4, <1>5, <2>2
  <1>7. H[N] = NULL
    <2> SUFFICES ASSUME H[N] # NULL PROVE FALSE
      OBVIOUS
    <2>1. \A k \in 0..N : H[k] # NULL
      <3> DEFINE B == {m \in 0..N : H[N - m] = NULL}
      <3> SUFFICES ASSUME B # {} PROVE FALSE
        <4>1. \A k \in 0..N : N - k \in 0..N /\ N - (N - k) = k
          BY <1>1
        <4> QED  BY <4>1
      <3>1. PICK m \in B : \A y \in B : m <= y
        <4>1. B \subseteq Nat
          BY <1>1
        <4> HIDE DEF B
        <4> QED  BY <4>1, LeastNat
      <3>2. m \in 0..N /\ H[N - m] = NULL /\ m # 0
        BY <1>1
      <3>3. m - 1 \in 0..N /\ ~(m <= m - 1) /\ N - (m - 1) \in 0..N
            /\ N - (m - 1) # 0 /\ N - (m - 1) - 1 = N - m
        BY <1>1, <3>2
      <3>4. H[N - (m - 1)] = NULL
        BY <1>4, <3>2, <3>3
      <3> QED  BY <3>1, <3>3, <3>4
    <2>2. \A k \in 0..N : H[k] \in Threads
      BY <1>6, <2>1
    <2>3. \A i, j \in 0..N : i < j => H[i] # H[j]
      <3> SUFFICES ASSUME NEW i \in 0..N, NEW j \in 0..N, i < j, H[i] = H[j] PROVE FALSE
        OBVIOUS
      <3> DEFINE S == {H[k] : k \in i..j - 1}
      <3>1. \A k \in i..j - 1 : k \in 0..N
        BY <1>1
      <3>2. i \in i..j - 1 /\ j - 1 \in i..j - 1 /\ j # 0
        BY <1>1
      <3>3. S \in SUBSET Threads /\ S # {}
        BY <2>2, <3>1, <3>2
      <3>4. PICK x \in S : \A y \in S : next[y] # x
        <4> HIDE DEF S
        <4> QED  BY <3>3 DEF RegistryOK, Rooted
      <3>5. PICK k \in i..j - 1 : x = H[k]
        OBVIOUS
      <3>6. CASE k = i
        <4>1. H[j] = next[H[j - 1]]
          BY <1>4, <2>1, <3>1, <3>2
        <4> QED  BY <3>2, <3>4, <3>5, <3>6, <4>1
      <3>7. CASE k # i
        <4>1. k - 1 \in i..j - 1 /\ k # 0
          BY <3>7
        <4>2. H[k] = next[H[k - 1]]
          BY <1>4, <2>1, <3>1, <4>1
        <4> QED  BY <3>4, <3>5, <4>1, <4>2
      <3> QED  BY <3>6, <3>7
    <2> DEFINE e == [k \in 0..N |-> H[k]]
    <2>4. e \in [0..N -> Threads]
      BY <2>2
    <2>5. IsFiniteSet(0..N) /\ Cardinality(0..N) = N + 1
      <3>1. 0 \in Int /\ N \in Int /\ ~(0 > N) /\ N - 0 + 1 = N + 1
        BY <1>1
      <3> QED  BY <3>1, FS_Interval
    <2>6. N < N + 1 /\ Cardinality(Threads) = N
      BY <1>1 DEF N
    <2> HIDE DEF e
    <2>7. PICK i \in 0..N, j \in 0..N : i # j /\ e[i] = e[j]
      <3>1. Cardinality(Threads) < Cardinality(0..N)
        BY <2>5, <2>6
      <3>2. \E i, j \in 0..N : i # j /\ e[i] = e[j]
        BY ONLY <2>4, <2>5, <3>1, ThreadsAreFinite, FS_PigeonHole, ZenonT(60)
      <3> QED  BY <3>2
    <2>8. H[i] = H[j]
      BY <2>7 DEF e
    <2>9. i < j \/ j < i
      BY <1>1, <2>7
    <2> QED  BY <2>3, <2>8, <2>9
  <1>8. head # NULL => head \in Listed
    <2>1. 0 \in 0..N
      BY <1>1
    <2> QED  BY <1>3, <1>4, <1>5, <2>1
  <1>9. ASSUME NEW x \in Listed, next[x] # NULL PROVE next[x] \in Listed
    <2>1. PICK k \in 0..N : H[k] = x /\ x \in Threads
      BY <1>3
    <2>2. x # NULL
      BY <2>1, HazardPointersAssumption
    <2>3. k + 1 \in 0..N /\ k + 1 # 0 /\ (k + 1) - 1 = k
      BY <1>1, <1>7, <2>1, <2>2
    <2>4. H[k + 1] = next[x]
      BY <1>4, <2>1, <2>2, <2>3
    <2> QED  BY <1>3, <1>5, <1>9, <2>1, <2>3, <2>4
  <1> QED  BY <1>8, <1>9, ListedByLinks

\* However threads register, unregister and are unlinked by the worker meanwhile, a
\* walk from the head of the registry meets every registered, active thread.
THEOREM ActiveThreadsListed == Spec => []ActiveListed
  <1>1. TypeOK /\ RegistryInv => ActiveListed
    <2> SUFFICES ASSUME TypeOK, RegistryInv, NEW t \in Threads,
                        active[t], pc[t] \notin {"unborn", "reg_push", "destroyed"}
                 PROVE  t \in Listed
      BY DEF ActiveListed
    <2>1. RegistryOK
      BY DEF RegistryInv
    <2>2. t \in InList
      BY <2>1 DEF InList, Born, RegistryOK, Lives
    <2> QED  BY <2>1, <2>2, AllListed
  <1>2. Init => TypeOK /\ RegistryInv
    BY TypeInit, RegistryInit
  <1>3. (TypeOK /\ RegistryInv) /\ [Next]_vars => (TypeOK /\ RegistryInv)'
    BY TypeStep, RegistryStep
  <1> QED  BY <1>1, <1>2, <1>3, PTL DEF Spec

-----------------------------------------------------------------------------
(* destroy. *)

\* A thread that is not registered, or no longer, has no retired node of its own; and
\* only an allocation that failed drops one.
NoneOutside ==
    /\ ~destroyed =>
          \A t \in Threads :
              pc[t] \in {"unborn", "reg_push", "unregister", "gone"} => reclaimList[t] = {}
    /\ MayFail \/ leaked = {}
    /\ destroyed => Nodes \ linked = reclaimed \cup leaked

LEMMA NoneOutsideThread ==
    ASSUME TypeOK, NoneOutside, ~destroyed, NEW t \in Threads, ThreadStep(t)
    PROVE  NoneOutside'
  <1>1. /\ \A u \in Threads : u # t => pc'[u] = pc[u] /\ reclaimList'[u] = reclaimList[u]
        /\ pc'[t] \in {"unborn", "reg_push", "unregister", "gone"} => reclaimList'[t] = {}
        /\ MayFail \/ leaked' = leaked
        /\ destroyed' = destroyed
    <2>0. /\ pc \in [Threads -> PCs] /\ reclaimList \in [Threads -> SUBSET Nodes]
          /\ pc[t] \in {"unborn", "reg_push", "unregister", "gone"} => reclaimList[t] = {}
      BY DEF TypeOK, ListsTypeOK, NoneOutside
    <2> USE <2>0 DEF Goto, lists
    <2>1. CASE RegisterPrepare(t) \/ RegisterPush(t)
      BY <2>1 DEF RegisterPrepare, RegisterPush
    <2>2. CASE UnregisterHandOff(t) \/ UnregisterDeactivate(t)
      BY <2>2 DEF UnregisterHandOff, UnregisterDeactivate
    <2>3. CASE (\E n \in Nodes : AcquireStart(t, n)) \/ (\E n \in Nodes : Unlink(t, n)) \/ AcquireFails(t)
      BY <2>3 DEF AcquireStart, Unlink, AcquireFails
    <2>4. CASE AcquireLink(t) \/ AcquirePublish(t) \/ Validate(t)
      BY <2>4 DEF AcquireLink, AcquirePublish, Validate
    <2>5. CASE (\E i \in 1..MaxRecords : ReleaseClear(t, i)) \/ ReleaseUnlink(t) \/ ReleaseFree(t)
      BY <2>5 DEF ReleaseClear, ReleaseUnlink, ReleaseFree
    <2>6. CASE Reclaim(t) \/ ReclaimEnter(t)
      BY <2>6 DEF Reclaim, ReclaimEnter
    <2>7. CASE ScanHead(t) \/ ScanThread(t)
      BY <2>7 DEF ScanHead, ScanThread, AfterThread
    <2>8. CASE ScanRecordNext(t) \/ ScanRecordNode(t) \/ ScanFails(t)
      BY <2>8 DEF ScanRecordNext, ScanRecordNode, ScanFails, AfterThread
    <2>9. CASE SweepOwn(t) \/ DetachPending(t) \/ SweepPending(t) \/ Repark(t)
      BY <2>9 DEF SweepOwn, DetachPending, SweepPending, Repark
    <2>10. CASE EpochRead(t) \/ ReclaimLeave(t) \/ EpochCas(t) \/ FreeThreads(t)
      BY <2>10 DEF EpochRead, ReclaimLeave, EpochCas, FreeThreads
    <2> QED  BY <2>1, <2>2, <2>3, <2>4, <2>5, <2>6, <2>7, <2>8, <2>9, <2>10 DEF ThreadStep
  <1> QED  BY <1>1 DEF NoneOutside

LEMMA NoneOutsideDestroy ==
    ASSUME IInv, IInv', RegistryInv, NoneOutside, Destroy
    PROVE  NoneOutside'
  <1>0. /\ ~destroyed /\ destroyed' /\ RegistryOK /\ TypeOK
        /\ \A t \in Threads : pc[t] \in {"unborn", "idle", "gone"} /\ toRetire[t] = NULL
    BY DEF Destroy, RegistryInv, IInv
  <1>1. \A t \in Threads : t \notin Listed => reclaimList[t] = {}
    <2> SUFFICES ASSUME NEW t \in Threads, t \notin Listed PROVE reclaimList[t] = {}
      OBVIOUS
    <2>1. t \notin InList
      BY <1>0, AllListed
    <2>2. pc[t] \in {"unborn", "gone"}
      BY <1>0, <2>1 DEF InList, Born, RegistryOK, Lives
    <2> QED  BY <1>0, <2>2 DEF NoneOutside
  <1>2. \A t \in Threads : reclaimList'[t] = {} /\ chain'[t] = {} /\ toRetire'[t] = NULL
    <2>1. \A t \in Threads : chain[t] = {}
      BY <1>0 DEF IInv, ChainInHand
    <2> QED  BY <1>0, <1>1, <2>1 DEF Destroy, client
  <1>3. pendingList' = {} /\ linked' = linked
    BY DEF Destroy
  <1>4. Nodes \ linked' = reclaimed' \cup leaked'
    <2>1. ASSUME NEW n \in Nodes \ linked' PROVE n \in reclaimed' \cup leaked'
      BY <1>2, <1>3, <2>1, HazardPointersAssumption DEF IInv, EachNodeOnce, NoneLost
    <2>2. reclaimed' \subseteq Nodes /\ leaked' \subseteq Nodes
      BY DEF IInv, TypeOK, ListsTypeOK
    <2>3. linked' \cap (reclaimed' \cup leaked') = {}
      BY <1>3 DEF IInv, EachNodeOnce, NoneTwice
    <2> QED  BY <2>1, <2>2, <2>3
  <1>5. MayFail \/ leaked' = {}
    BY DEF Destroy, NoneOutside
  <1> QED  BY <1>0, <1>4, <1>5 DEF NoneOutside

LEMMA NoneOutsideStep ==
    IInv /\ RegistryInv /\ NoneOutside /\ [Next]_vars => NoneOutside'
  <1> SUFFICES ASSUME IInv, RegistryInv, NoneOutside, [Next]_vars PROVE NoneOutside'
    OBVIOUS
  <1>0. TypeOK /\ IInv'
    BY ConservationStep DEF IInv
  <1>1. CASE destroyed
    <2>1. UNCHANGED <<destroyed, linked, reclaimed, leaked>>
      BY <1>0, <1>1, AfterDestroy DEF vars, lists
    <2> QED  BY <1>1, <2>1 DEF NoneOutside
  <1>2. CASE ~destroyed
    <2>1. ASSUME NEW t \in Threads, ThreadStep(t) PROVE NoneOutside'
      BY <1>0, <1>2, <2>1, NoneOutsideThread
    <2>2. CASE WorkerStep \/ (\E v \in Thresholds : SetReclaimThreshold(v)) \/ UNCHANGED vars
      <3>1. UNCHANGED <<destroyed, pc, reclaimList, leaked>>
        BY <2>2
        DEF WorkerStep, WorkerEnter, WorkerEpochRead, WorkerLeave, WorkerEpochCas,
            WorkerFree, WorkerHead, WorkerKeep, WorkerUnlink, WorkerStamp, WorkerPark,
            SetReclaimThreshold, vars, lists
      <3> QED  BY <1>2, <3>1 DEF NoneOutside
    <2>3. CASE Destroy
      BY <1>0, <2>3, NoneOutsideDestroy
    <2> QED  BY <1>2, <2>1, <2>2, <2>3 DEF Next, Destroyed
  <1> QED  BY <1>1, <1>2

\* destroy leaves no retired node behind: those of every thread still registered, found
\* by walking the registry, and those handed over by the others are all reclaimed,
\* or, for want of memory, dropped.
THEOREM NothingLeftBehind == Spec => []DestroyReclaimsAll
  <1> DEFINE Inv == IInv /\ RegistryInv /\ NoneOutside
  <1>1. Init => Inv
    <2>1. Init => EachNodeOnce /\ ChainInHand /\ NoneOutside
      BY HazardPointersAssumption
      DEF Init, EachNodeOnce, NoneLost, NoneTwice, ChainInHand, NoneOutside
    <2> QED  BY <2>1, TypeInit, RegistryInit DEF IInv
  <1>2. Inv /\ [Next]_vars => Inv'
    BY ConservationStep, RegistryStep, NoneOutsideStep DEF IInv
  <1>3. Inv => DestroyReclaimsAll
    BY DEF NoneOutside, DestroyReclaimsAll
  <1> QED  BY <1>1, <1>2, <1>3, PTL DEF Spec

-----------------------------------------------------------------------------
(***************************************************************************)
(* Freeing thread objects.  With one thread that runs reclaim cycles an    *)
(* epoch is closed either by the end of its cycle or by the worker at a    *)
(* moment when no cycle runs, and what the worker frees was unlinked       *)
(* before: a cycle that begins later starts from a list without it.        *)
(***************************************************************************)
OneReclaims == \A t, u \in Retirers : t = u

Cycle == {"scan_head", "scan_thread", "scan_next", "scan_node", "sweep_own", "detach",
          "sweep_pending", "repark", "epoch_read", "leave"}
Ends == {"enter", "epoch_cas", "free_threads"}
Scanning == {"scan_thread", "scan_next", "scan_node"}

\* Only retirers run cycles, and pending_reclaim_calls counts the cycle and the worker.
CallsOK ==
    /\ \A t \in Threads : t \notin Retirers => toRetire[t] = NULL /\ pc[t] \notin Cycle \cup Ends
    /\ \A t \in Retirers :
          pendingCalls = (IF pc[t] \in Cycle THEN 1 ELSE 0)
                       + (IF wpc \in {"w_epoch", "w_leave"} THEN 1 ELSE 0)

\* What a step of a thread does to the cycles.
LEMMA CallsThread ==
    ASSUME TypeOK, NEW t \in Threads, ThreadStep(t)
    PROVE  /\ \A u \in Threads : u # t => pc'[u] = pc[u] /\ toRetire'[u] = toRetire[u]
           /\ wpc' = wpc
           /\ pendingCalls' = IF pc[t] \in Cycle
                              THEN IF pc'[t] \in Cycle THEN pendingCalls ELSE pendingCalls - 1
                              ELSE IF pc'[t] \in Cycle THEN pendingCalls + 1 ELSE pendingCalls
           /\ pc'[t] \in Cycle \cup Ends => pc[t] \in Cycle \cup Ends \/ toRetire[t] # NULL
           /\ toRetire'[t] # NULL => toRetire[t] # NULL \/ t \in Retirers
  <1>0. /\ pc \in [Threads -> PCs] /\ toRetire \in [Threads -> Nodes \cup {NULL}]
        /\ pendingCalls \in Int
    BY DEF TypeOK, RegistryTypeOK, ListsTypeOK
  <1> USE <1>0 DEF Goto, client, registry, worker, Cycle, Ends
  <1>1. CASE RegisterPrepare(t) \/ RegisterPush(t)
    BY <1>1 DEF RegisterPrepare, RegisterPush
  <1>2. CASE UnregisterHandOff(t) \/ UnregisterDeactivate(t)
    BY <1>2 DEF UnregisterHandOff, UnregisterDeactivate
  <1>3. CASE (\E n \in Nodes : AcquireStart(t, n)) \/ (\E n \in Nodes : Unlink(t, n)) \/ AcquireFails(t)
    BY <1>3 DEF AcquireStart, Unlink, AcquireFails
  <1>4. CASE AcquireLink(t) \/ AcquirePublish(t) \/ Validate(t)
    BY <1>4 DEF AcquireLink, AcquirePublish, Validate
  <1>5. CASE (\E i \in 1..MaxRecords : ReleaseClear(t, i)) \/ ReleaseUnlink(t) \/ ReleaseFree(t)
    BY <1>5 DEF ReleaseClear, ReleaseUnlink, ReleaseFree
  <1>6. CASE Reclaim(t)
    BY <1>6 DEF Reclaim
  <1>7. CASE ReclaimEnter(t)
    <2>1. PICK to \in {"scan_head", "epoch_read"} : Goto(t, "enter", to)
      BY <1>7 DEF ReclaimEnter
    <2> QED  BY <1>7, <2>1 DEF ReclaimEnter
  <1>8. CASE ScanHead(t) \/ ScanThread(t)
    BY <1>8 DEF ScanHead, ScanThread, AfterThread
  <1>9. CASE ScanRecordNext(t) \/ ScanRecordNode(t) \/ ScanFails(t)
    BY <1>9 DEF ScanRecordNext, ScanRecordNode, ScanFails, AfterThread
  <1>10. CASE SweepOwn(t) \/ DetachPending(t) \/ SweepPending(t) \/ Repark(t)
    BY <1>10 DEF SweepOwn, DetachPending, SweepPending, Repark
  <1>11. CASE EpochRead(t) \/ ReclaimLeave(t)
    BY <1>11 DEF EpochRead, ReclaimLeave
  <1>12. CASE EpochCas(t) \/ FreeThreads(t)
    BY <1>12 DEF EpochCas, FreeThreads
  <1> QED  BY <1>1, <1>2, <1>3, <1>4, <1>5, <1>6, <1>7, <1>8, <1>9, <1>10, <1>11, <1>12 DEF ThreadStep

LEMMA CallsStep ==
    ASSUME TypeOK, OneReclaims, CallsOK, Next, ~destroyed, ~destroyed'
    PROVE  CallsOK'
  <1>1. ASSUME NEW t \in Threads, ThreadStep(t) PROVE CallsOK'
    <2>0. pendingCalls \in Int
      BY DEF TypeOK, RegistryTypeOK
    <2>1. CASE t \in Retirers
      <3>1. Retirers = {t}
        BY <2>1 DEF OneReclaims
      <3> QED  BY <1>1, <2>0, <3>1, CallsThread DEF CallsOK
    <2>2. CASE t \notin Retirers
      <3>1. pc[t] \notin Cycle \cup Ends /\ toRetire[t] = NULL
        BY <2>2 DEF CallsOK
      <3>2. pc'[t] \notin Cycle \cup Ends /\ toRetire'[t] = NULL /\ pendingCalls' = pendingCalls
        BY <1>1, <2>2, <3>1, CallsThread
      <3>3. Retirers \subseteq Threads
        BY HazardPointersAssumption
      <3> QED  BY <1>1, <2>2, <3>2, <3>3, CallsThread DEF CallsOK
    <2> QED  BY <2>1, <2>2
  <1>2. CASE WorkerStep
    <2>1. UNCHANGED <<pc, toRetire>>
      BY <1>2
      DEF WorkerStep, WorkerEnter, WorkerEpochRead, WorkerLeave, WorkerEpochCas, WorkerFree,
          WorkerHead, WorkerKeep, WorkerUnlink, WorkerStamp, WorkerPark, client
    <2>2. pendingCalls' = IF wpc \in {"w_epoch", "w_leave"}
                          THEN IF wpc' \in {"w_epoch", "w_leave"} THEN pendingCalls ELSE pendingCalls - 1
                          ELSE IF wpc' \in {"w_epoch", "w_leave"} THEN pendingCalls + 1 ELSE pendingCalls
      <3>1. CASE WorkerEnter \/ WorkerEpochRead \/ WorkerLeave
        BY <1>2, <3>1 DEF WorkerEnter, WorkerEpochRead, WorkerLeave, WGoto, registry
      <3>2. CASE WorkerEpochCas \/ WorkerFree \/ WorkerHead \/ WorkerKeep
        BY <1>2, <3>2 DEF WorkerEpochCas, WorkerFree, WorkerHead, WorkerKeep, WGoto, registry
      <3>3. CASE WorkerUnlink \/ WorkerStamp \/ WorkerPark
        BY <1>2, <3>3 DEF WorkerUnlink, WorkerStamp, WorkerPark, WGoto, registry
      <3> QED  BY <1>2, <3>1, <3>2, <3>3 DEF WorkerStep
    <2>3. pendingCalls \in Int
      BY DEF TypeOK, RegistryTypeOK
    <2> QED  BY <2>1, <2>2, <2>3 DEF CallsOK
  <1>3. CASE \E v \in Thresholds : SetReclaimThreshold(v)
    BY <1>3 DEF SetReclaimThreshold, CallsOK, registry, worker, client
  <1> QED  BY <1>1, <1>2, <1>3 DEF Next, Destroy, Destroyed

\* The queue is in the order of unlinking: an object in it links to nothing that was
\* unlinked before it, so that freeing from the front leaves no link to a freed object.
QueueOK ==
    /\ \A i \in 1..Len(inactive) :
          LET n == next[inactive[i].thread] IN
          \/ n = NULL \/ n \in InList \/ n \in InHand
          \/ \E j \in 1..Len(inactive) : i < j /\ inactive[j].thread = n
    /\ \A i, j \in 1..Len(inactive) : inactive[i].thread = inactive[j].thread => i = j
    /\ InHand \cap Queued = {}
    /\ \A x \in Born \ freed : next[x] \notin freed

LEMMA QueueFrame ==
    ASSUME RegistryOK, QueueOK, \A x \in Born : next'[x] = next[x], Born' = Born,
           InList' = InList, InHand' = InHand, UNCHANGED <<inactive, freed>>
    PROVE  QueueOK'
  <1>1. \A i \in 1..Len(inactive) : inactive[i].thread \in Born
    BY DEF RegistryOK, Lives, Queued, Born
  <1>2. Queued' = Queued
    BY DEF Queued
  <1>3. \A x \in Born' \ freed' : next'[x] \notin freed'
    BY DEF QueueOK
  <1>4. \A i \in 1..Len(inactive') :
          LET n == next'[inactive'[i].thread] IN
          \/ n = NULL \/ n \in InList' \/ n \in InHand'
          \/ \E j \in 1..Len(inactive') : i < j /\ inactive'[j].thread = n
    BY <1>1 DEF QueueOK
  <1>5. \A i, j \in 1..Len(inactive') : inactive'[i].thread = inactive'[j].thread => i = j
    BY DEF QueueOK
  <1> QED  BY <1>2, <1>3, <1>4, <1>5 DEF QueueOK

LEMMA QueueFree ==
    ASSUME TypeOK, RegistryOK, QueueOK, NEW e, FreeInactive(e), next' = next, Born' = Born,
           InList' = InList, InHand' = InHand
    PROVE  QueueOK'
  <1> DEFINE L == Len(inactive)
  <1>1. PICK n \in 0..L :
            /\ inactive' = SubSeq(inactive, n + 1, L)
            /\ freed' = freed \cup {inactive[i].thread : i \in 1..n}
    BY DEF FreeInactive
  <1>2. inactive \in Seq([thread : Threads, stamp : Nat]) /\ L \in Nat
    BY DEF TypeOK, RegistryTypeOK
  <1>3. /\ Len(inactive') = L - n
        /\ \A j \in 1..L - n : inactive'[j] = inactive[n + j] /\ n + j \in 1..L
    <2>1. n + 1 \in 1..L + 1 /\ L \in 0..L /\ n + 1 <= L + 1
      BY <1>2
    <2>2. /\ Len(inactive') = L - (n + 1) + 1
          /\ \A j \in 1..L - (n + 1) + 1 : inactive'[j] = inactive[(n + 1) + j - 1]
      BY <1>1, <1>2, <2>1, SubSeqAt
    <2>3. L - (n + 1) + 1 = L - n /\ \A j \in 1..L - n : (n + 1) + j - 1 = n + j /\ n + j \in 1..L
      BY <1>2
    <2> QED  BY <2>2, <2>3
  <1> HIDE DEF L
  <1>4. ASSUME NEW i \in 1..L - n
        PROVE  LET x == next[inactive[n + i].thread] IN
               \/ x = NULL \/ x \in InList \/ x \in InHand
               \/ \E j \in 1..L - n : i < j /\ inactive[n + j].thread = x
    <2> DEFINE x == next[inactive[n + i].thread]
    <2>1. \/ x = NULL \/ x \in InList \/ x \in InHand
          \/ \E j \in 1..L : n + i < j /\ inactive[j].thread = x
      BY <1>3 DEF QueueOK, L
    <2>2. ASSUME NEW j \in 1..L, n + i < j, inactive[j].thread = x
          PROVE  \E k \in 1..L - n : i < k /\ inactive[n + k].thread = x
      <3>1. j - n \in 1..L - n /\ i < j - n /\ n + (j - n) = j
        BY <1>2, <2>2
      <3> QED  BY <2>2, <3>1
    <2> QED  BY <2>1, <2>2
  <1>5. \A i, j \in 1..L - n : inactive[n + i].thread = inactive[n + j].thread => i = j
    <2> SUFFICES ASSUME NEW i \in 1..L - n, NEW j \in 1..L - n,
                        inactive[n + i].thread = inactive[n + j].thread
                 PROVE  i = j
      OBVIOUS
    <2>1. n + i = n + j
      BY <1>3 DEF QueueOK, L
    <2> QED  BY <1>2, <2>1
  <1>6. InHand \cap Queued' = {}
    <2>1. Queued' \subseteq Queued
      BY <1>3 DEF Queued, L
    <2> QED  BY <2>1 DEF QueueOK
  <1>7. ASSUME NEW x \in Born, x \notin freed' PROVE next[x] \notin freed'
    <2>1. next[x] \notin freed
      BY <1>1, <1>7 DEF QueueOK
    <2>2. ASSUME NEW k \in 1..n, next[x] = inactive[k].thread PROVE FALSE
      <3>1. k \in 1..L /\ next[x] \in Queued
        BY <1>2, <2>2 DEF Queued, L
      <3>2. next[x] # NULL
        BY <3>1, HazardPointersAssumption DEF RegistryOK, Lives
      <3>3. next[x] \notin InList /\ next[x] \notin InHand
        BY <3>1 DEF InList, QueueOK
      <3>4. x \notin InList
        BY <3>2, <3>3 DEF RegistryOK, ListShape
      <3>5. x \notin InHand
        BY <3>2, <3>3 DEF RegistryOK, WorkerAt, InHand
      <3>6. PICK i \in 1..L : x = inactive[i].thread
        BY <1>1, <1>7, <3>4, <3>5 DEF InList, Queued, L
      <3>7. ~(i <= n)
        <4>1. i <= n => i \in 1..n
          BY <1>2
        <4> QED  BY <1>1, <1>7, <3>6, <4>1
      <3>8. PICK j \in 1..L : i < j /\ inactive[j].thread = next[x]
        BY <3>2, <3>3, <3>6 DEF QueueOK, L
      <3>9. j = k
        BY <2>2, <3>1, <3>8 DEF QueueOK, L
      <3> QED  BY <1>2, <3>7, <3>8, <3>9
    <2> QED  BY <1>1, <2>1, <2>2
  <1>8. \A i \in 1..Len(inactive') :
          LET x == next'[inactive'[i].thread] IN
          \/ x = NULL \/ x \in InList' \/ x \in InHand'
          \/ \E j \in 1..Len(inactive') : i < j /\ inactive'[j].thread = x
    <2> SUFFICES ASSUME NEW i \in 1..L - n
                 PROVE  LET x == next[inactive[n + i].thread] IN
                        \/ x = NULL \/ x \in InList \/ x \in InHand
                        \/ \E j \in 1..L - n : i < j /\ inactive[n + j].thread = x
      BY <1>3
    <2> QED  BY <1>4
  <1>9. \A i, j \in 1..Len(inactive') : inactive'[i].thread = inactive'[j].thread => i = j
    BY <1>3, <1>5
  <1>10. \A x \in Born' \ freed' : next'[x] \notin freed'
    BY <1>7
  <1> QED  BY <1>6, <1>8, <1>9, <1>10 DEF QueueOK

LEMMA QueueUnlink ==
    ASSUME TypeOK, RegistryOK, QueueOK, WorkerUnlink
    PROVE  QueueOK'
  <1>1. /\ UNCHANGED <<inactive, freed, pc>> /\ freed \subseteq Threads
        /\ wpc = "w_walk" /\ wcur \in InList /\ InHand = {}
        /\ next[wcur] \in InList \cup {NULL} /\ NULL \notin freed
        /\ next \in [Threads -> MaybeThread] /\ Born \subseteq Threads
    BY HazardPointersAssumption
    DEF WorkerUnlink, TypeOK, RegistryTypeOK, RegistryOK, WorkerAt, ListShape, InHand, Born
  <1>2. Born' = Born /\ Queued' = Queued
    BY <1>1 DEF Born, Queued
  <1>3. InHand' \subseteq {wcur} /\ InList \subseteq InList' \cup InHand'
    <2>1. wpc' = "w_idle" \/ (wpc' = "w_stamp" /\ wcur' = wcur)
      BY DEF WorkerUnlink
    <2> QED  BY <1>1, <1>2, <2>1 DEF InList, InHand
  <1>4. \A x \in Threads : next'[x] = next[x] \/ (x \in InList /\ next'[x] = next[wcur])
    <2>1. next' = next \/ (waddr \in InList /\ next' = [next EXCEPT ![waddr] = next[wcur]])
      BY <1>1 DEF WorkerUnlink, RegistryOK, WorkerAt
    <2> QED  BY <1>1, <2>1
  <1>5. \A i \in 1..Len(inactive) :
           inactive[i].thread \in Threads /\ inactive[i].thread \notin InList
    BY DEF RegistryOK, Lives, Queued, InList
  <1>6. \A i \in 1..Len(inactive') :
          LET n == next'[inactive'[i].thread] IN
          \/ n = NULL \/ n \in InList' \/ n \in InHand'
          \/ \E j \in 1..Len(inactive') : i < j /\ inactive'[j].thread = n
    BY <1>1, <1>3, <1>4, <1>5 DEF QueueOK
  <1>7. InHand' \cap Queued' = {}
    BY <1>1, <1>2, <1>3 DEF InList
  <1>8. \A x \in Born' \ freed' : next'[x] \notin freed'
    <2>1. next[wcur] \notin freed
      BY <1>1 DEF InList
    <2> QED  BY <1>1, <1>2, <1>4, <2>1 DEF QueueOK
  <1>9. \A i, j \in 1..Len(inactive') : inactive'[i].thread = inactive'[j].thread => i = j
    BY <1>1 DEF QueueOK
  <1> QED  BY <1>6, <1>7, <1>8, <1>9 DEF QueueOK

LEMMA QueuePark ==
    ASSUME TypeOK, RegistryOK, QueueOK, WorkerPark
    PROVE  QueueOK'
  <1> DEFINE L == Len(inactive)
             o == [thread |-> wcur, stamp |-> wep]
  <1>1. /\ UNCHANGED <<next, freed, pc>> /\ wpc = "w_park" /\ wpc' \in {"w_idle", "w_walk"}
        /\ inactive' = Append(inactive, o) /\ wcur \in Threads /\ wep \in Nat
        /\ inactive \in Seq([thread : Threads, stamp : Nat])
    BY DEF WorkerPark, TypeOK, RegistryTypeOK, MaybeThread
  <1>2. o \in [thread : Threads, stamp : Nat] /\ o.thread = wcur
    BY <1>1
  <1>3. InHand = {wcur} /\ InHand' = {} /\ Born' = Born
    BY <1>1 DEF InHand, Born
  <1>4. InList' = InList
    BY <1>1, WorkerList DEF WorkerStep, WorkerUnlink
  <1> HIDE DEF o
  <1>5. /\ Len(inactive') = L + 1 /\ L \in Nat
        /\ \A j \in 1..L + 1 : inactive'[j] = IF j = L + 1 THEN o ELSE inactive[j]
    BY <1>1, <1>2, AppendAt
  <1> HIDE DEF L
  <1>6. \A j \in 1..L : j \in 1..L + 1 /\ inactive'[j] = inactive[j] /\ j < L + 1
    <2>1. \A j \in 1..L : j \in 1..L + 1 /\ j # L + 1 /\ j < L + 1
      BY <1>5
    <2> QED  BY <1>5, <2>1
  <1>7. L + 1 \in 1..L + 1 /\ inactive'[L + 1] = o
    BY <1>5
  <1>8. \A j \in 1..L + 1 : j = L + 1 \/ j \in 1..L
    BY <1>5
  <1>9. ASSUME NEW i \in 1..L + 1
        PROVE  LET n == next[inactive'[i].thread] IN
               \/ n = NULL \/ n \in InList
               \/ \E j \in 1..L + 1 : i < j /\ inactive'[j].thread = n
    <2>1. CASE i = L + 1
      BY <1>1, <1>2, <1>7, <2>1 DEF RegistryOK, WorkerAt
    <2>2. CASE i \in 1..L
      <3>1. \/ next[inactive[i].thread] \in InList \cup {NULL} \cup {wcur}
            \/ \E j \in 1..L : i < j /\ inactive[j].thread = next[inactive[i].thread]
        BY <1>3, <2>2 DEF QueueOK, L
      <3>2. inactive'[i] = inactive[i] /\ i < L + 1
        BY <1>6, <2>2
      <3>3. CASE next[inactive[i].thread] = wcur
        BY <1>2, <1>7, <3>2, <3>3
      <3>4. ASSUME NEW j \in 1..L, i < j, inactive[j].thread = next[inactive[i].thread]
            PROVE  \E k \in 1..L + 1 : i < k /\ inactive'[k].thread = next[inactive'[i].thread]
        BY <1>6, <3>2, <3>4
      <3> QED  BY <3>1, <3>2, <3>3, <3>4
    <2> QED  BY <1>8, <2>1, <2>2
  <1>10. ASSUME NEW i \in 1..L + 1, NEW j \in 1..L + 1, inactive'[i].thread = inactive'[j].thread
         PROVE  i = j
    <2>1. \A k \in 1..L : inactive[k].thread # wcur
      BY <1>3 DEF QueueOK, Queued, L
    <2>2. \A k, l \in 1..L : inactive[k].thread = inactive[l].thread => k = l
      BY DEF QueueOK, L
    <2> QED  BY <1>2, <1>6, <1>7, <1>8, <1>10, <2>1, <2>2
  <1>11. \A i \in 1..Len(inactive') :
          LET n == next'[inactive'[i].thread] IN
          \/ n = NULL \/ n \in InList' \/ n \in InHand'
          \/ \E j \in 1..Len(inactive') : i < j /\ inactive'[j].thread = n
    BY <1>1, <1>4, <1>5, <1>9
  <1>12. \A i, j \in 1..Len(inactive') : inactive'[i].thread = inactive'[j].thread => i = j
    BY <1>5, <1>10
  <1>13. \A x \in Born' \ freed' : next'[x] \notin freed'
    BY <1>1, <1>3 DEF QueueOK
  <1> QED  BY <1>3, <1>11, <1>12, <1>13 DEF QueueOK

LEMMA QueuePush ==
    ASSUME TypeOK, RegistryOK, QueueOK, NEW t \in Threads, RegisterPush(t)
    PROVE  QueueOK' /\ Born \subseteq Born' /\ UNCHANGED <<next, inactive, freed, wpc>>
  <1>1. /\ pc[t] = "reg_push" /\ UNCHANGED <<next, inactive, freed, wpc, wcur>>
        /\ pc \in [Threads -> PCs] /\ freed \subseteq Threads
    BY DEF RegisterPush, Goto, worker, TypeOK, RegistryTypeOK
  <1>2. Born' = Born \/ (Born' = Born \cup {t} /\ head = next[t])
    <2>1. pc' = [pc EXCEPT ![t] = "unborn"] \/ (pc' = [pc EXCEPT ![t] = "idle"] /\ head = next[t])
      BY DEF RegisterPush, Goto
    <2> QED  BY <1>1, <2>1 DEF Born
  <1>3. InHand' = InHand /\ Queued' = Queued
    BY <1>1 DEF InHand, Queued
  <1>4. InList \subseteq InList'
    BY RegisterPushList
  <1>5. head \notin freed
    BY <1>1, HazardPointersAssumption DEF RegistryOK, ListShape, InList
  <1>6. \A i \in 1..Len(inactive') :
          LET n == next'[inactive'[i].thread] IN
          \/ n = NULL \/ n \in InList' \/ n \in InHand'
          \/ \E j \in 1..Len(inactive') : i < j /\ inactive'[j].thread = n
    BY <1>1, <1>3, <1>4 DEF QueueOK
  <1>7. \A i, j \in 1..Len(inactive') : inactive'[i].thread = inactive'[j].thread => i = j
    BY <1>1 DEF QueueOK
  <1>8. \A x \in Born' \ freed' : next'[x] \notin freed'
    BY <1>1, <1>2, <1>5 DEF QueueOK
  <1> QED  BY <1>1, <1>2, <1>3, <1>6, <1>7, <1>8 DEF QueueOK

LEMMA QueueThread ==
    ASSUME TypeOK, RegistryOK, QueueOK, NEW t \in Threads, ThreadStep(t)
    PROVE  QueueOK'
  <1>1. CASE RegisterPrepare(t)
    <2>1. /\ pc[t] = "unborn" /\ pc' = [pc EXCEPT ![t] = "reg_push"]
          /\ next' = [next EXCEPT ![t] = head] /\ UNCHANGED <<inactive, freed, wpc, wcur>>
          /\ pc \in [Threads -> PCs] /\ next \in [Threads -> MaybeThread]
      BY <1>1 DEF RegisterPrepare, Goto, worker, TypeOK, RegistryTypeOK
    <2>2. Born' = Born /\ t \notin Born /\ InHand' = InHand
      BY <2>1 DEF Born, InHand
    <2>3. InList' = InList
      BY <1>1, RegisterPrepareList
    <2>4. \A x \in Born : next'[x] = next[x]
      BY <2>1, <2>2 DEF Born
    <2> QED  BY <2>1, <2>2, <2>3, <2>4, QueueFrame
  <1>2. CASE RegisterPush(t)
    BY <1>2, QueuePush
  <1>3. CASE UnregisterDeactivate(t)
    <2>1. /\ UNCHANGED <<next, inactive, freed, wpc, wcur>>
          /\ pc[t] = "unregister" /\ pc' = [pc EXCEPT ![t] = "gone"] /\ pc \in [Threads -> PCs]
      BY <1>3 DEF UnregisterDeactivate, Goto, worker, TypeOK
    <2>2. Born' = Born /\ InHand' = InHand
      BY <2>1 DEF Born, InHand
    <2>3. InList' = InList
      BY <1>3, DeactivateList
    <2> QED  BY <2>1, <2>2, <2>3, QueueFrame
  <1>4. CASE ~RegisterPrepare(t) /\ ~RegisterPush(t) /\ ~UnregisterDeactivate(t)
    <2>1. /\ InList' = InList /\ Born' = Born /\ UNCHANGED <<next, wpc, wcur>>
          /\ UNCHANGED <<inactive, freed>> \/ (FreeThreads(t) /\ FreeInactive(ep[t] + 1))
      BY <1>4, ThreadList
    <2>2. InHand' = InHand
      BY <2>1 DEF InHand
    <2>3. CASE UNCHANGED <<inactive, freed>>
      BY <2>1, <2>2, <2>3, QueueFrame
    <2>4. CASE FreeInactive(ep[t] + 1)
      BY <2>1, <2>2, <2>4, QueueFree
    <2> QED  BY <2>1, <2>3, <2>4
  <1> QED  BY <1>1, <1>2, <1>3, <1>4

LEMMA QueueWorker ==
    ASSUME TypeOK, RegistryOK, QueueOK, WorkerStep
    PROVE  QueueOK'
  <1>1. CASE WorkerUnlink
    BY <1>1, QueueUnlink
  <1>2. CASE WorkerPark
    BY <1>2, QueuePark
  <1>3. CASE WorkerFree
    <2>1. next' = next /\ pc' = pc /\ FreeInactive(wep + 1) /\ InHand' = {} /\ InHand = {}
      BY <1>3 DEF WorkerFree, WGoto, InHand
    <2>2. InList' = InList /\ Born' = Born
      BY <1>3, <2>1, WorkerList DEF WorkerStep, WorkerFree, WorkerUnlink, WGoto, Born
    <2> QED  BY <2>1, <2>2, QueueFree
  <1>4. CASE ~WorkerUnlink /\ ~WorkerPark /\ ~WorkerFree
    <2>1. UNCHANGED <<next, inactive, freed, pc>> /\ InHand' = InHand
      BY <1>4
      DEF WorkerStep, WorkerEnter, WorkerEpochRead, WorkerLeave, WorkerEpochCas,
          WorkerHead, WorkerKeep, WorkerStamp, WGoto, InHand, registry
    <2>2. InList' = InList /\ Born' = Born
      BY <1>4, <2>1, WorkerList DEF Born
    <2> QED  BY <2>1, <2>2, QueueFrame
  <1> QED  BY <1>1, <1>2, <1>3, <1>4

\* Where a reclaim cycle stands in the registry: at objects that are not freed, and
\* when the worker is about to free what it queued, at objects still in the list.
ScanOK ==
    \A t \in Threads :
        /\ pc[t] \notin {"scan_next", "scan_node"} => nxt[t] = NULL
        /\ pc[t] \in Scanning =>
              /\ cur[t] \in Born \ freed /\ nxt[t] \in (Born \ freed) \cup {NULL}
              /\ wpc \in {"w_cas", "w_free"} => cur[t] \in InList /\ nxt[t] \in InList \cup {NULL}

\* What a step of a thread does to the place of a cycle.
LEMMA ScanMoves ==
    ASSUME TypeOK, NEW t \in Threads, ThreadStep(t)
    PROVE  /\ \A u \in Threads : u # t => cur'[u] = cur[u] /\ nxt'[u] = nxt[u]
           /\ pc[t] \in {"scan_next", "scan_node"} \/ nxt[t] = NULL
                 => pc'[t] \in {"scan_next", "scan_node"} \/ nxt'[t] = NULL
           /\ pc'[t] \in Scanning =>
                 /\ UNCHANGED <<registry, worker>>
                 /\ \/ pc[t] = "scan_head" /\ cur'[t] = head /\ nxt'[t] = nxt[t] /\ head # NULL
                    \/ /\ pc[t] \in Scanning /\ (cur'[t] # NULL \/ cur'[t] = cur[t])
                       /\ cur'[t] \in {cur[t], nxt[t], next[cur[t]]}
                       /\ nxt'[t] \in {NULL, nxt[t], next[cur[t]]}
  <1>0. /\ pc \in [Threads -> PCs] /\ cur \in [Threads -> MaybeThread]
        /\ nxt \in [Threads -> MaybeThread]
    BY DEF TypeOK, ScanTypeOK
  <1> USE <1>0 DEF Goto, client, scan, Scanning
  <1>1. CASE RegisterPrepare(t) \/ RegisterPush(t) \/ UnregisterHandOff(t) \/ UnregisterDeactivate(t)
    BY <1>1 DEF RegisterPrepare, RegisterPush, UnregisterHandOff, UnregisterDeactivate
  <1>2. CASE (\E n \in Nodes : AcquireStart(t, n)) \/ (\E n \in Nodes : Unlink(t, n)) \/ AcquireFails(t)
    BY <1>2 DEF AcquireStart, Unlink, AcquireFails
  <1>3. CASE AcquireLink(t) \/ AcquirePublish(t) \/ Validate(t)
    BY <1>3 DEF AcquireLink, AcquirePublish, Validate
  <1>4. CASE (\E i \in 1..MaxRecords : ReleaseClear(t, i)) \/ ReleaseUnlink(t) \/ ReleaseFree(t)
    BY <1>4 DEF ReleaseClear, ReleaseUnlink, ReleaseFree
  <1>5. CASE Reclaim(t) \/ ReclaimEnter(t)
    BY <1>5 DEF Reclaim, ReclaimEnter
  <1>6. CASE ScanHead(t)
    BY <1>6 DEF ScanHead, AfterThread
  <1>7. CASE ScanThread(t)
    <2>2. CASE active[cur[t]] /\ pointers[cur[t]] # NULL
      BY <1>7, <2>2 DEF ScanThread
    <2>3. CASE ~(active[cur[t]] /\ pointers[cur[t]] # NULL)
      BY <1>7, <2>3 DEF ScanThread, AfterThread
    <2> QED  BY <2>2, <2>3
  <1>8. CASE ScanRecordNext(t) \/ ScanFails(t)
    BY <1>8 DEF ScanRecordNext, ScanFails
  <1>9. CASE ScanRecordNode(t)
    <2>1. CASE recNxt[t] # NULL
      BY <1>9, <2>1 DEF ScanRecordNode
    <2>2. CASE recNxt[t] = NULL
      BY <1>9, <2>2 DEF ScanRecordNode, AfterThread
    <2> QED  BY <2>1, <2>2
  <1>10. CASE SweepOwn(t) \/ DetachPending(t) \/ SweepPending(t) \/ Repark(t)
    BY <1>10 DEF SweepOwn, DetachPending, SweepPending, Repark
  <1>11. CASE EpochRead(t) \/ ReclaimLeave(t) \/ EpochCas(t) \/ FreeThreads(t)
    BY <1>11 DEF EpochRead, ReclaimLeave, EpochCas, FreeThreads
  <1> QED  BY <1>1, <1>2, <1>3, <1>4, <1>5, <1>6, <1>7, <1>8, <1>9, <1>10, <1>11 DEF ThreadStep

\* A cycle moves along the links of objects that are not freed.
LEMMA ScanOwn ==
    ASSUME TypeOK, RegistryOK, QueueOK, ScanOK, NEW t \in Threads, ThreadStep(t)
    PROVE  /\ pc'[t] \notin {"scan_next", "scan_node"} => nxt'[t] = NULL
           /\ pc'[t] \in Scanning =>
                 /\ cur'[t] \in Born' \ freed' /\ nxt'[t] \in (Born' \ freed') \cup {NULL}
                 /\ wpc' \in {"w_cas", "w_free"}
                       => cur'[t] \in InList' /\ nxt'[t] \in InList' \cup {NULL}
  <1>1. pc'[t] \notin {"scan_next", "scan_node"} => nxt'[t] = NULL
    BY ScanMoves DEF ScanOK
  <1>2. ASSUME pc'[t] \in Scanning
        PROVE  /\ cur'[t] \in Born' \ freed' /\ nxt'[t] \in (Born' \ freed') \cup {NULL}
               /\ wpc' \in {"w_cas", "w_free"}
                     => cur'[t] \in InList' /\ nxt'[t] \in InList' \cup {NULL}
    <2>1. UNCHANGED <<freed, inactive, wpc, wcur, next>>
      BY <1>2, ScanMoves DEF registry, worker
    <2>2. pc[t] \in Scanning \cup {"scan_head"}
      BY <1>2, ScanMoves
    <2>3. Born' = Born
      <3>1. pc \in [Threads -> PCs] /\ \A u \in Threads : u # t => pc'[u] = pc[u]
        BY CallsThread DEF TypeOK
      <3> QED  BY <1>2, <2>2, <3>1 DEF Born, Scanning
    <2>4. InList' = InList /\ InList \subseteq Born \ freed
      BY <2>1, <2>3 DEF InList, Queued, InHand
    <2>5. CASE pc[t] = "scan_head"
      <3>1. cur'[t] = head /\ nxt'[t] = nxt[t] /\ head # NULL
        BY <1>2, <2>5, ScanMoves DEF Scanning
      <3>2. nxt[t] = NULL /\ head \in InList
        BY <2>5, <3>1 DEF ScanOK, RegistryOK, ListShape
      <3> QED  BY <2>1, <2>3, <2>4, <3>1, <3>2
    <2>6. CASE pc[t] \in Scanning
      <3>1. /\ cur[t] \in Born \ freed /\ nxt[t] \in (Born \ freed) \cup {NULL}
            /\ wpc \in {"w_cas", "w_free"} => cur[t] \in InList /\ nxt[t] \in InList \cup {NULL}
        BY <2>6 DEF ScanOK
      <3>2. /\ cur'[t] # NULL \/ cur'[t] = cur[t]
            /\ cur'[t] \in {cur[t], nxt[t], next[cur[t]]}
            /\ nxt'[t] \in {NULL, nxt[t], next[cur[t]]}
        <4>1. pc[t] # "scan_head"
          BY <2>6 DEF Scanning
        <4> QED  BY <1>2, <4>1, ScanMoves
      <3>3. next[cur[t]] \in (Born \ freed) \cup {NULL}
        <4>1. cur[t] \in Threads /\ next[cur[t]] \notin freed
          BY <3>1 DEF QueueOK, Born
        <4> QED  BY <4>1 DEF RegistryOK, Lives
      <3>4. cur[t] \in InList => next[cur[t]] \in InList \cup {NULL}
        BY DEF RegistryOK, ListShape
      <3>5. cur[t] # NULL
        BY <3>1, HazardPointersAssumption DEF Born
      <3> QED  BY <2>1, <2>3, <2>4, <3>1, <3>2, <3>3, <3>4, <3>5
    <2> QED  BY <2>2, <2>5, <2>6
  <1> QED  BY <1>1, <1>2

\* No other step frees what a cycle stands on.
LEMMA ScanStep ==
    ASSUME TypeOK, RegistryOK, QueueOK, CallsOK, ScanOK, OneReclaims, ~destroyed, ~destroyed', Next
    PROVE  ScanOK'
  <1>1. ASSUME NEW t \in Threads, ThreadStep(t) PROVE ScanOK'
    <2> SUFFICES ASSUME NEW u \in Threads, u # t
                 PROVE  /\ pc'[u] \notin {"scan_next", "scan_node"} => nxt'[u] = NULL
                        /\ pc'[u] \in Scanning =>
                              /\ cur'[u] \in Born' \ freed' /\ nxt'[u] \in (Born' \ freed') \cup {NULL}
                              /\ wpc' \in {"w_cas", "w_free"}
                                    => cur'[u] \in InList' /\ nxt'[u] \in InList' \cup {NULL}
      BY <1>1, ScanOwn DEF ScanOK
    <2>1. pc'[u] = pc[u] /\ cur'[u] = cur[u] /\ nxt'[u] = nxt[u] /\ wpc' = wpc
      BY <1>1, ScanMoves, CallsThread
    <2>2. Born \subseteq Born' /\ InList \subseteq InList' /\ (freed' = freed \/ FreeThreads(t))
      <3>1. CASE RegisterPush(t)
        BY <3>1, QueuePush, RegisterPushList
      <3>2. CASE RegisterPrepare(t) \/ UnregisterDeactivate(t)
        <4>1. InList' = InList /\ freed' = freed
          BY <3>2, RegisterPrepareList, DeactivateList DEF RegisterPrepare, UnregisterDeactivate
        <4>2. Born' = Born
          BY <3>2 DEF RegisterPrepare, UnregisterDeactivate, Goto, Born, TypeOK
        <4> QED  BY <4>1, <4>2
      <3>3. CASE ~RegisterPrepare(t) /\ ~RegisterPush(t) /\ ~UnregisterDeactivate(t)
        BY <1>1, <3>3, ThreadList
      <3> QED  BY <3>1, <3>2, <3>3
    <2>3. CASE freed' = freed
      BY <2>1, <2>2, <2>3 DEF ScanOK
    <2>4. CASE FreeThreads(t)
      <3>1. t \in Retirers
        BY <2>4 DEF FreeThreads, Goto, CallsOK, Ends
      <3>2. u \notin Retirers
        BY <3>1 DEF OneReclaims
      <3>3. pc[u] \notin Scanning
        BY <3>2 DEF CallsOK, Cycle, Scanning
      <3> QED  BY <2>1, <3>3 DEF ScanOK
    <2> QED  BY <2>2, <2>3, <2>4
  <1>2. CASE WorkerStep
    <2>1. UNCHANGED <<pc, cur, nxt>>
      BY <1>2
      DEF WorkerStep, WorkerEnter, WorkerEpochRead, WorkerLeave, WorkerEpochCas, WorkerFree,
          WorkerHead, WorkerKeep, WorkerUnlink, WorkerStamp, WorkerPark, scan
    <2>2. Born' = Born
      BY <2>1 DEF Born
    <2> SUFFICES ASSUME NEW t \in Threads, pc[t] \in Scanning
                 PROVE  /\ cur[t] \in Born \ freed' /\ nxt[t] \in (Born \ freed') \cup {NULL}
                        /\ wpc' \in {"w_cas", "w_free"} => cur[t] \in InList' /\ nxt[t] \in InList' \cup {NULL}
      BY <2>1, <2>2 DEF ScanOK
    <2>3. /\ cur[t] \in Born \ freed /\ nxt[t] \in (Born \ freed) \cup {NULL}
          /\ wpc \in {"w_cas", "w_free"} => cur[t] \in InList /\ nxt[t] \in InList \cup {NULL}
      BY DEF ScanOK
    <2>4. CASE WorkerFree
      <3>1. freed' \subseteq freed \cup Queued /\ wpc = "w_free" /\ wpc' = "w_head"
        BY <2>4, FreeMoves DEF WorkerFree, WGoto
      <3>2. cur[t] \notin freed' /\ (nxt[t] = NULL \/ nxt[t] \notin freed')
        BY <2>3, <3>1 DEF InList
      <3> QED  BY <2>3, <3>1, <3>2
    <2>5. CASE WorkerLeave
      <3>1. t \in Retirers /\ pc[t] \in Cycle
        BY DEF CallsOK, Cycle, Scanning
      <3>2. pendingCalls # 1
        BY <2>5, <3>1 DEF CallsOK, WorkerLeave, WGoto
      <3>3. freed' = freed /\ wpc' = "w_head"
        BY <2>5, <3>2 DEF WorkerLeave, WGoto
      <3> QED  BY <2>3, <3>3
    <2>6. CASE WorkerEpochCas
      <3>1. freed' = freed /\ wpc = "w_cas"
        BY <2>6 DEF WorkerEpochCas, WGoto
      <3>2. InList' = InList
        BY <1>2, <2>6, WorkerList DEF WorkerEpochCas, WorkerUnlink, WGoto
      <3> QED  BY <2>3, <3>1, <3>2
    <2>7. CASE ~WorkerFree /\ ~WorkerLeave /\ ~WorkerEpochCas
      <3>1. freed' = freed /\ wpc' \notin {"w_cas", "w_free"}
        BY <1>2, <2>7
        DEF WorkerStep, WorkerEnter, WorkerEpochRead, WorkerHead, WorkerKeep, WorkerUnlink,
            WorkerStamp, WorkerPark, WGoto, registry
      <3> QED  BY <2>3, <3>1
    <2> QED  BY <2>4, <2>5, <2>6, <2>7
  <1>3. CASE \E v \in Thresholds : SetReclaimThreshold(v)
    <2>1. UNCHANGED <<registry, worker, scan, pc>>
      BY <1>3 DEF SetReclaimThreshold
    <2> QED  BY <2>1 DEF ScanOK, Born, InList, Queued, InHand, registry, worker, scan
  <1> QED  BY <1>1, <1>2, <1>3 DEF Next, Destroy, Destroyed

FreeingOK == ~destroyed => CallsOK /\ QueueOK /\ ScanOK

LEMMA FreeingStep ==
    OneReclaims /\ TypeOK /\ RegistryInv /\ FreeingOK /\ [Next]_vars => FreeingOK'
  <1> SUFFICES ASSUME OneReclaims, TypeOK, RegistryInv, FreeingOK, [Next]_vars, ~destroyed'
               PROVE  (CallsOK /\ QueueOK /\ ScanOK)'
    BY DEF FreeingOK
  <1>1. ~destroyed
    <2>1. UNCHANGED vars => UNCHANGED destroyed
      BY DEF vars
    <2> QED  BY <2>1, AfterDestroy
  <1>2. RegistryOK /\ CallsOK /\ QueueOK /\ ScanOK
    BY <1>1 DEF RegistryInv, FreeingOK
  <1>3. CASE UNCHANGED vars
    BY <1>2, <1>3
    DEF CallsOK, QueueOK, ScanOK, Born, InList, InHand, Queued, vars, registry, worker, scan, client
  <1>4. CASE Next
    <2>1. CallsOK' /\ ScanOK'
      BY <1>1, <1>2, <1>4, CallsStep, ScanStep
    <2>2. QueueOK'
      <3>1. CASE \E v \in Thresholds : SetReclaimThreshold(v)
        <4>1. UNCHANGED <<registry, worker, pc>>
          BY <3>1 DEF SetReclaimThreshold
        <4> QED  BY <1>2, <4>1 DEF QueueOK, Born, InList, InHand, Queued, registry, worker
      <3> QED  BY <1>1, <1>2, <1>4, <3>1, QueueThread, QueueWorker DEF Next, Destroy, Destroyed
    <2> QED  BY <2>1, <2>2
  <1> QED  BY <1>3, <1>4

LEMMA FreeingInit == Init => FreeingOK
  <1> SUFFICES ASSUME Init PROVE CallsOK /\ QueueOK /\ ScanOK
    BY DEF FreeingOK
  <1>1. Born = {} /\ InHand = {} /\ Queued = {} /\ Retirers \subseteq Threads
    BY HazardPointersAssumption DEF Init, Born, InHand, Queued
  <1>2. CallsOK
    BY <1>1 DEF Init, CallsOK, Cycle, Ends
  <1>3. QueueOK
    BY <1>1 DEF Init, QueueOK
  <1>4. ScanOK
    BY DEF Init, ScanOK, Scanning
  <1> QED  BY <1>2, <1>3, <1>4

\* A domain in which one thread at a time is the only one that runs reclaim cycles: its
\* scan misses no active thread and touches no freed one, whenever the worker frees.
THEOREM RegistryIsSound == OneReclaims => (Spec => []RegistrySound)
  <1> SUFFICES ASSUME OneReclaims PROVE Spec => []RegistrySound
    OBVIOUS
  <1> DEFINE Inv == TypeOK /\ RegistryInv /\ FreeingOK
  <1>1. Init => Inv
    BY TypeInit, RegistryInit, FreeingInit
  <1>2. Inv /\ [Next]_vars => Inv'
    BY TypeStep, RegistryStep, FreeingStep
  <1>3. Inv => ScannedNotFreed
    <2> SUFFICES ASSUME Inv, NEW t \in Threads, pc[t] \in Scanning
                 PROVE  cur[t] \notin freed /\ nxt[t] \notin freed
      BY DEF ScannedNotFreed, Scanning
    <2>1. ~destroyed
      BY DEF RegistryInv, Scanning
    <2>2. NULL \notin freed
      BY HazardPointersAssumption DEF TypeOK, RegistryTypeOK
    <2> QED  BY <2>1, <2>2 DEF FreeingOK, ScanOK
  <1>4. Spec => []ScannedNotFreed
    BY <1>1, <1>2, <1>3, PTL DEF Spec
  <1>5. Spec => []ActiveListed
    BY ActiveThreadsListed
  <1> QED  BY <1>4, <1>5, PTL DEF RegistrySound

-----------------------------------------------------------------------------
(***************************************************************************)
(* What a scan is about.  While a cycle collects, every hazard pointer to  *)
(* a node on its list was collected already or is still ahead of it: on a  *)
(* thread it will come to, or further down the list of records it is       *)
(* walking.  The list is walked from the newest record to the oldest, and  *)
(* releasing the oldest takes nothing away that is still ahead.            *)
(***************************************************************************)
NoHandOver == Leavers \cap Retirers = {}

\* Thread u is met by a walk from object x.
Reach(x, u) ==
    /\ x # NULL
    /\ \A S \in SUBSET Threads :
          x \in S /\ (\A y \in S : next[y] \in S \cup {NULL}) => u \in S

\* Record x was acquired by u no earlier than r was.
Later(u, r, x) ==
    \E j \in 1..Len(held[u]) : \E i \in j..Len(held[u]) : r = held[u][j] /\ x = held[u][i]

Ahead(t, u, r) ==
    \/ pc[t] = "scan_head"
    \/ pc[t] = "scan_thread" /\ Reach(cur[t], u)
    \/ pc[t] \in {"scan_next", "scan_node"} /\ Reach(nxt[t], u)
    \/ pc[t] = "scan_next" /\ cur[t] = u /\ Later(u, r, rec[t])
    \/ pc[t] = "scan_node" /\ cur[t] = u /\ (r = rec[t] \/ Later(u, r, recNxt[t]))

Collecting == Scanning \cup {"scan_head"}

Covered(t, u, r) ==
    /\ pc[t] \in Collecting => recNode[r] \in hps[t] \/ Ahead(t, u, r)
    /\ pc[t] = "sweep_own" => recNode[r] \in hps[t]

CoverOK ==
    \A t, u \in Threads : \A r \in valid[u] : recNode[r] \in reclaimList[t] => Covered(t, u, r)

\* Only retirers have nodes to reclaim, and they do not unregister.
RetiredOK ==
    /\ pendingList = {} /\ \A t \in Threads : chain[t] = {}
    /\ \A t \in Threads : t \notin Retirers => reclaimList[t] = {} /\ toRetire[t] = NULL

\* A cycle stands at objects that were registered.
PlaceOK ==
    \A t \in Threads :
        /\ pc[t] \notin {"scan_next", "scan_node"} => nxt[t] = NULL
        /\ pc[t] \in Scanning => cur[t] \in Born /\ nxt[t] \in Born \cup {NULL}

ValidHeld == \A t \in Threads : valid[t] \subseteq HeldSet(t)

-----------------------------------------------------------------------------
(* Hazard pointers from one step to the next. *)

\* A validated record stays so, with what it protects and its place among the records
\* of its thread, until its thread lets go of it; what is validated is linked.
Keeps(u, r) ==
    /\ r \in valid[u] /\ recNode'[r] = recNode[r]
    /\ \A x : Later(u, r, x) => Later(u, r, x)'

LEMMA SameHeldKeeps ==
    ASSUME NEW u, NEW r \in valid[u], held'[u] = held[u], recNode'[r] = recNode[r]
    PROVE  Keeps(u, r)
  BY DEF Keeps, Later

LEMMA HeldSteps ==
    ASSUME TypeOK, RecordsInv, ValidHeld, OldestFirst, NEW t \in Threads, ThreadStep(t), NEW u \in Threads
    PROVE  /\ valid'[u] \subseteq HeldSet(u)'
           /\ \A r \in valid'[u] : Keeps(u, r) \/ (recNode'[r] \in linked /\ linked' = linked)
  <1>0. /\ held \in [Threads -> Seq(Records)] /\ valid \in [Threads -> SUBSET Records]
        /\ recNode \in [Records -> Nodes \cup {NULL}] /\ valid[u] \subseteq HeldSet(u)
        /\ Len(held[u]) \in Nat
        /\ RecordsOK(t) /\ RecordsOK(u)
        /\ HeldSet(u) \subseteq Own(u) /\ Own(u) \subseteq Records
    <2>1. RecordsOK(u) /\ RecordsOK(t) /\ held \in [Threads -> Seq(Records)]
      BY DEF RecordsInv, TypeOK, RecordsTypeOK
    <2>2. HeldSet(u) \subseteq Own(u)
      BY <2>1 DEF RecordsOK, HeldOK, HeldSet
    <2> QED  BY <2>1, <2>2, OwnRecords DEF TypeOK, RecordsTypeOK, ValidHeld
  <1>1. CASE Elsewhere(t)
    <2>1. UNCHANGED <<held, recNode>>
      BY <1>1, ElsewhereKeeps DEF records
    <2>2. valid'[u] \subseteq valid[u]
      <3> USE <1>0
      <3>1. CASE (\E n \in Nodes : Unlink(t, n)) \/ AcquireFails(t)
        <4>1. valid' = [valid EXCEPT ![t] = {}]
          BY <3>1 DEF Unlink, AcquireFails
        <4> QED  BY <4>1
      <3>2. CASE ~((\E n \in Nodes : Unlink(t, n)) \/ AcquireFails(t))
        <4>1. valid' = valid
          BY <1>1, <3>2
          DEF Elsewhere, RegisterPrepare, RegisterPush, UnregisterHandOff, UnregisterDeactivate,
              Reclaim, ReclaimEnter, ScanHead, ScanThread, ScanRecordNext, ScanRecordNode,
              ScanFails, SweepOwn, DetachPending, SweepPending, Repark, EpochRead, ReclaimLeave,
              EpochCas, FreeThreads, client
        <4> QED  BY <4>1
      <3> QED  BY <3>1, <3>2
    <2> QED  BY <1>0, <2>1, <2>2, SameHeldKeeps DEF HeldSet
  <1>2. CASE AtRecords(t) /\ u # t
    <2>1. SameRecords(u)
      BY <1>0, <1>2, OthersRecords
    <2>2. valid'[u] = valid[u]
      BY <1>0, <1>2
      DEF AtRecords, AcquireStart, AcquireLink, AcquirePublish, Validate, ReleaseClear,
          ReleaseUnlink, ReleaseFree, client
    <2>3. held'[u] = held[u] /\ \A r \in valid[u] : recNode'[r] = recNode[r]
      BY <1>0, <2>1 DEF SameRecords
    <2>4. valid'[u] \subseteq HeldSet(u)'
      BY <1>0, <2>2, <2>3 DEF HeldSet
    <2> QED  BY <2>2, <2>3, <2>4, SameHeldKeeps
  <1>3. ASSUME u = t, NEW n \in Nodes, AcquireStart(t, n)
        PROVE  /\ valid'[u] \subseteq HeldSet(u)'
               /\ \A r \in valid'[u] : Keeps(u, r)
    <2> DEFINE x == IF freePointers[t] # NULL THEN freePointers[t] ELSE <<t, allocated[t] + 1>>
    <2>1. /\ UNCHANGED <<held, valid>> /\ recNode' = [recNode EXCEPT ![x] = n]
      BY <1>3 DEF AcquireStart
    <2>2. x \notin HeldSet(t)
      <3>1. CASE freePointers[t] # NULL
        BY <1>0, <3>1 DEF RecordsOK, FreeOK, FreeSet
      <3>2. CASE freePointers[t] = NULL
        <4>1. allocated[t] \in Nat /\ x = <<t, allocated[t] + 1>>
          BY <3>2, HazardPointersAssumption DEF TypeOK, RecordsTypeOK
        <4>2. \A r \in HeldSet(t) : r[2] <= allocated[t] /\ r \in Own(t)
          BY <1>0 DEF RecordsOK, HeldOK, HeldSet
        <4>3. \A r \in Own(t) : r[2] \in Nat
          BY HazardPointersAssumption DEF Own
        <4>4. x[2] = allocated[t] + 1
          BY <4>1
        <4>5. ~(x[2] <= allocated[t])
          BY <4>1, <4>4
        <4> QED  BY <4>2, <4>5
      <3> QED  BY <3>1, <3>2
    <2> HIDE DEF x
    <2>3. \A r \in valid[u] : recNode'[r] = recNode[r]
      BY <1>0, <1>3, <2>1, <2>2
    <2> QED  BY <1>0, <2>1, <2>3, SameHeldKeeps DEF HeldSet
  <1>4. CASE u = t /\ (AcquireLink(t) \/ ReleaseUnlink(t) \/ ReleaseFree(t))
    <2>1. UNCHANGED <<held, recNode, valid>>
      BY <1>4 DEF AcquireLink, ReleaseUnlink, ReleaseFree, client
    <2> QED  BY <1>0, <2>1, SameHeldKeeps DEF HeldSet
  <1>5. CASE u = t /\ AcquirePublish(t)
    <2> DEFINE L == Len(held[u])
    <2>1. /\ UNCHANGED <<recNode, valid>> /\ held'[u] = Append(held[u], op[t]) /\ op[t] \in Records
      <3>1. op[t] \in Own(t)
        BY <1>0, <1>5 DEF AcquirePublish, Goto, RecordsOK, OpOK, InCall
      <3> QED  BY <1>0, <1>5, <3>1, OwnRecords DEF AcquirePublish
    <2>2. Len(held'[u]) = L + 1 /\ \A j \in 1..L + 1 : held'[u][j] = IF j = L + 1 THEN op[t] ELSE held[u][j]
      BY <1>0, <2>1, AppendAt
    <2>3. \A j \in 1..L : j \in 1..L + 1 /\ held'[u][j] = held[u][j]
      <3>1. \A j \in 1..L : j \in 1..L + 1 /\ j # L + 1
        BY <1>0
      <3> QED  BY <2>2, <3>1
    <2>4. HeldSet(u) \subseteq HeldSet(u)'
      BY <2>2, <2>3 DEF HeldSet
    <2>5. ASSUME NEW r, NEW x, Later(u, r, x) PROVE Later(u, r, x)'
      <3>1. PICK j \in 1..L : \E i \in j..L : r = held[u][j] /\ x = held[u][i]
        BY <2>5 DEF Later
      <3>2. PICK i \in j..L : r = held[u][j] /\ x = held[u][i]
        BY <3>1
      <3>3. i \in 1..L /\ j \in 1..L + 1 /\ i \in j..L + 1
        BY <1>0
      <3> QED  BY <2>2, <2>3, <3>2, <3>3 DEF Later
    <2> QED  BY <1>0, <2>1, <2>4, <2>5 DEF Keeps
  <1>6. CASE u = t /\ Validate(t)
    <2>1. /\ UNCHANGED <<held, recNode, linked>> /\ pc[t] = "validate"
          /\ valid' = [valid EXCEPT ![t] = IF recNode[op[t]] \in linked THEN @ \cup {op[t]} ELSE {}]
      BY <1>6 DEF Validate, Goto, records, lists
    <2>2. op[t] \in HeldSet(t)
      <3>1. op[t] = held[t][Len(held[t])] /\ Len(held[t]) \in 1..Len(held[t])
        BY <1>0, <1>6, <2>1 DEF RecordsOK, OpOK
      <3> QED  BY <3>1 DEF HeldSet
    <2>3. \A r \in valid'[u] : r \in valid[u] \/ (r = op[t] /\ recNode[op[t]] \in linked)
      BY <1>0, <1>6, <2>1
    <2> QED  BY <1>0, <1>6, <2>1, <2>2, <2>3, SameHeldKeeps DEF HeldSet
  <1>7. ASSUME u = t, NEW i \in 1..MaxRecords, ReleaseClear(t, i)
        PROVE  /\ valid'[u] \subseteq HeldSet(u)'
               /\ \A r \in valid'[u] : Keeps(u, r)
    <2> DEFINE h == held[u]
               L == Len(held[u])
               g == held'[u]
    <2>1. /\ i = 1 /\ 1 \in 1..L
          /\ recNode' = [recNode EXCEPT ![h[1]] = NULL]
          /\ valid'[u] = valid[u] \ {h[1]}
          /\ g = SubSeq(h, 1, 1 - 1) \o SubSeq(h, 1 + 1, L)
      <3>1. i = 1 /\ 1 \in 1..L
        BY <1>0, <1>7 DEF ReleaseClear
      <3> QED  BY <1>0, <1>7, <3>1 DEF ReleaseClear
    <2>2. Len(g) = L - 1 /\ \A j \in 1..L - 1 : g[j] = h[j + 1]
      <3>1. h \in Seq(Records)
        BY <1>0
      <3> HIDE DEF h, g
      <3>2. /\ Len(g) = Len(h) - 1
            /\ \A j \in 1..Len(h) - 1 : g[j] = IF j < 1 THEN h[j] ELSE h[j + 1]
        <4>1. 1 \in 1..Len(h) /\ g = SubSeq(h, 1, 1 - 1) \o SubSeq(h, 1 + 1, Len(h))
          BY <2>1 DEF h
        <4> QED  BY <3>1, <4>1, Without
      <3>3. Len(h) = L
        BY DEF h
      <3> QED  BY <1>0, <3>2, <3>3
    <2>3. \A j \in 1..L : j # 1 => j - 1 \in 1..L - 1 /\ (j - 1) + 1 = j
      BY <1>0
    <2>4. \A j \in 1..L : j # 1 => g[j - 1] = h[j]
      BY <2>2, <2>3
    <2>5. ASSUME NEW r \in valid'[u] PROVE r \in HeldSet(u)' /\ Keeps(u, r)
      <3>1. r \in valid[u] /\ r # h[1] /\ r \in Records
        BY <1>0, <2>1, <2>5
      <3>2. recNode'[r] = recNode[r]
        BY <1>0, <2>1, <3>1
      <3>3. PICK k \in 1..L : r = h[k]
        BY <1>0, <3>1 DEF HeldSet
      <3>4. r \in HeldSet(u)'
        <4>1. k # 1
          BY <3>1, <3>3
        <4> QED  BY <2>2, <2>3, <2>4, <3>3, <4>1 DEF HeldSet
      <3>5. ASSUME NEW x, Later(u, r, x) PROVE Later(u, r, x)'
        <4>1. PICK j \in 1..L : \E l \in j..L : r = h[j] /\ x = h[l]
          BY <3>5 DEF Later
        <4>2. PICK l \in j..L : r = h[j] /\ x = h[l]
          BY <4>1
        <4>3. j # 1
          BY <3>1, <4>2
        <4>4. l \in 1..L /\ l # 1 /\ j - 1 \in 1..L - 1 /\ l - 1 \in j - 1..L - 1
          BY <1>0, <4>3
        <4>5. r = g[j - 1] /\ x = g[l - 1]
          BY <2>4, <4>2, <4>3, <4>4
        <4> QED  BY <2>2, <4>4, <4>5 DEF Later
      <3> QED  BY <3>1, <3>2, <3>4, <3>5 DEF Keeps
    <2> QED  BY <2>5
  <1> QED  BY <1>1, <1>2, <1>3, <1>4, <1>5, <1>6, <1>7, TwoKinds DEF AtRecords

-----------------------------------------------------------------------------
(* Walks from one step to the next. *)

LEMMA ReachStep ==
    ASSUME NEW x \in Threads, NEW u, Reach(x, u), x # u
    PROVE  next[x] # NULL /\ Reach(next[x], u)
  <1>1. next[x] # NULL
    <2>1. next[x] = NULL => u \in {x}
      BY DEF Reach
    <2> QED  BY <2>1
  <1>2. ASSUME NEW S \in SUBSET Threads, next[x] \in S, \A y \in S : next[y] \in S \cup {NULL}
        PROVE  u \in S
    <2>1. S \cup {x} \in SUBSET Threads /\ \A y \in S \cup {x} : next[y] \in (S \cup {x}) \cup {NULL}
      BY <1>2
    <2>2. u \in S \cup {x}
      BY <2>1 DEF Reach
    <2> QED  BY <2>2
  <1> QED  BY <1>1, <1>2 DEF Reach

LEMMA ReachFromHead ==
    ASSUME TypeOK, RegistryOK, NEW u \in InList
    PROVE  Reach(head, u)
  <1>1. head # NULL
    <2> SUFFICES ASSUME head = NULL PROVE FALSE
      OBVIOUS
    <2>1. (head # NULL => head \in {}) /\ \A y \in {} \cap InList : next[y] # NULL => next[y] \in {}
      OBVIOUS
    <2>2. InList \subseteq {}
      BY <2>1, ListedByLinks
    <2> QED  BY <2>2
  <1>2. ASSUME NEW S \in SUBSET Threads, head \in S, \A y \in S : next[y] \in S \cup {NULL}
        PROVE  u \in S
    <2>1. InList \subseteq S
      BY <1>2, ListedByLinks
    <2> QED  BY <2>1
  <1> QED  BY <1>1, <1>2 DEF Reach

\* Neither a thread that registers nor an object the worker takes out of the list
\* makes a walk miss an active thread.
LEMMA ReachKept ==
    ASSUME TypeOK, RegistryOK, NEW x, x \in Born \/ x = NULL, NEW u \in InList, active[u], Reach(x, u),
           WorkerStep \/ \E t \in Threads : ThreadStep(t)
    PROVE  Reach(x, u)'
  <1>1. CASE next' = next
    BY <1>1 DEF Reach
  <1>2. ASSUME NEW t \in Threads, RegisterPrepare(t)
        PROVE  Reach(x, u)'
    <2>1. /\ pc[t] = "unborn" /\ \A y \in Threads : y # t => next'[y] = next[y]
          /\ \A y \in Threads : next[y] # t
      <3>1. pc[t] = "unborn" /\ next' = [next EXCEPT ![t] = head] /\ t # NULL
        BY <1>2, HazardPointersAssumption DEF RegisterPrepare, Goto
      <3>2. \A y \in Threads : next[y] # t
        BY <3>1 DEF RegistryOK, Lives, Born
      <3> QED  BY <3>1, <3>2 DEF TypeOK, RegistryTypeOK
    <2>2. ASSUME NEW S \in SUBSET Threads, x \in S, \A y \in S : next'[y] \in S \cup {NULL}
          PROVE  u \in S
      <3>1. S \ {t} \in SUBSET Threads /\ x \in S \ {t}
        BY <2>1, <2>2, HazardPointersAssumption DEF Born
      <3>2. \A y \in S \ {t} : next[y] \in (S \ {t}) \cup {NULL}
        BY <2>1, <2>2
      <3>3. u \in S \ {t}
        BY <3>1, <3>2 DEF Reach
      <3> QED  BY <3>3
    <2> QED  BY <2>2 DEF Reach
  <1>3. CASE WorkerUnlink /\ next' # next
    <2>1. /\ next' = [next EXCEPT ![waddr] = next[wcur]] /\ waddr \in Threads
          /\ next[waddr] = wcur /\ ~active[wcur] /\ wcur \in Threads
      <3>1. waddr \in InList /\ wcur \in InList
        BY <1>3 DEF WorkerUnlink, RegistryOK, WorkerAt
      <3> QED  BY <1>3, <3>1 DEF WorkerUnlink, InList, Born
    <2>2. ASSUME NEW S \in SUBSET Threads, x \in S, \A y \in S : next'[y] \in S \cup {NULL}
          PROVE  u \in S
      <3>0. \A y \in Threads : next'[y] = IF y = waddr THEN next[wcur] ELSE next[y]
        BY <2>1 DEF TypeOK, RegistryTypeOK
      <3>1. CASE waddr \in S
        <4>1. \A y \in S \cup {wcur} : next[y] \in (S \cup {wcur}) \cup {NULL}
          BY <2>1, <2>2, <3>0, <3>1
        <4>2. S \cup {wcur} \in SUBSET Threads /\ x \in S \cup {wcur} /\ u # wcur
          BY <2>1, <2>2
        <4>3. u \in S \cup {wcur}
          BY <4>1, <4>2 DEF Reach
        <4> QED  BY <4>2, <4>3
      <3>2. CASE waddr \notin S
        <4>1. \A y \in S : next[y] \in S \cup {NULL}
          BY <2>2, <3>0, <3>2
        <4> QED  BY <2>2, <4>1 DEF Reach
      <3> QED  BY <3>1, <3>2
    <2> QED  BY <2>2 DEF Reach
  <1>4. ASSUME NEW t \in Threads, ThreadStep(t), ~RegisterPrepare(t)
        PROVE  next' = next
    BY <1>4, ThreadList DEF RegisterPush, UnregisterDeactivate
  <1>5. WorkerStep /\ ~WorkerUnlink => next' = next
    BY DEF WorkerStep, WorkerEnter, WorkerEpochRead, WorkerLeave, WorkerEpochCas, WorkerFree,
           WorkerHead, WorkerKeep, WorkerStamp, WorkerPark, WGoto, registry
  <1> QED  BY <1>1, <1>2, <1>3, <1>4, <1>5

LEMMA ValidListed ==
    ASSUME TypeOK, RegistryOK, RecordsInv, ValidHeld, NEW u \in Threads, NEW r \in valid[u]
    PROVE  /\ u \in InList /\ active[u] /\ pc[u] \notin Collecting \cup {"sweep_own"}
           /\ \E j \in 1..Len(held[u]) : r = held[u][j]
  <1>1. \E j \in 1..Len(held[u]) : r = held[u][j]
    BY DEF ValidHeld, HeldSet
  <1>2. held[u] # <<>>
    BY <1>1
  <1>3. pc[u] \in InCall \cup {"idle", "validate"}
    BY <1>2 DEF RecordsInv, RecordsOK, HeldOK
  <1>4. active[u] /\ u \in Born
    BY <1>3 DEF RegistryOK, Lives, Born, InCall
  <1>5. u \in InList
    BY <1>3 DEF RegistryOK, Lives, InList, Born, InCall
  <1> QED  BY <1>1, <1>3, <1>4, <1>5 DEF InCall, Collecting, Scanning

LEMMA BornGrows ==
    ASSUME TypeOK, RegistryOK, NEW t \in Threads, ThreadStep(t)
    PROVE  Born \subseteq Born'
  <1>1. CASE RegisterPrepare(t) \/ RegisterPush(t) \/ UnregisterDeactivate(t)
    <2>1. pc[t] \in {"unborn", "reg_push"} \/ pc' = [pc EXCEPT ![t] = "gone"]
      BY <1>1 DEF RegisterPrepare, RegisterPush, UnregisterDeactivate, Goto
    <2>2. \A u \in Threads : u # t => pc'[u] = pc[u]
      BY CallsThread
    <2> QED  BY <2>1, <2>2 DEF Born, TypeOK
  <1> QED  BY <1>1, ThreadList

LEMMA PlaceStep ==
    ASSUME TypeOK, RegistryOK, PlaceOK, NEW t \in Threads, ThreadStep(t)
    PROVE  PlaceOK'
  <1> SUFFICES ASSUME NEW u \in Threads
               PROVE  /\ pc'[u] \notin {"scan_next", "scan_node"} => nxt'[u] = NULL
                      /\ pc'[u] \in Scanning => cur'[u] \in Born' /\ nxt'[u] \in Born' \cup {NULL}
    BY DEF PlaceOK
  <1>1. Born \subseteq Born'
    BY BornGrows
  <1>2. CASE u # t
    BY <1>1, <1>2, CallsThread, ScanMoves DEF PlaceOK
  <1>3. CASE u = t
    <2>1. pc'[u] \notin {"scan_next", "scan_node"} => nxt'[u] = NULL
      BY <1>3, ScanMoves DEF PlaceOK
    <2>2. ASSUME pc'[u] \in Scanning PROVE cur'[u] \in Born /\ nxt'[u] \in Born \cup {NULL}
      <3>1. CASE pc[u] = "scan_head"
        BY <1>3, <2>2, <3>1, ScanMoves DEF PlaceOK, RegistryOK, ListShape, InList, Scanning
      <3>2. CASE pc[u] \in Scanning
        <4>1. cur[u] \in Born /\ nxt[u] \in Born \cup {NULL} /\ next[cur[u]] \in Born \cup {NULL}
          BY <3>2 DEF PlaceOK, RegistryOK, Lives, Born
        <4>2. /\ cur'[u] # NULL \/ cur'[u] = cur[u]
              /\ cur'[u] \in {cur[u], nxt[u], next[cur[u]]}
              /\ nxt'[u] \in {NULL, nxt[u], next[cur[u]]}
          <5>1. pc[u] # "scan_head"
            BY <3>2 DEF Scanning
          <5> QED  BY <1>3, <2>2, <5>1, ScanMoves
        <4> QED  BY <4>1, <4>2
      <3> QED  BY <1>3, <2>2, <3>1, <3>2, ScanMoves
    <2> QED  BY <1>1, <2>1, <2>2
  <1> QED  BY <1>2, <1>3

\* What a step of a thread leaves alone in the cycles of the others.
LEMMA CycleApart ==
    ASSUME TypeOK, NEW t \in Threads, ThreadStep(t), NEW u \in Threads, u # t
    PROVE  /\ pc'[u] = pc[u] /\ cur'[u] = cur[u] /\ nxt'[u] = nxt[u]
           /\ rec'[u] = rec[u] /\ recNxt'[u] = recNxt[u] /\ hps'[u] = hps[u]
           /\ reclaimList'[u] = reclaimList[u] /\ chain'[u] = chain[u] /\ toRetire'[u] = toRetire[u]
  <1>0. /\ rec \in [Threads -> MaybeRecord] /\ recNxt \in [Threads -> MaybeRecord]
        /\ hps \in [Threads -> SUBSET Nodes] /\ reclaimList \in [Threads -> SUBSET Nodes]
        /\ chain \in [Threads -> SUBSET Nodes]
    BY DEF TypeOK, ScanTypeOK, ListsTypeOK
  <1>1. pc'[u] = pc[u] /\ toRetire'[u] = toRetire[u] /\ cur'[u] = cur[u] /\ nxt'[u] = nxt[u]
    BY CallsThread, ScanMoves
  <1> USE <1>0 DEF lists, scan
  <1>2. CASE AtRecords(t) \/ RegisterPrepare(t) \/ RegisterPush(t) \/ UnregisterDeactivate(t) \/ AcquireFails(t)
    <2>1. UNCHANGED <<lists, scan>>
      BY <1>2 DEF AtRecords, RegisterPrepare, RegisterPush, UnregisterDeactivate, AcquireFails,
          AcquireStart, AcquireLink, AcquirePublish, Validate, ReleaseClear, ReleaseUnlink, ReleaseFree
    <2> QED  BY <1>1, <2>1
  <1>3. CASE UnregisterHandOff(t) \/ (\E n \in Nodes : Unlink(t, n)) \/ Reclaim(t)
    BY <1>1, <1>3 DEF UnregisterHandOff, Unlink, Reclaim
  <1>4. CASE ReclaimEnter(t) \/ EpochRead(t)
    BY <1>1, <1>4 DEF ReclaimEnter, EpochRead
  <1>5. CASE ScanHead(t) \/ ScanThread(t) \/ ScanRecordNext(t) \/ ScanRecordNode(t) \/ ScanFails(t)
    BY <1>1, <1>5 DEF ScanHead, ScanThread, ScanRecordNext, ScanRecordNode, ScanFails
  <1>6. CASE SweepOwn(t) \/ DetachPending(t) \/ SweepPending(t) \/ Repark(t)
    BY <1>1, <1>6 DEF SweepOwn, DetachPending, SweepPending, Repark
  <1>7. CASE ReclaimLeave(t) \/ EpochCas(t) \/ FreeThreads(t)
    BY <1>1, <1>7 DEF ReclaimLeave, EpochCas, FreeThreads
  <1> QED  BY <1>2, <1>3, <1>4, <1>5, <1>6, <1>7, TwoKinds DEF Elsewhere

LEMMA RetiredStep ==
    ASSUME TypeOK, NoHandOver, RetiredOK, NEW t \in Threads, ThreadStep(t)
    PROVE  RetiredOK'
  <1>0. /\ reclaimList \in [Threads -> SUBSET Nodes] /\ chain \in [Threads -> SUBSET Nodes]
        /\ toRetire \in [Threads -> Nodes \cup {NULL}]
        /\ pendingList = {} /\ chain[t] = {}
        /\ t \notin Retirers => reclaimList[t] = {} /\ toRetire[t] = NULL
    BY DEF TypeOK, ListsTypeOK, RetiredOK
  <1>1. pendingList' = {} /\ chain'[t] = {} /\ (t \notin Retirers => reclaimList'[t] = {} /\ toRetire'[t] = NULL)
    <2> USE <1>0 DEF lists, client
    <2>1. CASE AtRecords(t) \/ RegisterPrepare(t) \/ RegisterPush(t) \/ UnregisterDeactivate(t) \/ AcquireFails(t)
      <3>1. UNCHANGED <<lists, toRetire>>
        BY <2>1 DEF AtRecords, RegisterPrepare, RegisterPush, UnregisterDeactivate, AcquireFails,
            AcquireStart, AcquireLink, AcquirePublish, Validate, ReleaseClear, ReleaseUnlink, ReleaseFree
      <3> QED  BY <3>1
    <2>2. CASE UnregisterHandOff(t)
      BY <2>2 DEF UnregisterHandOff, NoHandOver
    <2>3. CASE (\E n \in Nodes : Unlink(t, n)) \/ Reclaim(t)
      BY <2>3 DEF Unlink, Reclaim
    <2>4. CASE ReclaimEnter(t) \/ EpochRead(t) \/ ReclaimLeave(t) \/ EpochCas(t) \/ FreeThreads(t)
      BY <2>4 DEF ReclaimEnter, EpochRead, ReclaimLeave, EpochCas, FreeThreads
    <2>5. CASE ScanHead(t) \/ ScanThread(t) \/ ScanRecordNext(t) \/ ScanRecordNode(t) \/ ScanFails(t)
      BY <2>5 DEF ScanHead, ScanThread, ScanRecordNext, ScanRecordNode, ScanFails
    <2>6. CASE SweepOwn(t) \/ DetachPending(t) \/ SweepPending(t) \/ Repark(t)
      BY <2>6 DEF SweepOwn, DetachPending, SweepPending, Repark
    <2> QED  BY <2>1, <2>2, <2>3, <2>4, <2>5, <2>6, TwoKinds DEF Elsewhere
  <1> QED  BY <1>1, CycleApart DEF RetiredOK

\* A step of another thread takes nothing away that is still ahead of the cycle of t.
LEMMA CoverApart ==
    ASSUME TypeOK, RegistryOK, RecordsInv, EachNodeOnce', PlaceOK, ValidHeld, CoverOK, OldestFirst,
           NEW v \in Threads, ThreadStep(v), NEW t \in Threads, t # v, NEW u \in Threads,
           NEW r \in valid'[u], recNode'[r] \in reclaimList'[t]
    PROVE  Covered(t, u, r)'
  <1>1. /\ pc'[t] = pc[t] /\ cur'[t] = cur[t] /\ nxt'[t] = nxt[t]
        /\ rec'[t] = rec[t] /\ recNxt'[t] = recNxt[t] /\ hps'[t] = hps[t]
        /\ reclaimList'[t] = reclaimList[t]
    BY CycleApart
  <1>2. Keeps(u, r)
    <2>1. linked' \cap reclaimList'[t] = {}
      BY DEF EachNodeOnce, NoneTwice
    <2> QED  BY <2>1, HeldSteps
  <1>3. r \in valid[u] /\ recNode'[r] = recNode[r] /\ Covered(t, u, r)
    BY <1>1, <1>2 DEF Keeps, CoverOK
  <1>4. u \in InList /\ active[u]
    BY <1>3, ValidListed
  <1>5. ASSUME NEW x \in Born \cup {NULL}, Reach(x, u) PROVE Reach(x, u)'
    BY <1>4, <1>5, ReachKept
  <1>6. ASSUME pc[t] \in Collecting, Ahead(t, u, r) PROVE Ahead(t, u, r)'
    <2>1. pc[t] \in Scanning => cur[t] \in Born /\ nxt[t] \in Born \cup {NULL}
      BY DEF PlaceOK
    <2>2. CASE pc[t] = "scan_head"
      BY <1>1, <2>2 DEF Ahead
    <2>3. CASE pc[t] = "scan_thread" /\ Reach(cur[t], u)
      BY <1>1, <1>5, <2>1, <2>3 DEF Ahead, Scanning
    <2>4. CASE pc[t] \in {"scan_next", "scan_node"} /\ Reach(nxt[t], u)
      BY <1>1, <1>5, <2>1, <2>4 DEF Ahead, Scanning
    <2>5. CASE pc[t] = "scan_next" /\ cur[t] = u /\ Later(u, r, rec[t])
      BY <1>1, <1>2, <2>5 DEF Ahead, Keeps
    <2>6. CASE pc[t] = "scan_node" /\ cur[t] = u /\ (r = rec[t] \/ Later(u, r, recNxt[t]))
      BY <1>1, <1>2, <2>6 DEF Ahead, Keeps
    <2> QED  BY <1>6, <2>2, <2>3, <2>4, <2>5, <2>6 DEF Ahead
  <1> QED  BY <1>1, <1>3, <1>6 DEF Covered

\* The oldest record is the last of the list, and each links to the one acquired before.
LEMMA NextRecord ==
    ASSUME RecordsInv, OldestFirst, NEW u \in Threads, NEW i \in 1..Len(held[u])
    PROVE  /\ i # 1 => recNext[held[u][i]] = held[u][i - 1]
           /\ pointers[u] = held[u][Len(held[u])]
  <1>1. InUseOK(u)
    BY DEF RecordsInv, RecordsOK
  <1>2. Len(held[u]) # 0 /\ i # 0 /\ i # 0 + 1 => i # 1
    OBVIOUS
  <1>3. CASE pc[u] = "rel_unlink"
    <2>1. Spliced(u, 0, op[u])
      BY <1>1, <1>3 DEF InUseOK
    <2>2. Len(held[u]) # 0 /\ 0 + 1 = 1
      OBVIOUS
    <2> QED  BY <2>1, <2>2 DEF Spliced
  <1>4. CASE pc[u] # "rel_unlink"
    <2>1. Plain(u) /\ Len(held[u]) # 0
      BY <1>1, <1>4 DEF InUseOK
    <2> QED  BY <2>1 DEF Plain
  <1> QED  BY <1>3, <1>4

\* The cycle itself passes nothing without collecting it.
LEMMA CoverOwn ==
    ASSUME TypeOK, RegistryOK, RecordsInv, RecordsInv', EachNodeOnce', PlaceOK, ValidHeld, CoverOK,
           OldestFirst, NEW t \in Threads, ThreadStep(t), NEW u \in Threads,
           NEW r \in valid'[u], recNode'[r] \in reclaimList'[t]
    PROVE  Covered(t, u, r)'
  <1> SUFFICES ASSUME pc'[t] \in Collecting \cup {"sweep_own"}
               PROVE  Covered(t, u, r)'
    BY DEF Covered
  <1>0. /\ pc \in [Threads -> PCs] /\ cur \in [Threads -> MaybeThread] /\ nxt \in [Threads -> MaybeThread]
        /\ rec \in [Threads -> MaybeRecord] /\ recNxt \in [Threads -> MaybeRecord]
        /\ hps \in [Threads -> SUBSET Nodes]
    BY DEF TypeOK, ScanTypeOK
  <1> USE <1>0 DEF Goto
  <1>1. Keeps(u, r)
    <2>1. linked' \cap reclaimList'[t] = {}
      BY DEF EachNodeOnce, NoneTwice
    <2> QED  BY <2>1, HeldSteps
  <1>2. ReclaimEnter(t) \/ ScanHead(t) \/ ScanThread(t) \/ ScanRecordNext(t) \/ ScanRecordNode(t)
    <2> USE DEF Collecting, Scanning
    <2>1. ~(RegisterPrepare(t) \/ RegisterPush(t) \/ UnregisterHandOff(t) \/ UnregisterDeactivate(t))
      BY DEF RegisterPrepare, RegisterPush, UnregisterHandOff, UnregisterDeactivate
    <2>2. ~(AcquireFails(t) \/ \E n \in Nodes : AcquireStart(t, n) \/ Unlink(t, n))
      BY DEF AcquireFails, AcquireStart, Unlink
    <2>3. ~(AcquireLink(t) \/ AcquirePublish(t) \/ Validate(t))
      BY DEF AcquireLink, AcquirePublish, Validate
    <2>4. ~((\E i \in 1..MaxRecords : ReleaseClear(t, i)) \/ ReleaseUnlink(t) \/ ReleaseFree(t))
      BY DEF ReleaseClear, ReleaseUnlink, ReleaseFree
    <2>5. ~(Reclaim(t) \/ ScanFails(t) \/ SweepOwn(t))
      BY DEF Reclaim, ScanFails, SweepOwn
    <2>6. ~(DetachPending(t) \/ SweepPending(t) \/ Repark(t))
      BY DEF DetachPending, SweepPending, Repark
    <2>7. ~(EpochRead(t) \/ ReclaimLeave(t) \/ EpochCas(t) \/ FreeThreads(t))
      BY DEF EpochRead, ReclaimLeave, EpochCas, FreeThreads
    <2> QED  BY <2>1, <2>2, <2>3, <2>4, <2>5, <2>6, <2>7 DEF ThreadStep
  <1>3. r \in valid[u] /\ recNode'[r] = recNode[r]
    BY <1>1 DEF Keeps
  <1>4. UNCHANGED <<next, head, held, recNext, pointers, reclaimList>>
    BY <1>2 DEF ReclaimEnter, ScanHead, ScanThread, ScanRecordNext, ScanRecordNode,
                registry, records, client, lists
  <1>5. Covered(t, u, r) /\ recNode[r] # NULL
    BY <1>3, <1>4, HazardPointersAssumption DEF CoverOK, TypeOK, ListsTypeOK
  <1>6. u \in InList /\ active[u] /\ u \in Threads
    BY <1>3, ValidListed
  <1>7. \A x : (Reach(x, u)' <=> Reach(x, u)) /\ \A y : (Later(u, r, x)' <=> Later(u, r, x))
    BY <1>4 DEF Reach, Later
  <1>8. CASE ReclaimEnter(t)
    BY <1>8 DEF ReclaimEnter, Covered, Ahead, Collecting, Scanning
  <1>9. CASE ScanHead(t)
    <2>1. Reach(head, u) /\ head # NULL
      BY <1>6, ReachFromHead DEF Reach
    <2>2. pc'[t] = "scan_thread" /\ cur'[t] = head
      BY <1>9, <2>1 DEF ScanHead, AfterThread
    <2> QED  BY <1>7, <2>1, <2>2 DEF Covered, Ahead
  <1>10. CASE ScanThread(t)
    <2>1. pc[t] = "scan_thread" /\ cur[t] \in Threads /\ hps' = hps
      BY <1>10 DEF ScanThread, PlaceOK, Scanning, Born
    <2>2. CASE recNode[r] \in hps[t]
      <3>1. pc'[t] \in Collecting \cup {"sweep_own"} /\ recNode'[r] \in hps'[t]
        BY <1>3, <2>1, <2>2
      <3> QED  BY <3>1 DEF Covered
    <2>3. CASE Reach(cur[t], u) /\ cur[t] = u
      <3>1. PICK j \in 1..Len(held[u]) : r = held[u][j]
        BY <1>3, ValidListed
      <3>2. pointers[u] = held[u][Len(held[u])]
        BY <3>1, NextRecord
      <3>3. Len(held[u]) \in j..Len(held[u]) /\ Len(held[u]) \in 1..Len(held[u])
        BY <3>1
      <3>4. pointers[u] # NULL
        <4>1. held[u][Len(held[u])] \in Own(u)
          BY <3>3 DEF RecordsInv, RecordsOK, HeldOK
        <4> QED  BY <3>2, <4>1, OwnRecords, HazardPointersAssumption DEF Records
      <3>5. pc'[t] = "scan_next" /\ cur'[t] = u /\ rec'[t] = pointers[u]
        BY <1>6, <1>10, <2>3, <3>4 DEF ScanThread
      <3>6. Later(u, r, pointers[u])
        BY <3>1, <3>2, <3>3 DEF Later
      <3> QED  BY <1>7, <3>5, <3>6 DEF Covered, Ahead
    <2>4. CASE Reach(cur[t], u) /\ cur[t] # u
      <3>1. next[cur[t]] # NULL /\ Reach(next[cur[t]], u)
        BY <2>1, <2>4, ReachStep
      <3>2. \/ pc'[t] = "scan_next" /\ nxt'[t] = next[cur[t]]
            \/ pc'[t] = "scan_thread" /\ cur'[t] = next[cur[t]]
        <4>1. CASE active[cur[t]] /\ pointers[cur[t]] # NULL
          BY <1>10, <4>1 DEF ScanThread
        <4>2. CASE ~(active[cur[t]] /\ pointers[cur[t]] # NULL)
          BY <1>10, <3>1, <4>2 DEF ScanThread, AfterThread
        <4> QED  BY <4>1, <4>2
      <3> QED  BY <1>7, <3>1, <3>2 DEF Covered, Ahead
    <2> QED  BY <1>5, <2>1, <2>2, <2>3, <2>4 DEF Covered, Ahead, Collecting, Scanning
  <1>11. CASE ScanRecordNext(t)
    <2>1. /\ pc[t] = "scan_next" /\ pc'[t] = "scan_node" /\ hps' = hps
          /\ cur'[t] = cur[t] /\ nxt'[t] = nxt[t] /\ rec'[t] = rec[t]
          /\ recNxt'[t] = recNext[rec[t]]
      BY <1>11 DEF ScanRecordNext
    <2>2. CASE recNode[r] \in hps[t]
      BY <1>3, <2>1, <2>2 DEF Covered
    <2>3. CASE Reach(nxt[t], u)
      BY <1>7, <2>1, <2>3 DEF Covered, Ahead
    <2>4. CASE cur[t] = u /\ Later(u, r, rec[t])
      <3>1. PICK j \in 1..Len(held[u]) : \E i \in j..Len(held[u]) : r = held[u][j] /\ rec[t] = held[u][i]
        BY <2>4 DEF Later
      <3>2. PICK i \in j..Len(held[u]) : r = held[u][j] /\ rec[t] = held[u][i]
        BY <3>1
      <3>3. CASE i = j
        BY <2>1, <2>4, <3>2, <3>3 DEF Covered, Ahead
      <3>4. CASE i # j
        <4>1. i \in 1..Len(held[u]) /\ i # 1 /\ i - 1 \in j..Len(held[u])
          BY <3>4
        <4>2. recNxt'[t] = held[u][i - 1]
          BY <2>1, <3>2, <4>1, NextRecord
        <4>3. Later(u, r, recNxt'[t])
          BY <3>2, <4>1, <4>2 DEF Later
        <4>4. Later(u, r, recNxt[t])'
          BY <1>4, <4>3 DEF Later
        <4> QED  BY <2>1, <2>4, <4>4 DEF Covered, Ahead
      <3> QED  BY <3>3, <3>4
    <2> QED  BY <1>5, <2>1, <2>2, <2>3, <2>4 DEF Covered, Ahead, Collecting, Scanning
  <1>12. CASE ScanRecordNode(t)
    <2>1. /\ pc[t] = "scan_node"
          /\ hps'[t] = hps[t] \cup ({recNode[rec[t]]} \ {NULL})
      BY <1>12 DEF ScanRecordNode
    <2>2. CASE recNode[r] \in hps[t] \/ r = rec[t]
      <3>1. recNode'[r] \in hps'[t]
        BY <1>3, <1>5, <2>1, <2>2
      <3> QED  BY <3>1 DEF Covered
    <2>3. CASE Reach(nxt[t], u)
      <3>1. nxt[t] # NULL
        BY <2>3 DEF Reach
      <3>2. \/ pc'[t] = "scan_next" /\ nxt'[t] = nxt[t]
            \/ pc'[t] = "scan_thread" /\ cur'[t] = nxt[t]
        <4>1. CASE recNxt[t] # NULL
          BY <1>12, <4>1 DEF ScanRecordNode
        <4>2. CASE recNxt[t] = NULL
          BY <1>12, <3>1, <4>2 DEF ScanRecordNode, AfterThread
        <4> QED  BY <4>1, <4>2
      <3> QED  BY <1>7, <2>3, <3>2 DEF Covered, Ahead
    <2>4. CASE cur[t] = u /\ Later(u, r, recNxt[t])
      <3>1. recNxt[t] # NULL
        <4>1. \A i \in 1..Len(held[u]) : held[u][i] \in Own(u)
          BY DEF RecordsInv, RecordsOK, HeldOK
        <4>2. PICK j \in 1..Len(held[u]) : \E i \in j..Len(held[u]) : recNxt[t] = held[u][i]
          BY <2>4 DEF Later
        <4>3. recNxt[t] \in Own(u)
          BY <4>1, <4>2
        <4> QED  BY <4>3, OwnRecords, HazardPointersAssumption DEF Records
      <3>2. pc'[t] = "scan_next" /\ cur'[t] = u /\ rec'[t] = recNxt[t]
        BY <1>12, <2>4, <3>1 DEF ScanRecordNode
      <3> QED  BY <1>7, <2>4, <3>2 DEF Covered, Ahead
    <2> QED  BY <1>5, <2>1, <2>2, <2>3, <2>4 DEF Covered, Ahead, Collecting, Scanning
  <1> QED  BY <1>2, <1>8, <1>9, <1>10, <1>11, <1>12

ProtInv ==
    IF destroyed THEN \A t \in Threads : valid[t] = {}
    ELSE RetiredOK /\ PlaceOK /\ ValidHeld /\ CoverOK /\ ProtectedNotReclaimed

\* The callback is called for nodes the cycle found in no hazard pointer.
LEMMA ReclaimedByThread ==
    ASSUME TypeOK, RetiredOK, NEW t \in Threads, ThreadStep(t)
    PROVE  \/ reclaimed' = reclaimed
           \/ pc[t] = "sweep_own" /\ reclaimed' = reclaimed \cup (reclaimList[t] \ hps[t])
  <1>1. chain[t] = {}
    BY DEF RetiredOK
  <1> USE <1>1 DEF lists
  <1>2. CASE AtRecords(t)
    BY <1>2
    DEF AtRecords, AcquireStart, AcquireLink, AcquirePublish, Validate, ReleaseClear, ReleaseUnlink, ReleaseFree
  <1>3. CASE Elsewhere(t)
    <2>1. CASE RegisterPrepare(t) \/ RegisterPush(t) \/ UnregisterHandOff(t) \/ UnregisterDeactivate(t)
      BY <2>1 DEF RegisterPrepare, RegisterPush, UnregisterHandOff, UnregisterDeactivate
    <2>2. CASE (\E n \in Nodes : Unlink(t, n)) \/ AcquireFails(t) \/ Reclaim(t) \/ ReclaimEnter(t)
      BY <2>2 DEF Unlink, AcquireFails, Reclaim, ReclaimEnter
    <2>3. CASE ScanHead(t) \/ ScanThread(t) \/ ScanRecordNext(t) \/ ScanRecordNode(t) \/ ScanFails(t)
      BY <2>3 DEF ScanHead, ScanThread, ScanRecordNext, ScanRecordNode, ScanFails
    <2>4. CASE SweepOwn(t) \/ DetachPending(t) \/ SweepPending(t) \/ Repark(t)
      BY <2>4 DEF SweepOwn, DetachPending, SweepPending, Repark, Goto
    <2>5. CASE EpochRead(t) \/ ReclaimLeave(t) \/ EpochCas(t) \/ FreeThreads(t)
      BY <2>5 DEF EpochRead, ReclaimLeave, EpochCas, FreeThreads
    <2> QED  BY <1>3, <2>1, <2>2, <2>3, <2>4, <2>5 DEF Elsewhere
  <1> QED  BY <1>2, <1>3, TwoKinds

LEMMA ProtThread ==
    ASSUME TypeOK, RegistryOK, RecordsInv, RecordsInv', EachNodeOnce', RetiredOK, PlaceOK, ValidHeld,
           CoverOK, ProtectedNotReclaimed, OldestFirst, NoHandOver, NEW t \in Threads, ThreadStep(t)
    PROVE  (RetiredOK /\ PlaceOK /\ ValidHeld /\ CoverOK /\ ProtectedNotReclaimed)'
  <1>1. RetiredOK' /\ PlaceOK'
    BY RetiredStep, PlaceStep
  <1>2. ValidHeld'
    BY HeldSteps DEF ValidHeld
  <1>3. CoverOK'
    BY CoverApart, CoverOwn DEF CoverOK
  <1>4. ASSUME NEW u \in Threads, NEW r \in valid'[u] PROVE recNode'[r] \notin reclaimed'
    <2>1. CASE recNode'[r] \in linked'
      BY <2>1 DEF EachNodeOnce, NoneTwice
    <2>2. CASE Keeps(u, r)
      <3>1. r \in valid[u] /\ recNode'[r] = recNode[r] /\ recNode[r] \notin reclaimed
        BY <2>2 DEF Keeps, ProtectedNotReclaimed
      <3>2. pc[t] = "sweep_own" => recNode[r] \notin reclaimList[t] \ hps[t]
        BY <3>1 DEF CoverOK, Covered
      <3> QED  BY <3>1, <3>2, ReclaimedByThread
    <2> QED  BY <2>1, <2>2, HeldSteps
  <1> QED  BY <1>1, <1>2, <1>3, <1>4 DEF ProtectedNotReclaimed

\* Nor does a step of the worker, which has no list of its own.
LEMMA ProtWorker ==
    ASSUME TypeOK, RegistryOK, RecordsInv, RetiredOK, PlaceOK, ValidHeld, CoverOK, ProtectedNotReclaimed,
           WorkerStep
    PROVE  (RetiredOK /\ PlaceOK /\ ValidHeld /\ CoverOK /\ ProtectedNotReclaimed)'
  <1>1. UNCHANGED <<pc, lists, records, scan, client>>
    BY DEF WorkerStep, WorkerEnter, WorkerEpochRead, WorkerLeave, WorkerEpochCas, WorkerFree,
           WorkerHead, WorkerKeep, WorkerUnlink, WorkerStamp, WorkerPark
  <1>2. RetiredOK' /\ PlaceOK' /\ ValidHeld' /\ ProtectedNotReclaimed'
    BY <1>1 DEF RetiredOK, PlaceOK, ValidHeld, HeldSet, ProtectedNotReclaimed, Born, lists, records, scan, client
  <1>3. CoverOK'
    <2> SUFFICES ASSUME NEW t \in Threads, NEW u \in Threads, NEW r \in valid[u], recNode[r] \in reclaimList[t]
                 PROVE  Covered(t, u, r)'
      BY <1>1 DEF CoverOK, lists, records, client
    <2>1. Covered(t, u, r) /\ u \in InList /\ active[u]
      BY ValidListed DEF CoverOK
    <2>2. ASSUME NEW x \in Born \cup {NULL}, Reach(x, u) PROVE Reach(x, u)'
      BY <2>1, <2>2, ReachKept
    <2>3. pc[t] \in Scanning => cur[t] \in Born /\ nxt[t] \in Born \cup {NULL}
      BY DEF PlaceOK
    <2>4. \A x : Later(u, r, x) => Later(u, r, x)'
      BY <1>1 DEF Later, client
    <2>5. ASSUME Ahead(t, u, r) PROVE Ahead(t, u, r)'
      BY <1>1, <2>2, <2>3, <2>4, <2>5 DEF Ahead, Scanning, scan
    <2> QED  BY <1>1, <2>1, <2>5 DEF Covered, scan, records
  <1> QED  BY <1>2, <1>3

LEMMA ProtStep ==
    NoHandOver /\ OldestFirst /\ TypeOK /\ EachNodeOnce' /\ RegistryInv /\ RecordsInv /\ RecordsInv'
      /\ ProtInv /\ [Next]_vars => ProtInv'
  <1> SUFFICES ASSUME NoHandOver, OldestFirst, TypeOK, EachNodeOnce', RegistryInv, RecordsInv, RecordsInv',
                      ProtInv, [Next]_vars
               PROVE  ProtInv'
    OBVIOUS
  <1>1. CASE destroyed
    <2>1. UNCHANGED <<destroyed, valid>>
      BY <1>1, AfterDestroy DEF vars, client
    <2> QED  BY <1>1, <2>1 DEF ProtInv
  <1>2. CASE ~destroyed
    <2>0. RegistryOK /\ RetiredOK /\ PlaceOK /\ ValidHeld /\ CoverOK /\ ProtectedNotReclaimed
      BY <1>2 DEF RegistryInv, ProtInv
    <2>1. CASE Destroy
      <3>1. \A t \in Threads : valid[t] = {}
        BY <2>0, <2>1 DEF Destroy, ValidHeld, HeldSet
      <3>2. valid' = valid /\ destroyed'
        BY <2>1 DEF Destroy, client
      <3> QED  BY <3>1, <3>2 DEF ProtInv
    <2>2. ASSUME ~destroyed' PROVE (RetiredOK /\ PlaceOK /\ ValidHeld /\ CoverOK /\ ProtectedNotReclaimed)'
      <3>1. CASE \E t \in Threads : ThreadStep(t)
        BY <2>0, <3>1, ProtThread
      <3>2. CASE WorkerStep
        BY <2>0, <3>2, ProtWorker
      <3>3. CASE (\E v \in Thresholds : SetReclaimThreshold(v)) \/ UNCHANGED vars
        <4>1. UNCHANGED <<next, pc, scan, records, client, reclaimList, pendingList, chain, reclaimed>>
          BY <3>3 DEF SetReclaimThreshold, vars, registry, lists
        <4>2. RetiredOK' /\ PlaceOK' /\ ValidHeld' /\ ProtectedNotReclaimed'
          BY <2>0, <4>1 DEF RetiredOK, PlaceOK, ValidHeld, HeldSet, ProtectedNotReclaimed, Born, records, scan, client
        <4>3. CoverOK'
          BY <2>0, <4>1 DEF CoverOK, Covered, Ahead, Reach, Later, records, scan, client
        <4> QED  BY <4>2, <4>3
      <3> QED  BY <2>1, <2>2, <3>1, <3>2, <3>3 DEF Next, Destroy, Destroyed
    <2>3. CASE ~Destroy
      <3>1. ~destroyed'
        <4>1. ASSUME NEW t \in Threads, ThreadStep(t) PROVE destroyed' = destroyed
          BY <4>1
          DEF ThreadStep, RegisterPrepare, RegisterPush, UnregisterHandOff, UnregisterDeactivate,
              AcquireStart, Unlink, AcquireFails, AcquireLink, AcquirePublish, Validate, ReleaseClear,
              ReleaseUnlink, ReleaseFree, Reclaim, ReclaimEnter, ScanHead, ScanThread, ScanRecordNext,
              ScanRecordNode, ScanFails, SweepOwn, DetachPending, SweepPending, Repark, EpochRead,
              ReclaimLeave, EpochCas, FreeThreads
        <4>2. WorkerStep => destroyed' = destroyed
          BY DEF WorkerStep, WorkerEnter, WorkerEpochRead, WorkerLeave, WorkerEpochCas, WorkerFree,
              WorkerHead, WorkerKeep, WorkerUnlink, WorkerStamp, WorkerPark
        <4>3. (\E v \in Thresholds : SetReclaimThreshold(v)) \/ UNCHANGED vars => destroyed' = destroyed
          BY DEF SetReclaimThreshold, vars
        <4> QED  BY <1>2, <2>3, <4>1, <4>2, <4>3 DEF Next, Destroyed
      <3> QED  BY <2>2, <3>1 DEF ProtInv
    <2> QED  BY <2>1, <2>3
  <1> QED  BY <1>1, <1>2

LEMMA ProtInit == Init => ProtInv
  <1> SUFFICES ASSUME Init PROVE ProtInv
    OBVIOUS
  <1>1. RetiredOK /\ PlaceOK
    BY DEF Init, RetiredOK, PlaceOK, Scanning
  <1>2. ValidHeld /\ CoverOK /\ ProtectedNotReclaimed
    BY DEF Init, ValidHeld, CoverOK, ProtectedNotReclaimed
  <1> QED  BY <1>1, <1>2 DEF Init, ProtInv

\* The promise of hazard pointers: while a client uses a node through a validated
\* hazard pointer its callback does not run, for any number of threads, nodes and
\* records, however scans, validations, releases, registrations and the worker
\* interleave; as long as no thread that retires nodes unregisters, and records are
\* released in the order they were acquired.
THEOREM ProtectedNodesAreNotReclaimed ==
    NoHandOver /\ OldestFirst => (Spec => []ProtectedNotReclaimed)
  <1> SUFFICES ASSUME NoHandOver, OldestFirst PROVE Spec => []ProtectedNotReclaimed
    OBVIOUS
  <1> DEFINE Inv == IInv /\ RegistryInv /\ RecordsInv /\ ProtInv
  <1>1. Init => Inv
    <2>1. Init => EachNodeOnce /\ ChainInHand
      BY HazardPointersAssumption
      DEF Init, EachNodeOnce, NoneLost, NoneTwice, ChainInHand
    <2> QED  BY <2>1, TypeInit, RegistryInit, RecordsInit, ProtInit DEF IInv
  <1>2. Inv /\ [Next]_vars => Inv'
    <2> SUFFICES ASSUME Inv, [Next]_vars PROVE Inv'
      OBVIOUS
    <2>1. IInv' /\ RegistryInv' /\ RecordsInv'
      BY ConservationStep, RegistryStep, RecordsStep DEF IInv
    <2> QED  BY <2>1, ProtStep DEF IInv
  <1>3. Inv => ProtectedNotReclaimed
    BY DEF ProtInv, ProtectedNotReclaimed
  <1> QED  BY <1>1, <1>2, <1>3, PTL DEF Spec

=============================================================================
