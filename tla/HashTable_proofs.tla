-------------------------- MODULE HashTable_proofs --------------------------
(***************************************************************************)
(* The hash table, for any number of threads, keys and levels: what        *)
(* item_count and pending_insert_count of a level say of its lists and of  *)
(* the calls that are under way; that a snapshot is complete, for which    *)
(* the lock keeps every write out while it counts and copies; that no      *)
(* variable leaves its range; and that a key is in one level at most, so   *)
(* that no walk through the levels misses a key and the levels are one     *)
(* map.                                                                    *)
(***************************************************************************)
EXTENDS HashTable, FiniteSetTheorems, TLAPS

-----------------------------------------------------------------------------
(* The inductive invariant *)

Calls  == {"insert", "set_value", "find", "delete", "delete_key_value", "snapshot"}
Places == {"idle", "first", "full", "grow", "pend", "wait", "search", "list", "publish", "put",
           "uncount", "unpend", "end", "set_find", "set_lower", "count_set", "start", "level",
           "bucket", "missed", "drop", "sum", "copy", "copied", "overflow", "destroyed"}

Types ==
    /\ first \in Levels
    /\ count \in [Levels -> Int] /\ pend \in [Levels -> Int]
    /\ entry \in [Levels -> [Keys -> Makers \cup {NULL}]]
    /\ pc \in [Threads -> Places] /\ op \in [Threads -> Calls \cup {"none"}]
    /\ key \in [Threads -> Keys \cup {NULL}]
    /\ top \in [Threads -> 0..MaxLevels] /\ lvl \in [Threads -> 0..MaxLevels]

\* Which calls come to which places, with what key and at what level.
OpAt == \A t \in Threads :
    /\ pc[t] \in {"first", "full", "grow", "pend", "wait", "put", "list", "publish"}
          => op[t] \in {"insert", "set_value"}
    /\ pc[t] \in {"search", "uncount"} => op[t] = "insert"
    /\ pc[t] \in {"set_find", "set_lower"} => op[t] = "set_value"
    /\ pc[t] \in {"start", "level", "bucket", "drop"}
          => op[t] \in {"find", "delete", "delete_key_value"}
    /\ op[t] \in Calls \ {"snapshot"} => key[t] \in Keys

LevelAt == \A t \in Threads :
    /\ pc[t] \in {"full", "grow", "pend", "wait", "search", "set_find", "set_lower", "list",
                  "publish", "put", "count_set", "uncount", "unpend"} => top[t] \in Levels
    /\ pc[t] \in {"set_lower", "level", "bucket", "drop"} => lvl[t] \in Levels
    /\ pc[t] = "grow" => top[t] + 1 \in Levels

Known == Types /\ OpAt /\ LevelAt /\ CountsExact

\* One member more or less of a finite set.
LEMMA OneMore ==
  ASSUME NEW S, IsFiniteSet(S), NEW x
  PROVE  /\ Cardinality(S) \in Nat
         /\ x \notin S => Cardinality(S \cup {x}) = Cardinality(S) + 1
         /\ x \in S => Cardinality(S \ {x}) = Cardinality(S) - 1
  BY FS_CardinalityType, FS_AddElement, FS_RemoveElement

LEMMA FiniteParts ==
  ASSUME NEW l
  PROVE  /\ IsFiniteSet(Stored(l)) /\ IsFiniteSet(Counting(l))
         /\ IsFiniteSet(Uncounting(l)) /\ IsFiniteSet(Pending(l))
<1>1. /\ Stored(l) \subseteq Keys /\ Counting(l) \subseteq Threads
      /\ Uncounting(l) \subseteq Threads /\ Pending(l) \subseteq Threads
  BY DEF Stored, Counting, Uncounting, Pending
<1> QED
  BY <1>1, FS_Subset, HashTableAssumption

\* An item that is put in, that replaces another, that is taken out.
LEMMA StoredGrows ==
  ASSUME Types, NEW l \in Levels, NEW m \in Levels, NEW k \in Keys, NEW i, i # NULL,
         entry[m][k] = NULL, entry' = [entry EXCEPT ![m][k] = i]
  PROVE  Cardinality(Stored(l)') = IF l = m THEN Cardinality(Stored(l)) + 1
                                            ELSE Cardinality(Stored(l))
<1>1. Stored(l)' = IF l = m THEN Stored(l) \cup {k} ELSE Stored(l)
  BY DEF Types, Stored
<1>2. l = m => k \notin Stored(l)
  BY DEF Stored
<1> QED  BY <1>1, <1>2, OneMore, FiniteParts

LEMMA StoredStays ==
  ASSUME Types, NEW l \in Levels, NEW m \in Levels, NEW k \in Keys, NEW i, i # NULL,
         entry[m][k] # NULL, entry' = [entry EXCEPT ![m][k] = i]
  PROVE  Stored(l)' = Stored(l)
  BY DEF Types, Stored

LEMMA StoredShrinks ==
  ASSUME Types, NEW l \in Levels, NEW m \in Levels, NEW k \in Keys,
         entry[m][k] # NULL, entry' = [entry EXCEPT ![m][k] = NULL]
  PROVE  Cardinality(Stored(l)') = IF l = m THEN Cardinality(Stored(l)) - 1
                                            ELSE Cardinality(Stored(l))
<1>1. Stored(l)' = IF l = m THEN Stored(l) \ {k} ELSE Stored(l)
  BY DEF Types, Stored
<1>2. l = m => k \in Stored(l)
  BY DEF Stored
<1> QED  BY <1>1, <1>2, OneMore, FiniteParts

-----------------------------------------------------------------------------
(* What a step of one thread does to the sets that are counted *)

OthersStay(t) == \A u \in Threads \ {t} :
    pc'[u] = pc[u] /\ op'[u] = op[u] /\ top'[u] = top[u] /\ lvl'[u] = lvl[u]

One(b) == IF b THEN 1 ELSE 0

\* The counts of level l go up and down with what they count.
Balanced(t, l) ==
    /\ count'[l] = count[l] + (Cardinality(Stored(l)') - Cardinality(Stored(l)))
                   + (One(t \in Counting(l)') - One(t \in Counting(l)))
                   - (One(t \in Uncounting(l)') - One(t \in Uncounting(l)))
    /\ pend'[l] = pend[l] + (One(t \in Pending(l)') - One(t \in Pending(l)))

\* The size of a set that only t may enter or leave.
LEMMA SizeMoves ==
  ASSUME NEW S, NEW T, IsFiniteSet(S), NEW t,
         \A u : u # t => (u \in T <=> u \in S)
  PROVE  Cardinality(T) = Cardinality(S) + (One(t \in T) - One(t \in S))
<1>1. CASE (t \in T) <=> (t \in S)
  <2>1. T = S  BY <1>1
  <2>2. One(t \in T) = One(t \in S) /\ One(t \in S) \in Int  BY <2>1 DEF One
  <2>3. Cardinality(S) \in Nat  BY OneMore
  <2> QED  BY <2>1, <2>2, <2>3
<1>2. CASE t \in T /\ t \notin S
  <2>1. T = S \cup {t}  BY <1>2
  <2> QED  BY <1>2, <2>1, OneMore DEF One
<1>3. CASE t \notin T /\ t \in S
  <2>1. T = S \ {t}  BY <1>3
  <2> QED  BY <1>3, <2>1, OneMore DEF One
<1> QED  BY <1>1, <1>2, <1>3

\* If every level is balanced its counts stay exact.
LEMMA BalancedExact ==
  ASSUME Known, Types', NEW t \in Threads, OthersStay(t), pc[t] # "destroyed",
         \A l \in Levels : Balanced(t, l)
  PROVE  CountsExact'
<1> SUFFICES ASSUME NEW l \in Levels
             PROVE  /\ (\A u \in Threads : pc'[u] # "destroyed") =>
                           count'[l] = Cardinality(Stored(l)') + Cardinality(Counting(l)')
                                       - Cardinality(Uncounting(l)')
                    /\ pend'[l] = Cardinality(Pending(l)')
  BY DEF CountsExact
<1>1. /\ (\A u \in Threads : pc'[u] # "destroyed") =>
             count[l] = Cardinality(Stored(l)) + Cardinality(Counting(l))
                        - Cardinality(Uncounting(l))
      /\ pend[l] = Cardinality(Pending(l))
  BY DEF OthersStay, Known, CountsExact
<1>2. /\ \A u : u # t => (u \in Counting(l)' <=> u \in Counting(l))
      /\ \A u : u # t => (u \in Uncounting(l)' <=> u \in Uncounting(l))
      /\ \A u : u # t => (u \in Pending(l)' <=> u \in Pending(l))
  BY DEF OthersStay, Counting, Uncounting, Pending
<1>3. /\ Cardinality(Counting(l)')
            = Cardinality(Counting(l)) + (One(t \in Counting(l)') - One(t \in Counting(l)))
      /\ Cardinality(Uncounting(l)')
            = Cardinality(Uncounting(l))
              + (One(t \in Uncounting(l)') - One(t \in Uncounting(l)))
      /\ Cardinality(Pending(l)')
            = Cardinality(Pending(l)) + (One(t \in Pending(l)') - One(t \in Pending(l)))
  BY <1>2, SizeMoves, FiniteParts
<1>4. /\ Cardinality(Stored(l)) \in Nat /\ Cardinality(Stored(l)') \in Nat
      /\ Cardinality(Counting(l)) \in Nat
      /\ Cardinality(Uncounting(l)) \in Nat /\ Cardinality(Pending(l)) \in Nat
  <2>1. IsFiniteSet(Stored(l)')
    <3>1. Stored(l)' \subseteq Keys  BY DEF Stored
    <3> QED  BY <3>1, FS_Subset, HashTableAssumption
  <2> QED  BY <2>1, FiniteParts, FS_CardinalityType
<1>5. /\ One(t \in Counting(l)') \in Int /\ One(t \in Counting(l)) \in Int
      /\ One(t \in Uncounting(l)') \in Int /\ One(t \in Uncounting(l)) \in Int
      /\ One(t \in Pending(l)') \in Int /\ One(t \in Pending(l)) \in Int
  BY DEF One
<1>6. Balanced(t, l)
  OBVIOUS
<1>7. (\A u \in Threads : pc'[u] # "destroyed") =>
         count'[l] = Cardinality(Stored(l)') + Cardinality(Counting(l)')
                     - Cardinality(Uncounting(l)')
  BY <1>1, <1>3, <1>4, <1>5, <1>6 DEF Balanced
<1>8. pend'[l] = Cardinality(Pending(l)')
  BY <1>1, <1>3, <1>4, <1>5, <1>6 DEF Balanced
<1> QED  BY <1>7, <1>8


\* Every step keeps the types.
LEMMA TypesKept ==
  ASSUME Known, NEW t \in Threads, Begin(t) \/ Step(t)
  PROVE  Types'
<1>1. Types /\ LevelAt /\ t \in Threads
  BY DEF Known
<1> USE <1>1, HashTableAssumption DEF Types, LevelAt, Levels, Places, Calls, Makers
<1>2. CASE \E what \in {"insert", "set_value"} : WriteStart(t, what)
  BY SMTT(30), <1>2 DEF WriteStart, Goto, levels, lock, call, copy, Call
<1>3. CASE DeleteStart(t)
  <2>1. PICK k \in Keys, what \in Calls :
            /\ pc' = [pc EXCEPT ![t] = "start"] /\ op' = [op EXCEPT ![t] = what]
            /\ key' = [key EXCEPT ![t] = k]
    BY <1>3 DEF DeleteStart, Goto, levels, lock, call, copy, Call, Stored
  <2>2. UNCHANGED <<levels, top, lvl>>
    BY <1>3 DEF DeleteStart, Goto, levels, lock, call, copy, Call
  <2> QED  BY <2>1, <2>2 DEF levels
<1>4. CASE FindStart(t)
  BY <1>4 DEF FindStart, Goto, levels, lock, call, copy, Call
<1>5. CASE SnapshotStart(t)
  BY <1>5 DEF SnapshotStart, Goto, levels, lock, call, copy, Call
<1>6. CASE ReadFirst(t)
  BY <1>6 DEF ReadFirst, Goto, levels, lock, call, copy
<1>7. CASE HasRoom(t)
  BY <1>7 DEF HasRoom, Goto, levels, lock, call, copy
<1>8. CASE IsFull(t)
  BY <1>8 DEF IsFull, Goto, levels, lock, call, copy
<1>9. CASE Grow(t)
  BY SMTT(30), <1>9 DEF Grow, Goto, levels, lock, call, copy
<1>10. CASE GrowLoses(t)
  BY <1>10 DEF GrowLoses, Goto, levels, lock, call, copy
<1>11. CASE RaisePending(t)
  BY <1>11 DEF RaisePending, Goto, levels, lock, call, copy
<1>12. CASE WaitLower(t)
  BY SMTT(30), <1>12 DEF WaitLower, Goto, levels, lock, call, copy
<1>13. CASE LowerPending(t)
  BY <1>13 DEF LowerPending, Goto, levels, lock, call, copy
<1>14. CASE WriteEnd(t)
  BY <1>14 DEF WriteEnd, Goto, levels, lock, call, copy, Forget
<1>15. CASE BucketList(t)
  BY <1>15 DEF BucketList, Goto, levels, lock, call, copy
<1>16. CASE ListFails(t)
  BY <1>16 DEF ListFails, Goto, levels, lock, call, copy
<1>17. CASE Publish(t)
  BY <1>17 DEF Publish, Goto, levels, lock, call, copy
<1>18. CASE PutFails(t)
  BY <1>18 DEF PutFails, Goto, levels, lock, call, copy
<1>19. CASE SearchLower(t)
  BY SMTT(30), <1>19 DEF SearchLower, Goto, levels, lock, call, copy, Search
<1>20. CASE CountInsert(t)
  BY <1>20 DEF CountInsert, Goto, levels, lock, call, copy
<1>21. CASE PutInsert(t)
  <2>1. entry' \in [Levels -> [Keys -> Makers \cup {NULL}]]
    <3>1. CASE entry' = entry  BY <3>1
    <3>2. CASE entry' = [entry EXCEPT ![top[t]][key[t]] = t]  BY <3>2
    <3> QED  BY <3>1, <3>2, <1>21 DEF PutInsert, Goto, levels, lock, call, copy
  <2>2. pc' \in [Threads -> Places]
    BY <1>21 DEF PutInsert, Goto, levels, lock, call, copy
  <2> QED  BY <2>1, <2>2, <1>21 DEF PutInsert, Goto, levels, lock, call, copy
<1>22. CASE Uncount(t)
  BY <1>22 DEF Uncount, Goto, levels, lock, call, copy
<1>23. CASE SetFind(t)
  BY SMTT(30), <1>23 DEF SetFind, Goto, levels, lock, call, copy, Search
<1>24. CASE SetLower(t)
  <2>1. entry' \in [Levels -> [Keys -> Makers \cup {NULL}]]
    <3>1. CASE entry' = entry  BY <3>1
    <3>2. CASE entry' = [entry EXCEPT ![lvl[t]][key[t]] = t]  BY <3>2
    <3> QED  BY <3>1, <3>2, <1>24 DEF SetLower, Goto, levels, lock, call, copy
  <2>2. pc' = [pc EXCEPT ![t] = "set_find"] /\ lvl' = [lvl EXCEPT ![t] = lvl[t] - 1]
        /\ lvl[t] \in Levels
    BY <1>24 DEF SetLower, Goto, levels, lock, call, copy
  <2> QED  BY SMTT(30), <2>1, <2>2, <1>24 DEF SetLower, Goto, levels, lock, call, copy
<1>25. CASE SetWalked(t)
  BY <1>25 DEF SetWalked, Goto, levels, lock, call, copy
<1>26. CASE PutSet(t)
  BY <1>26 DEF PutSet, Goto, levels, lock, call, copy
<1>27. CASE CountSet(t)
  BY <1>27 DEF CountSet, Goto, levels, lock, call, copy
<1>28. CASE WalkStart(t)
  BY <1>28 DEF WalkStart, Goto, levels, lock, call, copy
<1>29. CASE WalkLevel(t)
  <2>1. lvl[t] \in Levels
    BY <1>29 DEF WalkLevel, Goto, levels, lock, call, copy, Below
  <2>2. lvl' = lvl \/ lvl' = [lvl EXCEPT ![t] = lvl[t] - 1]
    BY <1>29 DEF WalkLevel, Goto, levels, lock, call, copy, Below
  <2>3. PICK to \in {"missed", "level", "bucket"} : pc' = [pc EXCEPT ![t] = to]
    BY <1>29 DEF WalkLevel, Goto, levels, lock, call, copy, Below
  <2>4. UNCHANGED <<levels, lock, call, top, toTop, copy>>
    BY <1>29 DEF WalkLevel
  <2>5. pc' \in [Threads -> Places]
    BY <2>3
  <2>6. lvl' \in [Threads -> 0..MaxLevels]
    <3>1. lvl[t] - 1 \in 0..MaxLevels  BY <2>1
    <3> QED  BY <2>2, <3>1
  <2> QED  BY <2>4, <2>5, <2>6 DEF levels, call
<1>30. CASE WalkMisses(t)
  BY <1>30 DEF WalkMisses, Goto, levels, lock, call, copy, Below
<1>31. CASE WalkMissed(t)
  <2>1. UNCHANGED levels
    BY <1>31 DEF WalkMissed, Goto, levels, lock, call, copy, Forget
  <2>2. CASE UNCHANGED <<call, top, lvl>>
    <3>1. pc' = [pc EXCEPT ![t] = "end"] \/ pc' = [pc EXCEPT ![t] = "idle"]
      BY <1>31 DEF WalkMissed, Goto, levels, lock, call, copy, Forget
    <3>2. pc' \in [Threads -> Places]
      BY <3>1
    <3> QED  BY <2>1, <2>2, <3>2 DEF levels, call
  <2>3. CASE op[t] = "find"
    <3>1. pc' = [pc EXCEPT ![t] = "idle"] /\ Forget(t)
      BY <2>3, <1>31 DEF WalkMissed, Goto, levels, lock, call, copy, Forget
    <3> QED  BY <2>1, <3>1 DEF levels, Forget
  <2> QED  BY <2>2, <2>3, <1>31 DEF WalkMissed, Goto, levels, lock, call, copy, Forget
<1>32. CASE FindHits(t)
  BY SMTT(30), <1>32 DEF FindHits, Goto, levels, lock, call, copy, Forget
<1>33. CASE DeleteHits(t)
  BY <1>33 DEF DeleteHits, Goto, levels, lock, call, copy
<1>34. CASE DeleteFails(t)
  BY <1>34 DEF DeleteFails, Goto, levels, lock, call, copy
<1>35. CASE DropCount(t)
  BY <1>35 DEF DropCount, Goto, levels, lock, call, copy
<1>36. CASE SnapshotSum(t)
  BY <1>36 DEF SnapshotSum, Goto, levels, lock, call, copy
<1>37. CASE SnapshotAllocate(t)
  BY <1>37 DEF SnapshotAllocate, Goto, levels, lock, call, copy
<1>38. CASE SnapshotCopy(t)
  <2>1. lvl' = [lvl EXCEPT ![t] = lvl[t] - 1] /\ lvl[t] > 0
    BY <1>38 DEF SnapshotCopy, Goto, levels, lock, call, copy
  <2>2. PICK to \in {"copy", "overflow"} : pc' = [pc EXCEPT ![t] = to]
    BY <1>38 DEF SnapshotCopy, Goto, levels, lock, call, copy
  <2> QED  BY SMTT(30), <2>1, <2>2, <1>38 DEF SnapshotCopy, Goto, levels, lock, call, copy
<1>39. CASE SnapshotCopied(t)
  BY <1>39 DEF SnapshotCopied, Goto, levels, lock, call, copy
<1>40. CASE SnapshotEnd(t)
  BY <1>40 DEF SnapshotEnd, Goto, levels, lock, call, copy, Forget
<1> QED
  BY <1>2, <1>3, <1>4, <1>5, <1>6, <1>7, <1>8, <1>9, <1>10, <1>11, <1>12, <1>13,
     <1>14, <1>15, <1>16, <1>17, <1>18, <1>19, <1>20, <1>21, <1>22, <1>23, <1>24,
     <1>25, <1>26, <1>27, <1>28, <1>29, <1>30, <1>31, <1>32, <1>33, <1>34, <1>35,
     <1>36, <1>37, <1>38, <1>39, <1>40
  DEF Begin, Step, WriteStep, InsertStep, SetStep, WalkStep, CopyStep

\* No step takes a call to a place of another kind of call.
LEMMA OpsKept ==
  ASSUME Known, NEW t \in Threads, Begin(t) \/ Step(t)
  PROVE  OpAt'
<1>1. Types /\ OpAt /\ t \in Threads
  BY DEF Known
<1> USE <1>1 DEF Types, OpAt, Calls
<1>2. CASE \E what \in {"insert", "set_value"} : WriteStart(t, what)
  BY <1>2 DEF WriteStart, Goto, levels, lock, call, copy, Call
<1>3. CASE DeleteStart(t)
  <2>1. PICK k \in Keys, what \in {"delete", "delete_key_value"} :
            /\ pc' = [pc EXCEPT ![t] = "start"] /\ op' = [op EXCEPT ![t] = what]
            /\ key' = [key EXCEPT ![t] = k]
    BY <1>3 DEF DeleteStart, Goto, levels, lock, call, copy, Call, Stored
  <2> QED  BY <2>1
<1>4. CASE FindStart(t)
  BY <1>4 DEF FindStart, Goto, levels, lock, call, copy, Call
<1>5. CASE SnapshotStart(t)
  BY <1>5 DEF SnapshotStart, Goto, levels, lock, call, copy, Call
<1>6. CASE ReadFirst(t)
  BY <1>6 DEF ReadFirst, Goto, levels, lock, call, copy
<1>7. CASE HasRoom(t)
  BY <1>7 DEF HasRoom, Goto, levels, lock, call, copy
<1>8. CASE IsFull(t)
  BY <1>8 DEF IsFull, Goto, levels, lock, call, copy
<1>9. CASE Grow(t)
  BY SMTT(30), <1>9 DEF Grow, Goto, levels, lock, call, copy
<1>10. CASE GrowLoses(t)
  BY <1>10 DEF GrowLoses, Goto, levels, lock, call, copy
<1>11. CASE RaisePending(t)
  BY <1>11 DEF RaisePending, Goto, levels, lock, call, copy
<1>12. CASE WaitLower(t)
  BY <1>12 DEF WaitLower, Goto, levels, lock, call, copy
<1>13. CASE LowerPending(t)
  BY <1>13 DEF LowerPending, Goto, levels, lock, call, copy
<1>14. CASE WriteEnd(t)
  BY <1>14 DEF WriteEnd, Goto, levels, lock, call, copy, Forget
<1>15. CASE BucketList(t)
  BY <1>15 DEF BucketList, Goto, levels, lock, call, copy
<1>16. CASE ListFails(t)
  BY <1>16 DEF ListFails, Goto, levels, lock, call, copy
<1>17. CASE Publish(t)
  BY <1>17 DEF Publish, Goto, levels, lock, call, copy
<1>18. CASE PutFails(t)
  BY <1>18 DEF PutFails, Goto, levels, lock, call, copy
<1>19. CASE SearchLower(t)
  BY <1>19 DEF SearchLower, Goto, levels, lock, call, copy, Search
<1>20. CASE CountInsert(t)
  BY <1>20 DEF CountInsert, Goto, levels, lock, call, copy
<1>21. CASE PutInsert(t)
  BY <1>21 DEF PutInsert, Goto, levels, lock, call, copy
<1>22. CASE Uncount(t)
  BY <1>22 DEF Uncount, Goto, levels, lock, call, copy
<1>23. CASE SetFind(t)
  BY <1>23 DEF SetFind, Goto, levels, lock, call, copy, Search
<1>24. CASE SetLower(t)
  BY <1>24 DEF SetLower, Goto, levels, lock, call, copy
<1>25. CASE SetWalked(t)
  BY <1>25 DEF SetWalked, Goto, levels, lock, call, copy
<1>26. CASE PutSet(t)
  BY <1>26 DEF PutSet, Goto, levels, lock, call, copy
<1>27. CASE CountSet(t)
  BY <1>27 DEF CountSet, Goto, levels, lock, call, copy
<1>28. CASE WalkStart(t)
  BY <1>28 DEF WalkStart, Goto, levels, lock, call, copy
<1>29. CASE WalkLevel(t)
  BY <1>29 DEF WalkLevel, Goto, levels, lock, call, copy, Below
<1>30. CASE WalkMisses(t)
  BY <1>30 DEF WalkMisses, Goto, levels, lock, call, copy, Below
<1>31. CASE WalkMissed(t)
  <2>1. UNCHANGED levels
    BY <1>31 DEF WalkMissed, Goto, levels, lock, call, copy, Forget
  <2>2. CASE UNCHANGED <<call, top, lvl>>
    <3>1. pc' = [pc EXCEPT ![t] = "end"] \/ pc' = [pc EXCEPT ![t] = "idle"]
      BY <1>31 DEF WalkMissed, Goto, levels, lock, call, copy, Forget
    <3> QED  BY <2>1, <2>2, <3>1 DEF levels, call
  <2>3. CASE op[t] = "find"
    <3>1. pc' = [pc EXCEPT ![t] = "idle"] /\ Forget(t)
      BY <2>3, <1>31 DEF WalkMissed, Goto, levels, lock, call, copy, Forget
    <3> QED  BY <2>1, <3>1 DEF levels, Forget
  <2> QED  BY <2>2, <2>3, <1>31 DEF WalkMissed, Goto, levels, lock, call, copy, Forget
<1>32. CASE FindHits(t)
  BY <1>32 DEF FindHits, Goto, levels, lock, call, copy, Forget
<1>33. CASE DeleteHits(t)
  BY <1>33 DEF DeleteHits, Goto, levels, lock, call, copy
<1>34. CASE DeleteFails(t)
  BY <1>34 DEF DeleteFails, Goto, levels, lock, call, copy
<1>35. CASE DropCount(t)
  BY <1>35 DEF DropCount, Goto, levels, lock, call, copy
<1>36. CASE SnapshotSum(t)
  BY <1>36 DEF SnapshotSum, Goto, levels, lock, call, copy
<1>37. CASE SnapshotAllocate(t)
  BY <1>37 DEF SnapshotAllocate, Goto, levels, lock, call, copy
<1>38. CASE SnapshotCopy(t)
  BY <1>38 DEF SnapshotCopy, Goto, levels, lock, call, copy
<1>39. CASE SnapshotCopied(t)
  BY <1>39 DEF SnapshotCopied, Goto, levels, lock, call, copy
<1>40. CASE SnapshotEnd(t)
  BY <1>40 DEF SnapshotEnd, Goto, levels, lock, call, copy, Forget
<1> QED
  BY <1>2, <1>3, <1>4, <1>5, <1>6, <1>7, <1>8, <1>9, <1>10, <1>11, <1>12, <1>13,
     <1>14, <1>15, <1>16, <1>17, <1>18, <1>19, <1>20, <1>21, <1>22, <1>23, <1>24,
     <1>25, <1>26, <1>27, <1>28, <1>29, <1>30, <1>31, <1>32, <1>33, <1>34, <1>35,
     <1>36, <1>37, <1>38, <1>39, <1>40
  DEF Begin, Step, WriteStep, InsertStep, SetStep, WalkStep, CopyStep

\* Nor to a place with a level that is not there.
LEMMA LevelsKept ==
  ASSUME Known, NEW t \in Threads, Begin(t) \/ Step(t)
  PROVE  LevelAt'
<1>1. Types /\ LevelAt /\ t \in Threads
  BY DEF Known
<1> USE <1>1, HashTableAssumption DEF Types, LevelAt, Levels
<1>2. CASE \E what \in {"insert", "set_value"} : WriteStart(t, what)
  BY <1>2 DEF WriteStart, Goto, levels, lock, call, copy, Call
<1>3. CASE DeleteStart(t)
  <2>1. pc' = [pc EXCEPT ![t] = "start"]
    BY <1>3 DEF DeleteStart, Goto, levels, lock, call, copy, Call
  <2>2. UNCHANGED <<levels, top, lvl>>
    BY <1>3 DEF DeleteStart, Goto, levels, lock, call, copy, Call
  <2> QED  BY <2>1, <2>2 DEF levels
<1>4. CASE FindStart(t)
  BY <1>4 DEF FindStart, Goto, levels, lock, call, copy, Call
<1>5. CASE SnapshotStart(t)
  BY <1>5 DEF SnapshotStart, Goto, levels, lock, call, copy, Call
<1>6. CASE ReadFirst(t)
  BY <1>6 DEF ReadFirst, Goto, levels, lock, call, copy
<1>7. CASE HasRoom(t)
  BY <1>7 DEF HasRoom, Goto, levels, lock, call, copy
<1>8. CASE IsFull(t)
  BY <1>8 DEF IsFull, Goto, levels, lock, call, copy
<1>9. CASE Grow(t)
  BY SMTT(30), <1>9 DEF Grow, Goto, levels, lock, call, copy
<1>10. CASE GrowLoses(t)
  BY <1>10 DEF GrowLoses, Goto, levels, lock, call, copy
<1>11. CASE RaisePending(t)
  BY <1>11 DEF RaisePending, Goto, levels, lock, call, copy
<1>12. CASE WaitLower(t)
  BY <1>12 DEF WaitLower, Goto, levels, lock, call, copy
<1>13. CASE LowerPending(t)
  BY <1>13 DEF LowerPending, Goto, levels, lock, call, copy
<1>14. CASE WriteEnd(t)
  BY <1>14 DEF WriteEnd, Goto, levels, lock, call, copy, Forget
<1>15. CASE BucketList(t)
  BY <1>15 DEF BucketList, Goto, levels, lock, call, copy
<1>16. CASE ListFails(t)
  BY <1>16 DEF ListFails, Goto, levels, lock, call, copy
<1>17. CASE Publish(t)
  BY <1>17 DEF Publish, Goto, levels, lock, call, copy
<1>18. CASE PutFails(t)
  BY <1>18 DEF PutFails, Goto, levels, lock, call, copy
<1>19. CASE SearchLower(t)
  BY <1>19 DEF SearchLower, Goto, levels, lock, call, copy, Search
<1>20. CASE CountInsert(t)
  BY <1>20 DEF CountInsert, Goto, levels, lock, call, copy
<1>21. CASE PutInsert(t)
  BY SMTT(30), <1>21 DEF PutInsert, Goto, levels, lock, call, copy
<1>22. CASE Uncount(t)
  BY <1>22 DEF Uncount, Goto, levels, lock, call, copy
<1>23. CASE SetFind(t)
  BY <1>23 DEF SetFind, Goto, levels, lock, call, copy, Search
<1>24. CASE SetLower(t)
  BY <1>24 DEF SetLower, Goto, levels, lock, call, copy
<1>25. CASE SetWalked(t)
  BY <1>25 DEF SetWalked, Goto, levels, lock, call, copy
<1>26. CASE PutSet(t)
  BY <1>26 DEF PutSet, Goto, levels, lock, call, copy
<1>27. CASE CountSet(t)
  BY <1>27 DEF CountSet, Goto, levels, lock, call, copy
<1>28. CASE WalkStart(t)
  BY <1>28 DEF WalkStart, Goto, levels, lock, call, copy
<1>29. CASE WalkLevel(t)
  BY SMTT(30), <1>29 DEF WalkLevel, Goto, levels, lock, call, copy, Below
<1>30. CASE WalkMisses(t)
  BY SMTT(30), <1>30 DEF WalkMisses, Goto, levels, lock, call, copy, Below
<1>31. CASE WalkMissed(t)
  <2>1. UNCHANGED levels
    BY <1>31 DEF WalkMissed, Goto, levels, lock, call, copy, Forget
  <2>2. CASE UNCHANGED <<call, top, lvl>>
    <3>1. pc' = [pc EXCEPT ![t] = "end"] \/ pc' = [pc EXCEPT ![t] = "idle"]
      BY <1>31 DEF WalkMissed, Goto, levels, lock, call, copy, Forget
    <3> QED  BY SMTT(30), <2>1, <2>2, <3>1 DEF levels, call
  <2>3. CASE op[t] = "find"
    <3>1. pc' = [pc EXCEPT ![t] = "idle"] /\ Forget(t)
      BY <2>3, <1>31 DEF WalkMissed, Goto, levels, lock, call, copy, Forget
    <3> QED  BY <2>1, <3>1 DEF levels, Forget
  <2> QED  BY <2>2, <2>3, <1>31 DEF WalkMissed, Goto, levels, lock, call, copy, Forget
<1>32. CASE FindHits(t)
  BY <1>32 DEF FindHits, Goto, levels, lock, call, copy, Forget
<1>33. CASE DeleteHits(t)
  BY <1>33 DEF DeleteHits, Goto, levels, lock, call, copy
<1>34. CASE DeleteFails(t)
  BY <1>34 DEF DeleteFails, Goto, levels, lock, call, copy
<1>35. CASE DropCount(t)
  BY <1>35 DEF DropCount, Goto, levels, lock, call, copy
<1>36. CASE SnapshotSum(t)
  BY <1>36 DEF SnapshotSum, Goto, levels, lock, call, copy
<1>37. CASE SnapshotAllocate(t)
  BY <1>37 DEF SnapshotAllocate, Goto, levels, lock, call, copy
<1>38. CASE SnapshotCopy(t)
  BY <1>38 DEF SnapshotCopy, Goto, levels, lock, call, copy
<1>39. CASE SnapshotCopied(t)
  BY <1>39 DEF SnapshotCopied, Goto, levels, lock, call, copy
<1>40. CASE SnapshotEnd(t)
  BY <1>40 DEF SnapshotEnd, Goto, levels, lock, call, copy, Forget
<1> QED
  BY <1>2, <1>3, <1>4, <1>5, <1>6, <1>7, <1>8, <1>9, <1>10, <1>11, <1>12, <1>13,
     <1>14, <1>15, <1>16, <1>17, <1>18, <1>19, <1>20, <1>21, <1>22, <1>23, <1>24,
     <1>25, <1>26, <1>27, <1>28, <1>29, <1>30, <1>31, <1>32, <1>33, <1>34, <1>35,
     <1>36, <1>37, <1>38, <1>39, <1>40
  DEF Begin, Step, WriteStep, InsertStep, SetStep, WalkStep, CopyStep

\* A step is a step of one thread.
LEMMA OneMoves ==
  ASSUME Known, NEW t \in Threads, Begin(t) \/ Step(t)
  PROVE  OthersStay(t) /\ pc[t] # "destroyed"
<1>1. Types /\ t \in Threads
  BY DEF Known
<1> USE <1>1 DEF Types, OthersStay
<1>2. CASE \E what \in {"insert", "set_value"} : WriteStart(t, what)
  BY <1>2 DEF WriteStart, Goto, levels, lock, call, copy, Call
<1>3. CASE DeleteStart(t)
  BY <1>3 DEF DeleteStart, Goto, levels, lock, call, copy, Call
<1>4. CASE FindStart(t)
  BY <1>4 DEF FindStart, Goto, levels, lock, call, copy, Call
<1>5. CASE SnapshotStart(t)
  BY <1>5 DEF SnapshotStart, Goto, levels, lock, call, copy, Call
<1>6. CASE ReadFirst(t)
  BY <1>6 DEF ReadFirst, Goto, levels, lock, call, copy
<1>7. CASE HasRoom(t)
  BY <1>7 DEF HasRoom, Goto, levels, lock, call, copy
<1>8. CASE IsFull(t)
  BY <1>8 DEF IsFull, Goto, levels, lock, call, copy
<1>9. CASE Grow(t)
  BY SMTT(30), <1>9 DEF Grow, Goto, levels, lock, call, copy
<1>10. CASE GrowLoses(t)
  BY <1>10 DEF GrowLoses, Goto, levels, lock, call, copy
<1>11. CASE RaisePending(t)
  BY <1>11 DEF RaisePending, Goto, levels, lock, call, copy
<1>12. CASE WaitLower(t)
  BY <1>12 DEF WaitLower, Goto, levels, lock, call, copy
<1>13. CASE LowerPending(t)
  BY <1>13 DEF LowerPending, Goto, levels, lock, call, copy
<1>14. CASE WriteEnd(t)
  BY <1>14 DEF WriteEnd, Goto, levels, lock, call, copy, Forget
<1>15. CASE BucketList(t)
  BY <1>15 DEF BucketList, Goto, levels, lock, call, copy
<1>16. CASE ListFails(t)
  BY <1>16 DEF ListFails, Goto, levels, lock, call, copy
<1>17. CASE Publish(t)
  BY <1>17 DEF Publish, Goto, levels, lock, call, copy
<1>18. CASE PutFails(t)
  BY <1>18 DEF PutFails, Goto, levels, lock, call, copy
<1>19. CASE SearchLower(t)
  BY <1>19 DEF SearchLower, Goto, levels, lock, call, copy, Search
<1>20. CASE CountInsert(t)
  BY <1>20 DEF CountInsert, Goto, levels, lock, call, copy
<1>21. CASE PutInsert(t)
  BY <1>21 DEF PutInsert, Goto, levels, lock, call, copy
<1>22. CASE Uncount(t)
  BY <1>22 DEF Uncount, Goto, levels, lock, call, copy
<1>23. CASE SetFind(t)
  BY <1>23 DEF SetFind, Goto, levels, lock, call, copy, Search
<1>24. CASE SetLower(t)
  BY <1>24 DEF SetLower, Goto, levels, lock, call, copy
<1>25. CASE SetWalked(t)
  BY <1>25 DEF SetWalked, Goto, levels, lock, call, copy
<1>26. CASE PutSet(t)
  BY <1>26 DEF PutSet, Goto, levels, lock, call, copy
<1>27. CASE CountSet(t)
  BY <1>27 DEF CountSet, Goto, levels, lock, call, copy
<1>28. CASE WalkStart(t)
  BY <1>28 DEF WalkStart, Goto, levels, lock, call, copy
<1>29. CASE WalkLevel(t)
  BY <1>29 DEF WalkLevel, Goto, levels, lock, call, copy, Below
<1>30. CASE WalkMisses(t)
  BY <1>30 DEF WalkMisses, Goto, levels, lock, call, copy, Below
<1>31. CASE WalkMissed(t)
  BY <1>31 DEF WalkMissed, Goto, levels, lock, call, copy, Forget
<1>32. CASE FindHits(t)
  BY <1>32 DEF FindHits, Goto, levels, lock, call, copy, Forget
<1>33. CASE DeleteHits(t)
  BY <1>33 DEF DeleteHits, Goto, levels, lock, call, copy
<1>34. CASE DeleteFails(t)
  BY <1>34 DEF DeleteFails, Goto, levels, lock, call, copy
<1>35. CASE DropCount(t)
  BY <1>35 DEF DropCount, Goto, levels, lock, call, copy
<1>36. CASE SnapshotSum(t)
  BY <1>36 DEF SnapshotSum, Goto, levels, lock, call, copy
<1>37. CASE SnapshotAllocate(t)
  BY <1>37 DEF SnapshotAllocate, Goto, levels, lock, call, copy
<1>38. CASE SnapshotCopy(t)
  BY <1>38 DEF SnapshotCopy, Goto, levels, lock, call, copy
<1>39. CASE SnapshotCopied(t)
  BY <1>39 DEF SnapshotCopied, Goto, levels, lock, call, copy
<1>40. CASE SnapshotEnd(t)
  BY <1>40 DEF SnapshotEnd, Goto, levels, lock, call, copy, Forget
<1> QED
  BY <1>2, <1>3, <1>4, <1>5, <1>6, <1>7, <1>8, <1>9, <1>10, <1>11, <1>12, <1>13,
     <1>14, <1>15, <1>16, <1>17, <1>18, <1>19, <1>20, <1>21, <1>22, <1>23, <1>24,
     <1>25, <1>26, <1>27, <1>28, <1>29, <1>30, <1>31, <1>32, <1>33, <1>34, <1>35,
     <1>36, <1>37, <1>38, <1>39, <1>40
  DEF Begin, Step, WriteStep, InsertStep, SetStep, WalkStep, CopyStep

\* Every step that changes a count, or what is in a list, changes what it counts.
LEMMA StepsBalance ==
  ASSUME Known, NEW t \in Threads, Begin(t) \/ Step(t),
         NEW l \in Levels
  PROVE  Balanced(t, l)
<1>1. Types /\ OpAt /\ LevelAt /\ l \in Levels /\ t \in Threads
  BY DEF Known
<1>2. entry' = entry => Stored(l)' = Stored(l) /\ Cardinality(Stored(l)) \in Nat
  BY FiniteParts, FS_CardinalityType DEF Stored
<1> USE <1>1, <1>2, HashTableAssumption
    DEF Types, OpAt, LevelAt, Balanced, One, Counting, Uncounting, Pending
<1>3. CASE \E what \in {"insert", "set_value"} : WriteStart(t, what)
  BY <1>3 DEF WriteStart, Goto, levels, lock, call, copy, Call
<1>4. CASE DeleteStart(t)
  BY <1>4 DEF DeleteStart, Goto, levels, lock, call, copy, Call
<1>5. CASE FindStart(t)
  BY <1>5 DEF FindStart, Goto, levels, lock, call, copy, Call
<1>6. CASE SnapshotStart(t)
  BY <1>6 DEF SnapshotStart, Goto, levels, lock, call, copy, Call
<1>7. CASE ReadFirst(t)
  BY <1>7 DEF ReadFirst, Goto, levels, lock, call, copy
<1>8. CASE HasRoom(t)
  BY <1>8 DEF HasRoom, Goto, levels, lock, call, copy
<1>9. CASE IsFull(t)
  BY <1>9 DEF IsFull, Goto, levels, lock, call, copy
<1>10. CASE Grow(t)
  BY <1>10 DEF Grow, Goto, levels, lock, call, copy
<1>11. CASE GrowLoses(t)
  BY <1>11 DEF GrowLoses, Goto, levels, lock, call, copy
<1>12. CASE RaisePending(t)
  BY <1>12 DEF RaisePending, Goto, levels, lock, call, copy
<1>13. CASE WaitLower(t)
  BY <1>13 DEF WaitLower, Goto, levels, lock, call, copy
<1>14. CASE LowerPending(t)
  BY <1>14 DEF LowerPending, Goto, levels, lock, call, copy
<1>15. CASE WriteEnd(t)
  BY <1>15 DEF WriteEnd, Goto, levels, lock, call, copy, Forget
<1>16. CASE BucketList(t)
  BY <1>16 DEF BucketList, Goto, levels, lock, call, copy
<1>17. CASE ListFails(t)
  BY <1>17 DEF ListFails, Goto, levels, lock, call, copy
<1>18. CASE Publish(t)
  BY <1>18 DEF Publish, Goto, levels, lock, call, copy
<1>19. CASE PutFails(t)
  BY <1>19 DEF PutFails, Goto, levels, lock, call, copy
<1>20. CASE SearchLower(t)
  BY <1>20 DEF SearchLower, Goto, levels, lock, call, copy, Search
<1>21. CASE CountInsert(t)
  BY <1>21 DEF CountInsert, Goto, levels, lock, call, copy
<1>22. CASE PutInsert(t)
  <2>1. /\ key[t] \in Keys /\ top[t] \in Levels /\ t # NULL
        /\ op[t] = "insert" /\ UNCHANGED <<count, pend, op, top, lvl>>
    BY <1>22 DEF PutInsert, Goto, levels, lock, call, copy
  <2>2. CASE entry[top[t]][key[t]] # NULL
    BY <2>2, <1>22 DEF PutInsert, Goto, levels, lock, call, copy
  <2>3. CASE entry[top[t]][key[t]] = NULL
    <3>1. pc[t] = "put" /\ pc'[t] = "unpend"
          /\ entry' = [entry EXCEPT ![top[t]][key[t]] = t]
      BY <2>3, <1>22 DEF PutInsert, Goto, levels, lock, call, copy
    <3>2. Cardinality(Stored(l)') = IF l = top[t] THEN Cardinality(Stored(l)) + 1
                                                  ELSE Cardinality(Stored(l))
      BY <2>1, <2>3, <3>1, StoredGrows
    <3>3. /\ One(t \in Counting(l)) = (IF l = top[t] THEN 1 ELSE 0)
          /\ One(t \in Counting(l)') = 0
          /\ One(t \in Uncounting(l)) = 0
          /\ One(t \in Uncounting(l)') = 0
          /\ One(t \in Pending(l)) = (IF l = top[t] THEN 1 ELSE 0)
          /\ One(t \in Pending(l)') = (IF l = top[t] THEN 1 ELSE 0)
      BY <2>1, <3>1
    <3>4. /\ count'[l] = count[l] /\ pend'[l] = pend[l] /\ count[l] \in Int /\ pend[l] \in Int
          /\ Cardinality(Stored(l)) \in Nat
      BY <2>1, FiniteParts, FS_CardinalityType
    <3> HIDE DEF Types, OpAt, LevelAt, Counting, Uncounting, Pending, One
    <3> QED  BY <3>2, <3>3, <3>4
  <2> QED  BY <2>2, <2>3
<1>23. CASE Uncount(t)
  BY <1>23 DEF Uncount, Goto, levels, lock, call, copy
<1>24. CASE SetFind(t)
  BY <1>24 DEF SetFind, Goto, levels, lock, call, copy, Search
<1>25. CASE SetLower(t)
  <2>1. /\ key[t] \in Keys /\ lvl[t] \in Levels /\ t # NULL /\ pc[t] = "set_lower"
        /\ op[t] = "set_value" /\ pc'[t] = "set_find" /\ UNCHANGED <<count, pend, op, top>>
    BY <1>25 DEF SetLower, Goto, levels, lock, call, copy
  <2>2. CASE entry' = entry
    BY <2>1, <2>2
  <2>3. CASE entry[lvl[t]][key[t]] # NULL /\ entry' = [entry EXCEPT ![lvl[t]][key[t]] = t]
    <3>1. Stored(l)' = Stored(l)
      BY <2>1, <2>3, StoredStays
    <3>2. /\ One(t \in Counting(l)) = 0
          /\ One(t \in Counting(l)') = 0
          /\ One(t \in Uncounting(l)) = 0
          /\ One(t \in Uncounting(l)') = 0
          /\ One(t \in Pending(l)) = (IF l = top[t] THEN 1 ELSE 0)
          /\ One(t \in Pending(l)') = (IF l = top[t] THEN 1 ELSE 0)
      BY <2>1
    <3>3. /\ count'[l] = count[l] /\ pend'[l] = pend[l] /\ count[l] \in Int /\ pend[l] \in Int
          /\ Cardinality(Stored(l)) \in Nat
      BY <2>1, FiniteParts, FS_CardinalityType
    <3> HIDE DEF Types, OpAt, LevelAt, Counting, Uncounting, Pending, One
    <3> QED  BY <3>1, <3>2, <3>3
  <2> QED  BY <2>2, <2>3, <1>25 DEF SetLower, Goto, levels, lock, call, copy
<1>26. CASE SetWalked(t)
  BY <1>26 DEF SetWalked, Goto, levels, lock, call, copy
<1>27. CASE PutSet(t)
  <2>1. /\ key[t] \in Keys /\ top[t] \in Levels /\ t # NULL /\ pc[t] = "put"
        /\ op[t] = "set_value" /\ UNCHANGED <<count, pend, op, top, lvl>>
        /\ entry' = [entry EXCEPT ![top[t]][key[t]] = t]
    BY <1>27 DEF PutSet, Goto, levels, lock, call, copy
  <2>2. CASE entry[top[t]][key[t]] # NULL
    <3>1. pc'[t] = "unpend"
      BY <2>2, <1>27 DEF PutSet, Goto, levels, lock, call, copy
    <3>2. Stored(l)' = Stored(l)
      BY <2>1, <2>2, StoredStays
    <3>3. /\ One(t \in Counting(l)) = 0
          /\ One(t \in Counting(l)') = 0
          /\ One(t \in Uncounting(l)) = 0
          /\ One(t \in Uncounting(l)') = 0
          /\ One(t \in Pending(l)) = (IF l = top[t] THEN 1 ELSE 0)
          /\ One(t \in Pending(l)') = (IF l = top[t] THEN 1 ELSE 0)
      BY <2>1, <3>1
    <3>4. /\ count'[l] = count[l] /\ pend'[l] = pend[l] /\ count[l] \in Int /\ pend[l] \in Int
          /\ Cardinality(Stored(l)) \in Nat
      BY <2>1, FiniteParts, FS_CardinalityType
    <3> HIDE DEF Types, OpAt, LevelAt, Counting, Uncounting, Pending, One
    <3> QED  BY <3>2, <3>3, <3>4
  <2>3. CASE entry[top[t]][key[t]] = NULL
    <3>1. pc'[t] = "count_set"
      BY <2>3, <1>27 DEF PutSet, Goto, levels, lock, call, copy
    <3>2. Cardinality(Stored(l)') = IF l = top[t] THEN Cardinality(Stored(l)) + 1
                                                  ELSE Cardinality(Stored(l))
      BY <2>1, <2>3, StoredGrows
    <3>3. /\ One(t \in Counting(l)) = 0
          /\ One(t \in Counting(l)') = 0
          /\ One(t \in Uncounting(l)) = 0
          /\ One(t \in Uncounting(l)') = (IF l = top[t] THEN 1 ELSE 0)
          /\ One(t \in Pending(l)) = (IF l = top[t] THEN 1 ELSE 0)
          /\ One(t \in Pending(l)') = (IF l = top[t] THEN 1 ELSE 0)
      BY <2>1, <3>1
    <3>4. /\ count'[l] = count[l] /\ pend'[l] = pend[l] /\ count[l] \in Int /\ pend[l] \in Int
          /\ Cardinality(Stored(l)) \in Nat
      BY <2>1, FiniteParts, FS_CardinalityType
    <3> HIDE DEF Types, OpAt, LevelAt, Counting, Uncounting, Pending, One
    <3> QED  BY <3>2, <3>3, <3>4
  <2> QED  BY <2>2, <2>3
<1>28. CASE CountSet(t)
  BY <1>28 DEF CountSet, Goto, levels, lock, call, copy
<1>29. CASE WalkStart(t)
  BY <1>29 DEF WalkStart, Goto, levels, lock, call, copy
<1>30. CASE WalkLevel(t)
  BY <1>30 DEF WalkLevel, Goto, levels, lock, call, copy, Below
<1>31. CASE WalkMisses(t)
  BY <1>31 DEF WalkMisses, Goto, levels, lock, call, copy, Below
<1>32. CASE WalkMissed(t)
  BY <1>32 DEF WalkMissed, Goto, levels, lock, call, copy, Forget
<1>33. CASE FindHits(t)
  BY <1>33 DEF FindHits, Goto, levels, lock, call, copy, Forget
<1>34. CASE DeleteHits(t)
  <2>1. /\ key[t] \in Keys /\ lvl[t] \in Levels /\ pc[t] = "bucket" /\ pc'[t] = "drop"
        /\ op[t] # "insert" /\ UNCHANGED <<count, pend, op, top, lvl>>
        /\ entry[lvl[t]][key[t]] # NULL
        /\ entry' = [entry EXCEPT ![lvl[t]][key[t]] = NULL]
    BY <1>34 DEF DeleteHits, Goto, levels, lock, call, copy, Hit
  <2>2. Cardinality(Stored(l)') = IF l = lvl[t] THEN Cardinality(Stored(l)) - 1
                                                ELSE Cardinality(Stored(l))
    BY <2>1, StoredShrinks
  <2>3. /\ One(t \in Counting(l)) = 0
        /\ One(t \in Counting(l)') = (IF l = lvl[t] THEN 1 ELSE 0)
        /\ One(t \in Uncounting(l)) = 0
        /\ One(t \in Uncounting(l)') = 0
        /\ One(t \in Pending(l)) = 0
        /\ One(t \in Pending(l)') = 0
    BY <2>1
  <2>4. /\ count'[l] = count[l] /\ pend'[l] = pend[l] /\ count[l] \in Int /\ pend[l] \in Int
        /\ Cardinality(Stored(l)) \in Nat
    BY <2>1, FiniteParts, FS_CardinalityType
  <2> HIDE DEF Types, OpAt, LevelAt, Counting, Uncounting, Pending, One
  <2> QED  BY <2>2, <2>3, <2>4
<1>35. CASE DeleteFails(t)
  BY <1>35 DEF DeleteFails, Goto, levels, lock, call, copy
<1>36. CASE DropCount(t)
  BY <1>36 DEF DropCount, Goto, levels, lock, call, copy
<1>37. CASE SnapshotSum(t)
  BY <1>37 DEF SnapshotSum, Goto, levels, lock, call, copy
<1>38. CASE SnapshotAllocate(t)
  BY <1>38 DEF SnapshotAllocate, Goto, levels, lock, call, copy
<1>39. CASE SnapshotCopy(t)
  BY <1>39 DEF SnapshotCopy, Goto, levels, lock, call, copy
<1>40. CASE SnapshotCopied(t)
  BY <1>40 DEF SnapshotCopied, Goto, levels, lock, call, copy
<1>41. CASE SnapshotEnd(t)
  BY <1>41 DEF SnapshotEnd, Goto, levels, lock, call, copy, Forget
<1> QED
  BY <1>3, <1>4, <1>5, <1>6, <1>7, <1>8, <1>9, <1>10, <1>11, <1>12, <1>13, <1>14,
     <1>15, <1>16, <1>17, <1>18, <1>19, <1>20, <1>21, <1>22, <1>23, <1>24, <1>25,
     <1>26, <1>27, <1>28, <1>29, <1>30, <1>31, <1>32, <1>33, <1>34, <1>35, <1>36,
     <1>37, <1>38, <1>39, <1>40, <1>41
  DEF Begin, Step, WriteStep, InsertStep, SetStep, WalkStep, CopyStep

-----------------------------------------------------------------------------
(* The invariant and the theorem *)

\* At first a level has the items that were loaded into it.
LEMMA InitKnown == Init => Known
<1> SUFFICES ASSUME Init  PROVE Known
  OBVIOUS
<1> USE HashTableAssumption
<1>1. Types
  BY FS_Subset, FS_CardinalityType DEF Init, Types, Places, Calls, Makers, Levels
<1>2. OpAt /\ LevelAt
  BY DEF Init, OpAt, LevelAt, Calls
<1>3. CountsExact
  <2> SUFFICES ASSUME NEW l \in Levels
               PROVE  /\ count[l] = Cardinality(Stored(l)) + Cardinality(Counting(l))
                                    - Cardinality(Uncounting(l))
                      /\ pend[l] = Cardinality(Pending(l))
    BY DEF CountsExact
  <2>1. Stored(l) = Loaded[l]
    BY DEF Init, Stored
  <2>2. Counting(l) = {} /\ Uncounting(l) = {} /\ Pending(l) = {}
    BY DEF Init, Counting, Uncounting, Pending
  <2>3. count[l] = Cardinality(Loaded[l]) /\ pend[l] = 0
    BY DEF Init
  <2>4. Cardinality(Loaded[l]) \in Nat
    BY <2>1, FiniteParts, FS_CardinalityType
  <2> QED  BY <2>1, <2>2, <2>3, <2>4, FS_EmptySet
<1> QED  BY <1>1, <1>2, <1>3 DEF Known

\* destroy ends what the counts are said of.
LEMMA DestroyKeeps ==
  ASSUME Known, Destroy
  PROVE  Known'
<1>1. /\ UNCHANGED <<first, count, pend, op, key, top, lvl>>
      /\ pc' = [t \in Threads |-> "destroyed"]
      /\ entry' = [l \in Levels |-> [k \in Keys |-> NULL]]
  BY DEF Destroy, call
<1>2. Types' /\ OpAt' /\ LevelAt'
  BY <1>1 DEF Known, Types, OpAt, LevelAt, Places
<1>3. CountsExact'
  <2>1. \A l : Pending(l) = {} /\ Pending(l)' = {}
    BY <1>1 DEF Destroy, Pending
  <2> QED  BY <1>1, <2>1, HashTableAssumption DEF Known, CountsExact
<1> QED  BY <1>2, <1>3 DEF Known

LEMMA NextKnown == Known /\ [Next]_vars => Known'
<1> SUFFICES ASSUME Known, [Next]_vars  PROVE Known'
  OBVIOUS
<1>1. ASSUME NEW t \in Threads, Begin(t) \/ Step(t)
      PROVE  Known'
  <2>1. Types' /\ OpAt' /\ LevelAt'
    BY <1>1, TypesKept, OpsKept, LevelsKept
  <2>2. OthersStay(t) /\ pc[t] # "destroyed"
    BY <1>1, OneMoves
  <2>3. \A l \in Levels : Balanced(t, l)
    BY <1>1, StepsBalance
  <2>4. CountsExact'
    BY <2>1, <2>2, <2>3, BalancedExact
  <2> QED  BY <2>1, <2>4 DEF Known
<1>2. CASE Destroy
  BY <1>2, DestroyKeeps
<1>3. CASE UNCHANGED vars
  <2>1. UNCHANGED <<first, count, pend, entry, pc, op, key, top, lvl>>
    BY <1>3 DEF vars, levels, call
  <2>2. Types' /\ OpAt' /\ LevelAt'
    BY <2>1 DEF Known, Types, OpAt, LevelAt
  <2>3. \A l : Stored(l)' = Stored(l) /\ Counting(l)' = Counting(l)
              /\ Uncounting(l)' = Uncounting(l) /\ Pending(l)' = Pending(l)
    BY <2>1 DEF Stored, Counting, Uncounting, Pending
  <2>4. CountsExact'
    BY <2>1, <2>3 DEF Known, CountsExact
  <2> QED  BY <2>2, <2>4 DEF Known
<1> QED
  BY <1>1, <1>2, <1>3 DEF Next

\* However many threads insert, set, delete and take snapshots at once, and whatever
\* fails, item_count is off from what is in a level's lists by the calls between the two
\* only, and pending_insert_count by nothing (clds_hash_table_insert,
\* clds_hash_table_set_value, clds_hash_table_delete).  It holds as well where find may
\* miss an item and a level may be put in front of a late insert.
THEOREM CountsAreExact == Spec => []CountsExact
<1>1. Known => CountsExact
  BY DEF Known
<1> QED
  BY <1>1, InitKnown, NextKnown, PTL DEF Spec

-----------------------------------------------------------------------------
(* Snapshots: the invariant *)

\* Places inside a write operation, on a walk, inside a snapshot.
WritePlaces == {"first", "full", "grow", "pend", "wait", "search", "list", "publish", "put",
                "uncount", "unpend", "end", "set_find", "set_lower", "count_set", "drop"}
WalkPlaces  == {"start", "level", "bucket", "missed"}
CopyPlaces  == {"sum", "copy", "copied", "overflow"}

Inside(t) == pc[t] \in WritePlaces \/ (pc[t] \in WalkPlaces /\ op[t] # "find")

Locals ==
    /\ item \in [Threads -> Makers \cup {NULL}] /\ toTop \in [Threads -> BOOLEAN]
    /\ left \in [Threads -> Int] /\ got \in [Threads -> SUBSET (Levels \X Keys \X Makers)]

\* The lock keeps writes and snapshots apart.
Apart ==
    /\ writing \subseteq Threads /\ holding \subseteq Threads
    /\ writing = {} \/ holding = {}
    /\ \A t, u \in Threads : pc[t] = "destroyed" => pc[u] = "destroyed"
    /\ \A t \in Threads : /\ Inside(t) => t \in writing
                          /\ pc[t] \in CopyPlaces => t \in holding

\* Nothing is in front of the newest level.
Within ==
    /\ \A l \in Levels, k \in Keys : l > first => entry[l][k] = NULL
    /\ \A t \in Threads : top[t] <= first /\ lvl[t] <= first

\* What is in the levels, above one of them and up to it; and what a snapshot has
\* copied of it.
Items      == {p \in Levels \X Keys : entry[p[1]][p[2]] # NULL}
Above(n)   == {p \in Items : p[1] > n}
UpTo(n)    == {p \in Items : p[1] <= n}
Copy(S)    == {<<p[1], p[2], entry[p[1]][p[2]]>> : p \in S}

\* A snapshot has counted, and then copied, what is above the level that it has come to,
\* and the array has room for the rest.
CopyAt(t) ==
    /\ pc[t] \notin {"copy", "copied", "overflow"} => got[t] = {}
    /\ pc[t] \notin CopyPlaces => left[t] = 0
    /\ pc[t] = "sum" => left[t] = Cardinality(Above(lvl[t]))
    /\ pc[t] = "copy" => left[t] = Cardinality(UpTo(lvl[t])) /\ got[t] = Copy(Above(lvl[t]))
    /\ pc[t] = "copied" => left[t] = 0 /\ got[t] = Copy(Items)
    /\ pc[t] # "overflow"

SnapInv == Known /\ Locals /\ Apart /\ Within /\ \A t \in Threads : CopyAt(t)

-----------------------------------------------------------------------------
(* Snapshots: what a step of one thread does *)

\* Every step keeps the types of the locals.
LEMMA LocalsKept ==
  ASSUME SnapInv, NEW t \in Threads, Begin(t) \/ Step(t)
  PROVE  Locals'
<1>1. Types /\ OpAt /\ LevelAt /\ Locals /\ t \in Threads
  BY DEF SnapInv, Known
<1> USE <1>1, HashTableAssumption DEF Types, OpAt, LevelAt, Locals, Levels, Makers
<1>2. CASE \E what \in {"insert", "set_value"} : WriteStart(t, what)
  BY <1>2 DEF WriteStart, Goto, levels, lock, call, copy, Call
<1>3. CASE DeleteStart(t)
  <2>1. PICK i \in Makers \cup {NULL} : item' = [item EXCEPT ![t] = i]
    BY <1>3 DEF DeleteStart, Goto, levels, lock, call, copy, Call, Stored, Stored
  <2>2. UNCHANGED <<toTop, left, got>>
    BY <1>3 DEF DeleteStart, Goto, levels, lock, call, copy, Call, Stored
  <2> QED  BY <2>1, <2>2
<1>4. CASE FindStart(t)
  BY <1>4 DEF FindStart, Goto, levels, lock, call, copy, Call
<1>5. CASE SnapshotStart(t)
  BY <1>5 DEF SnapshotStart, Goto, levels, lock, call, copy, Call
<1>6. CASE ReadFirst(t)
  BY <1>6 DEF ReadFirst, Goto, levels, lock, call, copy
<1>7. CASE HasRoom(t)
  BY <1>7 DEF HasRoom, Goto, levels, lock, call, copy
<1>8. CASE IsFull(t)
  BY <1>8 DEF IsFull, Goto, levels, lock, call, copy
<1>9. CASE Grow(t)
  BY SMTT(30), <1>9 DEF Grow, Goto, levels, lock, call, copy
<1>10. CASE GrowLoses(t)
  BY <1>10 DEF GrowLoses, Goto, levels, lock, call, copy
<1>11. CASE RaisePending(t)
  BY <1>11 DEF RaisePending, Goto, levels, lock, call, copy
<1>12. CASE WaitLower(t)
  BY <1>12 DEF WaitLower, Goto, levels, lock, call, copy
<1>13. CASE LowerPending(t)
  BY <1>13 DEF LowerPending, Goto, levels, lock, call, copy
<1>14. CASE WriteEnd(t)
  BY <1>14 DEF WriteEnd, Goto, levels, lock, call, copy, Forget
<1>15. CASE BucketList(t)
  BY <1>15 DEF BucketList, Goto, levels, lock, call, copy
<1>16. CASE ListFails(t)
  BY <1>16 DEF ListFails, Goto, levels, lock, call, copy
<1>17. CASE Publish(t)
  BY <1>17 DEF Publish, Goto, levels, lock, call, copy
<1>18. CASE PutFails(t)
  BY <1>18 DEF PutFails, Goto, levels, lock, call, copy
<1>19. CASE SearchLower(t)
  BY <1>19 DEF SearchLower, Goto, levels, lock, call, copy, Search
<1>20. CASE CountInsert(t)
  BY <1>20 DEF CountInsert, Goto, levels, lock, call, copy
<1>21. CASE PutInsert(t)
  BY <1>21 DEF PutInsert, Goto, levels, lock, call, copy
<1>22. CASE Uncount(t)
  BY <1>22 DEF Uncount, Goto, levels, lock, call, copy
<1>23. CASE SetFind(t)
  BY <1>23 DEF SetFind, Goto, levels, lock, call, copy, Search
<1>24. CASE SetLower(t)
  BY <1>24 DEF SetLower, Goto, levels, lock, call, copy
<1>25. CASE SetWalked(t)
  BY <1>25 DEF SetWalked, Goto, levels, lock, call, copy
<1>26. CASE PutSet(t)
  BY <1>26 DEF PutSet, Goto, levels, lock, call, copy
<1>27. CASE CountSet(t)
  BY <1>27 DEF CountSet, Goto, levels, lock, call, copy
<1>28. CASE WalkStart(t)
  BY <1>28 DEF WalkStart, Goto, levels, lock, call, copy
<1>29. CASE WalkLevel(t)
  BY <1>29 DEF WalkLevel, Goto, levels, lock, call, copy, Below
<1>30. CASE WalkMisses(t)
  BY <1>30 DEF WalkMisses, Goto, levels, lock, call, copy, Below
<1>31. CASE WalkMissed(t)
  <2>1. CASE Forget(t)
    BY <2>1, <1>31 DEF WalkMissed, Goto, levels, lock, call, copy, Forget
  <2>2. CASE UNCHANGED <<call, top, lvl, toTop, copy>>
    <3>1. UNCHANGED <<item, toTop, left, got>>
      BY <2>2 DEF call, copy
    <3> QED  BY <3>1
  <2> QED  BY <2>1, <2>2, <1>31 DEF WalkMissed
<1>32. CASE FindHits(t)
  BY <1>32 DEF FindHits, Goto, levels, lock, call, copy, Forget
<1>33. CASE DeleteHits(t)
  BY <1>33 DEF DeleteHits, Goto, levels, lock, call, copy
<1>34. CASE DeleteFails(t)
  BY <1>34 DEF DeleteFails, Goto, levels, lock, call, copy
<1>35. CASE DropCount(t)
  BY <1>35 DEF DropCount, Goto, levels, lock, call, copy
<1>36. CASE SnapshotSum(t)
  BY <1>36 DEF SnapshotSum, Goto, levels, lock, call, copy
<1>37. CASE SnapshotAllocate(t)
  BY <1>37 DEF SnapshotAllocate, Goto, levels, lock, call, copy
<1>38. CASE SnapshotCopy(t)
  <2>1. lvl[t] \in Levels
    BY <1>38 DEF SnapshotCopy, Goto, levels, lock, call, copy, Stored
  <2>2. UNCHANGED <<item, toTop>> /\ (UNCHANGED copy \/
           /\ got' = [got EXCEPT ![t] =
                         @ \cup {<<lvl[t], k, entry[lvl[t]][k]>> : k \in Stored(lvl[t])}]
           /\ left' = [left EXCEPT ![t] = @ - Cardinality(Stored(lvl[t]))])
    BY <1>38 DEF SnapshotCopy, call
  <2>3. {<<lvl[t], k, entry[lvl[t]][k]>> : k \in Stored(lvl[t])}
           \in SUBSET (Levels \X Keys \X Makers)
    <3>1. \A k \in Stored(lvl[t]) : k \in Keys /\ entry[lvl[t]][k] \in Makers
      BY <2>1 DEF Stored
    <3> QED  BY <2>1, <3>1
  <2>4. Cardinality(Stored(lvl[t])) \in Int
    BY FiniteParts, FS_CardinalityType
  <2> HIDE DEF Levels, Makers
  <2> QED  BY SMTT(30), <2>2, <2>3, <2>4 DEF copy
<1>39. CASE SnapshotCopied(t)
  BY <1>39 DEF SnapshotCopied, Goto, levels, lock, call, copy
<1>40. CASE SnapshotEnd(t)
  BY <1>40 DEF SnapshotEnd, Goto, levels, lock, call, copy, Forget
<1> QED
  BY <1>2, <1>3, <1>4, <1>5, <1>6, <1>7, <1>8, <1>9, <1>10, <1>11, <1>12, <1>13, <1>14,
     <1>15, <1>16, <1>17, <1>18, <1>19, <1>20, <1>21, <1>22, <1>23, <1>24, <1>25,
     <1>26, <1>27, <1>28, <1>29, <1>30, <1>31, <1>32, <1>33, <1>34, <1>35, <1>36,
     <1>37, <1>38, <1>39, <1>40
  DEF Begin, Step, WriteStep, InsertStep, SetStep, WalkStep, CopyStep

\* The locals of another thread are its own.
LEMMA OthersKeepLocals ==
  ASSUME SnapInv, NEW t \in Threads, Begin(t) \/ Step(t)
  PROVE  \A u \in Threads \ {t} : /\ key'[u] = key[u] /\ item'[u] = item[u] /\ toTop'[u] = toTop[u]
                                 /\ left'[u] = left[u] /\ got'[u] = got[u]
<1>1. Types /\ Locals /\ t \in Threads
  BY DEF SnapInv, Known
<1> USE <1>1, HashTableAssumption DEF Types, Locals
<1>2. CASE \E what \in {"insert", "set_value"} : WriteStart(t, what)
  BY <1>2 DEF WriteStart, Goto, levels, lock, call, copy, Call
<1>3. CASE DeleteStart(t)
  BY <1>3 DEF DeleteStart, Goto, levels, lock, call, copy, Call
<1>4. CASE FindStart(t)
  BY <1>4 DEF FindStart, Goto, levels, lock, call, copy, Call
<1>5. CASE SnapshotStart(t)
  BY <1>5 DEF SnapshotStart, Goto, levels, lock, call, copy, Call
<1>6. CASE ReadFirst(t)
  BY <1>6 DEF ReadFirst, Goto, levels, lock, call, copy
<1>7. CASE HasRoom(t)
  BY <1>7 DEF HasRoom, Goto, levels, lock, call, copy
<1>8. CASE IsFull(t)
  BY <1>8 DEF IsFull, Goto, levels, lock, call, copy
<1>9. CASE Grow(t)
  BY SMTT(30), <1>9 DEF Grow, Goto, levels, lock, call, copy
<1>10. CASE GrowLoses(t)
  BY <1>10 DEF GrowLoses, Goto, levels, lock, call, copy
<1>11. CASE RaisePending(t)
  BY <1>11 DEF RaisePending, Goto, levels, lock, call, copy
<1>12. CASE WaitLower(t)
  BY <1>12 DEF WaitLower, Goto, levels, lock, call, copy
<1>13. CASE LowerPending(t)
  BY <1>13 DEF LowerPending, Goto, levels, lock, call, copy
<1>14. CASE WriteEnd(t)
  BY <1>14 DEF WriteEnd, Goto, levels, lock, call, copy, Forget
<1>15. CASE BucketList(t)
  BY <1>15 DEF BucketList, Goto, levels, lock, call, copy
<1>16. CASE ListFails(t)
  BY <1>16 DEF ListFails, Goto, levels, lock, call, copy
<1>17. CASE Publish(t)
  BY <1>17 DEF Publish, Goto, levels, lock, call, copy
<1>18. CASE PutFails(t)
  BY <1>18 DEF PutFails, Goto, levels, lock, call, copy
<1>19. CASE SearchLower(t)
  BY <1>19 DEF SearchLower, Goto, levels, lock, call, copy, Search
<1>20. CASE CountInsert(t)
  BY <1>20 DEF CountInsert, Goto, levels, lock, call, copy
<1>21. CASE PutInsert(t)
  BY <1>21 DEF PutInsert, Goto, levels, lock, call, copy
<1>22. CASE Uncount(t)
  BY <1>22 DEF Uncount, Goto, levels, lock, call, copy
<1>23. CASE SetFind(t)
  BY <1>23 DEF SetFind, Goto, levels, lock, call, copy, Search
<1>24. CASE SetLower(t)
  BY <1>24 DEF SetLower, Goto, levels, lock, call, copy
<1>25. CASE SetWalked(t)
  BY <1>25 DEF SetWalked, Goto, levels, lock, call, copy
<1>26. CASE PutSet(t)
  BY <1>26 DEF PutSet, Goto, levels, lock, call, copy
<1>27. CASE CountSet(t)
  BY <1>27 DEF CountSet, Goto, levels, lock, call, copy
<1>28. CASE WalkStart(t)
  BY <1>28 DEF WalkStart, Goto, levels, lock, call, copy
<1>29. CASE WalkLevel(t)
  BY <1>29 DEF WalkLevel, Goto, levels, lock, call, copy, Below
<1>30. CASE WalkMisses(t)
  BY <1>30 DEF WalkMisses, Goto, levels, lock, call, copy, Below
<1>31. CASE WalkMissed(t)
  BY <1>31 DEF WalkMissed, Goto, levels, lock, call, copy, Forget
<1>32. CASE FindHits(t)
  BY <1>32 DEF FindHits, Goto, levels, lock, call, copy, Forget
<1>33. CASE DeleteHits(t)
  BY <1>33 DEF DeleteHits, Goto, levels, lock, call, copy
<1>34. CASE DeleteFails(t)
  BY <1>34 DEF DeleteFails, Goto, levels, lock, call, copy
<1>35. CASE DropCount(t)
  BY <1>35 DEF DropCount, Goto, levels, lock, call, copy
<1>36. CASE SnapshotSum(t)
  BY <1>36 DEF SnapshotSum, Goto, levels, lock, call, copy
<1>37. CASE SnapshotAllocate(t)
  BY <1>37 DEF SnapshotAllocate, Goto, levels, lock, call, copy
<1>38. CASE SnapshotCopy(t)
  BY <1>38 DEF SnapshotCopy, Goto, levels, lock, call, copy
<1>39. CASE SnapshotCopied(t)
  BY <1>39 DEF SnapshotCopied, Goto, levels, lock, call, copy
<1>40. CASE SnapshotEnd(t)
  BY <1>40 DEF SnapshotEnd, Goto, levels, lock, call, copy, Forget
<1> QED
  BY <1>2, <1>3, <1>4, <1>5, <1>6, <1>7, <1>8, <1>9, <1>10, <1>11, <1>12, <1>13, <1>14,
     <1>15, <1>16, <1>17, <1>18, <1>19, <1>20, <1>21, <1>22, <1>23, <1>24, <1>25,
     <1>26, <1>27, <1>28, <1>29, <1>30, <1>31, <1>32, <1>33, <1>34, <1>35, <1>36,
     <1>37, <1>38, <1>39, <1>40
  DEF Begin, Step, WriteStep, InsertStep, SetStep, WalkStep, CopyStep

\* Every step keeps writes and snapshots apart.
LEMMA ApartKept ==
  ASSUME SnapInv, NEW t \in Threads, Begin(t) \/ Step(t)
  PROVE  Apart'
<1>1. Types /\ OpAt /\ Apart /\ t \in Threads
  BY DEF SnapInv, Known
<1> USE <1>1, HashTableAssumption DEF Types, OpAt, Apart, Inside, WritePlaces, WalkPlaces, CopyPlaces, Calls
<1>2. CASE \E what \in {"insert", "set_value"} : WriteStart(t, what)
  BY <1>2 DEF WriteStart, Goto, levels, lock, call, copy, Call, Lock!BeginWrite
<1>3. CASE DeleteStart(t)
  BY SMTT(30), <1>3 DEF DeleteStart, Goto, levels, lock, call, copy, Call, Lock!BeginWrite
<1>4. CASE FindStart(t)
  BY <1>4 DEF FindStart, Goto, levels, lock, call, copy, Call
<1>5. CASE SnapshotStart(t)
  BY <1>5 DEF SnapshotStart, Goto, levels, lock, call, copy, Call, Lock!Lock
<1>6. CASE ReadFirst(t)
  BY <1>6 DEF ReadFirst, Goto, levels, lock, call, copy
<1>7. CASE HasRoom(t)
  BY <1>7 DEF HasRoom, Goto, levels, lock, call, copy
<1>8. CASE IsFull(t)
  BY <1>8 DEF IsFull, Goto, levels, lock, call, copy
<1>9. CASE Grow(t)
  BY SMTT(30), <1>9 DEF Grow, Goto, levels, lock, call, copy
<1>10. CASE GrowLoses(t)
  BY <1>10 DEF GrowLoses, Goto, levels, lock, call, copy
<1>11. CASE RaisePending(t)
  BY <1>11 DEF RaisePending, Goto, levels, lock, call, copy
<1>12. CASE WaitLower(t)
  BY <1>12 DEF WaitLower, Goto, levels, lock, call, copy
<1>13. CASE LowerPending(t)
  BY <1>13 DEF LowerPending, Goto, levels, lock, call, copy
<1>14. CASE WriteEnd(t)
  BY <1>14 DEF WriteEnd, Goto, levels, lock, call, copy, Forget, Lock!EndWrite
<1>15. CASE BucketList(t)
  BY <1>15 DEF BucketList, Goto, levels, lock, call, copy
<1>16. CASE ListFails(t)
  BY <1>16 DEF ListFails, Goto, levels, lock, call, copy
<1>17. CASE Publish(t)
  BY <1>17 DEF Publish, Goto, levels, lock, call, copy
<1>18. CASE PutFails(t)
  BY <1>18 DEF PutFails, Goto, levels, lock, call, copy
<1>19. CASE SearchLower(t)
  BY <1>19 DEF SearchLower, Goto, levels, lock, call, copy, Search
<1>20. CASE CountInsert(t)
  BY <1>20 DEF CountInsert, Goto, levels, lock, call, copy
<1>21. CASE PutInsert(t)
  BY <1>21 DEF PutInsert, Goto, levels, lock, call, copy
<1>22. CASE Uncount(t)
  BY <1>22 DEF Uncount, Goto, levels, lock, call, copy
<1>23. CASE SetFind(t)
  BY <1>23 DEF SetFind, Goto, levels, lock, call, copy, Search
<1>24. CASE SetLower(t)
  BY <1>24 DEF SetLower, Goto, levels, lock, call, copy
<1>25. CASE SetWalked(t)
  BY <1>25 DEF SetWalked, Goto, levels, lock, call, copy
<1>26. CASE PutSet(t)
  BY <1>26 DEF PutSet, Goto, levels, lock, call, copy
<1>27. CASE CountSet(t)
  BY <1>27 DEF CountSet, Goto, levels, lock, call, copy
<1>28. CASE WalkStart(t)
  BY <1>28 DEF WalkStart, Goto, levels, lock, call, copy
<1>29. CASE WalkLevel(t)
  BY <1>29 DEF WalkLevel, Goto, levels, lock, call, copy, Below
<1>30. CASE WalkMisses(t)
  BY <1>30 DEF WalkMisses, Goto, levels, lock, call, copy, Below
<1>31. CASE WalkMissed(t)
  <2>1. UNCHANGED <<writing, holding>>
    BY <1>31 DEF WalkMissed, lock
  <2>2. CASE op[t] = "find"
    <3>1. pc[t] = "missed" /\ pc' = [pc EXCEPT ![t] = "idle"] /\ op' = [op EXCEPT ![t] = "none"]
      BY <2>2, <1>31 DEF WalkMissed, Goto, Forget
    <3> QED  BY <2>1, <3>1
  <2>3. CASE op[t] # "find"
    <3>1. pc[t] = "missed" /\ pc' = [pc EXCEPT ![t] = "end"] /\ UNCHANGED op
      BY <2>3, <1>31 DEF WalkMissed, Goto, call
    <3> QED  BY <2>1, <2>3, <3>1
  <2> QED  BY <2>2, <2>3
<1>32. CASE FindHits(t)
  BY <1>32 DEF FindHits, Goto, levels, lock, call, copy, Forget
<1>33. CASE DeleteHits(t)
  BY <1>33 DEF DeleteHits, Goto, levels, lock, call, copy
<1>34. CASE DeleteFails(t)
  BY <1>34 DEF DeleteFails, Goto, levels, lock, call, copy
<1>35. CASE DropCount(t)
  BY <1>35 DEF DropCount, Goto, levels, lock, call, copy
<1>36. CASE SnapshotSum(t)
  BY <1>36 DEF SnapshotSum, Goto, levels, lock, call, copy
<1>37. CASE SnapshotAllocate(t)
  BY <1>37 DEF SnapshotAllocate, Goto, levels, lock, call, copy
<1>38. CASE SnapshotCopy(t)
  BY <1>38 DEF SnapshotCopy, Goto, levels, lock, call, copy
<1>39. CASE SnapshotCopied(t)
  BY <1>39 DEF SnapshotCopied, Goto, levels, lock, call, copy
<1>40. CASE SnapshotEnd(t)
  BY <1>40 DEF SnapshotEnd, Goto, levels, lock, call, copy, Forget, Lock!Unlock
<1> QED
  BY <1>2, <1>3, <1>4, <1>5, <1>6, <1>7, <1>8, <1>9, <1>10, <1>11, <1>12, <1>13, <1>14,
     <1>15, <1>16, <1>17, <1>18, <1>19, <1>20, <1>21, <1>22, <1>23, <1>24, <1>25,
     <1>26, <1>27, <1>28, <1>29, <1>30, <1>31, <1>32, <1>33, <1>34, <1>35, <1>36,
     <1>37, <1>38, <1>39, <1>40
  DEF Begin, Step, WriteStep, InsertStep, SetStep, WalkStep, CopyStep

\* Nothing is put in front of the newest level.
LEMMA WithinKept ==
  ASSUME SnapInv, NEW t \in Threads, Begin(t) \/ Step(t)
  PROVE  Within'
<1>1. Types /\ OpAt /\ LevelAt /\ Within /\ t \in Threads
  BY DEF SnapInv, Known
<1> USE <1>1, HashTableAssumption DEF Types, OpAt, LevelAt, Within, Levels
<1>2. CASE \E what \in {"insert", "set_value"} : WriteStart(t, what)
  BY <1>2 DEF WriteStart, Goto, levels, lock, call, copy, Call
<1>3. CASE DeleteStart(t)
  BY <1>3 DEF DeleteStart, Goto, levels, lock, call, copy, Call
<1>4. CASE FindStart(t)
  BY <1>4 DEF FindStart, Goto, levels, lock, call, copy, Call
<1>5. CASE SnapshotStart(t)
  BY <1>5 DEF SnapshotStart, Goto, levels, lock, call, copy, Call
<1>6. CASE ReadFirst(t)
  BY <1>6 DEF ReadFirst, Goto, levels, lock, call, copy
<1>7. CASE HasRoom(t)
  BY <1>7 DEF HasRoom, Goto, levels, lock, call, copy
<1>8. CASE IsFull(t)
  BY <1>8 DEF IsFull, Goto, levels, lock, call, copy
<1>9. CASE Grow(t)
  BY SMTT(30), <1>9 DEF Grow, Goto, levels, lock, call, copy
<1>10. CASE GrowLoses(t)
  BY <1>10 DEF GrowLoses, Goto, levels, lock, call, copy
<1>11. CASE RaisePending(t)
  BY <1>11 DEF RaisePending, Goto, levels, lock, call, copy
<1>12. CASE WaitLower(t)
  BY <1>12 DEF WaitLower, Goto, levels, lock, call, copy
<1>13. CASE LowerPending(t)
  BY <1>13 DEF LowerPending, Goto, levels, lock, call, copy
<1>14. CASE WriteEnd(t)
  BY <1>14 DEF WriteEnd, Goto, levels, lock, call, copy, Forget
<1>15. CASE BucketList(t)
  BY <1>15 DEF BucketList, Goto, levels, lock, call, copy
<1>16. CASE ListFails(t)
  BY <1>16 DEF ListFails, Goto, levels, lock, call, copy
<1>17. CASE Publish(t)
  BY <1>17 DEF Publish, Goto, levels, lock, call, copy
<1>18. CASE PutFails(t)
  BY <1>18 DEF PutFails, Goto, levels, lock, call, copy
<1>19. CASE SearchLower(t)
  BY <1>19 DEF SearchLower, Goto, levels, lock, call, copy, Search
<1>20. CASE CountInsert(t)
  BY <1>20 DEF CountInsert, Goto, levels, lock, call, copy
<1>21. CASE PutInsert(t)
  <2>1. \A l \in Levels, k \in Keys : l > first' => entry'[l][k] = NULL
    <3>1. UNCHANGED first /\ (entry' = entry \/ entry' = [entry EXCEPT ![top[t]][key[t]] = t])
      BY <1>21 DEF PutInsert
    <3>2. top[t] \in Levels /\ top[t] <= first /\ key[t] \in Keys
      BY <1>21 DEF PutInsert, Goto, Calls
    <3>3. CASE entry' = entry  BY <3>1, <3>3
    <3>4. CASE entry' = [entry EXCEPT ![top[t]][key[t]] = t]
      <4>1. ASSUME NEW l \in Levels, l > first  PROVE entry'[l] = entry[l]
        BY <3>2, <3>4, <4>1
      <4> QED  BY <3>1, <4>1
    <3> QED  BY <3>1, <3>3, <3>4
  <2>2. \A u \in Threads : top'[u] <= first' /\ lvl'[u] <= first'
    <3>1. UNCHANGED <<first, top>> /\ (lvl' = lvl)
      BY <1>21 DEF PutInsert
    <3> QED  BY <3>1
  <2> QED  BY <2>1, <2>2
<1>22. CASE Uncount(t)
  BY <1>22 DEF Uncount, Goto, levels, lock, call, copy
<1>23. CASE SetFind(t)
  BY <1>23 DEF SetFind, Goto, levels, lock, call, copy, Search
<1>24. CASE SetLower(t)
  <2>1. \A l \in Levels, k \in Keys : l > first' => entry'[l][k] = NULL
    <3>1. UNCHANGED first /\ (entry' = entry \/ entry' = [entry EXCEPT ![lvl[t]][key[t]] = t])
      BY <1>24 DEF SetLower
    <3>2. lvl[t] \in Levels /\ lvl[t] <= first
      BY <1>24 DEF SetLower, Goto, Calls
    <3>3. CASE entry' = entry  BY <3>1, <3>3
    <3>4. CASE entry' = [entry EXCEPT ![lvl[t]][key[t]] = t]
      <4>1. ASSUME NEW l \in Levels, l > first  PROVE entry'[l] = entry[l]
        BY <3>2, <3>4, <4>1
      <4> QED  BY <3>1, <4>1
    <3> QED  BY <3>1, <3>3, <3>4
  <2>2. \A u \in Threads : top'[u] <= first' /\ lvl'[u] <= first'
    <3>1. UNCHANGED <<first, top>> /\ (lvl' = [lvl EXCEPT ![t] = lvl[t] - 1])
      BY <1>24 DEF SetLower
    <3> QED  BY <3>1
  <2> QED  BY <2>1, <2>2
<1>25. CASE SetWalked(t)
  BY <1>25 DEF SetWalked, Goto, levels, lock, call, copy
<1>26. CASE PutSet(t)
  BY <1>26 DEF PutSet, Goto, levels, lock, call, copy
<1>27. CASE CountSet(t)
  BY <1>27 DEF CountSet, Goto, levels, lock, call, copy
<1>28. CASE WalkStart(t)
  BY <1>28 DEF WalkStart, Goto, levels, lock, call, copy
<1>29. CASE WalkLevel(t)
  <2>1. UNCHANGED <<first, entry, top>>
    BY <1>29 DEF WalkLevel, levels
  <2>2. \A u \in Threads : lvl'[u] <= first
    <3>1. CASE lvl' = lvl  BY <3>1
    <3>2. CASE lvl' = [lvl EXCEPT ![t] = lvl[t] - 1]  BY <3>2
    <3> QED  BY <3>1, <3>2, <1>29 DEF WalkLevel
  <2> QED  BY <2>1, <2>2
<1>30. CASE WalkMisses(t)
  BY <1>30 DEF WalkMisses, Goto, levels, lock, call, copy, Below
<1>31. CASE WalkMissed(t)
  <2>1. UNCHANGED <<first, entry>>
    BY <1>31 DEF WalkMissed, levels
  <2>2. \A u \in Threads : top'[u] <= first /\ lvl'[u] <= first
    <3>1. CASE Forget(t)  BY <3>1 DEF Forget
    <3>2. CASE UNCHANGED <<top, lvl>>  BY <3>2
    <3> QED  BY <3>1, <3>2, <1>31 DEF WalkMissed
  <2> QED  BY <2>1, <2>2
<1>32. CASE FindHits(t)
  BY <1>32 DEF FindHits, Goto, levels, lock, call, copy, Forget
<1>33. CASE DeleteHits(t)
  BY <1>33 DEF DeleteHits, Goto, levels, lock, call, copy
<1>34. CASE DeleteFails(t)
  BY <1>34 DEF DeleteFails, Goto, levels, lock, call, copy
<1>35. CASE DropCount(t)
  BY <1>35 DEF DropCount, Goto, levels, lock, call, copy
<1>36. CASE SnapshotSum(t)
  BY <1>36 DEF SnapshotSum, Goto, levels, lock, call, copy
<1>37. CASE SnapshotAllocate(t)
  BY <1>37 DEF SnapshotAllocate, Goto, levels, lock, call, copy
<1>38. CASE SnapshotCopy(t)
  BY <1>38 DEF SnapshotCopy, Goto, levels, lock, call, copy
<1>39. CASE SnapshotCopied(t)
  BY <1>39 DEF SnapshotCopied, Goto, levels, lock, call, copy
<1>40. CASE SnapshotEnd(t)
  BY <1>40 DEF SnapshotEnd, Goto, levels, lock, call, copy, Forget
<1> QED
  BY <1>2, <1>3, <1>4, <1>5, <1>6, <1>7, <1>8, <1>9, <1>10, <1>11, <1>12, <1>13, <1>14,
     <1>15, <1>16, <1>17, <1>18, <1>19, <1>20, <1>21, <1>22, <1>23, <1>24, <1>25,
     <1>26, <1>27, <1>28, <1>29, <1>30, <1>31, <1>32, <1>33, <1>34, <1>35, <1>36,
     <1>37, <1>38, <1>39, <1>40
  DEF Begin, Step, WriteStep, InsertStep, SetStep, WalkStep, CopyStep

\* What changes the levels is inside a write operation.
LEMMA OnlyWritesChange ==
  ASSUME SnapInv, NEW t \in Threads, Begin(t) \/ Step(t)
  PROVE  Inside(t) \/ UNCHANGED <<first, count, entry>>
<1>1. Types /\ OpAt /\ t \in Threads
  BY DEF SnapInv, Known
<1> USE <1>1, HashTableAssumption DEF Types, OpAt, Inside, WritePlaces, WalkPlaces
<1>2. CASE \E what \in {"insert", "set_value"} : WriteStart(t, what)
  BY <1>2 DEF WriteStart, Goto, levels, lock, call, copy, Call
<1>3. CASE DeleteStart(t)
  BY <1>3 DEF DeleteStart, Goto, levels, lock, call, copy, Call
<1>4. CASE FindStart(t)
  BY <1>4 DEF FindStart, Goto, levels, lock, call, copy, Call
<1>5. CASE SnapshotStart(t)
  BY <1>5 DEF SnapshotStart, Goto, levels, lock, call, copy, Call
<1>6. CASE ReadFirst(t)
  BY <1>6 DEF ReadFirst, Goto, levels, lock, call, copy
<1>7. CASE HasRoom(t)
  BY <1>7 DEF HasRoom, Goto, levels, lock, call, copy
<1>8. CASE IsFull(t)
  BY <1>8 DEF IsFull, Goto, levels, lock, call, copy
<1>9. CASE Grow(t)
  BY SMTT(30), <1>9 DEF Grow, Goto, levels, lock, call, copy
<1>10. CASE GrowLoses(t)
  BY <1>10 DEF GrowLoses, Goto, levels, lock, call, copy
<1>11. CASE RaisePending(t)
  BY <1>11 DEF RaisePending, Goto, levels, lock, call, copy
<1>12. CASE WaitLower(t)
  BY <1>12 DEF WaitLower, Goto, levels, lock, call, copy
<1>13. CASE LowerPending(t)
  BY <1>13 DEF LowerPending, Goto, levels, lock, call, copy
<1>14. CASE WriteEnd(t)
  BY <1>14 DEF WriteEnd, Goto, levels, lock, call, copy, Forget
<1>15. CASE BucketList(t)
  BY <1>15 DEF BucketList, Goto, levels, lock, call, copy
<1>16. CASE ListFails(t)
  BY <1>16 DEF ListFails, Goto, levels, lock, call, copy
<1>17. CASE Publish(t)
  BY <1>17 DEF Publish, Goto, levels, lock, call, copy
<1>18. CASE PutFails(t)
  BY <1>18 DEF PutFails, Goto, levels, lock, call, copy
<1>19. CASE SearchLower(t)
  BY <1>19 DEF SearchLower, Goto, levels, lock, call, copy, Search
<1>20. CASE CountInsert(t)
  BY <1>20 DEF CountInsert, Goto, levels, lock, call, copy
<1>21. CASE PutInsert(t)
  BY <1>21 DEF PutInsert, Goto, levels, lock, call, copy
<1>22. CASE Uncount(t)
  BY <1>22 DEF Uncount, Goto, levels, lock, call, copy
<1>23. CASE SetFind(t)
  BY <1>23 DEF SetFind, Goto, levels, lock, call, copy, Search
<1>24. CASE SetLower(t)
  BY <1>24 DEF SetLower, Goto, levels, lock, call, copy
<1>25. CASE SetWalked(t)
  BY <1>25 DEF SetWalked, Goto, levels, lock, call, copy
<1>26. CASE PutSet(t)
  BY <1>26 DEF PutSet, Goto, levels, lock, call, copy
<1>27. CASE CountSet(t)
  BY <1>27 DEF CountSet, Goto, levels, lock, call, copy
<1>28. CASE WalkStart(t)
  BY <1>28 DEF WalkStart, Goto, levels, lock, call, copy
<1>29. CASE WalkLevel(t)
  BY <1>29 DEF WalkLevel, Goto, levels, lock, call, copy, Below
<1>30. CASE WalkMisses(t)
  BY <1>30 DEF WalkMisses, Goto, levels, lock, call, copy, Below
<1>31. CASE WalkMissed(t)
  BY <1>31 DEF WalkMissed, Goto, levels, lock, call, copy, Forget
<1>32. CASE FindHits(t)
  BY <1>32 DEF FindHits, Goto, levels, lock, call, copy, Forget
<1>33. CASE DeleteHits(t)
  BY <1>33 DEF DeleteHits, Goto, levels, lock, call, copy
<1>34. CASE DeleteFails(t)
  BY <1>34 DEF DeleteFails, Goto, levels, lock, call, copy
<1>35. CASE DropCount(t)
  BY <1>35 DEF DropCount, Goto, levels, lock, call, copy
<1>36. CASE SnapshotSum(t)
  BY <1>36 DEF SnapshotSum, Goto, levels, lock, call, copy
<1>37. CASE SnapshotAllocate(t)
  BY <1>37 DEF SnapshotAllocate, Goto, levels, lock, call, copy
<1>38. CASE SnapshotCopy(t)
  BY <1>38 DEF SnapshotCopy, Goto, levels, lock, call, copy
<1>39. CASE SnapshotCopied(t)
  BY <1>39 DEF SnapshotCopied, Goto, levels, lock, call, copy
<1>40. CASE SnapshotEnd(t)
  BY <1>40 DEF SnapshotEnd, Goto, levels, lock, call, copy, Forget
<1> QED
  BY <1>2, <1>3, <1>4, <1>5, <1>6, <1>7, <1>8, <1>9, <1>10, <1>11, <1>12, <1>13, <1>14,
     <1>15, <1>16, <1>17, <1>18, <1>19, <1>20, <1>21, <1>22, <1>23, <1>24, <1>25,
     <1>26, <1>27, <1>28, <1>29, <1>30, <1>31, <1>32, <1>33, <1>34, <1>35, <1>36,
     <1>37, <1>38, <1>39, <1>40
  DEF Begin, Step, WriteStep, InsertStep, SetStep, WalkStep, CopyStep

-----------------------------------------------------------------------------
(* Snapshots: what is counted and what is copied *)

\* While a snapshot holds the lock every item is counted.
LEMMA CountsSettled ==
  ASSUME SnapInv, NEW t \in Threads, pc[t] \in CopyPlaces, NEW l \in Levels
  PROVE  count[l] = Cardinality(Stored(l))
<1>1. \A u \in Threads : ~Inside(u) /\ pc[u] # "destroyed"
  BY DEF SnapInv, Apart, CopyPlaces
<1>2. Counting(l) = {} /\ Uncounting(l) = {}
  BY <1>1 DEF Counting, Uncounting, Inside, WritePlaces
<1>3. Cardinality(Stored(l)) \in Nat
  BY FiniteParts, FS_CardinalityType
<1>4. count[l] = Cardinality(Stored(l)) + Cardinality(Counting(l))
                 - Cardinality(Uncounting(l))
  BY <1>1 DEF SnapInv, Known, CountsExact
<1> QED  BY <1>2, <1>3, <1>4, FS_EmptySet

\* The items up to a level, or above the next one, are those of one level more.
LEMMA Slice ==
  ASSUME Types
  PROVE  /\ IsFiniteSet(Items)
         /\ \A n \in Levels :
               /\ Cardinality(Above(n - 1)) = Cardinality(Above(n)) + Cardinality(Stored(n))
               /\ Cardinality(UpTo(n)) = Cardinality(UpTo(n - 1)) + Cardinality(Stored(n))
               /\ Cardinality(UpTo(n - 1)) \in Nat
<1>1. IsFiniteSet(Items)
  <2>1. IsFiniteSet(Levels)
    BY FS_Interval, HashTableAssumption DEF Levels
  <2>2. IsFiniteSet(Levels \X Keys)
    BY <2>1, FS_Product, HashTableAssumption
  <2> QED  BY <2>2, FS_Subset DEF Items
<1>2. ASSUME NEW n \in Levels
      PROVE  /\ Cardinality(Above(n - 1)) = Cardinality(Above(n)) + Cardinality(Stored(n))
             /\ Cardinality(UpTo(n)) = Cardinality(UpTo(n - 1)) + Cardinality(Stored(n))
             /\ Cardinality(UpTo(n - 1)) \in Nat
  <2> DEFINE Row == {<<n, k>> : k \in Stored(n)}
  <2>1. Cardinality(Row) = Cardinality(Stored(n)) /\ IsFiniteSet(Row)
    <3> DEFINE f == [k \in Stored(n) |-> <<n, k>>]
    <3>1. f \in Bijection(Stored(n), Row)
      BY DEF Bijection, Injection, Surjection, IsInjective
    <3>2. ExistsBijection(Stored(n), Row)
      BY <3>1 DEF ExistsBijection
    <3> QED  BY <3>2, FS_Bijection, FiniteParts
  <2>2. IsFiniteSet(Above(n)) /\ IsFiniteSet(UpTo(n - 1))
    BY <1>1, FS_Subset DEF Above, UpTo
  <2>3. /\ Above(n - 1) = Above(n) \cup Row /\ Above(n) \cap Row = {}
        /\ UpTo(n) = UpTo(n - 1) \cup Row /\ UpTo(n - 1) \cap Row = {}
    <3>1. \A p : p \in Row <=> p \in Items /\ p[1] = n
      BY DEF Items, Stored
    <3>2. \A p \in Items : p[1] \in Int
      BY HashTableAssumption DEF Items, Levels
    <3> HIDE DEF Row
    <3> QED  BY <3>1, <3>2, HashTableAssumption DEF Above, UpTo, Levels
  <2> HIDE DEF Row
  <2>4. ASSUME NEW S, IsFiniteSet(S), S \cap Row = {}
        PROVE  Cardinality(S \cup Row) = Cardinality(S) + Cardinality(Row)
    <3>1. Cardinality(S \cup Row) = Cardinality(S) + Cardinality(Row) - Cardinality(S \cap Row)
      BY <2>1, <2>4, FS_Union
    <3>2. Cardinality(S) \in Nat /\ Cardinality(Row) \in Nat /\ Cardinality(S \cap Row) = 0
      BY <2>1, <2>4, FS_CardinalityType, FS_EmptySet
    <3> QED  BY <3>1, <3>2
  <2> QED  BY <2>1, <2>2, <2>3, <2>4, FS_CardinalityType
<1> QED  BY <1>1, <1>2

LEMMA CopyGrows ==
  ASSUME Types, NEW n \in Levels
  PROVE  Copy(Above(n - 1)) = Copy(Above(n)) \cup {<<n, k, entry[n][k]>> : k \in Stored(n)}
<1>1. \A p : p \in Above(n - 1) <=> p \in Above(n) \/ (p \in Items /\ p[1] = n)
  <2>1. \A p \in Items : p[1] \in Int
    BY HashTableAssumption DEF Items, Levels
  <2> QED  BY <2>1, HashTableAssumption DEF Above, Levels
<1>2. {<<n, k, entry[n][k]>> : k \in Stored(n)} = Copy({p \in Items : p[1] = n})
  <2>1. ASSUME NEW k \in Stored(n)
        PROVE  <<n, k, entry[n][k]>> \in Copy({p \in Items : p[1] = n})
    <3>1. <<n, k>> \in {p \in Items : p[1] = n}
      BY DEF Stored, Items
    <3> QED  BY <3>1 DEF Copy
  <2>2. ASSUME NEW p \in Items, p[1] = n
        PROVE  <<p[1], p[2], entry[p[1]][p[2]]>> \in {<<n, k, entry[n][k]>> : k \in Stored(n)}
    <3>1. p[2] \in Stored(n)
      BY <2>2 DEF Stored, Items
    <3> QED  BY <2>2, <3>1
  <2> QED  BY <2>1, <2>2 DEF Copy
<1> QED  BY <1>1, <1>2 DEF Copy

\* What a snapshot has counted and copied is what it has passed.
LEMMA CopyKept ==
  ASSUME SnapInv, NEW t \in Threads, Begin(t) \/ Step(t)
  PROVE  CopyAt(t)'
<1>1. SnapInv /\ Types /\ OpAt /\ LevelAt /\ Locals /\ Within /\ CopyAt(t) /\ t \in Threads
  BY DEF SnapInv, Known
<1> USE <1>1, HashTableAssumption DEF Types, LevelAt, Locals, CopyAt, CopyPlaces, Levels
<1>2. CASE \E what \in {"insert", "set_value"} : WriteStart(t, what)
  BY <1>2 DEF WriteStart, Goto, levels, lock, call, copy, Call
<1>3. CASE DeleteStart(t)
  BY <1>3 DEF DeleteStart, Goto, levels, lock, call, copy, Call
<1>4. CASE FindStart(t)
  BY <1>4 DEF FindStart, Goto, levels, lock, call, copy, Call
<1>5. CASE SnapshotStart(t)
  <2>1. /\ pc[t] = "idle" /\ pc' = [pc EXCEPT ![t] = "sum"] /\ lvl' = [lvl EXCEPT ![t] = first]
        /\ UNCHANGED <<first, entry, left, got>>
    BY <1>5 DEF SnapshotStart, Goto, levels, lock, call, copy, Call
  <2>2. Above(first) = {} /\ Above(first)' = Above(first)
    BY <2>1 DEF Above, Items, Within
  <2> QED  BY <2>1, <2>2, FS_EmptySet DEF Above
<1>6. CASE ReadFirst(t)
  BY <1>6 DEF ReadFirst, Goto, levels, lock, call, copy
<1>7. CASE HasRoom(t)
  BY <1>7 DEF HasRoom, Goto, levels, lock, call, copy
<1>8. CASE IsFull(t)
  BY <1>8 DEF IsFull, Goto, levels, lock, call, copy
<1>9. CASE Grow(t)
  BY SMTT(30), <1>9 DEF Grow, Goto, levels, lock, call, copy
<1>10. CASE GrowLoses(t)
  BY <1>10 DEF GrowLoses, Goto, levels, lock, call, copy
<1>11. CASE RaisePending(t)
  BY <1>11 DEF RaisePending, Goto, levels, lock, call, copy
<1>12. CASE WaitLower(t)
  BY <1>12 DEF WaitLower, Goto, levels, lock, call, copy
<1>13. CASE LowerPending(t)
  BY <1>13 DEF LowerPending, Goto, levels, lock, call, copy
<1>14. CASE WriteEnd(t)
  BY <1>14 DEF WriteEnd, Goto, levels, lock, call, copy, Forget
<1>15. CASE BucketList(t)
  BY <1>15 DEF BucketList, Goto, levels, lock, call, copy
<1>16. CASE ListFails(t)
  BY <1>16 DEF ListFails, Goto, levels, lock, call, copy
<1>17. CASE Publish(t)
  BY <1>17 DEF Publish, Goto, levels, lock, call, copy
<1>18. CASE PutFails(t)
  BY <1>18 DEF PutFails, Goto, levels, lock, call, copy
<1>19. CASE SearchLower(t)
  BY <1>19 DEF SearchLower, Goto, levels, lock, call, copy, Search
<1>20. CASE CountInsert(t)
  BY <1>20 DEF CountInsert, Goto, levels, lock, call, copy
<1>21. CASE PutInsert(t)
  BY <1>21 DEF PutInsert, Goto, levels, lock, call, copy
<1>22. CASE Uncount(t)
  BY <1>22 DEF Uncount, Goto, levels, lock, call, copy
<1>23. CASE SetFind(t)
  BY <1>23 DEF SetFind, Goto, levels, lock, call, copy, Search
<1>24. CASE SetLower(t)
  BY <1>24 DEF SetLower, Goto, levels, lock, call, copy
<1>25. CASE SetWalked(t)
  BY <1>25 DEF SetWalked, Goto, levels, lock, call, copy
<1>26. CASE PutSet(t)
  BY <1>26 DEF PutSet, Goto, levels, lock, call, copy
<1>27. CASE CountSet(t)
  BY <1>27 DEF CountSet, Goto, levels, lock, call, copy
<1>28. CASE WalkStart(t)
  BY <1>28 DEF WalkStart, Goto, levels, lock, call, copy
<1>29. CASE WalkLevel(t)
  BY <1>29 DEF WalkLevel, Goto, levels, lock, call, copy, Below
<1>30. CASE WalkMisses(t)
  BY <1>30 DEF WalkMisses, Goto, levels, lock, call, copy, Below
<1>31. CASE WalkMissed(t)
  <2>1. CASE Forget(t)
    <3>1. pc' = [pc EXCEPT ![t] = "idle"] \/ pc' = [pc EXCEPT ![t] = "end"]
      BY <1>31 DEF WalkMissed, Goto
    <3> QED  BY <2>1, <3>1 DEF Forget
  <2>2. CASE UNCHANGED <<call, top, lvl, toTop, copy>>
    <3>1. UNCHANGED <<left, got>>
      BY <2>2 DEF copy
    <3>2. pc[t] = "missed" /\ (pc' = [pc EXCEPT ![t] = "idle"] \/ pc' = [pc EXCEPT ![t] = "end"])
      BY <1>31 DEF WalkMissed, Goto
    <3> QED  BY <3>1, <3>2
  <2> QED  BY <2>1, <2>2, <1>31 DEF WalkMissed
<1>32. CASE FindHits(t)
  BY <1>32 DEF FindHits, Goto, levels, lock, call, copy, Forget
<1>33. CASE DeleteHits(t)
  BY <1>33 DEF DeleteHits, Goto, levels, lock, call, copy
<1>34. CASE DeleteFails(t)
  BY <1>34 DEF DeleteFails, Goto, levels, lock, call, copy
<1>35. CASE DropCount(t)
  BY <1>35 DEF DropCount, Goto, levels, lock, call, copy
<1>36. CASE SnapshotSum(t)
  <2>1. /\ pc[t] = "sum" /\ pc' = [pc EXCEPT ![t] = "sum"] /\ lvl[t] \in Levels
        /\ lvl' = [lvl EXCEPT ![t] = lvl[t] - 1] /\ left' = [left EXCEPT ![t] = left[t] + count[lvl[t]]]
        /\ UNCHANGED <<entry, got>>
    BY <1>36 DEF SnapshotSum, Goto, levels, lock, call, copy
  <2>2. Cardinality(Above(lvl[t] - 1)) = Cardinality(Above(lvl[t])) + count[lvl[t]]
    BY <2>1, Slice, CountsSettled DEF CopyPlaces
  <2>3. Cardinality(Above(lvl[t]))' = Cardinality(Above(lvl[t] - 1))
    BY <2>1 DEF Above, Items
  <2> QED  BY <2>1, <2>2, <2>3
<1>37. CASE SnapshotAllocate(t)
  <2>1. /\ pc[t] = "sum" /\ lvl[t] = 0 /\ lvl' = [lvl EXCEPT ![t] = first]
        /\ pc' = [pc EXCEPT ![t] = IF left[t] = 0 THEN "copied" ELSE "copy"]
        /\ UNCHANGED <<first, entry, left, got>>
    BY <1>37 DEF SnapshotAllocate, Goto, levels, lock, call, copy
  <2>2. /\ Above(lvl[t]) = Items /\ Above(first) = {} /\ UpTo(first) = Items
        /\ UpTo(first)' = UpTo(first) /\ Above(first)' = Above(first) /\ Items' = Items
    BY SMTT(30), <2>1 DEF Above, UpTo, Items, Within
  <2>3. left[t] = Cardinality(Items) /\ got[t] = {}
    BY <2>1, <2>2
  <2>4. lvl'[t] = first /\ first' = first
    BY <2>1
  <2>5. CASE left[t] = 0
    <3>1. Items = {}
      BY <2>3, <2>5, Slice, FS_EmptySet, HashTableAssumption DEF SnapInv, Known
    <3> QED  BY <2>1, <2>2, <2>3, <2>5, <3>1 DEF Copy
  <2>6. CASE left[t] # 0
    <3>1. Copy(Above(lvl[t]))' = {}
      BY <2>2, <2>4 DEF Copy, Above
    <3>2. Cardinality(UpTo(lvl[t]))' = Cardinality(Items)
      BY <2>2, <2>4
    <3> QED  BY <2>1, <2>3, <2>6, <3>1, <3>2
  <2> QED  BY <2>5, <2>6
<1>38. CASE SnapshotCopy(t)
  <2>1. /\ pc[t] = "copy" /\ lvl[t] \in Levels /\ lvl' = [lvl EXCEPT ![t] = lvl[t] - 1]
        /\ UNCHANGED entry
    BY <1>38 DEF SnapshotCopy, Goto, levels, lock, call, copy
  <2>2. /\ Cardinality(UpTo(lvl[t])) = Cardinality(UpTo(lvl[t] - 1)) + Cardinality(Stored(lvl[t]))
        /\ Cardinality(UpTo(lvl[t] - 1)) \in Nat /\ Cardinality(Stored(lvl[t])) \in Nat
    BY <2>1, Slice, FiniteParts, FS_CardinalityType
  <2>3. /\ Cardinality(UpTo(lvl[t]))' = Cardinality(UpTo(lvl[t] - 1))
        /\ Copy(Above(lvl[t]))' = Copy(Above(lvl[t] - 1))
    BY <2>1 DEF UpTo, Copy, Above, Items
  <2>4. Copy(Above(lvl[t] - 1)) = Copy(Above(lvl[t]))
                                  \cup {<<lvl[t], k, entry[lvl[t]][k]>> : k \in Stored(lvl[t])}
    BY <2>1, CopyGrows
  <2>5. CASE count[lvl[t]] = 0 \/ left[t] = 0
    <3>1. pc' = [pc EXCEPT ![t] = "copy"] /\ UNCHANGED <<left, got>>
      BY <2>5, <1>38 DEF SnapshotCopy, Goto, copy
    <3>2. Cardinality(Stored(lvl[t])) = 0
      BY <2>1, <2>2, <2>5, CountsSettled DEF CopyPlaces
    <3>3. Stored(lvl[t]) = {}
      BY <3>2, FiniteParts, FS_EmptySet
    <3>4. Copy(Above(lvl[t] - 1)) = Copy(Above(lvl[t]))
      <4>1. {<<lvl[t], k, entry[lvl[t]][k]>> : k \in Stored(lvl[t])} = {}
        BY <3>3
      <4> QED  BY <2>4, <4>1
    <3>5. pc'[t] = "copy" /\ left'[t] = left[t] /\ got'[t] = got[t]
      BY <3>1, <2>1
    <3>6. left'[t] = Cardinality(UpTo(lvl[t]))' /\ got'[t] = Copy(Above(lvl[t]))'
      BY <2>1, <2>2, <2>3, <3>2, <3>4, <3>5
    <3> QED  BY <3>5, <3>6
  <2>6. CASE ~(count[lvl[t]] = 0 \/ left[t] = 0)
    <3>1. ~(Cardinality(Stored(lvl[t])) > left[t])
      BY <2>1, <2>2
    <3>2. /\ pc' = [pc EXCEPT ![t] = "copy"]
          /\ got' = [got EXCEPT ![t] =
                 @ \cup {<<lvl[t], k, entry[lvl[t]][k]>> : k \in Stored(lvl[t])}]
          /\ left' = [left EXCEPT ![t] = @ - Cardinality(Stored(lvl[t]))]
      BY <2>6, <3>1, <1>38 DEF SnapshotCopy, Goto
    <3> QED  BY SMTT(30), <2>1, <2>2, <2>3, <2>4, <3>2
  <2> QED  BY <2>5, <2>6
<1>39. CASE SnapshotCopied(t)
  <2>1. /\ pc[t] = "copy" /\ lvl[t] = 0 /\ pc' = [pc EXCEPT ![t] = "copied"]
        /\ UNCHANGED <<entry, left, got>>
    BY <1>39 DEF SnapshotCopied, Goto, levels, lock, call, copy
  <2>2. UpTo(lvl[t]) = {} /\ Above(lvl[t]) = Items
    BY <2>1 DEF UpTo, Above, Items
  <2>3. Copy(Items)' = Copy(Items)
    BY <2>1 DEF Copy, Items
  <2> QED  BY <2>1, <2>2, <2>3, FS_EmptySet
<1>40. CASE SnapshotEnd(t)
  BY <1>40 DEF SnapshotEnd, Goto, levels, lock, call, copy, Forget
<1> QED
  BY <1>2, <1>3, <1>4, <1>5, <1>6, <1>7, <1>8, <1>9, <1>10, <1>11, <1>12, <1>13, <1>14,
     <1>15, <1>16, <1>17, <1>18, <1>19, <1>20, <1>21, <1>22, <1>23, <1>24, <1>25,
     <1>26, <1>27, <1>28, <1>29, <1>30, <1>31, <1>32, <1>33, <1>34, <1>35, <1>36,
     <1>37, <1>38, <1>39, <1>40
  DEF Begin, Step, WriteStep, InsertStep, SetStep, WalkStep, CopyStep

-----------------------------------------------------------------------------
(* Snapshots: the invariant is kept *)

LEMMA InitSnapInv == Init => SnapInv
<1> SUFFICES ASSUME Init  PROVE SnapInv
  OBVIOUS
<1>1. Known  BY InitKnown
<1>2. Locals /\ Apart
  BY HashTableAssumption DEF Init, Lock!Init, Locals, Apart, Inside, WritePlaces, WalkPlaces,
     CopyPlaces
<1>3. Within
  BY HashTableAssumption DEF Init, Within, Levels
<1>4. \A t \in Threads : CopyAt(t)
  BY DEF Init, CopyAt, CopyPlaces
<1> QED  BY <1>1, <1>2, <1>3, <1>4 DEF SnapInv

\* What another thread does leaves a snapshot as it is.
LEMMA OthersCopyKept ==
  ASSUME SnapInv, NEW t \in Threads, Begin(t) \/ Step(t), NEW u \in Threads, u # t
  PROVE  CopyAt(u)'
<1>1. pc'[u] = pc[u] /\ lvl'[u] = lvl[u] /\ left'[u] = left[u] /\ got'[u] = got[u]
  BY OneMoves, OthersKeepLocals DEF SnapInv, OthersStay
<1>2. CASE pc[u] \in CopyPlaces
  <2>1. ~Inside(t)
    BY <1>2 DEF SnapInv, Apart
  <2>2. entry' = entry
    BY <2>1, OnlyWritesChange
  <2>3. /\ Cardinality(Above(lvl[u]))' = Cardinality(Above(lvl[u]))
        /\ Cardinality(UpTo(lvl[u]))' = Cardinality(UpTo(lvl[u]))
        /\ Copy(Above(lvl[u]))' = Copy(Above(lvl[u])) /\ Copy(Items)' = Copy(Items)
    BY <1>1, <2>2 DEF Above, UpTo, Items, Copy
  <2> QED  BY <1>1, <2>3 DEF SnapInv, CopyAt
<1>3. CASE pc[u] \notin CopyPlaces
  BY <1>1, <1>3 DEF SnapInv, CopyAt, CopyPlaces
<1> QED  BY <1>2, <1>3

LEMMA NextSnapInv == SnapInv /\ [Next]_vars => SnapInv'
<1> SUFFICES ASSUME SnapInv, [Next]_vars  PROVE SnapInv'
  OBVIOUS
<1>0. Known'
  BY NextKnown DEF SnapInv
<1>1. ASSUME NEW t \in Threads, Begin(t) \/ Step(t)
      PROVE  SnapInv'
  <2>1. Locals' /\ Apart' /\ Within'
    BY <1>1, LocalsKept, ApartKept, WithinKept
  <2>2. \A u \in Threads : CopyAt(u)'
    BY <1>1, CopyKept, OthersCopyKept
  <2> QED  BY <1>0, <2>1, <2>2 DEF SnapInv
<1>2. CASE Destroy
  <2>1. /\ UNCHANGED <<first, top, lvl, item, toTop, left, got, writing, holding>>
        /\ \A t \in Threads : pc[t] = "idle" /\ pc'[t] = "destroyed"
        /\ \A l \in Levels, k \in Keys : entry'[l][k] = NULL
    BY <1>2 DEF Destroy, lock, call, copy
  <2>2. Locals' /\ Apart' /\ Within' /\ \A t \in Threads : CopyAt(t)'
    BY <2>1 DEF SnapInv, Locals, Apart, Within, CopyAt, Inside, WritePlaces, WalkPlaces,
       CopyPlaces
  <2> QED  BY <1>0, <2>2 DEF SnapInv
<1>3. CASE UNCHANGED vars
  <2>1. /\ UNCHANGED <<first, entry, pc, op, top, lvl, item, toTop, left, got>>
        /\ UNCHANGED <<writing, holding>>
    BY <1>3 DEF vars, levels, lock, call, copy
  <2>2. Locals' /\ Apart' /\ Within'
    BY <2>1 DEF SnapInv, Locals, Apart, Within, Inside
  <2>3. \A t \in Threads : CopyAt(t)'
    BY <2>1 DEF SnapInv, CopyAt, Above, UpTo, Items, Copy
  <2> QED  BY <1>0, <2>2, <2>3 DEF SnapInv
<1> QED
  BY <1>1, <1>2, <1>3 DEF Next

LEMMA SnapInvImplies == SnapInv => SnapshotComplete
<1> SUFFICES ASSUME SnapInv, NEW t \in Snapshotters
             PROVE  /\ pc[t] # "overflow"
                    /\ pc[t] = "copied" =>
                          /\ left[t] = 0
                          /\ got[t] = UNION {{<<l, k, entry[l][k]>> : k \in Stored(l)} : l \in Levels}
  BY DEF SnapshotComplete
<1>1. t \in Threads /\ CopyAt(t)
  BY DEF Threads, SnapInv
<1>2. Copy(Items) = UNION {{<<l, k, entry[l][k]>> : k \in Stored(l)} : l \in Levels}
  <2>1. ASSUME NEW p \in Items
        PROVE  <<p[1], p[2], entry[p[1]][p[2]]>>
                  \in UNION {{<<l, k, entry[l][k]>> : k \in Stored(l)} : l \in Levels}
    <3>1. p[1] \in Levels /\ p[2] \in Stored(p[1])
      BY DEF Items, Stored
    <3> QED  BY <3>1
  <2>2. ASSUME NEW l \in Levels, NEW k \in Stored(l)
        PROVE  <<l, k, entry[l][k]>> \in Copy(Items)
    <3>1. <<l, k>> \in Items
      BY DEF Items, Stored
    <3> QED  BY <3>1 DEF Copy
  <2> QED  BY <2>1, <2>2 DEF Copy
<1> QED  BY <1>1, <1>2 DEF CopyAt

\* A snapshot has every item of the table, once, and the array that it allocates from the
\* counts is never too small: no write goes on while it holds the lock, so that the counts
\* and the lists say the same until it has copied the last level (clds_hash_table_snapshot).
THEOREM SnapshotsAreComplete == Spec => []SnapshotComplete
<1> QED
  BY InitSnapInv, NextSnapInv, SnapInvImplies, PTL DEF Spec

-----------------------------------------------------------------------------
(* Types: the invariant *)

\* What set_value has put in and not counted yet is there, each key once.
UncountedThere == \A t \in Threads : pc[t] = "count_set" =>
    /\ key[t] \in Keys /\ entry[top[t]][key[t]] # NULL
    /\ \A u \in Threads \ {t} : pc[u] = "count_set" /\ top[u] = top[t] => key[u] # key[t]

Buckets == Levels \X (0..BucketCount(MaxLevels) - 1)

TypeInv ==
    /\ SnapInv /\ UncountedThere
    /\ count \in [Levels -> Nat] /\ lists \subseteq Buckets
    /\ absent \in [Threads -> BOOLEAN]

\* At least as many items are in a level as are not counted yet, and more if one is.
FewerUncounted == \A l \in Levels :
    /\ Cardinality(Uncounting(l)) <= Cardinality(Stored(l))
    /\ \A k \in Stored(l) :
          ~Uncounted(l, k) => Cardinality(Uncounting(l)) < Cardinality(Stored(l))

LEMMA UncountedAreFewer == Types /\ LevelAt /\ UncountedThere => FewerUncounted
<1> SUFFICES ASSUME Types, LevelAt, UncountedThere, NEW l \in Levels
             PROVE  /\ Cardinality(Uncounting(l)) <= Cardinality(Stored(l))
                    /\ \A k \in Stored(l) : ~Uncounted(l, k) =>
                          Cardinality(Uncounting(l)) < Cardinality(Stored(l))
  BY DEF FewerUncounted
<1> DEFINE f == [t \in Uncounting(l) |-> key[t]]
<1>1. ASSUME NEW T, Uncounting(l) = {} \/ \A t \in Uncounting(l) : key[t] \in T, IsFiniteSet(T)
      PROVE  Cardinality(Uncounting(l)) <= Cardinality(T)
  <2>1. \A t \in Uncounting(l) : key[t] \in T
    BY <1>1
  <2>2. \A t, u \in Uncounting(l) : key[t] = key[u] => t = u
    BY DEF UncountedThere, Uncounting
  <2>3. f \in Injection(Uncounting(l), T)
    BY <2>1, <2>2 DEF Injection, IsInjective
  <2> QED  BY <1>1, <2>3, FS_Injection
<1>2. \A t \in Uncounting(l) : key[t] \in Stored(l)
  BY DEF UncountedThere, Uncounting, Stored
<1>3. ASSUME NEW k \in Stored(l), ~Uncounted(l, k)
      PROVE  Cardinality(Uncounting(l)) < Cardinality(Stored(l))
  <2>1. \A t \in Uncounting(l) : key[t] \in Stored(l) \ {k}
    BY <1>2, <1>3 DEF Uncounted, Uncounting
  <2>2. IsFiniteSet(Stored(l) \ {k})
    BY FiniteParts, FS_Subset
  <2>3. Cardinality(Stored(l) \ {k}) = Cardinality(Stored(l)) - 1
    BY FiniteParts, OneMore
  <2>4. Cardinality(Uncounting(l)) \in Nat /\ Cardinality(Stored(l)) \in Nat
    BY FiniteParts, FS_CardinalityType
  <2> QED  BY <1>1, <2>1, <2>2, <2>3, <2>4
<1> QED  BY <1>1, <1>2, <1>3, FiniteParts

\* A step of t takes only the item out that it has come to, and that is counted.
TakesOne(t) == \A m \in Levels, k \in Keys :
    entry[m][k] # NULL /\ entry'[m][k] = NULL =>
        pc[t] = "bucket" /\ pc'[t] = "drop" /\ (LateCount \/ ~Uncounted(m, k))

\* A step of t leaves an item of its own uncounted only if it has just put it in.
Leaves(t) ==
    /\ pc'[t] # "destroyed"
    /\ pc'[t] = "count_set" =>
          /\ pc[t] = "put" /\ op[t] = "set_value"
          /\ entry[top[t]][key[t]] = NULL /\ entry'[top[t]][key[t]] # NULL
          /\ top'[t] = top[t] /\ key'[t] = key[t]

LEMMA BucketsInRange ==
  ASSUME NEW l \in Levels, NEW k \in Keys
  PROVE  Bucket(l, k) \in Buckets
<1>1. BucketCount(l) \in 1..BucketCount(MaxLevels) /\ BucketCount(MaxLevels) \in Nat
  BY BucketsAssumption, HashTableAssumption DEF Levels
<1>2. Hash[k] \in Nat
  BY HashTableAssumption
<1>3. ASSUME NEW h \in Nat, NEW n \in Nat \ {0}  PROVE h % n \in 0..n - 1
  OBVIOUS
<1>4. Hash[k] % BucketCount(l) \in 0..BucketCount(l) - 1
  <2>1. PICK h \in Nat : h = Hash[k]  BY <1>2
  <2>2. PICK n \in Nat \ {0} : n = BucketCount(l)  BY <1>1
  <2>3. h % n \in 0..n - 1  BY <1>3
  <2> QED  BY <2>1, <2>2, <2>3, Zenon
<1> QED  BY <1>1, <1>4 DEF Bucket, Buckets

\* Only a delete takes an item out.
LEMMA ItemsAreTaken ==
  ASSUME TypeInv, NEW t \in Threads, Begin(t) \/ Step(t)
  PROVE  TakesOne(t)
<1>1. Types /\ OpAt /\ LevelAt /\ t \in Threads
  BY DEF TypeInv, SnapInv, Known
<1> USE <1>1, HashTableAssumption DEF Types, OpAt, LevelAt, TakesOne
<1>2. CASE \E what \in {"insert", "set_value"} : WriteStart(t, what)
  BY <1>2 DEF WriteStart, Goto, levels, lock, call, copy, Call
<1>3. CASE DeleteStart(t)
  BY <1>3 DEF DeleteStart, Goto, levels, lock, call, copy, Call
<1>4. CASE FindStart(t)
  BY <1>4 DEF FindStart, Goto, levels, lock, call, copy, Call
<1>5. CASE SnapshotStart(t)
  BY <1>5 DEF SnapshotStart, Goto, levels, lock, call, copy, Call
<1>6. CASE ReadFirst(t)
  BY <1>6 DEF ReadFirst, Goto, levels, lock, call, copy
<1>7. CASE HasRoom(t)
  BY <1>7 DEF HasRoom, Goto, levels, lock, call, copy
<1>8. CASE IsFull(t)
  BY <1>8 DEF IsFull, Goto, levels, lock, call, copy
<1>9. CASE Grow(t)
  BY SMTT(30), <1>9 DEF Grow, Goto, levels, lock, call, copy
<1>10. CASE GrowLoses(t)
  BY <1>10 DEF GrowLoses, Goto, levels, lock, call, copy
<1>11. CASE RaisePending(t)
  BY <1>11 DEF RaisePending, Goto, levels, lock, call, copy
<1>12. CASE WaitLower(t)
  BY <1>12 DEF WaitLower, Goto, levels, lock, call, copy
<1>13. CASE LowerPending(t)
  BY <1>13 DEF LowerPending, Goto, levels, lock, call, copy
<1>14. CASE WriteEnd(t)
  BY <1>14 DEF WriteEnd, Goto, levels, lock, call, copy, Forget
<1>15. CASE BucketList(t)
  BY <1>15 DEF BucketList, Goto, levels, lock, call, copy
<1>16. CASE ListFails(t)
  BY <1>16 DEF ListFails, Goto, levels, lock, call, copy
<1>17. CASE Publish(t)
  BY <1>17 DEF Publish, Goto, levels, lock, call, copy
<1>18. CASE PutFails(t)
  BY <1>18 DEF PutFails, Goto, levels, lock, call, copy
<1>19. CASE SearchLower(t)
  BY <1>19 DEF SearchLower, Goto, levels, lock, call, copy, Search
<1>20. CASE CountInsert(t)
  BY <1>20 DEF CountInsert, Goto, levels, lock, call, copy
<1>21. CASE PutInsert(t)
  BY <1>21 DEF PutInsert, Goto, levels, lock, call, copy
<1>22. CASE Uncount(t)
  BY <1>22 DEF Uncount, Goto, levels, lock, call, copy
<1>23. CASE SetFind(t)
  BY <1>23 DEF SetFind, Goto, levels, lock, call, copy, Search
<1>24. CASE SetLower(t)
  <2>1. pc[t] = "set_lower" /\ lvl[t] \in Levels
    BY <1>24 DEF SetLower, Goto
  <2>2. CASE entry' = entry
    BY <2>2
  <2>3. CASE entry' = [entry EXCEPT ![lvl[t]][key[t]] = t]
    <3>1. t # NULL
      OBVIOUS
    <3>2. \A m \in Levels, k \in Keys : entry'[m][k] = t \/ entry'[m][k] = entry[m][k]
      BY <2>1, <2>3
    <3> QED  BY <3>1, <3>2
  <2> QED  BY <2>2, <2>3, <1>24 DEF SetLower
<1>25. CASE SetWalked(t)
  BY <1>25 DEF SetWalked, Goto, levels, lock, call, copy
<1>26. CASE PutSet(t)
  BY <1>26 DEF PutSet, Goto, levels, lock, call, copy
<1>27. CASE CountSet(t)
  BY <1>27 DEF CountSet, Goto, levels, lock, call, copy
<1>28. CASE WalkStart(t)
  BY <1>28 DEF WalkStart, Goto, levels, lock, call, copy
<1>29. CASE WalkLevel(t)
  BY <1>29 DEF WalkLevel, Goto, levels, lock, call, copy, Below
<1>30. CASE WalkMisses(t)
  BY <1>30 DEF WalkMisses, Goto, levels, lock, call, copy, Below
<1>31. CASE WalkMissed(t)
  BY <1>31 DEF WalkMissed, Goto, levels, lock, call, copy, Forget
<1>32. CASE FindHits(t)
  BY <1>32 DEF FindHits, Goto, levels, lock, call, copy, Forget
<1>33. CASE DeleteHits(t)
  <2>1. /\ pc[t] = "bucket" /\ pc' = [pc EXCEPT ![t] = "drop"] /\ lvl[t] \in Levels
        /\ LateCount \/ ~Uncounted(lvl[t], key[t])
        /\ entry' = [entry EXCEPT ![lvl[t]][key[t]] = NULL]
    BY <1>33 DEF DeleteHits, Goto
  <2>2. ASSUME NEW m \in Levels, NEW k \in Keys, ~(m = lvl[t] /\ k = key[t])
        PROVE  entry'[m][k] = entry[m][k]
    BY <2>1, <2>2
  <2> QED  BY <2>1, <2>2
<1>34. CASE DeleteFails(t)
  BY <1>34 DEF DeleteFails, Goto, levels, lock, call, copy
<1>35. CASE DropCount(t)
  BY <1>35 DEF DropCount, Goto, levels, lock, call, copy
<1>36. CASE SnapshotSum(t)
  BY <1>36 DEF SnapshotSum, Goto, levels, lock, call, copy
<1>37. CASE SnapshotAllocate(t)
  BY <1>37 DEF SnapshotAllocate, Goto, levels, lock, call, copy
<1>38. CASE SnapshotCopy(t)
  BY <1>38 DEF SnapshotCopy, Goto, levels, lock, call, copy
<1>39. CASE SnapshotCopied(t)
  BY <1>39 DEF SnapshotCopied, Goto, levels, lock, call, copy
<1>40. CASE SnapshotEnd(t)
  BY <1>40 DEF SnapshotEnd, Goto, levels, lock, call, copy, Forget
<1> QED
  BY <1>2, <1>3, <1>4, <1>5, <1>6, <1>7, <1>8, <1>9, <1>10, <1>11, <1>12, <1>13, <1>14,
     <1>15, <1>16, <1>17, <1>18, <1>19, <1>20, <1>21, <1>22, <1>23, <1>24, <1>25,
     <1>26, <1>27, <1>28, <1>29, <1>30, <1>31, <1>32, <1>33, <1>34, <1>35, <1>36,
     <1>37, <1>38, <1>39, <1>40
  DEF Begin, Step, WriteStep, InsertStep, SetStep, WalkStep, CopyStep

\* Only set_value leaves an item uncounted.
LEMMA ItemsAreLeft ==
  ASSUME TypeInv, NEW t \in Threads, Begin(t) \/ Step(t)
  PROVE  Leaves(t)
<1>1. Types /\ OpAt /\ LevelAt /\ t \in Threads
  BY DEF TypeInv, SnapInv, Known
<1> USE <1>1, HashTableAssumption DEF Types, OpAt, LevelAt, Leaves, Calls
<1>2. CASE \E what \in {"insert", "set_value"} : WriteStart(t, what)
  BY <1>2 DEF WriteStart, Goto, levels, lock, call, copy, Call
<1>3. CASE DeleteStart(t)
  BY <1>3 DEF DeleteStart, Goto, levels, lock, call, copy, Call
<1>4. CASE FindStart(t)
  BY <1>4 DEF FindStart, Goto, levels, lock, call, copy, Call
<1>5. CASE SnapshotStart(t)
  BY <1>5 DEF SnapshotStart, Goto, levels, lock, call, copy, Call
<1>6. CASE ReadFirst(t)
  BY <1>6 DEF ReadFirst, Goto, levels, lock, call, copy
<1>7. CASE HasRoom(t)
  BY <1>7 DEF HasRoom, Goto, levels, lock, call, copy
<1>8. CASE IsFull(t)
  BY <1>8 DEF IsFull, Goto, levels, lock, call, copy
<1>9. CASE Grow(t)
  BY SMTT(30), <1>9 DEF Grow, Goto, levels, lock, call, copy
<1>10. CASE GrowLoses(t)
  BY <1>10 DEF GrowLoses, Goto, levels, lock, call, copy
<1>11. CASE RaisePending(t)
  BY <1>11 DEF RaisePending, Goto, levels, lock, call, copy
<1>12. CASE WaitLower(t)
  BY <1>12 DEF WaitLower, Goto, levels, lock, call, copy
<1>13. CASE LowerPending(t)
  BY <1>13 DEF LowerPending, Goto, levels, lock, call, copy
<1>14. CASE WriteEnd(t)
  BY <1>14 DEF WriteEnd, Goto, levels, lock, call, copy, Forget
<1>15. CASE BucketList(t)
  BY <1>15 DEF BucketList, Goto, levels, lock, call, copy
<1>16. CASE ListFails(t)
  BY <1>16 DEF ListFails, Goto, levels, lock, call, copy
<1>17. CASE Publish(t)
  BY <1>17 DEF Publish, Goto, levels, lock, call, copy
<1>18. CASE PutFails(t)
  BY <1>18 DEF PutFails, Goto, levels, lock, call, copy
<1>19. CASE SearchLower(t)
  BY <1>19 DEF SearchLower, Goto, levels, lock, call, copy, Search
<1>20. CASE CountInsert(t)
  BY <1>20 DEF CountInsert, Goto, levels, lock, call, copy
<1>21. CASE PutInsert(t)
  BY <1>21 DEF PutInsert, Goto, levels, lock, call, copy
<1>22. CASE Uncount(t)
  BY <1>22 DEF Uncount, Goto, levels, lock, call, copy
<1>23. CASE SetFind(t)
  BY <1>23 DEF SetFind, Goto, levels, lock, call, copy, Search
<1>24. CASE SetLower(t)
  BY <1>24 DEF SetLower, Goto, levels, lock, call, copy
<1>25. CASE SetWalked(t)
  BY <1>25 DEF SetWalked, Goto, levels, lock, call, copy
<1>26. CASE PutSet(t)
  BY <1>26 DEF PutSet, Goto, levels, lock, call, copy
<1>27. CASE CountSet(t)
  BY <1>27 DEF CountSet, Goto, levels, lock, call, copy
<1>28. CASE WalkStart(t)
  BY <1>28 DEF WalkStart, Goto, levels, lock, call, copy
<1>29. CASE WalkLevel(t)
  BY <1>29 DEF WalkLevel, Goto, levels, lock, call, copy, Below
<1>30. CASE WalkMisses(t)
  BY <1>30 DEF WalkMisses, Goto, levels, lock, call, copy, Below
<1>31. CASE WalkMissed(t)
  BY <1>31 DEF WalkMissed, Goto, levels, lock, call, copy, Forget
<1>32. CASE FindHits(t)
  BY <1>32 DEF FindHits, Goto, levels, lock, call, copy, Forget
<1>33. CASE DeleteHits(t)
  BY <1>33 DEF DeleteHits, Goto, levels, lock, call, copy
<1>34. CASE DeleteFails(t)
  BY <1>34 DEF DeleteFails, Goto, levels, lock, call, copy
<1>35. CASE DropCount(t)
  BY <1>35 DEF DropCount, Goto, levels, lock, call, copy
<1>36. CASE SnapshotSum(t)
  BY <1>36 DEF SnapshotSum, Goto, levels, lock, call, copy
<1>37. CASE SnapshotAllocate(t)
  BY <1>37 DEF SnapshotAllocate, Goto, levels, lock, call, copy
<1>38. CASE SnapshotCopy(t)
  BY <1>38 DEF SnapshotCopy, Goto, levels, lock, call, copy
<1>39. CASE SnapshotCopied(t)
  BY <1>39 DEF SnapshotCopied, Goto, levels, lock, call, copy
<1>40. CASE SnapshotEnd(t)
  BY <1>40 DEF SnapshotEnd, Goto, levels, lock, call, copy, Forget
<1> QED
  BY <1>2, <1>3, <1>4, <1>5, <1>6, <1>7, <1>8, <1>9, <1>10, <1>11, <1>12, <1>13, <1>14,
     <1>15, <1>16, <1>17, <1>18, <1>19, <1>20, <1>21, <1>22, <1>23, <1>24, <1>25,
     <1>26, <1>27, <1>28, <1>29, <1>30, <1>31, <1>32, <1>33, <1>34, <1>35, <1>36,
     <1>37, <1>38, <1>39, <1>40
  DEF Begin, Step, WriteStep, InsertStep, SetStep, WalkStep, CopyStep

\* A list is published at the index of a bucket.
LEMMA BucketsKept ==
  ASSUME TypeInv, NEW t \in Threads, Begin(t) \/ Step(t)
  PROVE  lists' \subseteq Buckets
<1>1. Types /\ OpAt /\ LevelAt /\ lists \subseteq Buckets /\ t \in Threads
  BY DEF TypeInv, SnapInv, Known
<1> USE <1>1, HashTableAssumption DEF Types, LevelAt
<1>2. CASE \E what \in {"insert", "set_value"} : WriteStart(t, what)
  BY <1>2 DEF WriteStart, Goto, levels, lock, call, copy, Call
<1>3. CASE DeleteStart(t)
  BY <1>3 DEF DeleteStart, Goto, levels, lock, call, copy, Call
<1>4. CASE FindStart(t)
  BY <1>4 DEF FindStart, Goto, levels, lock, call, copy, Call
<1>5. CASE SnapshotStart(t)
  BY <1>5 DEF SnapshotStart, Goto, levels, lock, call, copy, Call
<1>6. CASE ReadFirst(t)
  BY <1>6 DEF ReadFirst, Goto, levels, lock, call, copy
<1>7. CASE HasRoom(t)
  BY <1>7 DEF HasRoom, Goto, levels, lock, call, copy
<1>8. CASE IsFull(t)
  BY <1>8 DEF IsFull, Goto, levels, lock, call, copy
<1>9. CASE Grow(t)
  BY SMTT(30), <1>9 DEF Grow, Goto, levels, lock, call, copy
<1>10. CASE GrowLoses(t)
  BY <1>10 DEF GrowLoses, Goto, levels, lock, call, copy
<1>11. CASE RaisePending(t)
  BY <1>11 DEF RaisePending, Goto, levels, lock, call, copy
<1>12. CASE WaitLower(t)
  BY <1>12 DEF WaitLower, Goto, levels, lock, call, copy
<1>13. CASE LowerPending(t)
  BY <1>13 DEF LowerPending, Goto, levels, lock, call, copy
<1>14. CASE WriteEnd(t)
  BY <1>14 DEF WriteEnd, Goto, levels, lock, call, copy, Forget
<1>15. CASE BucketList(t)
  BY <1>15 DEF BucketList, Goto, levels, lock, call, copy
<1>16. CASE ListFails(t)
  BY <1>16 DEF ListFails, Goto, levels, lock, call, copy
<1>17. CASE Publish(t)
  <2>1. top[t] \in Levels /\ key[t] \in Keys /\ lists' = lists \cup {Bucket(top[t], key[t])}
    BY <1>17 DEF Publish, Goto, OpAt, Calls
  <2>2. Bucket(top[t], key[t]) \in Buckets
    BY <2>1, BucketsInRange
  <2> QED  BY <2>1, <2>2
<1>18. CASE PutFails(t)
  BY <1>18 DEF PutFails, Goto, levels, lock, call, copy
<1>19. CASE SearchLower(t)
  BY <1>19 DEF SearchLower, Goto, levels, lock, call, copy, Search
<1>20. CASE CountInsert(t)
  BY <1>20 DEF CountInsert, Goto, levels, lock, call, copy
<1>21. CASE PutInsert(t)
  BY <1>21 DEF PutInsert, Goto, levels, lock, call, copy
<1>22. CASE Uncount(t)
  BY <1>22 DEF Uncount, Goto, levels, lock, call, copy
<1>23. CASE SetFind(t)
  BY <1>23 DEF SetFind, Goto, levels, lock, call, copy, Search
<1>24. CASE SetLower(t)
  BY <1>24 DEF SetLower, Goto, levels, lock, call, copy
<1>25. CASE SetWalked(t)
  BY <1>25 DEF SetWalked, Goto, levels, lock, call, copy
<1>26. CASE PutSet(t)
  BY <1>26 DEF PutSet, Goto, levels, lock, call, copy
<1>27. CASE CountSet(t)
  BY <1>27 DEF CountSet, Goto, levels, lock, call, copy
<1>28. CASE WalkStart(t)
  BY <1>28 DEF WalkStart, Goto, levels, lock, call, copy
<1>29. CASE WalkLevel(t)
  BY <1>29 DEF WalkLevel, Goto, levels, lock, call, copy, Below
<1>30. CASE WalkMisses(t)
  BY <1>30 DEF WalkMisses, Goto, levels, lock, call, copy, Below
<1>31. CASE WalkMissed(t)
  BY <1>31 DEF WalkMissed, Goto, levels, lock, call, copy, Forget
<1>32. CASE FindHits(t)
  BY <1>32 DEF FindHits, Goto, levels, lock, call, copy, Forget
<1>33. CASE DeleteHits(t)
  BY <1>33 DEF DeleteHits, Goto, levels, lock, call, copy
<1>34. CASE DeleteFails(t)
  BY <1>34 DEF DeleteFails, Goto, levels, lock, call, copy
<1>35. CASE DropCount(t)
  BY <1>35 DEF DropCount, Goto, levels, lock, call, copy
<1>36. CASE SnapshotSum(t)
  BY <1>36 DEF SnapshotSum, Goto, levels, lock, call, copy
<1>37. CASE SnapshotAllocate(t)
  BY <1>37 DEF SnapshotAllocate, Goto, levels, lock, call, copy
<1>38. CASE SnapshotCopy(t)
  BY <1>38 DEF SnapshotCopy, Goto, levels, lock, call, copy
<1>39. CASE SnapshotCopied(t)
  BY <1>39 DEF SnapshotCopied, Goto, levels, lock, call, copy
<1>40. CASE SnapshotEnd(t)
  BY <1>40 DEF SnapshotEnd, Goto, levels, lock, call, copy, Forget
<1> QED
  BY <1>2, <1>3, <1>4, <1>5, <1>6, <1>7, <1>8, <1>9, <1>10, <1>11, <1>12, <1>13, <1>14,
     <1>15, <1>16, <1>17, <1>18, <1>19, <1>20, <1>21, <1>22, <1>23, <1>24, <1>25,
     <1>26, <1>27, <1>28, <1>29, <1>30, <1>31, <1>32, <1>33, <1>34, <1>35, <1>36,
     <1>37, <1>38, <1>39, <1>40
  DEF Begin, Step, WriteStep, InsertStep, SetStep, WalkStep, CopyStep

\* What is not counted yet stays where it is until it is counted.
LEMMA UncountedThereKept ==
  ASSUME TypeInv, ~LateCount, NEW t \in Threads, Begin(t) \/ Step(t)
  PROVE  UncountedThere'
<1>1. TakesOne(t) /\ Leaves(t) /\ OthersStay(t) /\ \A u \in Threads \ {t} : key'[u] = key[u]
  BY ItemsAreTaken, ItemsAreLeft, OneMoves, OthersKeepLocals DEF TypeInv, SnapInv
<1>2. ASSUME NEW u \in Threads \ {t}, pc'[u] = "count_set"
      PROVE  /\ pc[u] = "count_set" /\ key'[u] = key[u] /\ top'[u] = top[u]
             /\ key[u] \in Keys /\ top[u] \in Levels
             /\ entry[top[u]][key[u]] # NULL /\ entry'[top[u]][key[u]] # NULL
  <2>1. /\ pc[u] = "count_set" /\ key'[u] = key[u] /\ top'[u] = top[u]
        /\ key[u] \in Keys /\ top[u] \in Levels /\ entry[top[u]][key[u]] # NULL
    BY <1>1, <1>2 DEF OthersStay, TypeInv, SnapInv, Known, LevelAt, UncountedThere
  <2>2. Uncounted(top[u], key[u])
    BY <2>1 DEF Uncounted
  <2> QED  BY <1>1, <2>1, <2>2 DEF TakesOne
<1>3. pc'[t] = "count_set" => key[t] \in Keys
  BY <1>1 DEF Leaves, TypeInv, SnapInv, Known, OpAt, Calls
<1>4. ASSUME NEW u \in Threads, NEW v \in Threads \ {u}, pc'[u] = "count_set",
             pc'[v] = "count_set", top'[u] = top'[v]
      PROVE  key'[u] # key'[v]
  <2>1. CASE u = t
    BY <1>1, <1>2, <1>4, <2>1 DEF Leaves
  <2>2. CASE v = t
    BY <1>1, <1>2, <1>4, <2>2 DEF Leaves
  <2>3. CASE u # t /\ v # t
    BY <1>2, <1>4, <2>3 DEF TypeInv, UncountedThere
  <2> QED  BY <2>1, <2>2, <2>3
<1>5. ASSUME NEW u \in Threads, pc'[u] = "count_set"
      PROVE  key'[u] \in Keys /\ entry'[top'[u]][key'[u]] # NULL
  BY <1>1, <1>2, <1>3, <1>5 DEF Leaves
<1> QED  BY <1>4, <1>5 DEF UncountedThere

LEMMA NotedTypes == Noted => absent' \in [Threads -> BOOLEAN]
  BY DEF Noted

LEMMA InitTypeInv == Init => TypeInv
<1> SUFFICES ASSUME Init  PROVE TypeInv
  OBVIOUS
<1>1. SnapInv  BY InitSnapInv
<1>2. UncountedThere /\ absent \in [Threads -> BOOLEAN]
  BY DEF Init, UncountedThere
<1>3. lists \subseteq Buckets
  BY BucketsInRange, HashTableAssumption DEF Init
<1>4. count \in [Levels -> Nat]
  <2>1. \A l \in Levels : Cardinality(Loaded[l]) \in Nat
    BY FS_Subset, FS_CardinalityType, HashTableAssumption
  <2> QED  BY <2>1 DEF Init
<1> QED  BY <1>1, <1>2, <1>3, <1>4 DEF TypeInv

LEMMA NextTypeInv == TypeInv /\ ~LateCount /\ [Next]_vars => TypeInv'
<1> SUFFICES ASSUME TypeInv, ~LateCount, [Next]_vars  PROVE TypeInv'
  OBVIOUS
<1>0. SnapInv'
  BY NextSnapInv DEF TypeInv
<1>1. ASSUME NEW t \in Threads, Begin(t) \/ Step(t), Noted
      PROVE  TypeInv'
  <2>1. UncountedThere' /\ lists' \subseteq Buckets
    BY <1>1, UncountedThereKept, BucketsKept
  <2>2. \A u \in Threads : pc'[u] # "destroyed"
    BY <1>0, <1>1, ItemsAreLeft DEF Leaves, SnapInv, Apart
  <2>3. FewerUncounted'
    <3>1. (Types /\ LevelAt /\ UncountedThere => FewerUncounted)'
      BY UncountedAreFewer, PTL
    <3> QED  BY <1>0, <2>1, <3>1 DEF SnapInv, Known
  <2>4. ASSUME NEW l \in Levels  PROVE count'[l] \in Nat
    <3>1. (Cardinality(Uncounting(l)) <= Cardinality(Stored(l)))'
      BY <2>3 DEF FewerUncounted
    <3>2. count'[l] = Cardinality(Stored(l))' + Cardinality(Counting(l))'
                      - Cardinality(Uncounting(l))'
      BY <1>0, <2>2 DEF SnapInv, Known, CountsExact
    <3>3. /\ Cardinality(Stored(l))' \in Nat /\ Cardinality(Counting(l))' \in Nat
          /\ Cardinality(Uncounting(l))' \in Nat
      <4>1. /\ Stored(l)' \subseteq Keys /\ Counting(l)' \subseteq Threads
            /\ Uncounting(l)' \subseteq Threads
        BY DEF Stored, Counting, Uncounting
      <4> QED  BY <4>1, FS_Subset, FS_CardinalityType, HashTableAssumption
    <3> QED  BY <3>1, <3>2, <3>3
  <2> QED  BY <1>0, <1>1, <2>1, <2>4, NotedTypes DEF TypeInv, SnapInv, Known, Types
<1>2. CASE Destroy /\ Noted
  <2>1. count' = count /\ lists' = {} /\ \A t \in Threads : pc'[t] # "count_set"
    BY <1>2 DEF Destroy
  <2> QED  BY <1>0, <1>2, <2>1, NotedTypes DEF TypeInv, UncountedThere
<1>3. CASE UNCHANGED vars
  BY <1>0, <1>3 DEF vars, levels, call, TypeInv, UncountedThere
<1> QED
  BY <1>1, <1>2, <1>3 DEF Next

LEMMA TypeInvImplies == TypeInv => TypeOK
<1> SUFFICES ASSUME TypeInv  PROVE TypeOK
  OBVIOUS
<1>1. pend \in [Levels -> Nat]
  BY FiniteParts, FS_CardinalityType DEF TypeInv, SnapInv, Known, Types, CountsExact
<1>2. left \in [Threads -> Nat]
  <2>1. ASSUME NEW t \in Threads  PROVE left[t] \in Nat
    <3>1. Cardinality(Above(lvl[t])) \in Nat /\ Cardinality(UpTo(lvl[t])) \in Nat
      BY Slice, FS_Subset, FS_CardinalityType DEF TypeInv, SnapInv, Known, Above, UpTo
    <3> QED  BY <3>1 DEF TypeInv, SnapInv, CopyAt, CopyPlaces
  <2> QED  BY <2>1 DEF TypeInv, SnapInv, Locals
<1>3. top \in [Threads -> 0..first] /\ lvl \in [Threads -> 0..first]
  <2>1. \A t \in Threads : top[t] \in 0..first /\ lvl[t] \in 0..first
    BY HashTableAssumption DEF TypeInv, SnapInv, Known, Types, Within, Levels
  <2> QED  BY <2>1 DEF TypeInv, SnapInv, Known, Types
<1> QED
  BY <1>1, <1>2, <1>3 DEF TypeOK, TypeInv, SnapInv, Known, Types, Locals, Apart, Buckets,
     Lock!TypeInvariant

\* Every variable stays in its range, if nothing is deleted before it is counted: no
\* item_count, pending_insert_count or temp_item_count is ever lowered below 0
\* (clds_hash_table_delete, clds_hash_table_set_value, clds_hash_table_snapshot).
THEOREM TypesAreCorrect == ~LateCount => (Spec => []TypeOK)
<1> SUFFICES ASSUME ~LateCount  PROVE Spec => []TypeOK
  OBVIOUS
<1>1. TypeInv /\ [Next]_vars => TypeInv'
  BY NextTypeInv
<1> QED
  BY <1>1, InitTypeInv, TypeInvImplies, PTL DEF Spec

-----------------------------------------------------------------------------
(***************************************************************************)
(* A key is in one level at most.                                          *)
(*                                                                         *)
(* An insert waits only for the inserts of the level just below its own.   *)
(* That is enough: a level is full only when somebody has got past the     *)
(* wait in it, so nothing is pending any more two levels below.  It needs  *)
(* that nobody raises the count of a level that is no longer in front      *)
(* (LateRaise FALSE), and that find_key does not fail (BlindFind FALSE);   *)
(* without them the theorem is false, as TLC shows.  From it follows that  *)
(* find, delete and remove miss no key that is there all the while.        *)
(***************************************************************************)

\* Places after the wait for the level below.
PastWait == {"search", "set_find", "set_lower", "list", "publish", "put", "count_set",
             "uncount", "unpend"}

\* Only the level in front gets new pending inserts.
InFront == \A t \in Threads :
    /\ pc[t] \in {"full", "pend"} => top[t] = first
    /\ pc[t] = "wait" => top[t] <= first

\* Somebody got past the wait in level l.
Begun(l) ==
    \/ l < first \/ count[l] > 0 \/ Stored(l) # {}
    \/ \E t \in Threads : pc[t] \in PastWait \cup {"grow"} /\ top[t] = l

\* From then on nothing is pending in the level below.
BelowIsDone == \A l \in Levels : Begun(l) => l <= first /\ (l > 1 => pend[l - 1] = 0)

\* The key of t is in no level between those of its walk and its own.
NotBelow(t) ==
    /\ pc[t] = "search" \/ (pc[t] \in {"set_find", "set_lower"} /\ toTop[t])
          => \A m \in Levels : lvl[t] < m /\ m < top[t] => entry[m][key[t]] = NULL
    /\ pc[t] \in {"list", "publish", "put"}
          => \A m \in Levels : m < top[t] => entry[m][key[t]] = NULL

OneLevel == \A l, m \in Levels, k \in Keys : entry[l][k] # NULL /\ entry[m][k] # NULL => l = m

TopTypes == toTop \in [Threads -> BOOLEAN]

LInv ==
    /\ Known /\ TopTypes /\ InFront /\ BelowIsDone /\ OneLevel
    /\ \A t \in Threads : NotBelow(t)

\* While t is under way in level m, nobody has got past the wait in a level above.
LEMMA NoneAbove ==
  ASSUME LInv, NEW t \in Threads, NEW m \in Levels, t \in Pending(m),
         NEW l \in Levels, l > m
  PROVE  ~Begun(l)
<1>1. pend[m] # 0
  <2>1. pend[m] = Cardinality(Pending(m))  BY DEF LInv, Known, CountsExact
  <2>2. Pending(m) # {}  OBVIOUS
  <2> QED  BY <2>1, <2>2, FiniteParts, FS_EmptySet
<1> SUFFICES ASSUME Begun(l)  PROVE FALSE
  OBVIOUS
<1>2. m \in Int /\ l \in Int /\ first \in Int
  BY HashTableAssumption DEF LInv, Known, Types, Levels
<1>3. l <= first /\ pend[l - 1] = 0
  BY <1>2, HashTableAssumption DEF LInv, BelowIsDone, Levels
<1>4. l # m + 1
  BY <1>1, <1>2, <1>3
<1>5. m + 1 \in Levels /\ m + 1 < first
  BY <1>2, <1>3, <1>4, HashTableAssumption DEF Levels
<1>6. Begun(m + 1)
  BY <1>5 DEF Begun
<1>7. pend[(m + 1) - 1] = 0 /\ (m + 1) - 1 = m
  BY <1>2, <1>5, <1>6, HashTableAssumption DEF LInv, BelowIsDone, Levels
<1> QED  BY <1>1, <1>7

-----------------------------------------------------------------------------
(* What a step of one thread does *)

\* A step of t puts a new key only in the list that it has come to.
PutsOne(t) == \A m \in Levels, k \in Keys :
    entry'[m][k] # NULL => entry[m][k] # NULL \/ (pc[t] = "put" /\ m = top[t] /\ k = key[t])

\* A level that nothing is pending in stays so, unless it is in front.
PendsInFront == \A m \in Levels : pend[m] = 0 /\ m < first => pend'[m] = 0

\* Whoever gets past the wait has seen that nothing is pending below; whoever adds a
\* level, or counts an item, got past it before.
PassesWait(t) ==
    /\ first' # first => pc[t] = "grow" /\ top[t] = first /\ first' = first + 1
    /\ \A l \in Levels : count'[l] > 0 => count[l] > 0 \/ (pc[t] \in PastWait /\ top[t] = l)
    /\ pc'[t] \in PastWait \cup {"grow"} =>
          /\ top'[t] = top[t]
          /\ \/ pc[t] \in PastWait \cup {"grow"}
             \/ pc[t] = "full" /\ count[top[t]] > 0
             \/ pc[t] = "wait" /\ top[t] <= first /\ (top[t] > 1 => pend[top[t] - 1] = 0)

\* Every step keeps the type of toTop.
LEMMA TopTypesKept ==
  ASSUME LInv, NEW t \in Threads, (Begin(t) \/ Step(t))
  PROVE  TopTypes'
<1>1. Types /\ OpAt /\ LevelAt /\ TopTypes /\ InFront /\ t \in Threads /\ NotBelow(t)
  BY DEF LInv, Known
<1> USE <1>1, HashTableAssumption DEF Types, TopTypes
<1>2. CASE \E what \in {"insert", "set_value"} : WriteStart(t, what)
  BY <1>2 DEF WriteStart, Goto, levels, lock, call, copy, Call
<1>3. CASE DeleteStart(t)
  BY <1>3 DEF DeleteStart, Goto, levels, lock, call, copy, Call
<1>4. CASE FindStart(t)
  BY <1>4 DEF FindStart, Goto, levels, lock, call, copy, Call
<1>5. CASE SnapshotStart(t)
  BY <1>5 DEF SnapshotStart, Goto, levels, lock, call, copy, Call
<1>6. CASE ReadFirst(t)
  BY <1>6 DEF ReadFirst, Goto, levels, lock, call, copy
<1>7. CASE HasRoom(t)
  BY <1>7 DEF HasRoom, Goto, levels, lock, call, copy
<1>8. CASE IsFull(t)
  BY <1>8 DEF IsFull, Goto, levels, lock, call, copy
<1>9. CASE Grow(t)
  BY <1>9 DEF Grow, Goto, levels, lock, call, copy
<1>10. CASE GrowLoses(t)
  BY <1>10 DEF GrowLoses, Goto, levels, lock, call, copy
<1>11. CASE RaisePending(t)
  BY <1>11 DEF RaisePending, Goto, levels, lock, call, copy
<1>12. CASE WaitLower(t)
  BY <1>12 DEF WaitLower, Goto, levels, lock, call, copy
<1>13. CASE LowerPending(t)
  BY <1>13 DEF LowerPending, Goto, levels, lock, call, copy
<1>14. CASE WriteEnd(t)
  BY <1>14 DEF WriteEnd, Goto, levels, lock, call, copy, Forget
<1>15. CASE BucketList(t)
  BY <1>15 DEF BucketList, Goto, levels, lock, call, copy
<1>16. CASE ListFails(t)
  BY <1>16 DEF ListFails, Goto, levels, lock, call, copy
<1>17. CASE Publish(t)
  BY <1>17 DEF Publish, Goto, levels, lock, call, copy
<1>18. CASE PutFails(t)
  BY <1>18 DEF PutFails, Goto, levels, lock, call, copy
<1>19. CASE SearchLower(t)
  BY <1>19 DEF SearchLower, Goto, levels, lock, call, copy, Search
<1>20. CASE CountInsert(t)
  BY <1>20 DEF CountInsert, Goto, levels, lock, call, copy
<1>21. CASE PutInsert(t)
  BY <1>21 DEF PutInsert, Goto, levels, lock, call, copy
<1>22. CASE Uncount(t)
  BY <1>22 DEF Uncount, Goto, levels, lock, call, copy
<1>23. CASE SetFind(t)
  BY <1>23 DEF SetFind, Goto, levels, lock, call, copy, Search
<1>24. CASE SetLower(t)
  BY <1>24 DEF SetLower, Goto, levels, lock, call, copy
<1>25. CASE SetWalked(t)
  BY <1>25 DEF SetWalked, Goto, levels, lock, call, copy
<1>26. CASE PutSet(t)
  BY <1>26 DEF PutSet, Goto, levels, lock, call, copy
<1>27. CASE CountSet(t)
  BY <1>27 DEF CountSet, Goto, levels, lock, call, copy
<1>28. CASE WalkStart(t)
  BY <1>28 DEF WalkStart, Goto, levels, lock, call, copy
<1>29. CASE WalkLevel(t)
  BY <1>29 DEF WalkLevel, Goto, levels, lock, call, copy, Below
<1>30. CASE WalkMisses(t)
  BY <1>30 DEF WalkMisses, Goto, levels, lock, call, copy, Below
<1>31. CASE WalkMissed(t)
  BY <1>31 DEF WalkMissed, Goto, levels, lock, call, copy, Forget
<1>32. CASE FindHits(t)
  BY <1>32 DEF FindHits, Goto, levels, lock, call, copy, Forget
<1>33. CASE DeleteHits(t)
  BY <1>33 DEF DeleteHits, Goto, levels, lock, call, copy
<1>34. CASE DeleteFails(t)
  BY <1>34 DEF DeleteFails, Goto, levels, lock, call, copy
<1>35. CASE DropCount(t)
  BY <1>35 DEF DropCount, Goto, levels, lock, call, copy
<1>36. CASE SnapshotSum(t)
  BY <1>36 DEF SnapshotSum, Goto, levels, lock, call, copy
<1>37. CASE SnapshotAllocate(t)
  BY <1>37 DEF SnapshotAllocate, Goto, levels, lock, call, copy
<1>38. CASE SnapshotCopy(t)
  BY <1>38 DEF SnapshotCopy, Goto, levels, lock, call, copy
<1>39. CASE SnapshotCopied(t)
  BY <1>39 DEF SnapshotCopied, Goto, levels, lock, call, copy
<1>40. CASE SnapshotEnd(t)
  BY <1>40 DEF SnapshotEnd, Goto, levels, lock, call, copy, Forget
<1> QED
  BY <1>2, <1>3, <1>4, <1>5, <1>6, <1>7, <1>8, <1>9, <1>10, <1>11, <1>12, <1>13,
     <1>14, <1>15, <1>16, <1>17, <1>18, <1>19, <1>20, <1>21, <1>22, <1>23, <1>24,
     <1>25, <1>26, <1>27, <1>28, <1>29, <1>30, <1>31, <1>32, <1>33, <1>34, <1>35,
     <1>36, <1>37, <1>38, <1>39, <1>40
  DEF Begin, Step, WriteStep, InsertStep, SetStep, WalkStep, CopyStep

\* A level is put in front only when nobody is late for the old one.
LEMMA InFrontKept ==
  ASSUME LInv, NEW t \in Threads, (Begin(t) \/ Step(t)), ~LateRaise
  PROVE  InFront'
<1>1. Types /\ OpAt /\ LevelAt /\ TopTypes /\ InFront /\ t \in Threads /\ NotBelow(t)
  BY DEF LInv, Known
<1> USE <1>1, HashTableAssumption DEF Types, InFront, LevelAt, Levels
<1>2. CASE \E what \in {"insert", "set_value"} : WriteStart(t, what)
  BY <1>2 DEF WriteStart, Goto, levels, lock, call, copy, Call
<1>3. CASE DeleteStart(t)
  BY <1>3 DEF DeleteStart, Goto, levels, lock, call, copy, Call
<1>4. CASE FindStart(t)
  BY <1>4 DEF FindStart, Goto, levels, lock, call, copy, Call
<1>5. CASE SnapshotStart(t)
  BY <1>5 DEF SnapshotStart, Goto, levels, lock, call, copy, Call
<1>6. CASE ReadFirst(t)
  BY <1>6 DEF ReadFirst, Goto, levels, lock, call, copy
<1>7. CASE HasRoom(t)
  BY <1>7 DEF HasRoom, Goto, levels, lock, call, copy
<1>8. CASE IsFull(t)
  BY <1>8 DEF IsFull, Goto, levels, lock, call, copy
<1>9. CASE Grow(t)
  <2>1. /\ first = top[t] /\ first' = first + 1 /\ first + 1 \in Levels /\ ~Late(t)
        /\ pc' = [pc EXCEPT ![t] = "pend"] /\ top' = [top EXCEPT ![t] = first + 1]
    BY <1>9 DEF Grow, Goto, levels, lock, call, copy
  <2>2. first \in Int /\ \A u \in Threads : top[u] \in Int
    BY <1>1
  <2>3. ASSUME NEW u \in Threads \ {t}
        PROVE  pc[u] \notin {"full", "pend"}
    BY <2>1 DEF Late
  <2>4. \A u \in Threads : IF u = t THEN pc'[u] = "pend" /\ top'[u] = first'
                           ELSE pc'[u] = pc[u] /\ top'[u] = top[u]
    BY <2>1
  <2> QED  BY <2>1, <2>2, <2>3, <2>4
<1>10. CASE GrowLoses(t)
  BY <1>10 DEF GrowLoses, Goto, levels, lock, call, copy
<1>11. CASE RaisePending(t)
  BY <1>11 DEF RaisePending, Goto, levels, lock, call, copy
<1>12. CASE WaitLower(t)
  BY <1>12 DEF WaitLower, Goto, levels, lock, call, copy
<1>13. CASE LowerPending(t)
  BY <1>13 DEF LowerPending, Goto, levels, lock, call, copy
<1>14. CASE WriteEnd(t)
  BY <1>14 DEF WriteEnd, Goto, levels, lock, call, copy, Forget
<1>15. CASE BucketList(t)
  BY <1>15 DEF BucketList, Goto, levels, lock, call, copy
<1>16. CASE ListFails(t)
  BY <1>16 DEF ListFails, Goto, levels, lock, call, copy
<1>17. CASE Publish(t)
  BY <1>17 DEF Publish, Goto, levels, lock, call, copy
<1>18. CASE PutFails(t)
  BY <1>18 DEF PutFails, Goto, levels, lock, call, copy
<1>19. CASE SearchLower(t)
  BY <1>19 DEF SearchLower, Goto, levels, lock, call, copy, Search
<1>20. CASE CountInsert(t)
  BY <1>20 DEF CountInsert, Goto, levels, lock, call, copy
<1>21. CASE PutInsert(t)
  BY <1>21 DEF PutInsert, Goto, levels, lock, call, copy
<1>22. CASE Uncount(t)
  BY <1>22 DEF Uncount, Goto, levels, lock, call, copy
<1>23. CASE SetFind(t)
  BY <1>23 DEF SetFind, Goto, levels, lock, call, copy, Search
<1>24. CASE SetLower(t)
  BY <1>24 DEF SetLower, Goto, levels, lock, call, copy
<1>25. CASE SetWalked(t)
  BY <1>25 DEF SetWalked, Goto, levels, lock, call, copy
<1>26. CASE PutSet(t)
  BY <1>26 DEF PutSet, Goto, levels, lock, call, copy
<1>27. CASE CountSet(t)
  BY <1>27 DEF CountSet, Goto, levels, lock, call, copy
<1>28. CASE WalkStart(t)
  BY <1>28 DEF WalkStart, Goto, levels, lock, call, copy
<1>29. CASE WalkLevel(t)
  BY <1>29 DEF WalkLevel, Goto, levels, lock, call, copy, Below
<1>30. CASE WalkMisses(t)
  BY <1>30 DEF WalkMisses, Goto, levels, lock, call, copy, Below
<1>31. CASE WalkMissed(t)
  BY ZenonT(60), <1>31 DEF WalkMissed, Goto, levels, lock, call, copy, Forget
<1>32. CASE FindHits(t)
  BY <1>32 DEF FindHits, Goto, levels, lock, call, copy, Forget
<1>33. CASE DeleteHits(t)
  BY <1>33 DEF DeleteHits, Goto, levels, lock, call, copy
<1>34. CASE DeleteFails(t)
  BY <1>34 DEF DeleteFails, Goto, levels, lock, call, copy
<1>35. CASE DropCount(t)
  BY <1>35 DEF DropCount, Goto, levels, lock, call, copy
<1>36. CASE SnapshotSum(t)
  BY <1>36 DEF SnapshotSum, Goto, levels, lock, call, copy
<1>37. CASE SnapshotAllocate(t)
  BY <1>37 DEF SnapshotAllocate, Goto, levels, lock, call, copy
<1>38. CASE SnapshotCopy(t)
  BY <1>38 DEF SnapshotCopy, Goto, levels, lock, call, copy
<1>39. CASE SnapshotCopied(t)
  BY <1>39 DEF SnapshotCopied, Goto, levels, lock, call, copy
<1>40. CASE SnapshotEnd(t)
  BY <1>40 DEF SnapshotEnd, Goto, levels, lock, call, copy, Forget
<1> QED
  BY <1>2, <1>3, <1>4, <1>5, <1>6, <1>7, <1>8, <1>9, <1>10, <1>11, <1>12, <1>13,
     <1>14, <1>15, <1>16, <1>17, <1>18, <1>19, <1>20, <1>21, <1>22, <1>23, <1>24,
     <1>25, <1>26, <1>27, <1>28, <1>29, <1>30, <1>31, <1>32, <1>33, <1>34, <1>35,
     <1>36, <1>37, <1>38, <1>39, <1>40
  DEF Begin, Step, WriteStep, InsertStep, SetStep, WalkStep, CopyStep

\* Every other change of a list is a replacement or a removal.
LEMMA PutsOneKey ==
  ASSUME LInv, NEW t \in Threads, (Begin(t) \/ Step(t))
  PROVE  PutsOne(t)
<1>1. Types /\ OpAt /\ LevelAt /\ TopTypes /\ InFront /\ t \in Threads /\ NotBelow(t)
  BY DEF LInv, Known
<1> USE <1>1, HashTableAssumption DEF Types, PutsOne
<1>2. CASE \E what \in {"insert", "set_value"} : WriteStart(t, what)
  BY <1>2 DEF WriteStart, Goto, levels, lock, call, copy, Call
<1>3. CASE DeleteStart(t)
  BY <1>3 DEF DeleteStart, Goto, levels, lock, call, copy, Call
<1>4. CASE FindStart(t)
  BY <1>4 DEF FindStart, Goto, levels, lock, call, copy, Call
<1>5. CASE SnapshotStart(t)
  BY <1>5 DEF SnapshotStart, Goto, levels, lock, call, copy, Call
<1>6. CASE ReadFirst(t)
  BY <1>6 DEF ReadFirst, Goto, levels, lock, call, copy
<1>7. CASE HasRoom(t)
  BY <1>7 DEF HasRoom, Goto, levels, lock, call, copy
<1>8. CASE IsFull(t)
  BY <1>8 DEF IsFull, Goto, levels, lock, call, copy
<1>9. CASE Grow(t)
  BY <1>9 DEF Grow, Goto, levels, lock, call, copy
<1>10. CASE GrowLoses(t)
  BY <1>10 DEF GrowLoses, Goto, levels, lock, call, copy
<1>11. CASE RaisePending(t)
  BY <1>11 DEF RaisePending, Goto, levels, lock, call, copy
<1>12. CASE WaitLower(t)
  BY <1>12 DEF WaitLower, Goto, levels, lock, call, copy
<1>13. CASE LowerPending(t)
  BY <1>13 DEF LowerPending, Goto, levels, lock, call, copy
<1>14. CASE WriteEnd(t)
  BY <1>14 DEF WriteEnd, Goto, levels, lock, call, copy, Forget
<1>15. CASE BucketList(t)
  BY <1>15 DEF BucketList, Goto, levels, lock, call, copy
<1>16. CASE ListFails(t)
  BY <1>16 DEF ListFails, Goto, levels, lock, call, copy
<1>17. CASE Publish(t)
  BY <1>17 DEF Publish, Goto, levels, lock, call, copy
<1>18. CASE PutFails(t)
  BY <1>18 DEF PutFails, Goto, levels, lock, call, copy
<1>19. CASE SearchLower(t)
  BY <1>19 DEF SearchLower, Goto, levels, lock, call, copy, Search
<1>20. CASE CountInsert(t)
  BY <1>20 DEF CountInsert, Goto, levels, lock, call, copy
<1>21. CASE PutInsert(t)
  BY <1>21 DEF PutInsert, Goto, levels, lock, call, copy
<1>22. CASE Uncount(t)
  BY <1>22 DEF Uncount, Goto, levels, lock, call, copy
<1>23. CASE SetFind(t)
  BY <1>23 DEF SetFind, Goto, levels, lock, call, copy, Search
<1>24. CASE SetLower(t)
  BY SMTT(30), <1>24 DEF SetLower, Goto, levels, lock, call, copy
<1>25. CASE SetWalked(t)
  BY <1>25 DEF SetWalked, Goto, levels, lock, call, copy
<1>26. CASE PutSet(t)
  BY <1>26 DEF PutSet, Goto, levels, lock, call, copy
<1>27. CASE CountSet(t)
  BY <1>27 DEF CountSet, Goto, levels, lock, call, copy
<1>28. CASE WalkStart(t)
  BY <1>28 DEF WalkStart, Goto, levels, lock, call, copy
<1>29. CASE WalkLevel(t)
  BY <1>29 DEF WalkLevel, Goto, levels, lock, call, copy, Below
<1>30. CASE WalkMisses(t)
  BY <1>30 DEF WalkMisses, Goto, levels, lock, call, copy, Below
<1>31. CASE WalkMissed(t)
  BY <1>31 DEF WalkMissed, Goto, levels, lock, call, copy, Forget
<1>32. CASE FindHits(t)
  BY <1>32 DEF FindHits, Goto, levels, lock, call, copy, Forget
<1>33. CASE DeleteHits(t)
  BY <1>33 DEF DeleteHits, Goto, levels, lock, call, copy
<1>34. CASE DeleteFails(t)
  BY <1>34 DEF DeleteFails, Goto, levels, lock, call, copy
<1>35. CASE DropCount(t)
  BY <1>35 DEF DropCount, Goto, levels, lock, call, copy
<1>36. CASE SnapshotSum(t)
  BY <1>36 DEF SnapshotSum, Goto, levels, lock, call, copy
<1>37. CASE SnapshotAllocate(t)
  BY <1>37 DEF SnapshotAllocate, Goto, levels, lock, call, copy
<1>38. CASE SnapshotCopy(t)
  BY <1>38 DEF SnapshotCopy, Goto, levels, lock, call, copy
<1>39. CASE SnapshotCopied(t)
  BY <1>39 DEF SnapshotCopied, Goto, levels, lock, call, copy
<1>40. CASE SnapshotEnd(t)
  BY <1>40 DEF SnapshotEnd, Goto, levels, lock, call, copy, Forget
<1> QED
  BY <1>2, <1>3, <1>4, <1>5, <1>6, <1>7, <1>8, <1>9, <1>10, <1>11, <1>12, <1>13,
     <1>14, <1>15, <1>16, <1>17, <1>18, <1>19, <1>20, <1>21, <1>22, <1>23, <1>24,
     <1>25, <1>26, <1>27, <1>28, <1>29, <1>30, <1>31, <1>32, <1>33, <1>34, <1>35,
     <1>36, <1>37, <1>38, <1>39, <1>40
  DEF Begin, Step, WriteStep, InsertStep, SetStep, WalkStep, CopyStep

\* A count of pending inserts is raised in front only, and lowered where it is not 0.
LEMMA PendsOnlyInFront ==
  ASSUME LInv, NEW t \in Threads, (Begin(t) \/ Step(t))
  PROVE  PendsInFront
<1>1. Types /\ OpAt /\ LevelAt /\ TopTypes /\ InFront /\ t \in Threads /\ NotBelow(t)
  BY DEF LInv, Known
<1> USE <1>1, HashTableAssumption DEF Types, InFront, LevelAt, PendsInFront, Levels
<1>2. CASE \E what \in {"insert", "set_value"} : WriteStart(t, what)
  BY <1>2 DEF WriteStart, Goto, levels, lock, call, copy, Call
<1>3. CASE DeleteStart(t)
  BY <1>3 DEF DeleteStart, Goto, levels, lock, call, copy, Call
<1>4. CASE FindStart(t)
  BY <1>4 DEF FindStart, Goto, levels, lock, call, copy, Call
<1>5. CASE SnapshotStart(t)
  BY <1>5 DEF SnapshotStart, Goto, levels, lock, call, copy, Call
<1>6. CASE ReadFirst(t)
  BY <1>6 DEF ReadFirst, Goto, levels, lock, call, copy
<1>7. CASE HasRoom(t)
  BY <1>7 DEF HasRoom, Goto, levels, lock, call, copy
<1>8. CASE IsFull(t)
  BY <1>8 DEF IsFull, Goto, levels, lock, call, copy
<1>9. CASE Grow(t)
  BY <1>9 DEF Grow, Goto, levels, lock, call, copy
<1>10. CASE GrowLoses(t)
  BY <1>10 DEF GrowLoses, Goto, levels, lock, call, copy
<1>11. CASE RaisePending(t)
  BY <1>11 DEF RaisePending, Goto, levels, lock, call, copy
<1>12. CASE WaitLower(t)
  BY <1>12 DEF WaitLower, Goto, levels, lock, call, copy
<1>13. CASE LowerPending(t)
  <2>1. pc[t] = "unpend" /\ top[t] \in Levels /\ pend' = [pend EXCEPT ![top[t]] = @ - 1]
    BY <1>13 DEF LowerPending, Goto, levels, lock, call, copy
  <2>2. pend[top[t]] # 0
    <3>1. t \in Pending(top[t])
      BY <2>1 DEF Pending
    <3>2. pend[top[t]] = Cardinality(Pending(top[t]))
      BY <2>1 DEF LInv, Known, CountsExact
    <3> QED  BY <3>1, <3>2, FiniteParts, FS_EmptySet
  <2> QED  BY <2>1, <2>2
<1>14. CASE WriteEnd(t)
  BY <1>14 DEF WriteEnd, Goto, levels, lock, call, copy, Forget
<1>15. CASE BucketList(t)
  BY <1>15 DEF BucketList, Goto, levels, lock, call, copy
<1>16. CASE ListFails(t)
  BY <1>16 DEF ListFails, Goto, levels, lock, call, copy
<1>17. CASE Publish(t)
  BY <1>17 DEF Publish, Goto, levels, lock, call, copy
<1>18. CASE PutFails(t)
  BY <1>18 DEF PutFails, Goto, levels, lock, call, copy
<1>19. CASE SearchLower(t)
  BY <1>19 DEF SearchLower, Goto, levels, lock, call, copy, Search
<1>20. CASE CountInsert(t)
  BY <1>20 DEF CountInsert, Goto, levels, lock, call, copy
<1>21. CASE PutInsert(t)
  BY <1>21 DEF PutInsert, Goto, levels, lock, call, copy
<1>22. CASE Uncount(t)
  BY <1>22 DEF Uncount, Goto, levels, lock, call, copy
<1>23. CASE SetFind(t)
  BY <1>23 DEF SetFind, Goto, levels, lock, call, copy, Search
<1>24. CASE SetLower(t)
  BY <1>24 DEF SetLower, Goto, levels, lock, call, copy
<1>25. CASE SetWalked(t)
  BY <1>25 DEF SetWalked, Goto, levels, lock, call, copy
<1>26. CASE PutSet(t)
  BY <1>26 DEF PutSet, Goto, levels, lock, call, copy
<1>27. CASE CountSet(t)
  BY <1>27 DEF CountSet, Goto, levels, lock, call, copy
<1>28. CASE WalkStart(t)
  BY <1>28 DEF WalkStart, Goto, levels, lock, call, copy
<1>29. CASE WalkLevel(t)
  BY <1>29 DEF WalkLevel, Goto, levels, lock, call, copy, Below
<1>30. CASE WalkMisses(t)
  BY <1>30 DEF WalkMisses, Goto, levels, lock, call, copy, Below
<1>31. CASE WalkMissed(t)
  BY <1>31 DEF WalkMissed, Goto, levels, lock, call, copy, Forget
<1>32. CASE FindHits(t)
  BY <1>32 DEF FindHits, Goto, levels, lock, call, copy, Forget
<1>33. CASE DeleteHits(t)
  BY <1>33 DEF DeleteHits, Goto, levels, lock, call, copy
<1>34. CASE DeleteFails(t)
  BY <1>34 DEF DeleteFails, Goto, levels, lock, call, copy
<1>35. CASE DropCount(t)
  BY <1>35 DEF DropCount, Goto, levels, lock, call, copy
<1>36. CASE SnapshotSum(t)
  BY <1>36 DEF SnapshotSum, Goto, levels, lock, call, copy
<1>37. CASE SnapshotAllocate(t)
  BY <1>37 DEF SnapshotAllocate, Goto, levels, lock, call, copy
<1>38. CASE SnapshotCopy(t)
  BY <1>38 DEF SnapshotCopy, Goto, levels, lock, call, copy
<1>39. CASE SnapshotCopied(t)
  BY <1>39 DEF SnapshotCopied, Goto, levels, lock, call, copy
<1>40. CASE SnapshotEnd(t)
  BY <1>40 DEF SnapshotEnd, Goto, levels, lock, call, copy, Forget
<1> QED
  BY <1>2, <1>3, <1>4, <1>5, <1>6, <1>7, <1>8, <1>9, <1>10, <1>11, <1>12, <1>13,
     <1>14, <1>15, <1>16, <1>17, <1>18, <1>19, <1>20, <1>21, <1>22, <1>23, <1>24,
     <1>25, <1>26, <1>27, <1>28, <1>29, <1>30, <1>31, <1>32, <1>33, <1>34, <1>35,
     <1>36, <1>37, <1>38, <1>39, <1>40
  DEF Begin, Step, WriteStep, InsertStep, SetStep, WalkStep, CopyStep

\* Nobody gets past the wait in any other way.
LEMMA WaitIsPassed ==
  ASSUME LInv, NEW t \in Threads, (Begin(t) \/ Step(t))
  PROVE  PassesWait(t)
<1>1. Types /\ OpAt /\ LevelAt /\ InFront /\ t \in Threads
  BY DEF LInv, Known
<1> USE <1>1 DEF Types, LevelAt, InFront, PassesWait, PastWait, Levels
<1>2. CASE \E what \in {"insert", "set_value"} : WriteStart(t, what)
  BY <1>2 DEF WriteStart, Goto, levels, lock, call, copy, Call
<1>3. CASE DeleteStart(t)
  BY <1>3 DEF DeleteStart, Goto, levels, lock, call, copy, Call
<1>4. CASE FindStart(t)
  BY <1>4 DEF FindStart, Goto, levels, lock, call, copy, Call
<1>5. CASE SnapshotStart(t)
  BY <1>5 DEF SnapshotStart, Goto, levels, lock, call, copy, Call
<1>6. CASE ReadFirst(t)
  BY <1>6 DEF ReadFirst, Goto, levels, lock, call, copy
<1>7. CASE HasRoom(t)
  BY <1>7 DEF HasRoom, Goto, levels, lock, call, copy
<1>8. CASE IsFull(t)
  <2>1. /\ pc[t] = "full" /\ pc'[t] = "grow" /\ top[t] \in Levels /\ top' = top
        /\ first' = first /\ count' = count /\ count[top[t]] >= BucketCount(top[t])
    BY <1>8 DEF IsFull, Goto, levels, lock, call, copy
  <2>2. count[top[t]] \in Int /\ BucketCount(top[t]) \in Nat \ {0}
    BY <2>1, BucketsAssumption
  <2>3. count[top[t]] > 0
    BY <2>1, <2>2
  <2> HIDE DEF Types, LevelAt, InFront, Levels
  <2> QED  BY <2>1, <2>3
<1>9. CASE Grow(t)
  BY <1>9 DEF Grow, Goto, levels, lock, call, copy
<1>10. CASE GrowLoses(t)
  BY <1>10 DEF GrowLoses, Goto, levels, lock, call, copy
<1>11. CASE RaisePending(t)
  BY <1>11 DEF RaisePending, Goto, levels, lock, call, copy
<1>12. CASE WaitLower(t)
  BY <1>12 DEF WaitLower, Goto, levels, lock, call, copy
<1>13. CASE LowerPending(t)
  BY <1>13 DEF LowerPending, Goto, levels, lock, call, copy
<1>14. CASE WriteEnd(t)
  BY <1>14 DEF WriteEnd, Goto, levels, lock, call, copy, Forget
<1>15. CASE BucketList(t)
  BY <1>15 DEF BucketList, Goto, levels, lock, call, copy
<1>16. CASE ListFails(t)
  BY <1>16 DEF ListFails, Goto, levels, lock, call, copy
<1>17. CASE Publish(t)
  BY <1>17 DEF Publish, Goto, levels, lock, call, copy
<1>18. CASE PutFails(t)
  BY <1>18 DEF PutFails, Goto, levels, lock, call, copy
<1>19. CASE SearchLower(t)
  BY <1>19 DEF SearchLower, Goto, levels, lock, call, copy, Search
<1>20. CASE CountInsert(t)
  BY <1>20 DEF CountInsert, Goto, levels, lock, call, copy
<1>21. CASE PutInsert(t)
  BY <1>21 DEF PutInsert, Goto, levels, lock, call, copy
<1>22. CASE Uncount(t)
  BY <1>22 DEF Uncount, Goto, levels, lock, call, copy
<1>23. CASE SetFind(t)
  BY <1>23 DEF SetFind, Goto, levels, lock, call, copy, Search
<1>24. CASE SetLower(t)
  BY <1>24 DEF SetLower, Goto, levels, lock, call, copy
<1>25. CASE SetWalked(t)
  BY <1>25 DEF SetWalked, Goto, levels, lock, call, copy
<1>26. CASE PutSet(t)
  BY <1>26 DEF PutSet, Goto, levels, lock, call, copy
<1>27. CASE CountSet(t)
  BY <1>27 DEF CountSet, Goto, levels, lock, call, copy
<1>28. CASE WalkStart(t)
  BY <1>28 DEF WalkStart, Goto, levels, lock, call, copy
<1>29. CASE WalkLevel(t)
  BY <1>29 DEF WalkLevel, Goto, levels, lock, call, copy, Below
<1>30. CASE WalkMisses(t)
  BY <1>30 DEF WalkMisses, Goto, levels, lock, call, copy, Below
<1>31. CASE WalkMissed(t)
  BY <1>31 DEF WalkMissed, Goto, levels, lock, call, copy, Forget
<1>32. CASE FindHits(t)
  BY <1>32 DEF FindHits, Goto, levels, lock, call, copy, Forget
<1>33. CASE DeleteHits(t)
  BY <1>33 DEF DeleteHits, Goto, levels, lock, call, copy
<1>34. CASE DeleteFails(t)
  BY <1>34 DEF DeleteFails, Goto, levels, lock, call, copy
<1>35. CASE DropCount(t)
  BY <1>35 DEF DropCount, Goto, levels, lock, call, copy
<1>36. CASE SnapshotSum(t)
  BY <1>36 DEF SnapshotSum, Goto, levels, lock, call, copy
<1>37. CASE SnapshotAllocate(t)
  BY <1>37 DEF SnapshotAllocate, Goto, levels, lock, call, copy
<1>38. CASE SnapshotCopy(t)
  BY <1>38 DEF SnapshotCopy, Goto, levels, lock, call, copy
<1>39. CASE SnapshotCopied(t)
  BY <1>39 DEF SnapshotCopied, Goto, levels, lock, call, copy
<1>40. CASE SnapshotEnd(t)
  BY <1>40 DEF SnapshotEnd, Goto, levels, lock, call, copy, Forget
<1> QED
  BY <1>2, <1>3, <1>4, <1>5, <1>6, <1>7, <1>8, <1>9, <1>10, <1>11, <1>12, <1>13,
     <1>14, <1>15, <1>16, <1>17, <1>18, <1>19, <1>20, <1>21, <1>22, <1>23, <1>24,
     <1>25, <1>26, <1>27, <1>28, <1>29, <1>30, <1>31, <1>32, <1>33, <1>34, <1>35,
     <1>36, <1>37, <1>38, <1>39, <1>40
  DEF Begin, Step, WriteStep, InsertStep, SetStep, WalkStep, CopyStep

\* The call of another thread is its own.
LEMMA OthersKeepKeys ==
  ASSUME LInv, NEW t \in Threads, (Begin(t) \/ Step(t))
  PROVE  \A u \in Threads \ {t} : key'[u] = key[u] /\ toTop'[u] = toTop[u]
<1>1. Types /\ TopTypes /\ t \in Threads
  BY DEF LInv, Known
<1> USE <1>1 DEF Types, TopTypes
<1>2. CASE \E what \in {"insert", "set_value"} : WriteStart(t, what)
  BY <1>2 DEF WriteStart, Goto, levels, lock, call, copy, Call
<1>3. CASE DeleteStart(t)
  BY <1>3 DEF DeleteStart, Goto, levels, lock, call, copy, Call
<1>4. CASE FindStart(t)
  BY <1>4 DEF FindStart, Goto, levels, lock, call, copy, Call
<1>5. CASE SnapshotStart(t)
  BY <1>5 DEF SnapshotStart, Goto, levels, lock, call, copy, Call
<1>6. CASE ReadFirst(t)
  BY <1>6 DEF ReadFirst, Goto, levels, lock, call, copy
<1>7. CASE HasRoom(t)
  BY <1>7 DEF HasRoom, Goto, levels, lock, call, copy
<1>8. CASE IsFull(t)
  BY <1>8 DEF IsFull, Goto, levels, lock, call, copy
<1>9. CASE Grow(t)
  BY <1>9 DEF Grow, Goto, levels, lock, call, copy
<1>10. CASE GrowLoses(t)
  BY <1>10 DEF GrowLoses, Goto, levels, lock, call, copy
<1>11. CASE RaisePending(t)
  BY <1>11 DEF RaisePending, Goto, levels, lock, call, copy
<1>12. CASE WaitLower(t)
  BY <1>12 DEF WaitLower, Goto, levels, lock, call, copy
<1>13. CASE LowerPending(t)
  BY <1>13 DEF LowerPending, Goto, levels, lock, call, copy
<1>14. CASE WriteEnd(t)
  BY <1>14 DEF WriteEnd, Goto, levels, lock, call, copy, Forget
<1>15. CASE BucketList(t)
  BY <1>15 DEF BucketList, Goto, levels, lock, call, copy
<1>16. CASE ListFails(t)
  BY <1>16 DEF ListFails, Goto, levels, lock, call, copy
<1>17. CASE Publish(t)
  BY <1>17 DEF Publish, Goto, levels, lock, call, copy
<1>18. CASE PutFails(t)
  BY <1>18 DEF PutFails, Goto, levels, lock, call, copy
<1>19. CASE SearchLower(t)
  BY <1>19 DEF SearchLower, Goto, levels, lock, call, copy, Search
<1>20. CASE CountInsert(t)
  BY <1>20 DEF CountInsert, Goto, levels, lock, call, copy
<1>21. CASE PutInsert(t)
  BY <1>21 DEF PutInsert, Goto, levels, lock, call, copy
<1>22. CASE Uncount(t)
  BY <1>22 DEF Uncount, Goto, levels, lock, call, copy
<1>23. CASE SetFind(t)
  BY <1>23 DEF SetFind, Goto, levels, lock, call, copy, Search
<1>24. CASE SetLower(t)
  BY <1>24 DEF SetLower, Goto, levels, lock, call, copy
<1>25. CASE SetWalked(t)
  BY <1>25 DEF SetWalked, Goto, levels, lock, call, copy
<1>26. CASE PutSet(t)
  BY <1>26 DEF PutSet, Goto, levels, lock, call, copy
<1>27. CASE CountSet(t)
  BY <1>27 DEF CountSet, Goto, levels, lock, call, copy
<1>28. CASE WalkStart(t)
  BY <1>28 DEF WalkStart, Goto, levels, lock, call, copy
<1>29. CASE WalkLevel(t)
  BY <1>29 DEF WalkLevel, Goto, levels, lock, call, copy, Below
<1>30. CASE WalkMisses(t)
  BY <1>30 DEF WalkMisses, Goto, levels, lock, call, copy, Below
<1>31. CASE WalkMissed(t)
  BY <1>31 DEF WalkMissed, Goto, levels, lock, call, copy, Forget
<1>32. CASE FindHits(t)
  BY <1>32 DEF FindHits, Goto, levels, lock, call, copy, Forget
<1>33. CASE DeleteHits(t)
  BY <1>33 DEF DeleteHits, Goto, levels, lock, call, copy
<1>34. CASE DeleteFails(t)
  BY <1>34 DEF DeleteFails, Goto, levels, lock, call, copy
<1>35. CASE DropCount(t)
  BY <1>35 DEF DropCount, Goto, levels, lock, call, copy
<1>36. CASE SnapshotSum(t)
  BY <1>36 DEF SnapshotSum, Goto, levels, lock, call, copy
<1>37. CASE SnapshotAllocate(t)
  BY <1>37 DEF SnapshotAllocate, Goto, levels, lock, call, copy
<1>38. CASE SnapshotCopy(t)
  BY <1>38 DEF SnapshotCopy, Goto, levels, lock, call, copy
<1>39. CASE SnapshotCopied(t)
  BY <1>39 DEF SnapshotCopied, Goto, levels, lock, call, copy
<1>40. CASE SnapshotEnd(t)
  BY <1>40 DEF SnapshotEnd, Goto, levels, lock, call, copy, Forget
<1> QED
  BY <1>2, <1>3, <1>4, <1>5, <1>6, <1>7, <1>8, <1>9, <1>10, <1>11, <1>12, <1>13,
     <1>14, <1>15, <1>16, <1>17, <1>18, <1>19, <1>20, <1>21, <1>22, <1>23, <1>24,
     <1>25, <1>26, <1>27, <1>28, <1>29, <1>30, <1>31, <1>32, <1>33, <1>34, <1>35,
     <1>36, <1>37, <1>38, <1>39, <1>40
  DEF Begin, Step, WriteStep, InsertStep, SetStep, WalkStep, CopyStep

\* A walk that does not find its key goes on knowing so.
LEMMA SeenStays ==
  ASSUME LInv, NEW t \in Threads, (Begin(t) \/ Step(t)), ~BlindFind
  PROVE  NotBelow(t)'
<1>1. Types /\ OpAt /\ LevelAt /\ TopTypes /\ InFront /\ t \in Threads /\ NotBelow(t)
  BY DEF LInv, Known
<1> USE <1>1, HashTableAssumption DEF Types, OpAt, LevelAt, TopTypes, NotBelow, Levels, Answers
<1>2. CASE \E what \in {"insert", "set_value"} : WriteStart(t, what)
  BY <1>2 DEF WriteStart, Goto, levels, lock, call, copy, Call
<1>3. CASE DeleteStart(t)
  BY <1>3 DEF DeleteStart, Goto, levels, lock, call, copy, Call
<1>4. CASE FindStart(t)
  BY <1>4 DEF FindStart, Goto, levels, lock, call, copy, Call
<1>5. CASE SnapshotStart(t)
  BY <1>5 DEF SnapshotStart, Goto, levels, lock, call, copy, Call
<1>6. CASE ReadFirst(t)
  BY <1>6 DEF ReadFirst, Goto, levels, lock, call, copy
<1>7. CASE HasRoom(t)
  BY <1>7 DEF HasRoom, Goto, levels, lock, call, copy
<1>8. CASE IsFull(t)
  BY <1>8 DEF IsFull, Goto, levels, lock, call, copy
<1>9. CASE Grow(t)
  BY <1>9 DEF Grow, Goto, levels, lock, call, copy
<1>10. CASE GrowLoses(t)
  BY <1>10 DEF GrowLoses, Goto, levels, lock, call, copy
<1>11. CASE RaisePending(t)
  BY <1>11 DEF RaisePending, Goto, levels, lock, call, copy
<1>12. CASE WaitLower(t)
  BY <1>12 DEF WaitLower, Goto, levels, lock, call, copy
<1>13. CASE LowerPending(t)
  BY <1>13 DEF LowerPending, Goto, levels, lock, call, copy
<1>14. CASE WriteEnd(t)
  BY <1>14 DEF WriteEnd, Goto, levels, lock, call, copy, Forget
<1>15. CASE BucketList(t)
  BY <1>15 DEF BucketList, Goto, levels, lock, call, copy
<1>16. CASE ListFails(t)
  BY <1>16 DEF ListFails, Goto, levels, lock, call, copy
<1>17. CASE Publish(t)
  BY <1>17 DEF Publish, Goto, levels, lock, call, copy
<1>18. CASE PutFails(t)
  BY <1>18 DEF PutFails, Goto, levels, lock, call, copy
<1>19. CASE SearchLower(t)
  <2>1. /\ pc[t] = "search" /\ lvl[t] > 0 /\ lvl[t] \in Int /\ UNCHANGED <<entry, key, top>>
    BY <1>19 DEF SearchLower, Search, levels, call
  <2>2. PICK found \in Answers(t) :
           /\ pc' = [pc EXCEPT ![t] = IF found THEN "unpend" ELSE "search"]
           /\ lvl' = [lvl EXCEPT ![t] = IF found THEN lvl[t] ELSE lvl[t] - 1]
    BY <1>19 DEF SearchLower, Search, Goto
  <2>3. found = (entry[lvl[t]][key[t]] # NULL)
    BY <2>2 DEF Answers
  <2>4. \/ pc'[t] = "unpend"
        \/ /\ pc'[t] = "search" /\ entry[lvl[t]][key[t]] = NULL
           /\ lvl'[t] = lvl[t] - 1
    <3>1. CASE found
      BY <2>2, <3>1
    <3>2. CASE ~found
      BY <2>2, <2>3, <3>2
    <3> QED  BY <3>1, <3>2, <2>3
  <2>5. CASE pc'[t] = "unpend"
    BY <2>5
  <2>6. CASE pc'[t] = "search"
    <3>1. lvl'[t] = lvl[t] - 1 /\ entry[lvl[t]][key[t]] = NULL
      BY <2>4, <2>6
    <3>2. \A m \in Levels : lvl'[t] < m => m = lvl[t] \/ lvl[t] < m
      BY <2>1, <3>1
    <3> QED  BY <2>1, <2>6, <3>1, <3>2
  <2> QED  BY <2>4, <2>5, <2>6
<1>20. CASE CountInsert(t)
  <2>1. pc[t] = "search" /\ pc'[t] = "list" /\ lvl[t] = 0 /\ UNCHANGED <<entry, key, top>>
    BY <1>20 DEF CountInsert, Goto, levels, lock, call, copy
  <2>2. \A m \in Levels : lvl[t] < m
    BY <2>1
  <2> QED  BY <2>1, <2>2
<1>21. CASE PutInsert(t)
  BY <1>21 DEF PutInsert, Goto, levels, lock, call, copy
<1>22. CASE Uncount(t)
  BY <1>22 DEF Uncount, Goto, levels, lock, call, copy
<1>23. CASE SetFind(t)
  BY <1>23 DEF SetFind, Goto, levels, lock, call, copy, Search
<1>24. CASE SetLower(t)
  BY SMTT(30), <1>24 DEF SetLower, Goto, levels, lock, call, copy
<1>25. CASE SetWalked(t)
  BY <1>25 DEF SetWalked, Goto, levels, lock, call, copy
<1>26. CASE PutSet(t)
  BY <1>26 DEF PutSet, Goto, levels, lock, call, copy
<1>27. CASE CountSet(t)
  BY <1>27 DEF CountSet, Goto, levels, lock, call, copy
<1>28. CASE WalkStart(t)
  BY <1>28 DEF WalkStart, Goto, levels, lock, call, copy
<1>29. CASE WalkLevel(t)
  BY SMTT(30), <1>29 DEF WalkLevel, Goto, levels, lock, call, copy, Below
<1>30. CASE WalkMisses(t)
  BY <1>30 DEF WalkMisses, Goto, levels, lock, call, copy, Below
<1>31. CASE WalkMissed(t)
  BY SMTT(30), <1>31 DEF WalkMissed, Goto, levels, lock, call, copy, Forget
<1>32. CASE FindHits(t)
  BY <1>32 DEF FindHits, Goto, levels, lock, call, copy, Forget
<1>33. CASE DeleteHits(t)
  BY <1>33 DEF DeleteHits, Goto, levels, lock, call, copy
<1>34. CASE DeleteFails(t)
  BY <1>34 DEF DeleteFails, Goto, levels, lock, call, copy
<1>35. CASE DropCount(t)
  BY <1>35 DEF DropCount, Goto, levels, lock, call, copy
<1>36. CASE SnapshotSum(t)
  BY <1>36 DEF SnapshotSum, Goto, levels, lock, call, copy
<1>37. CASE SnapshotAllocate(t)
  BY <1>37 DEF SnapshotAllocate, Goto, levels, lock, call, copy
<1>38. CASE SnapshotCopy(t)
  BY <1>38 DEF SnapshotCopy, Goto, levels, lock, call, copy
<1>39. CASE SnapshotCopied(t)
  BY <1>39 DEF SnapshotCopied, Goto, levels, lock, call, copy
<1>40. CASE SnapshotEnd(t)
  BY <1>40 DEF SnapshotEnd, Goto, levels, lock, call, copy, Forget
<1> QED
  BY <1>2, <1>3, <1>4, <1>5, <1>6, <1>7, <1>8, <1>9, <1>10, <1>11, <1>12, <1>13,
     <1>14, <1>15, <1>16, <1>17, <1>18, <1>19, <1>20, <1>21, <1>22, <1>23, <1>24,
     <1>25, <1>26, <1>27, <1>28, <1>29, <1>30, <1>31, <1>32, <1>33, <1>34, <1>35,
     <1>36, <1>37, <1>38, <1>39, <1>40
  DEF Begin, Step, WriteStep, InsertStep, SetStep, WalkStep, CopyStep

-----------------------------------------------------------------------------
(* The invariant and the theorem *)

\* Begun(l) after a step, if it was not so before.
LEMMA BegunAnew ==
  ASSUME LInv, NEW t \in Threads, OthersStay(t), PassesWait(t), PutsOne(t), Types',
         NEW l \in Levels, Begun(l)'
  PROVE  Begun(l) \/ (l <= first /\ (l > 1 => pend[l - 1] = 0))
<1> USE DEF LInv, Known, Types, Levels
<1>1. first \in Int /\ first' \in Int /\ l \in Int
  BY HashTableAssumption
<1>2. CASE l < first'
  <2>1. CASE first' = first
    BY <1>2, <2>1 DEF Begun
  <2>2. CASE first' # first
    BY <1>1, <1>2, <2>2 DEF Begun, PassesWait
  <2> QED  BY <2>1, <2>2
<1>3. CASE count'[l] > 0
  BY <1>3 DEF Begun, PassesWait
<1>4. CASE Stored(l)' # {}
  <2>1. PICK k \in Keys : entry'[l][k] # NULL
    BY <1>4 DEF Stored
  <2>2. CASE entry[l][k] # NULL
    BY <2>2 DEF Begun, Stored
  <2>3. CASE pc[t] = "put" /\ top[t] = l
    BY <2>3 DEF Begun, PastWait
  <2> QED  BY <2>1, <2>2, <2>3 DEF PutsOne
<1>5. ASSUME NEW u \in Threads, pc'[u] \in PastWait \cup {"grow"}, top'[u] = l
      PROVE  Begun(l) \/ (l <= first /\ (l > 1 => pend[l - 1] = 0))
  <2>1. CASE u # t
    BY <1>5, <2>1 DEF OthersStay, Begun
  <2>2. CASE u = t
    BY <1>5, <2>2 DEF PassesWait, Begun
  <2> QED  BY <2>1, <2>2
<1> QED
  BY <1>2, <1>3, <1>4, <1>5 DEF Begun

LEMMA BelowIsDoneKept ==
  ASSUME LInv, NEW t \in Threads, OthersStay(t), PassesWait(t), PutsOne(t),
         PendsInFront, Types'
  PROVE  BelowIsDone'
<1> SUFFICES ASSUME NEW l \in Levels, Begun(l)'
             PROVE  l <= first' /\ (l > 1 => pend'[l - 1] = 0)
  BY DEF BelowIsDone
<1>1. l <= first /\ (l > 1 => pend[l - 1] = 0)
  BY BegunAnew DEF LInv, BelowIsDone
<1>2. first \in Int /\ first' \in Int /\ l \in Int
  BY HashTableAssumption DEF LInv, Known, Types, Levels
<1>3. first' = first \/ first' = first + 1
  BY DEF PassesWait
<1>4. l > 1 => l - 1 \in Levels /\ l - 1 < first
  BY <1>1, <1>2, HashTableAssumption DEF Levels
<1> QED  BY <1>1, <1>2, <1>3, <1>4 DEF PendsInFront

\* What another thread puts into a list is not where u has seen nothing.
LEMMA OthersSeenStays ==
  ASSUME LInv, NEW t \in Threads, OthersStay(t), PutsOne(t), NEW u \in Threads \ {t},
         key'[u] = key[u], toTop'[u] = toTop[u]
  PROVE  NotBelow(u)'
<1>1. pc'[u] = pc[u] /\ top'[u] = top[u] /\ lvl'[u] = lvl[u] /\ NotBelow(u)
  BY DEF OthersStay, LInv
<1>2. ASSUME pc[u] \in {"search", "set_find", "set_lower", "list", "publish", "put"},
             NEW m \in Levels, m < top[u], entry[m][key[u]] = NULL
      PROVE  entry'[m][key[u]] = NULL
  <2> SUFFICES ASSUME entry'[m][key[u]] # NULL  PROVE FALSE
    OBVIOUS
  <2>1. key[u] \in Keys /\ top[u] \in Levels
    BY <1>2 DEF LInv, Known, OpAt, LevelAt, Calls
  <2>2. pc[t] = "put" /\ top[t] = m
    BY <1>2, <2>1 DEF PutsOne
  <2>3. t \in Pending(m)
    BY <2>2 DEF Pending
  <2>4. Begun(top[u])
    BY <1>2 DEF Begun, PastWait
  <2>5. top[u] > m
    BY <1>2, <2>1, HashTableAssumption DEF Levels
  <2> QED  BY <2>1, <2>3, <2>4, <2>5, NoneAbove
<1> QED  BY <1>1, <1>2 DEF NotBelow

LEMMA OneLevelKept ==
  ASSUME LInv, NEW t \in Threads, PutsOne(t)
  PROVE  OneLevel'
<1>1. ASSUME NEW l \in Levels, NEW m \in Levels, NEW k \in Keys, entry'[m][k] # NULL,
             entry[m][k] = NULL, entry'[l][k] # NULL, l # m
      PROVE  FALSE
  <2>1. pc[t] = "put" /\ m = top[t] /\ k = key[t]
    BY <1>1 DEF PutsOne
  <2>2. entry[l][k] # NULL
    BY <1>1, <2>1 DEF PutsOne
  <2>3. CASE l < m
    BY <2>1, <2>2, <2>3 DEF LInv, NotBelow
  <2>4. CASE l > m
    <3>1. t \in Pending(m)  BY <2>1 DEF Pending
    <3>2. Begun(l)  BY <2>2 DEF Begun, Stored
    <3> QED  BY <2>4, <3>1, <3>2, NoneAbove
  <2>5. l < m \/ l > m
    BY <1>1, HashTableAssumption DEF Levels
  <2> QED  BY <2>3, <2>4, <2>5
<1> QED  BY <1>1 DEF OneLevel, LInv


LEMMA InitLInv == Init => LInv
<1> SUFFICES ASSUME Init  PROVE LInv
  OBVIOUS
<1>1. Known  BY InitKnown
<1>2. TopTypes /\ InFront /\ \A t \in Threads : NotBelow(t)
  BY DEF Init, TopTypes, InFront, NotBelow
<1>3. BelowIsDone
  <2> SUFFICES ASSUME NEW l \in Levels, Begun(l)
               PROVE  l <= first /\ (l > 1 => pend[l - 1] = 0)
    BY DEF BelowIsDone
  <2>1. Stored(l) = Loaded[l] /\ count[l] = Cardinality(Loaded[l])
    BY HashTableAssumption DEF Init, Stored
  <2>2. l < first \/ Loaded[l] # {}
    <3>1. ~\E t \in Threads : pc[t] \in PastWait \cup {"grow"} /\ top[t] = l
      BY DEF Init, PastWait
    <3>2. Loaded[l] = {} => count[l] = 0
      BY <2>1, FS_EmptySet
    <3> QED  BY <2>1, <3>1, <3>2 DEF Begun
  <2>3. l <= first
    BY <2>2, HashTableAssumption DEF Init, Levels
  <2>4. l > 1 => l - 1 \in Levels
    BY HashTableAssumption DEF Levels
  <2> QED  BY <2>3, <2>4 DEF Init
<1>4. OneLevel
  BY HashTableAssumption DEF Init, OneLevel
<1> QED  BY <1>1, <1>2, <1>3, <1>4 DEF LInv

\* After destroy nothing is in any level.
LEMMA DestroyKeepsLevels ==
  ASSUME LInv, Destroy
  PROVE  LInv'
<1>1. /\ UNCHANGED <<first, count, pend, op, key, top, lvl, toTop>>
      /\ pc' = [t \in Threads |-> "destroyed"]
      /\ entry' = [l \in Levels |-> [k \in Keys |-> NULL]]
  BY DEF Destroy, call
<1>2. Known'  BY DestroyKeeps DEF LInv
<1>3. TopTypes' /\ InFront' /\ \A t \in Threads : NotBelow(t)'
  BY <1>1 DEF LInv, TopTypes, InFront, NotBelow
<1>4. BelowIsDone'
  BY <1>1 DEF LInv, BelowIsDone, Begun, Stored, PastWait
<1>5. OneLevel'
  BY <1>1 DEF OneLevel
<1> QED  BY <1>2, <1>3, <1>4, <1>5 DEF LInv

LEMMA NextLInv == LInv /\ ~LateRaise /\ ~BlindFind /\ [Next]_vars => LInv'
<1> SUFFICES ASSUME LInv, ~LateRaise, ~BlindFind, [Next]_vars  PROVE LInv'
  OBVIOUS
<1>0. Known'
  BY NextKnown DEF LInv
<1>1. ASSUME NEW t \in Threads, Begin(t) \/ Step(t)
      PROVE  LInv'
  <2>1. OthersStay(t) /\ \A u \in Threads \ {t} : key'[u] = key[u] /\ toTop'[u] = toTop[u]
    BY <1>1, OneMoves, OthersKeepKeys DEF LInv
  <2>2. PutsOne(t) /\ PassesWait(t) /\ PendsInFront
    BY <1>1, PutsOneKey, WaitIsPassed, PendsOnlyInFront
  <2>3. TopTypes' /\ InFront'
    BY <1>1, TopTypesKept, InFrontKept
  <2>4. BelowIsDone'
    BY <1>0, <2>1, <2>2, BelowIsDoneKept DEF Known
  <2>5. \A u \in Threads : NotBelow(u)'
    BY <1>1, <2>1, <2>2, SeenStays, OthersSeenStays
  <2>6. OneLevel'
    BY <2>2, OneLevelKept
  <2> QED  BY <1>0, <2>3, <2>4, <2>5, <2>6 DEF LInv
<1>2. CASE Destroy
  BY <1>2, DestroyKeepsLevels
<1>3. CASE UNCHANGED vars
  <2>1. UNCHANGED <<first, count, pend, entry, pc, op, key, top, lvl, toTop>>
    BY <1>3 DEF vars, levels, call
  <2>2. TopTypes' /\ InFront' /\ OneLevel' /\ \A t \in Threads : NotBelow(t)'
    BY <2>1 DEF LInv, TopTypes, InFront, OneLevel, NotBelow
  <2>3. BelowIsDone'
    BY <2>1 DEF LInv, BelowIsDone, Begun, Stored
  <2> QED  BY <1>0, <2>2, <2>3 DEF LInv
<1> QED
  BY <1>1, <1>2, <1>3 DEF Next

LEMMA LInvImplies == LInv => OneLevelPerKey
<1> SUFFICES ASSUME LInv, NEW k \in Keys
             PROVE  Cardinality({l \in Levels : entry[l][k] # NULL}) <= 1
  BY DEF OneLevelPerKey
<1> DEFINE S == {l \in Levels : entry[l][k] # NULL}
<1>1. CASE S = {}
  BY <1>1, FS_EmptySet
<1>2. CASE S # {}
  <2>1. PICK l \in S : TRUE  BY <1>2
  <2>2. S = {l}  BY <2>1 DEF LInv, OneLevel
  <2> QED  BY <2>2, FS_Singleton
<1> QED  BY <1>1, <1>2

\* Inserts and set_values that run while levels are added never put a key into two
\* levels, if no thread is so late that it raises the count of a level that has been
\* replaced, and no find_key fails (clds_hash_table_insert, clds_hash_table_set_value,
\* get_first_bucket_array).
THEOREM KeysInOneLevel == ~LateRaise /\ ~BlindFind => (Spec => []OneLevelPerKey)
<1> SUFFICES ASSUME ~LateRaise, ~BlindFind  PROVE Spec => []OneLevelPerKey
  OBVIOUS
<1>1. LInv /\ [Next]_vars => LInv'
  BY NextLInv
<1> QED
  BY <1>1, InitLInv, LInvImplies, PTL DEF Spec

-----------------------------------------------------------------------------
(* Walks: the invariant *)

\* What t looks for is in level l.
Present(t, l) ==
    /\ entry[l][key[t]] # NULL
    /\ op[t] = "delete_key_value" => entry[l][key[t]] = item[t]

\* If it was there at every moment since the call began, the walk still has it before it.
WalkAt(t) ==
    /\ pc[t] \in {"level", "bucket"} /\ ~absent[t] =>
          \E m \in Levels : m <= lvl[t] /\ Present(t, m)
    /\ pc[t] = "missed" => absent[t] /\ op[t] \in {"find", "delete", "delete_key_value"}

NInv == LInv /\ TypeInv /\ \A t \in Threads : WalkAt(t)

\* A walk passes over a level only when its count is 0 and its key is not there
\* uncounted, or when there is no hit.
WalksOn(t) == pc'[t] \in {"level", "bucket", "missed"} =>
    /\ UNCHANGED <<entry, op, key, item>>
    /\ \/ pc[t] = "start" /\ pc'[t] = "level" /\ lvl'[t] = first
       \/ pc[t] = "level" /\ pc'[t] = "bucket" /\ lvl'[t] = lvl[t]
       \/ /\ pc[t] \in {"level", "bucket"} /\ lvl'[t] = lvl[t] - 1
          /\ pc'[t] = "missed" => lvl[t] = 1
          /\ (count[lvl[t]] = 0 /\ ~Uncounted(lvl[t], key[t])) \/ ~Hit(t)

\* A walk goes from level to level.
LEMMA WalkGoesOn ==
  ASSUME NInv, NEW t \in Threads, Begin(t) \/ Step(t), ~BlindFind, ~LateCount
  PROVE  WalksOn(t)
<1>1. Types /\ OpAt /\ LevelAt /\ t \in Threads
  BY DEF NInv, TypeInv, SnapInv, Known
<1> USE <1>1, HashTableAssumption DEF Types, OpAt, LevelAt, WalksOn, Levels
<1>2. CASE \E what \in {"insert", "set_value"} : WriteStart(t, what)
  BY <1>2 DEF WriteStart, Goto, levels, lock, call, copy, Call
<1>3. CASE DeleteStart(t)
  BY <1>3 DEF DeleteStart, Goto, levels, lock, call, copy, Call
<1>4. CASE FindStart(t)
  BY <1>4 DEF FindStart, Goto, levels, lock, call, copy, Call
<1>5. CASE SnapshotStart(t)
  BY <1>5 DEF SnapshotStart, Goto, levels, lock, call, copy, Call
<1>6. CASE ReadFirst(t)
  BY <1>6 DEF ReadFirst, Goto, levels, lock, call, copy
<1>7. CASE HasRoom(t)
  BY <1>7 DEF HasRoom, Goto, levels, lock, call, copy
<1>8. CASE IsFull(t)
  BY <1>8 DEF IsFull, Goto, levels, lock, call, copy
<1>9. CASE Grow(t)
  BY <1>9 DEF Grow, Goto, levels, lock, call, copy
<1>10. CASE GrowLoses(t)
  BY <1>10 DEF GrowLoses, Goto, levels, lock, call, copy
<1>11. CASE RaisePending(t)
  BY <1>11 DEF RaisePending, Goto, levels, lock, call, copy
<1>12. CASE WaitLower(t)
  BY <1>12 DEF WaitLower, Goto, levels, lock, call, copy
<1>13. CASE LowerPending(t)
  BY <1>13 DEF LowerPending, Goto, levels, lock, call, copy
<1>14. CASE WriteEnd(t)
  BY <1>14 DEF WriteEnd, Goto, levels, lock, call, copy, Forget
<1>15. CASE BucketList(t)
  BY <1>15 DEF BucketList, Goto, levels, lock, call, copy
<1>16. CASE ListFails(t)
  BY <1>16 DEF ListFails, Goto, levels, lock, call, copy
<1>17. CASE Publish(t)
  BY <1>17 DEF Publish, Goto, levels, lock, call, copy
<1>18. CASE PutFails(t)
  BY <1>18 DEF PutFails, Goto, levels, lock, call, copy
<1>19. CASE SearchLower(t)
  BY <1>19 DEF SearchLower, Goto, levels, lock, call, copy, Search
<1>20. CASE CountInsert(t)
  BY <1>20 DEF CountInsert, Goto, levels, lock, call, copy
<1>21. CASE PutInsert(t)
  BY <1>21 DEF PutInsert, Goto, levels, lock, call, copy
<1>22. CASE Uncount(t)
  BY <1>22 DEF Uncount, Goto, levels, lock, call, copy
<1>23. CASE SetFind(t)
  BY <1>23 DEF SetFind, Goto, levels, lock, call, copy, Search
<1>24. CASE SetLower(t)
  BY <1>24 DEF SetLower, Goto, levels, lock, call, copy
<1>25. CASE SetWalked(t)
  BY <1>25 DEF SetWalked, Goto, levels, lock, call, copy
<1>26. CASE PutSet(t)
  BY <1>26 DEF PutSet, Goto, levels, lock, call, copy
<1>27. CASE CountSet(t)
  BY <1>27 DEF CountSet, Goto, levels, lock, call, copy
<1>28. CASE WalkStart(t)
  BY <1>28 DEF WalkStart, Goto, levels, lock, call, copy
<1>29. CASE WalkLevel(t)
  BY <1>29 DEF WalkLevel, Goto, levels, lock, call, copy, Below
<1>30. CASE WalkMisses(t)
  BY <1>30 DEF WalkMisses, Goto, levels, lock, call, copy, Below
<1>31. CASE WalkMissed(t)
  BY <1>31 DEF WalkMissed, Goto, levels, lock, call, copy, Forget
<1>32. CASE FindHits(t)
  BY <1>32 DEF FindHits, Goto, levels, lock, call, copy, Forget
<1>33. CASE DeleteHits(t)
  BY <1>33 DEF DeleteHits, Goto, levels, lock, call, copy
<1>34. CASE DeleteFails(t)
  BY <1>34 DEF DeleteFails, Goto, levels, lock, call, copy
<1>35. CASE DropCount(t)
  BY <1>35 DEF DropCount, Goto, levels, lock, call, copy
<1>36. CASE SnapshotSum(t)
  BY <1>36 DEF SnapshotSum, Goto, levels, lock, call, copy
<1>37. CASE SnapshotAllocate(t)
  BY <1>37 DEF SnapshotAllocate, Goto, levels, lock, call, copy
<1>38. CASE SnapshotCopy(t)
  BY <1>38 DEF SnapshotCopy, Goto, levels, lock, call, copy
<1>39. CASE SnapshotCopied(t)
  BY <1>39 DEF SnapshotCopied, Goto, levels, lock, call, copy
<1>40. CASE SnapshotEnd(t)
  BY <1>40 DEF SnapshotEnd, Goto, levels, lock, call, copy, Forget
<1> QED
  BY <1>2, <1>3, <1>4, <1>5, <1>6, <1>7, <1>8, <1>9, <1>10, <1>11, <1>12, <1>13, <1>14,
     <1>15, <1>16, <1>17, <1>18, <1>19, <1>20, <1>21, <1>22, <1>23, <1>24, <1>25,
     <1>26, <1>27, <1>28, <1>29, <1>30, <1>31, <1>32, <1>33, <1>34, <1>35, <1>36,
     <1>37, <1>38, <1>39, <1>40
  DEF Begin, Step, WriteStep, InsertStep, SetStep, WalkStep, CopyStep

\* The own steps of a walk.
LEMMA WalkKept ==
  ASSUME NInv, ~BlindFind, ~LateCount, NEW t \in Threads, Begin(t) \/ Step(t), Noted
  PROVE  WalkAt(t)'
<1> SUFFICES ASSUME pc'[t] \in {"level", "bucket", "missed"}, ~absent'[t]
             PROVE  /\ pc'[t] # "missed"
                    /\ \E m \in Levels : m <= lvl'[t] /\ Present(t, m)'
  BY DEF WalkAt, Noted
<1>1. WalksOn(t) /\ OthersStay(t)
  BY WalkGoesOn, OneMoves DEF NInv, LInv
<1>2. /\ pc[t] \in {"start", "level", "bucket"} /\ UNCHANGED <<entry, op, key, item>>
      /\ op[t] \in {"find", "delete", "delete_key_value"} /\ key[t] \in Keys
      /\ pc[t] \in {"level", "bucket"} => lvl[t] \in Levels
  BY <1>1 DEF WalksOn, NInv, LInv, Known, OpAt, LevelAt, Calls
<1>3. \A m \in Levels : Present(t, m)' <=> Present(t, m)
  BY <1>2 DEF Present
<1>4. ~absent[t] /\ \E m \in Levels : Present(t, m)
  <2>1. ~Missing(t)' /\ ~absent[t]
    BY <1>2 DEF Noted
  <2>2. \E m \in Levels : Present(t, m)'
    BY <2>1 DEF Missing, Present
  <2> QED  BY <2>1, <2>2, <1>3
<1>5. CASE pc[t] = "start"
  <2>1. lvl'[t] = first /\ pc'[t] = "level"
    BY <1>1, <1>5 DEF WalksOn
  <2>2. PICK m \in Levels : Present(t, m)
    BY <1>4
  <2>3. m <= first
    <3>1. entry[m][key[t]] # NULL /\ (m > first => entry[m][key[t]] = NULL)
      BY <1>2, <2>2 DEF Present, NInv, TypeInv, SnapInv, Within
    <3>2. m \in Int /\ first \in Int
      BY HashTableAssumption DEF NInv, LInv, Known, Types, Levels
    <3> QED  BY <3>1, <3>2
  <2> QED  BY <1>3, <2>1, <2>2, <2>3
<1>6. CASE pc[t] \in {"level", "bucket"}
  <2>1. PICK m \in Levels : m <= lvl[t] /\ Present(t, m)
    BY <1>4, <1>6 DEF NInv, WalkAt
  <2>2. CASE pc'[t] = "bucket" /\ lvl'[t] = lvl[t]
    BY <1>3, <2>1, <2>2
  <2>3. CASE /\ lvl'[t] = lvl[t] - 1 /\ (pc'[t] = "missed" => lvl[t] = 1)
             /\ (count[lvl[t]] = 0 /\ ~Uncounted(lvl[t], key[t])) \/ ~Hit(t)
    <3>1. m # lvl[t]
      <4> SUFFICES ASSUME Present(t, lvl[t])  PROVE FALSE
        BY <2>1
      <4>1. Hit(t)
        BY DEF Present, Hit
      <4>2. lvl[t] \in Levels /\ key[t] \in Stored(lvl[t]) /\ ~Uncounted(lvl[t], key[t])
        BY <1>2, <1>6, <2>3, <4>1 DEF Present, Stored
      <4>3. Cardinality(Uncounting(lvl[t])) < Cardinality(Stored(lvl[t]))
        BY <4>2, UncountedAreFewer
        DEF FewerUncounted, NInv, TypeInv, SnapInv, Known
      <4>4. \A u \in Threads : pc[u] # "destroyed"
        BY <1>6 DEF NInv, TypeInv, SnapInv, Apart
      <4>5. count[lvl[t]] = Cardinality(Stored(lvl[t])) + Cardinality(Counting(lvl[t]))
                            - Cardinality(Uncounting(lvl[t]))
        BY <4>2, <4>4 DEF NInv, LInv, Known, CountsExact
      <4>6. /\ Cardinality(Stored(lvl[t])) \in Nat /\ Cardinality(Counting(lvl[t])) \in Nat
            /\ Cardinality(Uncounting(lvl[t])) \in Nat
        BY FiniteParts, FS_CardinalityType
      <4>7. count[lvl[t]] # 0
        BY <4>3, <4>5, <4>6
      <4> QED  BY <2>3, <4>1, <4>7
    <3>2. m <= lvl[t] - 1 /\ lvl[t] # 1
      BY <1>2, <1>6, <2>1, <3>1, HashTableAssumption DEF Levels
    <3> QED  BY <1>3, <2>1, <2>3, <3>2
  <2> QED  BY <1>1, <1>6, <2>2, <2>3 DEF WalksOn
<1> QED  BY <1>2, <1>5, <1>6

\* While another thread moves: what was there and is there has not been elsewhere.
LEMMA OthersWalkKept ==
  ASSUME NInv, LInv', NEW t \in Threads, Begin(t) \/ Step(t), Noted,
         NEW u \in Threads, u # t
  PROVE  WalkAt(u)'
<1>1. /\ pc'[u] = pc[u] /\ op'[u] = op[u] /\ lvl'[u] = lvl[u]
      /\ key'[u] = key[u] /\ item'[u] = item[u]
  BY OneMoves, OthersKeepLocals DEF OthersStay, NInv, TypeInv, SnapInv
<1>2. CASE pc[u] = "missed"
  <2>1. absent[u] /\ op[u] \in {"find", "delete", "delete_key_value"}
    BY <1>2 DEF NInv, WalkAt
  <2> QED  BY <1>1, <1>2, <2>1 DEF WalkAt, Noted
<1>3. CASE pc[u] \in {"level", "bucket"} /\ ~absent'[u]
  <2>1. op[u] \in {"find", "delete", "delete_key_value"} /\ key[u] \in Keys
    BY <1>3 DEF NInv, LInv, Known, OpAt, Calls
  <2>2. ~absent[u] /\ ~Missing(u)'
    BY <1>1, <1>3, <2>1 DEF Noted
  <2>3. PICK m \in Levels : m <= lvl[u] /\ Present(u, m)
    BY <1>3, <2>2 DEF NInv, WalkAt
  <2>4. PICK n \in Levels : Present(u, n)'
    BY <2>2 DEF Missing, Present
  <2>5. m = n
    <3> SUFFICES ASSUME m # n  PROVE FALSE
      OBVIOUS
    <3>1. entry[m][key[u]] # NULL /\ entry'[n][key[u]] # NULL
      BY <1>1, <2>3, <2>4 DEF Present
    <3>2. entry[n][key[u]] = NULL /\ entry'[m][key[u]] = NULL
      BY <2>1, <3>1 DEF NInv, LInv, OneLevel
    <3>3. pc[t] = "put"
      BY <2>1, <3>1, <3>2, PutsOneKey DEF PutsOne, NInv
    <3>4. pc[t] = "bucket"
      BY <2>1, <3>1, <3>2, ItemsAreTaken DEF TakesOne, NInv
    <3> QED  BY <3>3, <3>4
  <2> QED  BY <1>1, <1>3, <2>3, <2>4, <2>5 DEF WalkAt
<1>4. CASE pc[u] \in {"level", "bucket"} /\ absent'[u]
  BY <1>1, <1>4 DEF WalkAt
<1> QED  BY <1>1, <1>2, <1>3, <1>4 DEF WalkAt

LEMMA InitNInv == Init => NInv
  BY InitLInv, InitTypeInv DEF Init, NInv, WalkAt

LEMMA NextNInv ==
  ~LateRaise /\ ~LateCount /\ ~BlindFind => (NInv /\ [Next]_vars => NInv')
<1> SUFFICES ASSUME ~LateRaise, ~LateCount, ~BlindFind, NInv, [Next]_vars
             PROVE  NInv'
  OBVIOUS
<1>1. LInv' /\ TypeInv'
  BY NextLInv, NextTypeInv DEF NInv
<1>2. ASSUME NEW t \in Threads, Begin(t) \/ Step(t), Noted
      PROVE  NInv'
  BY <1>1, <1>2, WalkKept, OthersWalkKept DEF NInv
<1>3. CASE Destroy
  BY <1>1, <1>3 DEF Destroy, NInv, WalkAt
<1>4. CASE UNCHANGED vars
  <2>1. UNCHANGED <<entry, pc, op, key, item, lvl, absent, top>>
    BY <1>4 DEF vars, levels, call
  <2> QED  BY <1>1, <2>1 DEF NInv, WalkAt, Present
<1> QED
  BY <1>2, <1>3, <1>4 DEF Next

\* find, delete and remove do not miss a key that was in the table all the while: a level
\* that is passed over does not have the key, unless a set_value has put it there and not
\* counted it yet, which the hypothesis on LateCount leaves out; no key moves from one
\* level to another without being absent in between, and a level that is put in front is
\* empty (clds_hash_table_find, clds_hash_table_delete, clds_hash_table_remove).
THEOREM NotFoundIsJustified ==
  ~LateRaise /\ ~LateCount /\ ~BlindFind => (Spec => []NotFoundJustified)
<1> SUFFICES ASSUME ~LateRaise, ~LateCount, ~BlindFind
             PROVE  Spec => []NotFoundJustified
  OBVIOUS
<1>1. NInv => NotFoundJustified
  BY DEF NInv, WalkAt, NotFoundJustified
<1>2. NInv /\ [Next]_vars => NInv'
  BY NextNInv
<1> QED
  BY <1>1, <1>2, InitNInv, PTL DEF Spec

-----------------------------------------------------------------------------
(* The levels as one map *)

\* What the table has for a key, in whichever level it is.
Content(k) == {entry[l][k] : l \in Levels} \ {NULL}

\* Only a write of the key changes what the table has for it: insert where there was
\* nothing, set_value whatever there was, a delete what was there; and destroy.
ChangesTable ==
    \A k \in Keys : Content(k)' # Content(k) =>
        \/ \A t \in Threads : pc'[t] = "destroyed"
        \/ \E t \in Threads :
              /\ key[t] = k
              /\ \/ op[t] = "insert" /\ Content(k) = {} /\ Content(k)' = {t}
                 \/ op[t] = "set_value" /\ Content(k)' = {t}
                 \/ /\ op[t] = "delete" \/ (op[t] = "delete_key_value" /\ Content(k) = {item[t]})
                    /\ Content(k) # {} /\ Content(k)' = {}

\* An insert that goes on to return OK has put its item in; one that found its key saw it
\* in the table; and a delete that found something leaves nothing of the key.
CallTakesEffect(t) ==
    \A k \in Keys : key[t] = k =>
        /\ op[t] = "insert" /\ pc[t] = "put" /\ pc'[t] = "unpend" =>
              Content(k) = {} /\ Content(k)' = {t}
        /\ op[t] = "insert" /\ pc[t] = "search" /\ pc'[t] = "unpend" => Content(k) # {}
        /\ pc[t] = "bucket" /\ pc'[t] = "drop" => Content(k) # {} /\ Content(k)' = {}

\* Item i, or nothing, takes the place of what level l has for key k.
Replaces(l, k, i) == entry' = [entry EXCEPT ![l][k] = i]

\* What a step of t may do to the table.
Writes(t) ==
    \/ pc[t] = "put" /\ op[t] = "insert" /\ entry[top[t]][key[t]] = NULL
       /\ Replaces(top[t], key[t], t)
    \/ pc[t] = "put" /\ op[t] = "set_value" /\ Replaces(top[t], key[t], t)
    \/ pc[t] = "set_lower" /\ entry[lvl[t]][key[t]] # NULL /\ Replaces(lvl[t], key[t], t)
    \/ /\ pc[t] = "bucket" /\ op[t] # "find" /\ Hit(t)
       /\ Replaces(lvl[t], key[t], NULL)

LEMMA StepWrites ==
  ASSUME NEW t \in Threads, Begin(t) \/ Step(t)
  PROVE  UNCHANGED entry \/ Writes(t)
<1>1. CASE PutInsert(t)
  BY <1>1 DEF PutInsert, Writes, Replaces
<1>2. CASE PutSet(t)
  BY <1>2 DEF PutSet, Goto, Writes, Replaces
<1>3. CASE SetLower(t)
  BY <1>3 DEF SetLower, Goto, Writes, Replaces
<1>4. CASE DeleteHits(t)
  BY <1>4 DEF DeleteHits, Goto, Writes, Replaces
<1>5. CASE ~(PutInsert(t) \/ PutSet(t) \/ SetLower(t) \/ DeleteHits(t))
  <2>1. UNCHANGED entry
    BY <1>5 DEF Begin, Step, WriteStep, InsertStep, SetStep, WalkStep, CopyStep, WriteStart,
         DeleteStart, FindStart, SnapshotStart, ReadFirst, HasRoom, IsFull, Grow, GrowLoses,
         RaisePending, WaitLower, LowerPending, WriteEnd, BucketList, ListFails, Publish, PutFails,
         SearchLower, CountInsert, Uncount, SetFind, SetWalked, CountSet, WalkStart, WalkLevel,
         WalkMisses, WalkMissed, FindHits, DeleteFails, DropCount, SnapshotSum, SnapshotAllocate,
         SnapshotCopy, SnapshotCopied, SnapshotEnd, Search, levels
  <2> QED  BY <2>1
<1> QED  BY <1>1, <1>2, <1>3, <1>4, <1>5

\* From where an insert goes on to return OK, or to return that the key is there; from
\* where a delete does that found something.
LEMMA StepEnds ==
  ASSUME Types, NEW t \in Threads, Step(t)
  PROVE  /\ op[t] = "insert" /\ pc[t] = "put" /\ pc'[t] = "unpend" =>
               entry[top[t]][key[t]] = NULL /\ Replaces(top[t], key[t], t)
         /\ op[t] = "insert" /\ pc[t] = "search" /\ pc'[t] = "unpend" /\ ~BlindFind =>
               lvl[t] > 0 /\ entry[lvl[t]][key[t]] # NULL
         /\ pc[t] = "bucket" /\ pc'[t] = "drop" =>
               entry[lvl[t]][key[t]] # NULL /\ Replaces(lvl[t], key[t], NULL)
<1> USE DEF Types
<1>1. ASSUME op[t] = "insert", pc[t] = "put", pc'[t] = "unpend"
      PROVE  entry[top[t]][key[t]] = NULL /\ Replaces(top[t], key[t], t)
  <2>1. PutInsert(t) \/ PutFails(t) \/ PutSet(t)
    BY <1>1 DEF Step, WriteStep, InsertStep, SetStep, WalkStep, CopyStep, ReadFirst, HasRoom, IsFull,
         Grow, GrowLoses, RaisePending, WaitLower, LowerPending, WriteEnd, BucketList, ListFails,
         Publish, SearchLower, CountInsert, Uncount, SetFind, SetLower, SetWalked, CountSet,
         WalkStart, WalkLevel, WalkMisses, WalkMissed, FindHits, DeleteHits, DeleteFails, DropCount,
         SnapshotSum, SnapshotAllocate, SnapshotCopy, SnapshotCopied, SnapshotEnd, Search, Goto
  <2> QED  BY <1>1, <2>1 DEF PutInsert, PutFails, PutSet, Goto, Replaces
<1>2. ASSUME op[t] = "insert", pc[t] = "search", pc'[t] = "unpend", ~BlindFind
      PROVE  lvl[t] > 0 /\ entry[lvl[t]][key[t]] # NULL
  <2>1. SearchLower(t) \/ CountInsert(t)
    BY <1>2 DEF Step, WriteStep, InsertStep, SetStep, WalkStep, CopyStep, ReadFirst, HasRoom, IsFull,
         Grow, GrowLoses, RaisePending, WaitLower, LowerPending, WriteEnd, BucketList, ListFails,
         Publish, PutFails, PutInsert, PutSet, Uncount, SetFind, SetLower, SetWalked, CountSet,
         WalkStart, WalkLevel, WalkMisses, WalkMissed, FindHits, DeleteHits, DeleteFails, DropCount,
         SnapshotSum, SnapshotAllocate, SnapshotCopy, SnapshotCopied, SnapshotEnd, Search, Goto
  <2>2. SearchLower(t)
    BY <1>2, <2>1 DEF CountInsert, Goto
  <2> QED  BY <1>2, <2>2 DEF SearchLower, Search, Answers, Goto
<1>3. ASSUME pc[t] = "bucket", pc'[t] = "drop"
      PROVE  entry[lvl[t]][key[t]] # NULL /\ Replaces(lvl[t], key[t], NULL)
  <2>1. WalkMisses(t) \/ FindHits(t) \/ DeleteHits(t) \/ DeleteFails(t)
    BY <1>3 DEF Step, WriteStep, InsertStep, SetStep, WalkStep, CopyStep, ReadFirst, HasRoom, IsFull,
         Grow, GrowLoses, RaisePending, WaitLower, LowerPending, WriteEnd, BucketList, ListFails,
         Publish, PutFails, PutInsert, PutSet, SearchLower, CountInsert, Uncount, SetFind, SetLower,
         SetWalked, CountSet, WalkStart, WalkLevel, WalkMissed, DropCount,
         SnapshotSum, SnapshotAllocate, SnapshotCopy, SnapshotCopied, SnapshotEnd, Search, Goto
  <2>2. DeleteHits(t)
    BY <1>3, <2>1 DEF WalkMisses, FindHits, DeleteFails, Goto, Below
  <2> QED  BY <2>2 DEF DeleteHits, Hit, Replaces
<1> QED  BY <1>1, <1>2, <1>3

\* With a key in one level at most, a replacement there is a replacement in the table.
LEMMA ContentAfter ==
  ASSUME LInv, OneLevel', NEW l \in Levels, NEW k \in Keys, NEW i, Replaces(l, k, i)
  PROVE  /\ \A j \in Keys \ {k} : Content(j)' = Content(j)
         /\ i # NULL => Content(k)' = {i}
         /\ entry[l][k] # NULL => Content(k) = {entry[l][k]} /\ (i = NULL => Content(k)' = {})
         /\ entry[l][k] = NULL /\ i # NULL => Content(k) = {}
<1>1. entry \in [Levels -> [Keys -> Makers \cup {NULL}]] /\ OneLevel
  BY DEF LInv, Known, Types
<1>2. /\ \A m \in Levels, j \in Keys : entry'[m][j] = IF m = l /\ j = k THEN i ELSE entry[m][j]
  BY <1>1 DEF Replaces
<1>3. \A j \in Keys \ {k} : Content(j)' = Content(j)
  BY <1>2 DEF Content
<1>4. i # NULL => \A m \in Levels \ {l} : entry[m][k] = NULL
  <2>1. ASSUME i # NULL, NEW m \in Levels \ {l}  PROVE entry[m][k] = NULL
    <3>1. entry'[l][k] # NULL /\ entry'[m][k] = entry[m][k]
      BY <1>2, <2>1
    <3> QED  BY <3>1 DEF OneLevel
  <2> QED  BY <2>1
<1>5. i # NULL => Content(k)' = {i}
  BY <1>2, <1>4 DEF Content
<1>6. entry[l][k] # NULL => \A m \in Levels \ {l} : entry[m][k] = NULL
  BY <1>1 DEF OneLevel
<1>7. entry[l][k] # NULL => Content(k) = {entry[l][k]} /\ (i = NULL => Content(k)' = {})
  BY <1>2, <1>6 DEF Content
<1>8. entry[l][k] = NULL /\ i # NULL => Content(k) = {}
  BY <1>4 DEF Content
<1> QED  BY <1>3, <1>5, <1>7, <1>8

LEMMA StepChanges ==
  ASSUME LInv, LInv', NEW t \in Threads, Begin(t) \/ Step(t)
  PROVE  ChangesTable
<1>1. Types /\ OpAt /\ LevelAt /\ NULL \notin Threads
  BY HashTableAssumption DEF LInv, Known
<1>2. CASE UNCHANGED entry
  BY <1>2 DEF ChangesTable, Content
<1>3. CASE pc[t] = "put" /\ op[t] = "insert" /\ entry[top[t]][key[t]] = NULL
           /\ Replaces(top[t], key[t], t)
  <2>1. PICK k \in Keys, l \in Levels : k = key[t] /\ l = top[t]
    BY <1>1, <1>3 DEF OpAt, LevelAt, Calls
  <2>2. /\ \A j \in Keys \ {k} : Content(j)' = Content(j)
        /\ Content(k) = {} /\ Content(k)' = {t}
    BY <1>1, <1>3, <2>1, ContentAfter DEF LInv
  <2> QED  BY <1>3, <2>1, <2>2 DEF ChangesTable
<1>4. CASE \/ pc[t] = "put" /\ op[t] = "set_value" /\ Replaces(top[t], key[t], t)
           \/ pc[t] = "set_lower" /\ Replaces(lvl[t], key[t], t)
  <2>1. op[t] = "set_value"
    BY <1>1, <1>4 DEF OpAt
  <2>2. PICK k \in Keys, l \in Levels : k = key[t] /\ Replaces(l, k, t)
    BY <1>1, <1>4, <2>1 DEF OpAt, LevelAt, Calls
  <2>3. /\ \A j \in Keys \ {k} : Content(j)' = Content(j)
        /\ Content(k)' = {t}
    BY <1>1, <2>2, ContentAfter DEF LInv
  <2> QED  BY <2>1, <2>2, <2>3 DEF ChangesTable
<1>5. CASE pc[t] = "bucket" /\ op[t] # "find" /\ Hit(t) /\ Replaces(lvl[t], key[t], NULL)
  <2>1. op[t] \in {"delete", "delete_key_value"}
    BY <1>1, <1>5 DEF OpAt
  <2>2. PICK k \in Keys, l \in Levels : k = key[t] /\ l = lvl[t]
    BY <1>1, <1>5, <2>1 DEF OpAt, LevelAt, Calls
  <2>3. entry[l][k] # NULL /\ (op[t] = "delete_key_value" => entry[l][k] = item[t])
    BY <1>5, <2>2 DEF Hit
  <2>4. Replaces(l, k, NULL)
    BY <1>5, <2>2
  <2>5. /\ \A j \in Keys \ {k} : Content(j)' = Content(j)
        /\ Content(k) = {entry[l][k]} /\ Content(k)' = {}
    BY <2>3, <2>4, ContentAfter DEF LInv
  <2>6. (op[t] = "delete" \/ (op[t] = "delete_key_value" /\ Content(k) = {item[t]})) /\ Content(k) # {}
    BY <2>1, <2>3, <2>5
  <2> QED  BY <2>2, <2>5, <2>6 DEF ChangesTable
<1> QED  BY <1>2, <1>3, <1>4, <1>5, StepWrites DEF Writes

LEMMA StepTakesEffect ==
  ASSUME ~BlindFind, LInv, LInv', NEW t \in Threads, Step(t)
  PROVE  CallTakesEffect(t)
<1>1. Types /\ LevelAt /\ NULL \notin Threads
  BY HashTableAssumption DEF LInv, Known
<1> SUFFICES ASSUME NEW k \in Keys, key[t] = k
             PROVE  /\ op[t] = "insert" /\ pc[t] = "put" /\ pc'[t] = "unpend" =>
                          Content(k) = {} /\ Content(k)' = {t}
                    /\ op[t] = "insert" /\ pc[t] = "search" /\ pc'[t] = "unpend" => Content(k) # {}
                    /\ pc[t] = "bucket" /\ pc'[t] = "drop" => Content(k) # {} /\ Content(k)' = {}
  BY DEF CallTakesEffect
<1>2. ASSUME op[t] = "insert", pc[t] = "put", pc'[t] = "unpend"
      PROVE  Content(k) = {} /\ Content(k)' = {t}
  <2>1. PICK l \in Levels : l = top[t]
    BY <1>1, <1>2 DEF LevelAt
  <2>2. entry[l][k] = NULL /\ Replaces(l, k, t)
    BY <1>1, <1>2, <2>1, StepEnds
  <2> QED  BY <1>1, <2>2, ContentAfter DEF LInv
<1>3. ASSUME op[t] = "insert", pc[t] = "search", pc'[t] = "unpend"
      PROVE  Content(k) # {}
  <2>1. lvl[t] > 0 /\ entry[lvl[t]][k] # NULL
    BY <1>1, <1>3, StepEnds
  <2>2. lvl[t] \in Levels
    BY <1>1, <2>1, HashTableAssumption DEF Types, Levels
  <2> QED  BY <2>1, <2>2 DEF Content
<1>4. ASSUME pc[t] = "bucket", pc'[t] = "drop"
      PROVE  Content(k) # {} /\ Content(k)' = {}
  <2>1. PICK l \in Levels : l = lvl[t]
    BY <1>1, <1>4 DEF LevelAt
  <2>2. entry[l][k] # NULL /\ Replaces(l, k, NULL)
    BY <1>1, <1>4, <2>1, StepEnds
  <2> QED  BY <2>2, ContentAfter DEF LInv
<1> QED  BY <1>2, <1>3, <1>4

LEMMA NextChanges ==
  ~BlindFind =>
      (LInv /\ LInv' /\ [Next]_vars => ChangesTable /\ \A t \in Threads : CallTakesEffect(t))
<1> SUFFICES ASSUME ~BlindFind, LInv, LInv', [Next]_vars
             PROVE  ChangesTable /\ \A t \in Threads : CallTakesEffect(t)
  OBVIOUS
<1>1. Types
  BY DEF LInv, Known
<1>2. ASSUME NEW t \in Threads, Begin(t) \/ Step(t)
      PROVE  ChangesTable /\ \A u \in Threads : CallTakesEffect(u)
  <2>1. \A u \in Threads \ {t} : pc'[u] = pc[u]
    BY <1>2, OneMoves DEF OthersStay, LInv
  <2>2. \A u \in Threads \ {t} : CallTakesEffect(u)
    BY <2>1 DEF CallTakesEffect
  <2>3. CallTakesEffect(t)
    <3>1. CASE Step(t)
      BY <3>1, StepTakesEffect
    <3>2. CASE Begin(t)
      <4>1. pc[t] = "idle"
        BY <3>2 DEF Begin, WriteStart, DeleteStart, FindStart, SnapshotStart, Call, Goto
      <4> QED  BY <4>1 DEF CallTakesEffect
    <3> QED  BY <1>2, <3>1, <3>2
  <2> QED  BY <1>2, <2>2, <2>3, StepChanges
<1>3. CASE Destroy
  <2>1. \A t \in Threads : pc[t] = "idle" /\ pc'[t] = "destroyed"
    BY <1>3 DEF Destroy
  <2> QED  BY <2>1 DEF ChangesTable, CallTakesEffect
<1>4. CASE UNCHANGED vars
  BY <1>4 DEF vars, levels, ChangesTable, CallTakesEffect, Content
<1> QED  BY <1>2, <1>3, <1>4 DEF Next

\* The table is one map, although its keys are spread over levels that grow in number while
\* writes go on: an insert that returns OK finds nothing of its key in any level at the
\* instant it puts its item in, what a set_value puts in is then all there is of the key,
\* and a delete leaves nothing of it behind (clds_hash_table_insert,
\* clds_hash_table_set_value, clds_hash_table_delete, clds_hash_table_remove).
THEOREM TableIsAMap ==
  ~LateRaise /\ ~BlindFind =>
      (Spec => [][ChangesTable /\ \A t \in Threads : CallTakesEffect(t)]_vars)
<1> SUFFICES ASSUME ~LateRaise, ~BlindFind
             PROVE  Spec => [][ChangesTable /\ \A t \in Threads : CallTakesEffect(t)]_vars
  OBVIOUS
<1>1. LInv /\ [Next]_vars => LInv'
  BY NextLInv
<1>2. LInv /\ LInv' /\ [Next]_vars => ChangesTable /\ \A t \in Threads : CallTakesEffect(t)
  BY NextChanges
<1> QED  BY <1>1, <1>2, InitLInv, PTL DEF Spec
=============================================================================
