-------------------------- MODULE WriteLock_proofs --------------------------
(***************************************************************************)
(* Proofs about WriteLock for any number of writers and lockers and any    *)
(* number of lock operations, with and without spurious wakes.             *)
(*                                                                         *)
(* Exclusion is not inductive: that a writer reads locked = 0 excludes a   *)
(* holder only because locked counts the holders.  The inductive invariant *)
(* adds CountersAgree.  For NoMissedWake it adds that a thread only waits  *)
(* for a value other than zero.                                            *)
(***************************************************************************)
EXTENDS WriteLock, FiniteSetTheorems, TLAPS

\* locked counts a finite set of lockers and pending a finite set of writers.
LEMMA CountedFinite ==
    /\ IsFiniteSet(CountedWriters) /\ Cardinality(CountedWriters) \in Nat
    /\ IsFiniteSet(CountedLockers) /\ Cardinality(CountedLockers) \in Nat
<1>1. CountedWriters \subseteq Writers /\ CountedLockers \subseteq Lockers
  BY DEF CountedWriters, CountedLockers
<1>2. IsFiniteSet(CountedWriters) /\ IsFiniteSet(CountedLockers)
  BY <1>1, FS_Subset, WriteLockAssumption DEF WriteLockAssumption
<1> QED
  BY <1>2, FS_CardinalityType

\* A counter is zero exactly when nobody is counted.
LEMMA ZeroMeansNobody ==
    ASSUME CountersAgree
    PROVE  /\ pending = 0 <=> CountedWriters = {}
           /\ locked = 0 <=> CountedLockers = {}
BY CountedFinite, FS_EmptySet DEF CountersAgree

\* Adding or removing an element of a finite set changes its size by one.
LEMMA OneMore ==
    ASSUME NEW S, IsFiniteSet(S), NEW x
    PROVE  /\ x \notin S => Cardinality(S \cup {x}) = Cardinality(S) + 1
           /\ x \in S => /\ Cardinality(S \cup {x}) = Cardinality(S)
                         /\ Cardinality(S \ {x}) = Cardinality(S) - 1
           /\ x \notin S => Cardinality(S \ {x}) = Cardinality(S)
<1>1. x \in S => S \cup {x} = S
  OBVIOUS
<1>2. x \notin S => S \ {x} = S
  OBVIOUS
<1> QED
  BY <1>1, <1>2, FS_AddElement, FS_RemoveElement

\* The writers counted after one writer has moved.
LEMMA WriterMoves ==
    ASSUME InRange, NEW w \in Writers, NEW from, NEW to, WGoto(w, from, to)
    PROVE  /\ w \in CountedWriters <=> from \in {"read", "back_off", "writing"}
           /\ CountedWriters' = IF to \in {"read", "back_off", "writing"}
                                THEN CountedWriters \cup {w} ELSE CountedWriters \ {w}
<1>1. \A v \in Writers : wpc'[v] = IF v = w THEN to ELSE wpc[v]
  BY DEF WGoto, InRange
<1> QED
  BY <1>1 DEF WGoto, CountedWriters

\* The lockers counted after one locker has moved.
LEMMA LockerMoves ==
    ASSUME InRange, NEW l \in Lockers, NEW from, NEW to, LGoto(l, from, to)
    PROVE  /\ l \in CountedLockers <=> from \in {"read", "wait", "asleep", "holding"}
           /\ CountedLockers' = IF to \in {"read", "wait", "asleep", "holding"}
                                THEN CountedLockers \cup {l} ELSE CountedLockers \ {l}
<1>1. \A k \in Lockers : lpc'[k] = IF k = l THEN to ELSE lpc[k]
  BY DEF LGoto, InRange
<1> QED
  BY <1>1 DEF LGoto, CountedLockers

\* A wake moves sleepers between places that count the same.
LEMMA WakeCountsNobody ==
    ASSUME InRange
    PROVE  /\ WakeLockers => CountedLockers' = CountedLockers
           /\ WakeWriters => CountedWriters' = CountedWriters
BY DEF InRange, WakeLockers, WakeWriters, CountedLockers, CountedWriters

\* Every step keeps every variable in its range.
LEMMA TypeStep == InRange /\ [Next]_vars => InRange'
<1> SUFFICES ASSUME InRange, [Next]_vars PROVE InRange'
  OBVIOUS
<1> USE DEF InRange, WPCs, LPCs, WGoto, LGoto, WakeLockers, WakeWriters, writers, lockers
<1>1. ASSUME NEW w \in Writers, BeginIncrement(w, "idle") \/ BeginIncrement(w, "retry")
      PROVE  InRange'
  BY <1>1 DEF BeginIncrement
<1>2. ASSUME NEW w \in Writers, BeginRead(w) PROVE InRange'
  BY <1>2 DEF BeginRead
<1>3. ASSUME NEW w \in Writers, BackOff(w) \/ EndDecrement(w) PROVE InRange'
  BY <1>3 DEF BackOff, EndDecrement
<1>4. ASSUME NEW w \in Writers, BackOffWake(w) \/ EndWake(w) PROVE InRange'
  BY <1>4 DEF BackOffWake, EndWake
<1>5. ASSUME NEW w \in Writers, WaitForUnlock(w) \/ SpuriousWriter(w) PROVE InRange'
  BY <1>5 DEF WaitForUnlock, SpuriousWriter
<1>6. ASSUME NEW l \in Lockers, LockIncrement(l) PROVE InRange'
  BY <1>6 DEF LockIncrement
<1>7. ASSUME NEW l \in Lockers, LockRead(l) PROVE InRange'
  BY <1>7 DEF LockRead
<1>8. ASSUME NEW l \in Lockers, WaitForWrites(l) \/ SpuriousLocker(l) PROVE InRange'
  BY <1>8 DEF WaitForWrites, SpuriousLocker
<1>9. ASSUME NEW l \in Lockers, UnlockDecrement(l) \/ UnlockWake(l) PROVE InRange'
  BY <1>9 DEF UnlockDecrement, UnlockWake
<1>10. CASE UNCHANGED vars
  BY <1>10 DEF vars
<1> QED
  BY <1>1, <1>2, <1>3, <1>4, <1>5, <1>6, <1>7, <1>8, <1>9, <1>10
     DEF Next, WriterStep, LockerStep

\* Every step keeps each counter equal to the number of threads it stands for.
LEMMA CountersStep == InRange /\ CountersAgree /\ [Next]_vars => CountersAgree'
<1> SUFFICES ASSUME InRange, CountersAgree, [Next]_vars PROVE CountersAgree'
  OBVIOUS
<1> USE DEF CountersAgree
<1>w. UNCHANGED wpc => CountedWriters' = CountedWriters
  BY DEF CountedWriters
<1>l. UNCHANGED lpc => CountedLockers' = CountedLockers
  BY DEF CountedLockers
<1>1. ASSUME NEW w \in Writers, NEW from \in {"idle", "retry"}, BeginIncrement(w, from)
      PROVE  CountersAgree'
  <2>1. w \notin CountedWriters /\ CountedWriters' = CountedWriters \cup {w}
    BY <1>1, WriterMoves DEF BeginIncrement
  <2> QED
    BY <1>1, <1>l, <2>1, CountedFinite, OneMore DEF BeginIncrement, lockers
<1>2. ASSUME NEW w \in Writers, BeginRead(w) PROVE CountersAgree'
  <2>1. w \in CountedWriters /\ CountedWriters' = CountedWriters \cup {w}
    BY <1>2, WriterMoves DEF BeginRead
  <2> QED
    BY <1>2, <1>l, <2>1, CountedFinite, OneMore DEF BeginRead, lockers
<1>3. ASSUME NEW w \in Writers, BackOff(w) \/ EndDecrement(w) PROVE CountersAgree'
  <2>1. w \in CountedWriters /\ CountedWriters' = CountedWriters \ {w}
    BY <1>3, WriterMoves DEF BackOff, EndDecrement
  <2> QED
    BY <1>3, <1>l, <2>1, CountedFinite, OneMore DEF BackOff, EndDecrement, lockers
<1>4. ASSUME NEW w \in Writers, BackOffWake(w) \/ EndWake(w) PROVE CountersAgree'
  <2>1. w \notin CountedWriters /\ CountedWriters' = CountedWriters \ {w}
    BY <1>4, WriterMoves DEF BackOffWake, EndWake
  <2> QED
    BY <1>4, <2>1, WakeCountsNobody DEF BackOffWake, EndWake
<1>5. ASSUME NEW w \in Writers, WaitForUnlock(w) \/ SpuriousWriter(w) PROVE CountersAgree'
  <2>1. w \notin CountedWriters /\ CountedWriters' = CountedWriters \ {w}
    BY <1>5, WriterMoves DEF WaitForUnlock, SpuriousWriter
  <2> QED
    BY <1>5, <1>l, <2>1 DEF WaitForUnlock, SpuriousWriter, lockers
<1>6. ASSUME NEW l \in Lockers, LockIncrement(l) PROVE CountersAgree'
  <2>1. l \notin CountedLockers /\ CountedLockers' = CountedLockers \cup {l}
    BY <1>6, LockerMoves DEF LockIncrement
  <2> QED
    BY <1>6, <1>w, <2>1, CountedFinite, OneMore DEF LockIncrement, writers
<1>7. ASSUME NEW l \in Lockers, LockRead(l) \/ WaitForWrites(l) \/ SpuriousLocker(l)
      PROVE  CountersAgree'
  <2>1. l \in CountedLockers /\ CountedLockers' = CountedLockers \cup {l}
    BY <1>7, LockerMoves DEF LockRead, WaitForWrites, SpuriousLocker
  <2> QED
    BY <1>7, <1>w, <2>1, CountedFinite, OneMore
       DEF LockRead, WaitForWrites, SpuriousLocker, writers
<1>8. ASSUME NEW l \in Lockers, UnlockDecrement(l) PROVE CountersAgree'
  <2>1. l \in CountedLockers /\ CountedLockers' = CountedLockers \ {l}
    BY <1>8, LockerMoves DEF UnlockDecrement
  <2> QED
    BY <1>8, <1>w, <2>1, CountedFinite, OneMore DEF UnlockDecrement, writers
<1>9. ASSUME NEW l \in Lockers, UnlockWake(l) PROVE CountersAgree'
  <2>1. l \notin CountedLockers /\ CountedLockers' = CountedLockers \ {l}
    BY <1>9, LockerMoves DEF UnlockWake
  <2> QED
    BY <1>9, <2>1, WakeCountsNobody DEF UnlockWake
<1>10. CASE UNCHANGED vars
  BY <1>10, <1>w, <1>l DEF vars, writers, lockers
<1> QED
  BY <1>1, <1>2, <1>3, <1>4, <1>5, <1>6, <1>7, <1>8, <1>9, <1>10
     DEF Next, WriterStep, LockerStep

\* A writer that reads locked = 0 sees that nobody holds the lock, and a locker
\* that reads pending = 0 that nobody writes; no other step starts either.
LEMMA ExclusionStep ==
    InRange /\ CountersAgree /\ Exclusion /\ [Next]_vars => Exclusion'
<1> SUFFICES ASSUME InRange, CountersAgree, Exclusion, [Next]_vars,
                    NEW v \in Writers, NEW k \in Lockers,
                    wpc'[v] = "writing", lpc'[k] = "holding"
             PROVE  FALSE
  BY DEF Exclusion
<1>1. wpc[v] # "writing" \/ lpc[k] # "holding"
  BY DEF Exclusion
<1> USE DEF WGoto, LGoto, InRange, writers, lockers
<1>2. ASSUME NEW w \in Writers, BeginRead(w) PROVE FALSE
  <2>1. lpc[k] = "holding" /\ wpc[v] # "writing"
    BY <1>1, <1>2 DEF BeginRead
  <2>2. locked = 0
    BY <1>2, <2>1 DEF BeginRead
  <2> QED
    BY <2>1, <2>2, ZeroMeansNobody DEF CountedLockers
<1>3. ASSUME NEW l \in Lockers, LockRead(l) PROVE FALSE
  <2>1. wpc[v] = "writing" /\ lpc[k] # "holding"
    BY <1>1, <1>3 DEF LockRead
  <2>2. pending = 0
    BY <1>3, <2>1 DEF LockRead
  <2> QED
    BY <2>1, <2>2, ZeroMeansNobody DEF CountedWriters
<1>4. ASSUME NEW w \in Writers, NEW from, BeginIncrement(w, from) PROVE FALSE
  BY <1>1, <1>4 DEF BeginIncrement
<1>5. ASSUME NEW w \in Writers,
             \/ BackOff(w) \/ EndDecrement(w) \/ WaitForUnlock(w) \/ SpuriousWriter(w)
      PROVE  FALSE
  BY <1>1, <1>5 DEF BackOff, EndDecrement, WaitForUnlock, SpuriousWriter
<1>6. ASSUME NEW w \in Writers, BackOffWake(w) \/ EndWake(w) PROVE FALSE
  BY <1>1, <1>6 DEF BackOffWake, EndWake, WakeLockers
<1>7. ASSUME NEW l \in Lockers,
             \/ LockIncrement(l) \/ WaitForWrites(l) \/ SpuriousLocker(l) \/ UnlockDecrement(l)
      PROVE  FALSE
  BY <1>1, <1>7 DEF LockIncrement, WaitForWrites, SpuriousLocker, UnlockDecrement
<1>8. ASSUME NEW l \in Lockers, UnlockWake(l) PROVE FALSE
  BY <1>1, <1>8 DEF UnlockWake, WakeWriters
<1>9. CASE UNCHANGED vars
  BY <1>1, <1>9 DEF vars
<1> QED
  BY <1>2, <1>3, <1>4, <1>5, <1>6, <1>7, <1>8, <1>9 DEF Next, WriterStep, LockerStep

\* A thread waits only for a value that was not zero when it read it.
SawTaken ==
    /\ \A w \in Writers : wpc[w] \in {"back_off", "wake_lockers", "wait"} => wseen[w] # 0
    /\ \A l \in Lockers : lpc[l] = "wait" => lseen[l] # 0

\* The inductive invariant.
IInv == InRange /\ CountersAgree /\ Exclusion /\ SawTaken /\ NoMissedWake

\* A thread goes to wait right after reading a value other than zero.
LEMMA SawStep == InRange /\ SawTaken /\ [Next]_vars => SawTaken'
<1> SUFFICES ASSUME InRange, SawTaken, [Next]_vars PROVE SawTaken'
  OBVIOUS
<1> USE DEF SawTaken, InRange, WGoto, LGoto, writers, lockers
<1>1. ASSUME NEW w \in Writers, NEW from, BeginIncrement(w, from) PROVE SawTaken'
  BY <1>1 DEF BeginIncrement
<1>2. ASSUME NEW w \in Writers, BeginRead(w) PROVE SawTaken'
  BY <1>2 DEF BeginRead
<1>3. ASSUME NEW w \in Writers, BackOff(w) \/ EndDecrement(w) PROVE SawTaken'
  BY <1>3 DEF BackOff, EndDecrement
<1>4. ASSUME NEW w \in Writers, BackOffWake(w) \/ EndWake(w) PROVE SawTaken'
  BY <1>4 DEF BackOffWake, EndWake, WakeLockers
<1>5. ASSUME NEW w \in Writers, WaitForUnlock(w) \/ SpuriousWriter(w) PROVE SawTaken'
  BY <1>5 DEF WaitForUnlock, SpuriousWriter
<1>6. ASSUME NEW l \in Lockers, LockIncrement(l) \/ UnlockDecrement(l) PROVE SawTaken'
  BY <1>6 DEF LockIncrement, UnlockDecrement
<1>7. ASSUME NEW l \in Lockers, LockRead(l) PROVE SawTaken'
  BY <1>7 DEF LockRead
<1>8. ASSUME NEW l \in Lockers, WaitForWrites(l) \/ SpuriousLocker(l) PROVE SawTaken'
  BY <1>8 DEF WaitForWrites, SpuriousLocker
<1>9. ASSUME NEW l \in Lockers, UnlockWake(l) PROVE SawTaken'
  BY <1>9 DEF UnlockWake, WakeWriters
<1>10. CASE UNCHANGED vars
  BY <1>10 DEF vars
<1> QED
  BY <1>1, <1>2, <1>3, <1>4, <1>5, <1>6, <1>7, <1>8, <1>9, <1>10
     DEF Next, WriterStep, LockerStep

\* Going to sleep compares the word with the value read, and the step that makes
\* a word zero leaves its thread on the way to the wake.
LEMMA WakeStep == TypeOK /\ SawTaken /\ NoMissedWake /\ [Next]_vars => NoMissedWake'
<1> SUFFICES ASSUME TypeOK, SawTaken, NoMissedWake, [Next]_vars PROVE NoMissedWake'
  OBVIOUS
<1> USE DEF SawTaken, NoMissedWake, TypeOK, InRange, WGoto, LGoto, writers, lockers
<1>1. ASSUME NEW w \in Writers, NEW from \in {"idle", "retry"}, BeginIncrement(w, from)
      PROVE  NoMissedWake'
  BY <1>1 DEF BeginIncrement
<1>2. ASSUME NEW w \in Writers, BeginRead(w) PROVE NoMissedWake'
  BY <1>2 DEF BeginRead
<1>3. ASSUME NEW w \in Writers, BackOff(w) \/ EndDecrement(w) PROVE NoMissedWake'
  BY <1>3 DEF BackOff, EndDecrement
<1>4. ASSUME NEW w \in Writers, BackOffWake(w) \/ EndWake(w) PROVE NoMissedWake'
  BY <1>4 DEF BackOffWake, EndWake, WakeLockers
<1>5. ASSUME NEW w \in Writers, WaitForUnlock(w) \/ SpuriousWriter(w) PROVE NoMissedWake'
  BY <1>5 DEF WaitForUnlock, SpuriousWriter
<1>6. ASSUME NEW l \in Lockers, LockIncrement(l) \/ UnlockDecrement(l) PROVE NoMissedWake'
  BY <1>6 DEF LockIncrement, UnlockDecrement
<1>7. ASSUME NEW l \in Lockers, LockRead(l) PROVE NoMissedWake'
  BY <1>7 DEF LockRead
<1>8. ASSUME NEW l \in Lockers, WaitForWrites(l) \/ SpuriousLocker(l) PROVE NoMissedWake'
  BY <1>8 DEF WaitForWrites, SpuriousLocker
<1>9. ASSUME NEW l \in Lockers, UnlockWake(l) PROVE NoMissedWake'
  BY <1>9 DEF UnlockWake, WakeWriters
<1>10. CASE UNCHANGED vars
  BY <1>10 DEF vars
<1> QED
  BY <1>1, <1>2, <1>3, <1>4, <1>5, <1>6, <1>7, <1>8, <1>9, <1>10
     DEF Next, WriterStep, LockerStep

\* The initial state satisfies the inductive invariant.
LEMMA InitIInv == Init => IInv
<1> SUFFICES ASSUME Init PROVE IInv
  OBVIOUS
<1>1. InRange /\ Exclusion /\ SawTaken /\ NoMissedWake
  BY DEF Init, InRange, WPCs, LPCs, Exclusion, SawTaken, NoMissedWake
<1>2. CountedWriters = {} /\ CountedLockers = {}
  BY DEF Init, CountedWriters, CountedLockers
<1>3. CountersAgree
  BY <1>2, FS_EmptySet DEF Init, CountersAgree
<1> QED
  BY <1>1, <1>3 DEF IInv

\* The inductive invariant holds in every reachable state.
LEMMA Inductive == Spec => []IInv
<1>1. IInv /\ [Next]_vars => IInv'
  <2>1. IInv => TypeOK
    BY CountedFinite DEF IInv, CountersAgree, InRange, TypeOK
  <2> QED
    BY <2>1, TypeStep, CountersStep, ExclusionStep, SawStep, WakeStep DEF IInv
<1> QED
  BY InitIInv, <1>1, PTL DEF Spec

\* The counters of check_lock_and_begin_write_operation and internal_lock_writes
\* never go below zero, and every variable stays in its range.
THEOREM TypeCorrect == Spec => []TypeOK
<1>1. IInv => TypeOK
  BY CountedFinite DEF IInv, CountersAgree, InRange, TypeOK
<1> QED
  BY Inductive, <1>1, PTL

\* However many threads use the lock, no write operation of the list or table
\* overlaps a thread that holds it (check_lock_and_begin_write_operation against
\* internal_lock_writes).
THEOREM WritersExcluded == Spec => []Exclusion
<1>1. IInv => Exclusion
  BY DEF IInv
<1> QED
  BY Inductive, <1>1, PTL

\* Back-offs, early returns and spurious wakes never make a counter drift from
\* the number of threads it stands for.
THEOREM CountersExact == Spec => []CountersAgree
<1>1. IInv => CountersAgree
  BY DEF IInv
<1> QED
  BY Inductive, <1>1, PTL

\* No thread sleeps on a word that is zero unless a wake is on its way: neither
\* wait_on_address can miss the wake that ends it.
THEOREM WakesArrive == Spec => []NoMissedWake
<1>1. IInv => NoMissedWake
  BY DEF IInv
<1> QED
  BY Inductive, <1>1, PTL

Writing == {w \in Writers : wpc[w] = "writing"}
Holding == {l \in Lockers : lpc[l] = "holding"}

\* Every step of the lock is a step of the group lock, or none: a write begins
\* where locked is read as 0, the lock is taken where pending is read as 0, and
\* each ends with its decrement.
LEMMA GroupStep == IInv /\ [Next]_vars => [Group!Next]_<<Writing, Holding>>
<1> SUFFICES ASSUME IInv, [Next]_vars
             PROVE  Group!Next \/ (Writing' = Writing /\ Holding' = Holding)
  BY DEF Writing, Holding
<1> USE DEF IInv, InRange, WGoto, LGoto, writers, lockers
<1>w. UNCHANGED wpc => Writing' = Writing
  BY DEF Writing
<1>l. UNCHANGED lpc => Holding' = Holding
  BY DEF Holding
<1>1. ASSUME NEW w \in Writers, BeginRead(w)
      PROVE  Group!Next \/ (Writing' = Writing /\ Holding' = Holding)
  <2>0. Holding' = Holding
    BY <1>1, <1>l DEF BeginRead
  <2>1. CASE locked = 0
    <3>1. Holding = {}
      BY <2>1, ZeroMeansNobody DEF Holding, CountedLockers
    <3>2. w \notin Writing /\ Writing' = Writing \cup {w}
      BY <1>1, <2>1 DEF BeginRead, Writing
    <3> QED
      BY <2>0, <3>1, <3>2 DEF Group!Next, Group!BeginWrite, Writing, Holding
  <2>2. CASE locked # 0
    <3>1. Writing' = Writing
      BY <1>1, <2>2 DEF BeginRead, Writing
    <3> QED
      BY <2>0, <3>1
  <2> QED
    BY <2>1, <2>2
<1>2. ASSUME NEW w \in Writers, EndDecrement(w) PROVE Group!Next
  <2>1. Holding' = Holding
    BY <1>2, <1>l DEF EndDecrement
  <2>2. w \in Writing /\ Writing' = Writing \ {w}
    BY <1>2 DEF EndDecrement, Writing
  <2> QED
    BY <2>1, <2>2 DEF Group!Next, Group!EndWrite, Writing, Holding
<1>3. ASSUME NEW l \in Lockers, LockRead(l)
      PROVE  Group!Next \/ (Writing' = Writing /\ Holding' = Holding)
  <2>0. Writing' = Writing
    BY <1>3, <1>w DEF LockRead
  <2>1. CASE pending = 0
    <3>1. Writing = {}
      BY <2>1, ZeroMeansNobody DEF Writing, CountedWriters
    <3>2. l \notin Holding /\ Holding' = Holding \cup {l}
      BY <1>3, <2>1 DEF LockRead, Holding
    <3> QED
      BY <2>0, <3>1, <3>2 DEF Group!Next, Group!Lock, Writing, Holding
  <2>2. CASE pending # 0
    <3>1. Holding' = Holding
      BY <1>3, <2>2 DEF LockRead, Holding
    <3> QED
      BY <2>0, <3>1
  <2> QED
    BY <2>1, <2>2
<1>4. ASSUME NEW l \in Lockers, UnlockDecrement(l) PROVE Group!Next
  <2>1. Writing' = Writing
    BY <1>4, <1>w DEF UnlockDecrement
  <2>2. l \in Holding /\ Holding' = Holding \ {l}
    BY <1>4 DEF UnlockDecrement, Holding
  <2> QED
    BY <2>1, <2>2 DEF Group!Next, Group!Unlock, Writing, Holding
<1>5. ASSUME NEW w \in Writers,
             \/ BeginIncrement(w, "idle") \/ BeginIncrement(w, "retry") \/ BackOff(w)
             \/ WaitForUnlock(w) \/ SpuriousWriter(w)
      PROVE  Writing' = Writing /\ Holding' = Holding
  <2>1. Writing' = Writing
    BY <1>5 DEF BeginIncrement, BackOff, WaitForUnlock, SpuriousWriter, Writing
  <2> QED
    BY <1>5, <1>l, <2>1 DEF BeginIncrement, BackOff, WaitForUnlock, SpuriousWriter
<1>6. ASSUME NEW w \in Writers, BackOffWake(w) \/ EndWake(w)
      PROVE  Writing' = Writing /\ Holding' = Holding
  BY <1>6 DEF BackOffWake, EndWake, WakeLockers, Writing, Holding
<1>7. ASSUME NEW l \in Lockers,
             LockIncrement(l) \/ WaitForWrites(l) \/ SpuriousLocker(l)
      PROVE  Writing' = Writing /\ Holding' = Holding
  <2>1. Holding' = Holding
    BY <1>7 DEF LockIncrement, WaitForWrites, SpuriousLocker, Holding
  <2> QED
    BY <1>7, <1>w, <2>1 DEF LockIncrement, WaitForWrites, SpuriousLocker
<1>8. ASSUME NEW l \in Lockers, UnlockWake(l)
      PROVE  Writing' = Writing /\ Holding' = Holding
  BY <1>8 DEF UnlockWake, WakeWriters, Writing, Holding
<1>9. CASE UNCHANGED vars
  BY <1>9, <1>w, <1>l DEF vars
<1> QED
  BY <1>1, <1>2, <1>3, <1>4, <1>5, <1>6, <1>7, <1>8, <1>9 DEF Next, WriterStep, LockerStep

\* The counters implement the group lock for any number of threads.
THEOREM LockImplementsGroupLock == Spec => ImplementsGroupLock
<1>1. Init => Group!Init
  BY DEF Init, Group!Init
<1> QED
  BY Inductive, <1>1, GroupStep, PTL
     DEF Spec, ImplementsGroupLock, Group!Spec, Writing, Holding
=============================================================================
