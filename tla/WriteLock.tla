----------------------------- MODULE WriteLock -----------------------------
(***************************************************************************)
(* The lock that freezes a sorted list or a hash table while it is counted *)
(* or copied: the counters locked_for_write and pending_write_operations   *)
(* and the four functions around them, which clds_sorted_list.c (lines 93  *)
(* to 140) and clds_hash_table.c (lines 61 to 107) hold in the same form.  *)
(*                                                                         *)
(* Each interlocked operation, each wait_on_address and each               *)
(* wake_by_address_all is an action.  A wait compares the word with the    *)
(* expected value and goes to sleep in one indivisible step, as the        *)
(* platform promises; only a wake, or a spurious return, ends the sleep.   *)
(***************************************************************************)
EXTENDS Integers, FiniteSets

CONSTANTS
    Writers,      \* threads that insert, delete, remove or set values
    Lockers,      \* threads that call lock_writes (in the hash table: snapshot)
    MaxLocks,     \* bound: how often one locker takes the lock
    Spurious      \* TRUE: wait_on_address may return without a wake

ASSUME WriteLockAssumption ==
    /\ IsFiniteSet(Writers) /\ IsFiniteSet(Lockers)
    /\ MaxLocks \in Nat /\ Spurious \in BOOLEAN

VARIABLES
    locked,       \* locked_for_write
    pending,      \* pending_write_operations
    wpc, wseen,   \* per writer: where it is, the value of locked it read
    lpc, lseen,   \* per locker: where it is, the value of pending it read
    taken         \* per locker: how often it has taken the lock

writers == <<wpc, wseen>>
lockers == <<lpc, lseen, taken>>
vars    == <<locked, pending, writers, lockers>>

WPCs == {"idle", "retry", "read", "back_off", "wake_lockers", "wait", "asleep", "writing", "wake"}
LPCs == {"idle", "read", "wait", "asleep", "holding", "wake"}

Init ==
    /\ locked = 0 /\ pending = 0
    /\ wpc = [w \in Writers |-> "idle"] /\ wseen = [w \in Writers |-> 0]
    /\ lpc = [l \in Lockers |-> "idle"] /\ lseen = [l \in Lockers |-> 0]
    /\ taken = [l \in Lockers |-> 0]

WGoto(w, from, to) == wpc[w] = from /\ wpc' = [wpc EXCEPT ![w] = to]
LGoto(l, from, to) == lpc[l] = from /\ lpc' = [lpc EXCEPT ![l] = to]

\* wake_by_address_all: every sleeper on the word starts its loop again.
WakeLockers == lpc' = [l \in Lockers |-> IF lpc[l] = "asleep" THEN "read" ELSE lpc[l]]
WakeWriters == wpc' = [w \in Writers |-> IF wpc[w] = "asleep" THEN "retry" ELSE wpc[w]]

-----------------------------------------------------------------------------
(* check_lock_and_begin_write_operation *)

\* Mutant: the write is not counted before locked_for_write is read.
BeginUncounted(w, from) ==
    /\ WGoto(w, from, "read")
    /\ UNCHANGED <<locked, pending, wseen, lockers>>

BeginIncrement(w, from) ==
    /\ WGoto(w, from, "read")
    /\ pending' = pending + 1
    /\ UNCHANGED <<locked, wseen, lockers>>

BeginRead(w) ==
    /\ WGoto(w, "read", IF locked = 0 THEN "writing" ELSE "back_off")
    /\ wseen' = [wseen EXCEPT ![w] = locked]
    /\ UNCHANGED <<locked, pending, lockers>>

BackOff(w) ==
    /\ WGoto(w, "back_off", "wake_lockers")
    /\ pending' = pending - 1
    /\ UNCHANGED <<locked, wseen, lockers>>

BackOffWake(w) ==
    /\ WGoto(w, "wake_lockers", "wait")
    /\ WakeLockers
    /\ UNCHANGED <<locked, pending, wseen, lseen, taken>>

WaitForUnlock(w) ==
    /\ WGoto(w, "wait", IF locked = wseen[w] THEN "asleep" ELSE "retry")
    /\ UNCHANGED <<locked, pending, wseen, lockers>>

SpuriousWriter(w) ==
    /\ Spurious /\ WGoto(w, "asleep", "retry")
    /\ UNCHANGED <<locked, pending, wseen, lockers>>

(* end_write_operation *)

EndDecrement(w) ==
    /\ WGoto(w, "writing", "wake")
    /\ pending' = pending - 1
    /\ UNCHANGED <<locked, wseen, lockers>>

\* Mutant: the end of a write wakes nobody.
EndSilently(w) ==
    /\ WGoto(w, "wake", "idle")
    /\ UNCHANGED <<locked, pending, wseen, lockers>>

EndWake(w) ==
    /\ WGoto(w, "wake", "idle")
    /\ WakeLockers
    /\ UNCHANGED <<locked, pending, wseen, lseen, taken>>

(* internal_lock_writes *)

LockIncrement(l) ==
    /\ taken[l] < MaxLocks
    /\ LGoto(l, "idle", "read")
    /\ locked' = locked + 1
    /\ taken' = [taken EXCEPT ![l] = @ + 1]
    /\ UNCHANGED <<pending, lseen, writers>>

\* Mutant: writes that have begun are not waited for.
LockAnyway(l) ==
    /\ LGoto(l, "read", "holding")
    /\ lseen' = [lseen EXCEPT ![l] = pending]
    /\ UNCHANGED <<locked, pending, taken, writers>>

LockRead(l) ==
    /\ LGoto(l, "read", IF pending = 0 THEN "holding" ELSE "wait")
    /\ lseen' = [lseen EXCEPT ![l] = pending]
    /\ UNCHANGED <<locked, pending, taken, writers>>

\* Mutant: the wait does not compare the counter with the value read before.
WaitUncompared(l) ==
    /\ LGoto(l, "wait", "asleep")
    /\ UNCHANGED <<locked, pending, lseen, taken, writers>>

WaitForWrites(l) ==
    /\ LGoto(l, "wait", IF pending = lseen[l] THEN "asleep" ELSE "read")
    /\ UNCHANGED <<locked, pending, lseen, taken, writers>>

SpuriousLocker(l) ==
    /\ Spurious /\ LGoto(l, "asleep", "read")
    /\ UNCHANGED <<locked, pending, lseen, taken, writers>>

(* internal_unlock_writes *)

UnlockDecrement(l) ==
    /\ LGoto(l, "holding", "wake")
    /\ locked' = locked - 1
    /\ UNCHANGED <<pending, lseen, taken, writers>>

UnlockWake(l) ==
    /\ LGoto(l, "wake", "idle")
    /\ WakeWriters
    /\ UNCHANGED <<locked, pending, wseen, lseen, taken>>

-----------------------------------------------------------------------------
\* The steps of a write operation and of a lock / unlock pair once it has begun.
WriterStep(w) ==
    \/ BeginIncrement(w, "retry") \/ BeginRead(w) \/ BackOff(w) \/ BackOffWake(w)
    \/ WaitForUnlock(w) \/ EndDecrement(w) \/ EndWake(w)

LockerStep(l) ==
    \/ LockRead(l) \/ WaitForWrites(l) \/ UnlockDecrement(l) \/ UnlockWake(l)

Next ==
    \/ \E w \in Writers : BeginIncrement(w, "idle") \/ WriterStep(w) \/ SpuriousWriter(w)
    \/ \E l \in Lockers : LockIncrement(l) \/ LockerStep(l) \/ SpuriousLocker(l)

Spec == Init /\ [][Next]_vars

\* Every running thread is scheduled again and finishes what it began; nobody
\* has to begin an operation.  Spurious returns may occur, but not for ever.
Fairness ==
    /\ \A w \in Writers : WF_vars(WriterStep(w))
    /\ \A l \in Lockers : WF_vars(LockerStep(l))

SpuriousReturn ==
    (\E w \in Writers : SpuriousWriter(w)) \/ (\E l \in Lockers : SpuriousLocker(l))

FairSpec == Spec /\ Fairness /\ <>[][~SpuriousReturn]_vars

-----------------------------------------------------------------------------
(* Properties *)

InRange ==
    /\ locked \in Int /\ pending \in Int
    /\ wpc \in [Writers -> WPCs] /\ wseen \in [Writers -> Int]
    /\ lpc \in [Lockers -> LPCs] /\ lseen \in [Lockers -> Int]
    /\ taken \in [Lockers -> Nat]

\* Every variable stays in its range, and the counters, which are signed words in
\* the code, never go below zero.
TypeOK == InRange /\ locked \in Nat /\ pending \in Nat

\* The threads each counter stands for.
CountedWriters == {w \in Writers : wpc[w] \in {"read", "back_off", "writing"}}
CountedLockers == {l \in Lockers : lpc[l] \in {"read", "wait", "asleep", "holding"}}

\* Neither counter drifts, however the back-off of check_lock_and_begin_write_-
\* operation interleaves with others: no write is forgotten by a locker and no
\* lock outlives its unlock.
CountersAgree ==
    /\ pending = Cardinality(CountedWriters)
    /\ locked = Cardinality(CountedLockers)

\* No write operation runs while a thread holds the lock: get_count, get_all and
\* snapshot see a structure nobody changes.
Exclusion ==
    \A w \in Writers, l \in Lockers : ~(wpc[w] = "writing" /\ lpc[l] = "holding")

\* A thread sleeps on a word only while it still has to wait, or a wake is on
\* its way: no wake is missed between reading the word and going to sleep.
NoMissedWake ==
    /\ (\E w \in Writers : wpc[w] = "asleep") =>
          locked # 0 \/ \E l \in Lockers : lpc[l] = "wake"
    /\ (\E l \in Lockers : lpc[l] = "asleep") =>
          pending # 0 \/ \E w \in Writers : wpc[w] \in {"wake", "wake_lockers"}

\* The two counters implement the group lock.
Group == INSTANCE GroupLock WITH
            writing <- {w \in Writers : wpc[w] = "writing"},
            holding <- {l \in Lockers : lpc[l] = "holding"}
ImplementsGroupLock == Group!Spec

\* lock_writes returns: writers that keep coming back off, and the last one that
\* leaves wakes the locker.  And a write operation that found the lock taken begins
\* once the lock is given up for good (internal_lock_writes, check_lock_and_begin_write).
BothGetThrough ==
    /\ \A l \in Lockers : lpc[l] = "read" ~> lpc[l] = "holding"
    /\ \A w \in Writers : wpc[w] = "back_off" ~> wpc[w] = "writing"
=============================================================================
