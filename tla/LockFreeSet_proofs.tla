------------------------ MODULE LockFreeSet_proofs --------------------------
(***************************************************************************)
(* The lock-free set, for any number of threads that insert and remove any *)
(* number of items.  First the marks: who marks a link of the set holds    *)
(* it, and no other thread changes the link before the mark is gone.  On   *)
(* that rests the list: the items stand in one order, along which the next *)
(* links lead (Linked), and the link back of every item leads along the    *)
(* threads that have still to mend it to the item in front (Backs).  From  *)
(* these follow that the set stays intact and that no thread touches an    *)
(* item that its owner has back.                                           *)
(***************************************************************************)
EXTENDS LockFreeSet, TLAPS, FiniteSetTheorems, WellFoundedInduction

-----------------------------------------------------------------------------
(* The inductive invariant *)

LinkValues == [ptr : Items \cup {NULL}, mark : BOOLEAN]

Types ==
    /\ head \in Items \cup {NULL}
    /\ next \in [Items -> LinkValues] /\ prev \in [Items -> LinkValues]
    /\ pc \in [Threads -> PCs] /\ item \in [Threads -> Items \cup {NULL}]
    /\ before \in [Threads -> Items \cup {NULL}] /\ after \in [Threads -> Items \cup {NULL}]
    /\ present \subseteq Items /\ gone \subseteq Items
    /\ inserted \in [Items -> Nat] /\ \A i \in Items : inserted[i] <= MaxInserts[i]

\* An item is in the hands of one call at most, and not with the client then.
OneCall ==
    /\ \A t \in Threads : IF pc[t] = "idle" THEN item[t] = NULL ELSE item[t] \in Items \ gone
    /\ \A t, u \in Threads : item[t] = item[u] /\ item[t] # NULL => t = u
    /\ present \cap gone = {}
    /\ \A t \in Threads : pc[t] \in {"head_mend", "mid_mend"} => item[t] \notin present

\* What a thread knows of the two links of its item, at every place.
PrevOf(t) ==
    /\ pc[t] \in InHead => prev[item[t]] = Marked(NULL)
    /\ pc[t] \in InMid => prev[item[t]] = Marked(before[t])
    /\ pc[t] \in InMid \cup {"mid_lock"} => before[t] # NULL
    /\ pc[t] \in {"in_front", "remove", "head_next", "head_lock", "mid_prev", "mid_lock",
                  "mid_back_next"} => ~prev[item[t]].mark

NextOf(t) ==
    /\ NextHeld(t) => next[item[t]] = Marked(after[t])
    /\ pc[t] \in {"in_front", "remove", "head_next", "head_lock", "head_mark", "head_back",
                  "mid_prev", "mid_lock", "mid_next", "mid_mark"} => ~next[item[t]].mark
    /\ pc[t] \in {"head_swing", "mid_head", "mid_swing"} /\ after[t] = NULL
                                                        => ~next[item[t]].mark
    /\ pc[t] = "mid_back" /\ next[item[t]].mark => next[item[t]] = Marked(after[t])
    /\ pc[t] \in {"head_mark", "mid_mark"} => after[t] # NULL

Holders ==
    \A i \in present :
        /\ prev[i].mark => \E t \in Threads : item[t] = i /\ pc[t] \in InHead \cup InMid
        /\ next[i].mark => \E t \in Threads :
               item[t] = i /\ (NextHeld(t) \/ pc[t] = "mid_back")

Known == \A t \in Threads : PrevOf(t) /\ NextOf(t)

IInv == Types /\ OneCall /\ Known /\ Holders

\* The set is empty at first.
LEMMA InitIInv == Init => IInv
<1> SUFFICES ASSUME Init  PROVE IInv
  OBVIOUS
<1> USE LockFreeSetAssumption DEF Init
<1>1. Types
  BY DEF Types, PCs, Nowhere, Link, LinkValues
<1>2. OneCall  BY DEF OneCall
<1>3. Known  BY DEF Known, PrevOf, NextOf, NextHeld, InHead, InMid
<1>4. Holders  BY DEF Holders
<1> QED  BY <1>1, <1>2, <1>3, <1>4 DEF IInv

\* The invariant says what the property says, and more.
LEMMA IInvImplies == IInv => TypeOK
<1>1. IInv => MarksHeld
  BY DEF IInv, Known, PrevOf, NextOf, Holders, MarksHeld
<1> QED  BY <1>1 DEF IInv, Types, LinkValues, TypeOK

-----------------------------------------------------------------------------
(* What a step of one thread leaves to the others *)

\* The step of t keeps the other threads where they are, and changes a link of an item
\* that is not its own only from one value without the mark to another.
Quiet(t) ==
    /\ \A u \in Threads \ {t} : pc'[u] = pc[u] /\ item'[u] = item[u]
                                /\ before'[u] = before[u] /\ after'[u] = after[u]
    /\ \A i \in Items \ {item[t]} :
         /\ prev'[i].mark = prev[i].mark /\ (prev[i].mark => prev'[i] = prev[i])
         /\ next'[i].mark = next[i].mark /\ (next[i].mark => next'[i] = next[i])

\* What t has to see to for its own item.
OwnHeld(t) ==
    item[t] \in present' =>
        /\ prev'[item[t]].mark => item'[t] = item[t] /\ pc'[t] \in InHead \cup InMid
        /\ next'[item[t]].mark => item'[t] = item[t] /\ (NextHeld(t)' \/ pc'[t] = "mid_back")

\* A link is its pointer and its mark.
LEMMA LinkFacts ==
  /\ \A p : Link(p).mark = FALSE /\ Link(p).ptr = p /\ Marked(p).mark = TRUE
  /\ \A p, q : Link(p) # Marked(q) /\ (p # q => Link(p) # Link(q))
  /\ \A l \in LinkValues : ~l.mark => l = Link(l.ptr)
  BY DEF Link, Marked, LinkValues

\* What the other threads know of their items survives a quiet step.
LEMMA OthersKnow ==
  ASSUME IInv, NEW t \in Threads, Quiet(t), NEW u \in Threads \ {t}
  PROVE  PrevOf(u)' /\ NextOf(u)'
<1>1. PrevOf(u) /\ NextOf(u)  BY DEF IInv, Known
<1>2. CASE pc[u] = "idle"
  BY <1>2 DEF Quiet, PrevOf, NextOf, NextHeld, InHead, InMid
<1>3. CASE pc[u] # "idle"
  <2>1. item[u] \in Items \ {item[t]}
    BY <1>3, LockFreeSetAssumption DEF IInv, OneCall
  <2>2. pc'[u] = pc[u] /\ item'[u] = item[u] /\ before'[u] = before[u] /\ after'[u] = after[u]
    BY DEF Quiet
  <2>3. /\ prev'[item[u]].mark = prev[item[u]].mark
        /\ prev[item[u]].mark => prev'[item[u]] = prev[item[u]]
        /\ next'[item[u]].mark = next[item[u]].mark
        /\ next[item[u]].mark => next'[item[u]] = next[item[u]]
    BY <2>1 DEF Quiet
  <2>4. PrevOf(u)'
    BY <1>1, <2>2, <2>3 DEF PrevOf, Marked
  <2>5. NextOf(u)'
    BY <1>1, <2>2, <2>3 DEF NextOf, NextHeld, Marked
  <2> QED  BY <2>4, <2>5
<1> QED  BY <1>2, <1>3

\* So does that a marked link of an item in the set has a thread that holds it.
LEMMA HoldersKept ==
  ASSUME IInv, NEW t \in Threads, Quiet(t), OwnHeld(t),
         present' \subseteq present \cup {item[t]}
  PROVE  Holders'
<1> SUFFICES ASSUME NEW i \in present'
             PROVE  /\ prev'[i].mark => \E u \in Threads :
                            item'[u] = i /\ pc'[u] \in InHead \cup InMid
                    /\ next'[i].mark => \E u \in Threads :
                            item'[u] = i /\ (NextHeld(u)' \/ pc'[u] = "mid_back")
  BY DEF Holders
<1>1. CASE i = item[t]
  BY <1>1 DEF OwnHeld
<1>2. CASE i # item[t]
  <2>1. i \in present /\ i \in Items \ {item[t]}
    BY <1>2 DEF IInv, Types
  <2>2. \A u \in Threads : item[u] = i => u # t
    BY <1>2
  <2>3. ASSUME prev'[i].mark
        PROVE  \E u \in Threads : item'[u] = i /\ pc'[u] \in InHead \cup InMid
    <3>1. PICK u \in Threads : item[u] = i /\ pc[u] \in InHead \cup InMid
      BY <2>1, <2>3 DEF Quiet, IInv, Holders
    <3> QED  BY <3>1, <2>2 DEF Quiet
  <2>4. ASSUME next'[i].mark
        PROVE  \E u \in Threads : item'[u] = i /\ (NextHeld(u)' \/ pc'[u] = "mid_back")
    <3>1. PICK u \in Threads : item[u] = i /\ (NextHeld(u) \/ pc[u] = "mid_back")
      BY <2>1, <2>4 DEF Quiet, IInv, Holders
    <3>2. NextHeld(u)' <=> NextHeld(u)
      BY <3>1, <2>2 DEF Quiet, NextHeld
    <3> QED  BY <3>1, <3>2, <2>2 DEF Quiet
  <2> QED  BY <2>3, <2>4
<1> QED  BY <1>1, <1>2

-----------------------------------------------------------------------------
(* The steps of a thread, one by one *)

\* Every step keeps the types.
LEMMA TypesKept ==
  ASSUME IInv, NEW t \in Threads, InsertStart(t) \/ RemoveStart(t) \/ Step(t)
  PROVE  Types'
<1>1. Types /\ t \in Threads /\ (pc[t] # "idle" => item[t] \in Items)
  BY DEF IInv, Types, OneCall
<1>2. \A p \in Items \cup {NULL} : Link(p) \in LinkValues /\ Marked(p) \in LinkValues
  BY DEF LinkValues, Link, Marked
<1>3. \A l \in LinkValues : l.ptr \in Items \cup {NULL}
  BY DEF LinkValues
<1>4. /\ "idle" \in PCs /\ "insert" \in PCs /\ "in_front" \in PCs
      /\ "join" \in PCs /\ "remove" \in PCs /\ "head_next" \in PCs
      /\ "head_lock" \in PCs /\ "head_mark" \in PCs /\ "head_swing" \in PCs
      /\ "head_mend" \in PCs /\ "head_back_next" \in PCs /\ "head_back" \in PCs
      /\ "mid_prev" \in PCs /\ "mid_lock" \in PCs /\ "mid_next" \in PCs
      /\ "mid_mark" \in PCs /\ "mid_head" \in PCs /\ "mid_swing" \in PCs
      /\ "mid_mend" \in PCs /\ "mid_back" \in PCs /\ "mid_back_next" \in PCs
  BY DEF PCs, InHead, InMid
<1> USE <1>1, <1>2, <1>3, <1>4 DEF Types, Nowhere
<1>5. CASE InsertStart(t)
  <2>1. PICK i \in gone : inserted[i] < MaxInserts[i]
                         /\ inserted' = [inserted EXCEPT ![i] = @ + 1]
    BY <1>5 DEF InsertStart
  <2>2. i \in Items /\ inserted[i] \in Nat /\ MaxInserts[i] \in Nat
    BY <2>1, LockFreeSetAssumption
  <2>3. inserted[i] + 1 \in Nat /\ inserted[i] + 1 <= MaxInserts[i]
    BY <2>1, <2>2
  <2> QED  BY <1>5, <2>1, <2>3 DEF InsertStart, Goto, Links
<1>6. CASE RemoveStart(t)
  BY <1>6 DEF RemoveStart, Goto, Links, client
<1>7. CASE InsertReadHead(t)
  BY <1>7 DEF InsertReadHead, Goto, Links, client
<1>8. CASE InsertAtHead(t)
  BY <1>8 DEF InsertAtHead, Goto, CasHead, Return, client
<1>9. CASE InsertAgain(t)
  BY <1>9 DEF InsertAgain, Goto, Links, client
<1>10. CASE Join(t)
  BY <1>10 DEF Join, Goto, CasPrev, Return, client
<1>11. CASE RemoveReadHead(t)
  BY <1>11 DEF RemoveReadHead, Goto, Links, client
<1>12. CASE HeadReadNext(t)
  BY <1>12 DEF HeadReadNext, Goto, Links, client
<1>13. CASE HeadLockPrev(t)
  BY <1>13 DEF HeadLockPrev, Goto, CasPrev, client
<1>14. CASE HeadLockNext(t)
  BY <1>14 DEF HeadLockNext, Goto, CasNext, client
<1>15. CASE HeadSwing(t)
  BY <1>15 DEF HeadSwing, Goto, CasHead, Return, client
<1>16. CASE HeadMend(t)
  BY <1>16 DEF HeadMend, Goto, CasPrev, Return, client
<1>17. CASE MidReadPrev(t)
  BY <1>17 DEF MidReadPrev, Goto, Links, client
<1>18. CASE MidLockPrev(t)
  BY <1>18 DEF MidLockPrev, Goto, CasPrev, client
<1>19. CASE MidReadNext(t)
  BY <1>19 DEF MidReadNext, Goto, Links, client
<1>20. CASE MidLockNext(t)
  BY <1>20 DEF MidLockNext, Goto, CasNext, client
<1>21. CASE MidReadHead(t)
  BY <1>21 DEF MidReadHead, Goto, Links, client
<1>22. CASE MidSwing(t)
  <2>1. next' \in [Items -> LinkValues] /\ UNCHANGED <<head, prev, inserted>>
    BY <1>22 DEF MidSwing, CasNext
  <2>2. present' \subseteq Items /\ gone' \subseteq Items
    BY <1>22 DEF MidSwing, Return, client
  <2>3. CASE Return(t, "mid_swing")
    BY <2>1, <2>2, <2>3 DEF Return, Goto
  <2>4. CASE Goto(t, "mid_swing", "mid_mend") /\ UNCHANGED <<item, before, after>>
    BY <2>1, <2>2, <2>4 DEF Goto
  <2> QED  BY <1>22, <2>3, <2>4 DEF MidSwing
<1>23. CASE MidMend(t)
  BY <1>23 DEF MidMend, Goto, CasPrev, Return, client
<1>24. CASE LockFails(t)
  BY SMTT(30), <1>24 DEF LockFails, Goto, Links, client
<1>25. CASE SwingFails(t)
  BY <1>25 DEF SwingFails, Goto, Links, client
<1>26. CASE UnlockNext(t)
  BY <1>26 DEF UnlockNext, Goto, CasNext, client
<1>27. CASE UnlockPrev(t)
  <2>1. pc' = [pc EXCEPT ![t] = "remove"] \/ pc' = [pc EXCEPT ![t] = "mid_back_next"]
    BY <1>27 DEF UnlockPrev, Goto
  <2>2. prev' \in [Items -> LinkValues]
    BY <1>27 DEF UnlockPrev, Goto, CasPrev
  <2> QED  BY <1>27, <2>1, <2>2 DEF UnlockPrev, CasPrev, client
<1> QED
  BY <1>5, <1>6, <1>7, <1>8, <1>9, <1>10, <1>11, <1>12, <1>13, <1>14, <1>15, <1>16,
     <1>17, <1>18, <1>19, <1>20, <1>21, <1>22, <1>23, <1>24, <1>25, <1>26, <1>27
  DEF Step, Insert, RemoveRest

\* A client hands an item to a call only when no call has it.
LEMMA OneCallKept ==
  ASSUME IInv, NEW t \in Threads, InsertStart(t) \/ RemoveStart(t) \/ Step(t)
  PROVE  OneCall'
<1> USE LockFreeSetAssumption DEF IInv, Types, OneCall
<1>1. CASE InsertStart(t)
  BY <1>1 DEF InsertStart, Goto, Links, client
<1>2. CASE RemoveStart(t)
  BY <1>2 DEF RemoveStart, Goto, Links, client
<1>3. CASE InsertReadHead(t)
  BY <1>3 DEF InsertReadHead, Goto, Links, client
<1>4. CASE InsertAtHead(t)
  BY <1>4 DEF InsertAtHead, Goto, CasHead, Return, client
<1>5. CASE InsertAgain(t)
  BY <1>5 DEF InsertAgain, Goto, Links, client
<1>6. CASE Join(t)
  BY <1>6 DEF Join, Goto, CasPrev, Return, client
<1>7. CASE RemoveReadHead(t)
  BY <1>7 DEF RemoveReadHead, Goto, Links, client
<1>8. CASE HeadReadNext(t)
  BY <1>8 DEF HeadReadNext, Goto, Links, client
<1>9. CASE HeadLockPrev(t)
  BY <1>9 DEF HeadLockPrev, Goto, CasPrev, client
<1>10. CASE HeadLockNext(t)
  BY <1>10 DEF HeadLockNext, Goto, CasNext, client
<1>11. CASE HeadSwing(t)
  BY <1>11 DEF HeadSwing, Goto, CasHead, Return, client
<1>12. CASE HeadMend(t)
  BY <1>12 DEF HeadMend, Goto, CasPrev, Return, client
<1>13. CASE MidReadPrev(t)
  BY <1>13 DEF MidReadPrev, Goto, Links, client
<1>14. CASE MidLockPrev(t)
  BY <1>14 DEF MidLockPrev, Goto, CasPrev, client
<1>15. CASE MidReadNext(t)
  BY <1>15 DEF MidReadNext, Goto, Links, client
<1>16. CASE MidLockNext(t)
  BY <1>16 DEF MidLockNext, Goto, CasNext, client
<1>17. CASE MidReadHead(t)
  BY <1>17 DEF MidReadHead, Goto, Links, client
<1>18. CASE MidSwing(t)
  BY <1>18 DEF MidSwing, Goto, CasNext, Return, client
<1>19. CASE MidMend(t)
  BY <1>19 DEF MidMend, Goto, CasPrev, Return, client
<1>20. CASE LockFails(t)
  BY <1>20 DEF LockFails, Goto, Links, client
<1>21. CASE SwingFails(t)
  BY <1>21 DEF SwingFails, Goto, Links, client
<1>22. CASE UnlockNext(t)
  BY <1>22 DEF UnlockNext, Goto, CasNext, client
<1>23. CASE UnlockPrev(t)
  BY <1>23 DEF UnlockPrev, Goto, CasPrev, client
<1> QED
  BY <1>1, <1>2, <1>3, <1>4, <1>5, <1>6, <1>7, <1>8, <1>9, <1>10, <1>11, <1>12, <1>13,
     <1>14, <1>15, <1>16, <1>17, <1>18, <1>19, <1>20, <1>21, <1>22, <1>23
  DEF Step, Insert, RemoveRest

\* The exchanges on another item's links replace a value without the mark by another.
LEMMA StepsAreQuiet ==
  ASSUME IInv, NEW t \in Threads, InsertStart(t) \/ RemoveStart(t) \/ Step(t)
  PROVE  Quiet(t)
<1>1. Types /\ IF pc[t] = "idle" THEN item[t] = NULL ELSE item[t] \in Items
  BY DEF IInv, OneCall
<1> USE <1>1, LinkFacts, LockFreeSetAssumption DEF Types, Quiet, Nowhere
<1>2. CASE InsertStart(t)
  BY <1>2 DEF InsertStart, Goto, Links, client
<1>3. CASE RemoveStart(t)
  BY <1>3 DEF RemoveStart, Goto, Links, client
<1>4. CASE InsertReadHead(t)
  BY <1>4 DEF InsertReadHead, Goto, Links, client
<1>5. CASE InsertAtHead(t)
  BY <1>5 DEF InsertAtHead, Goto, CasHead, Return, client
<1>6. CASE InsertAgain(t)
  BY <1>6 DEF InsertAgain, Goto, Links, client
<1>7. CASE Join(t)
  <2>1. prev[after[t]].mark = FALSE /\ next' = next
        /\ prev' = [prev EXCEPT ![after[t]] = Link(item[t])]
    BY <1>7 DEF Join, Goto, CasPrev, Return, client
  <2>2. \A i \in Items : prev'[i] = IF i = after[t] THEN Link(item[t]) ELSE prev[i]
    BY <2>1
  <2>3. \A i \in Items : prev'[i].mark = prev[i].mark /\ (prev[i].mark => prev'[i] = prev[i])
    BY <2>1, <2>2
  <2>4. \A u \in Threads \ {t} : pc'[u] = pc[u] /\ item'[u] = item[u]
                               /\ before'[u] = before[u] /\ after'[u] = after[u]
    BY <1>7 DEF Join, Goto, CasPrev, Return, client
  <2> QED  BY <2>1, <2>3, <2>4
<1>8. CASE RemoveReadHead(t)
  BY <1>8 DEF RemoveReadHead, Goto, Links, client
<1>9. CASE HeadReadNext(t)
  BY <1>9 DEF HeadReadNext, Goto, Links, client
<1>10. CASE HeadLockPrev(t)
  BY <1>10 DEF HeadLockPrev, Goto, CasPrev, client
<1>11. CASE HeadLockNext(t)
  BY <1>11 DEF HeadLockNext, Goto, CasNext, client
<1>12. CASE HeadSwing(t)
  BY <1>12 DEF HeadSwing, Goto, CasHead, Return, client
<1>13. CASE HeadMend(t)
  <2>1. prev[after[t]].mark = FALSE /\ next' = next
        /\ prev' = [prev EXCEPT ![after[t]] = Nowhere]
    BY <1>13 DEF HeadMend, Goto, CasPrev, Return, client
  <2>2. \A i \in Items : prev'[i] = IF i = after[t] THEN Nowhere ELSE prev[i]
    BY <2>1
  <2>3. \A i \in Items : prev'[i].mark = prev[i].mark /\ (prev[i].mark => prev'[i] = prev[i])
    BY <2>1, <2>2
  <2>4. \A u \in Threads \ {t} : pc'[u] = pc[u] /\ item'[u] = item[u]
                               /\ before'[u] = before[u] /\ after'[u] = after[u]
    BY <1>13 DEF HeadMend, Goto, CasPrev, Return, client
  <2> QED  BY <2>1, <2>3, <2>4
<1>14. CASE MidReadPrev(t)
  BY <1>14 DEF MidReadPrev, Goto, Links, client
<1>15. CASE MidLockPrev(t)
  BY <1>15 DEF MidLockPrev, Goto, CasPrev, client
<1>16. CASE MidReadNext(t)
  BY <1>16 DEF MidReadNext, Goto, Links, client
<1>17. CASE MidLockNext(t)
  BY <1>17 DEF MidLockNext, Goto, CasNext, client
<1>18. CASE MidReadHead(t)
  BY <1>18 DEF MidReadHead, Goto, Links, client
<1>19. CASE MidSwing(t)
  <2>1. next[before[t]].mark = FALSE /\ prev' = prev
        /\ next' = [next EXCEPT ![before[t]] = Link(after[t])]
    BY <1>19 DEF MidSwing, Goto, CasNext, Return, client
  <2>2. \A i \in Items : next'[i] = IF i = before[t] THEN Link(after[t]) ELSE next[i]
    BY <2>1
  <2>3. \A i \in Items : next'[i].mark = next[i].mark /\ (next[i].mark => next'[i] = next[i])
    BY <2>1, <2>2
  <2>4. \A u \in Threads \ {t} : pc'[u] = pc[u] /\ item'[u] = item[u]
                               /\ before'[u] = before[u] /\ after'[u] = after[u]
    BY <1>19 DEF MidSwing, Goto, CasNext, Return, client
  <2> QED  BY <2>1, <2>3, <2>4
<1>20. CASE MidMend(t)
  <2>1. prev[after[t]].mark = FALSE /\ next' = next
        /\ prev' = [prev EXCEPT ![after[t]] = Link(before[t])]
    BY <1>20 DEF MidMend, Goto, CasPrev, Return, client
  <2>2. \A i \in Items : prev'[i] = IF i = after[t] THEN Link(before[t]) ELSE prev[i]
    BY <2>1
  <2>3. \A i \in Items : prev'[i].mark = prev[i].mark /\ (prev[i].mark => prev'[i] = prev[i])
    BY <2>1, <2>2
  <2>4. \A u \in Threads \ {t} : pc'[u] = pc[u] /\ item'[u] = item[u]
                               /\ before'[u] = before[u] /\ after'[u] = after[u]
    BY <1>20 DEF MidMend, Goto, CasPrev, Return, client
  <2> QED  BY <2>1, <2>3, <2>4
<1>21. CASE LockFails(t)
  BY <1>21 DEF LockFails, Goto, Links, client
<1>22. CASE SwingFails(t)
  BY <1>22 DEF SwingFails, Goto, Links, client
<1>23. CASE UnlockNext(t)
  BY <1>23 DEF UnlockNext, Goto, CasNext, client
<1>24. CASE UnlockPrev(t)
  BY <1>24 DEF UnlockPrev, Goto, CasPrev, client
<1> QED
  BY <1>2, <1>3, <1>4, <1>5, <1>6, <1>7, <1>8, <1>9, <1>10, <1>11, <1>12, <1>13, <1>14,
     <1>15, <1>16, <1>17, <1>18, <1>19, <1>20, <1>21, <1>22, <1>23, <1>24
  DEF Step, Insert, RemoveRest

\* Each step leads from what is known at one place to what is known at the next.
LEMMA OwnLinksKnown ==
  ASSUME IInv, NEW t \in Threads, InsertStart(t) \/ RemoveStart(t) \/ Step(t)
  PROVE  PrevOf(t)' /\ NextOf(t)'
<1>1. Types /\ IF pc[t] = "idle" THEN item[t] = NULL ELSE item[t] \in Items
  BY DEF IInv, OneCall
<1>2. PrevOf(t) /\ NextOf(t)
  BY DEF IInv, Known
<1> USE <1>1, <1>2, LinkFacts, LockFreeSetAssumption
        DEF Types, PrevOf, NextOf, NextHeld, InHead, InMid, Nowhere
<1>3. CASE InsertStart(t)
  BY <1>3 DEF InsertStart, Goto, Links, client
<1>4. CASE RemoveStart(t)
  <2>1. PICK i \in present : /\ \A u \in Threads : item[u] # i
                             /\ pc'[t] = "remove" /\ item'[t] = i
                             /\ next' = next /\ prev' = prev
    BY <1>4 DEF RemoveStart, Goto, Links, client
  <2>2. ~next[i].mark /\ ~prev[i].mark
    BY <2>1 DEF IInv, Holders
  <2> QED  BY <2>1, <2>2
<1>5. CASE InsertReadHead(t)
  BY <1>5 DEF InsertReadHead, Goto, Links, client
<1>6. CASE InsertAtHead(t)
  BY <1>6 DEF InsertAtHead, Goto, CasHead, Return, client
<1>7. CASE InsertAgain(t)
  BY <1>7 DEF InsertAgain, Goto, Links, client
<1>8. CASE Join(t)
  BY <1>8 DEF Join, Goto, CasPrev, Return, client
<1>9. CASE RemoveReadHead(t)
  BY <1>9 DEF RemoveReadHead, Goto, Links, client
<1>10. CASE HeadReadNext(t)
  BY <1>10 DEF HeadReadNext, Goto, Links, client
<1>11. CASE HeadLockPrev(t)
  BY <1>11 DEF HeadLockPrev, Goto, CasPrev, client
<1>12. CASE HeadLockNext(t)
  BY <1>12 DEF HeadLockNext, Goto, CasNext, client
<1>13. CASE HeadSwing(t)
  BY <1>13 DEF HeadSwing, Goto, CasHead, Return, client
<1>14. CASE HeadMend(t)
  BY <1>14 DEF HeadMend, Goto, CasPrev, Return, client
<1>15. CASE MidReadPrev(t)
  BY <1>15 DEF MidReadPrev, Goto, Links, client
<1>16. CASE MidLockPrev(t)
  BY <1>16 DEF MidLockPrev, Goto, CasPrev, client
<1>17. CASE MidReadNext(t)
  BY <1>17 DEF MidReadNext, Goto, Links, client
<1>18. CASE MidLockNext(t)
  BY <1>18 DEF MidLockNext, Goto, CasNext, client
<1>19. CASE MidReadHead(t)
  BY <1>19 DEF MidReadHead, Goto, Links, client
<1>20. CASE MidSwing(t)
  BY <1>20 DEF MidSwing, Goto, CasNext, Return, client
<1>21. CASE MidMend(t)
  BY <1>21 DEF MidMend, Goto, CasPrev, Return, client
<1>22. CASE LockFails(t)
  BY <1>22 DEF LockFails, Goto, Links, client
<1>23. CASE SwingFails(t)
  BY <1>23 DEF SwingFails, Goto, Links, client
<1>24. CASE UnlockNext(t)
  BY <1>24 DEF UnlockNext, Goto, CasNext, client
<1>25. CASE UnlockPrev(t)
  BY <1>25 DEF UnlockPrev, Goto, CasPrev, client
<1> QED
  BY <1>3, <1>4, <1>5, <1>6, <1>7, <1>8, <1>9, <1>10, <1>11, <1>12, <1>13, <1>14,
     <1>15, <1>16, <1>17, <1>18, <1>19, <1>20, <1>21, <1>22, <1>23, <1>24, <1>25
  DEF Step, Insert, RemoveRest

\* A thread that leaves its item in the set has no mark on it.
LEMMA OwnMarksHeld ==
  ASSUME IInv, NEW t \in Threads, InsertStart(t) \/ RemoveStart(t) \/ Step(t)
  PROVE  OwnHeld(t)
<1>1. Types /\ IF pc[t] = "idle" THEN item[t] = NULL ELSE item[t] \in Items
  BY DEF IInv, OneCall
<1>2. PrevOf(t) /\ NextOf(t)
  BY DEF IInv, Known
<1> USE <1>1, <1>2, LinkFacts, LockFreeSetAssumption
        DEF Types, OwnHeld, PrevOf, NextOf, NextHeld, InHead, InMid, Nowhere
<1>3. CASE InsertStart(t)
  BY <1>3 DEF InsertStart, Goto, Links, client
<1>4. CASE RemoveStart(t)
  BY <1>4 DEF RemoveStart, Goto, Links, client
<1>5. CASE InsertReadHead(t)
  BY <1>5 DEF InsertReadHead, Goto, Links, client
<1>6. CASE InsertAtHead(t)
  BY <1>6 DEF InsertAtHead, Goto, CasHead, Return, client
<1>7. CASE InsertAgain(t)
  BY <1>7 DEF InsertAgain, Goto, Links, client
<1>8. CASE Join(t)
  <2>1. pc[t] = "join" /\ present' = present /\ next' = next
        /\ prev[after[t]].mark = FALSE
        /\ prev' = [prev EXCEPT ![after[t]] = Link(item[t])]
    BY <1>8 DEF Join, Goto, CasPrev, Return, client
  <2>2. ASSUME item[t] \in present  PROVE  ~next[item[t]].mark /\ ~prev[item[t]].mark
    <3>1. \A u \in Threads : item[u] = item[t] => u = t
      BY <2>1, <2>2 DEF IInv, OneCall
    <3> QED  BY <3>1, <2>1, <2>2 DEF IInv, Holders
  <2>3. item[t] \in present => ~prev'[item[t]].mark
    BY <2>1, <2>2
  <2> QED  BY <2>1, <2>2, <2>3
<1>9. CASE RemoveReadHead(t)
  BY <1>9 DEF RemoveReadHead, Goto, Links, client
<1>10. CASE HeadReadNext(t)
  BY <1>10 DEF HeadReadNext, Goto, Links, client
<1>11. CASE HeadLockPrev(t)
  BY <1>11 DEF HeadLockPrev, Goto, CasPrev, client
<1>12. CASE HeadLockNext(t)
  BY <1>12 DEF HeadLockNext, Goto, CasNext, client
<1>13. CASE HeadSwing(t)
  BY <1>13 DEF HeadSwing, Goto, CasHead, Return, client
<1>14. CASE HeadMend(t)
  <2>1. item[t] \notin present'
    BY <1>14 DEF HeadMend, Goto, CasPrev, Return, client, IInv, OneCall
  <2> QED  BY <2>1
<1>15. CASE MidReadPrev(t)
  BY <1>15 DEF MidReadPrev, Goto, Links, client
<1>16. CASE MidLockPrev(t)
  BY <1>16 DEF MidLockPrev, Goto, CasPrev, client
<1>17. CASE MidReadNext(t)
  BY <1>17 DEF MidReadNext, Goto, Links, client
<1>18. CASE MidLockNext(t)
  BY <1>18 DEF MidLockNext, Goto, CasNext, client
<1>19. CASE MidReadHead(t)
  BY <1>19 DEF MidReadHead, Goto, Links, client
<1>20. CASE MidSwing(t)
  BY <1>20 DEF MidSwing, Goto, CasNext, Return, client
<1>21. CASE MidMend(t)
  <2>1. item[t] \notin present'
    BY <1>21 DEF MidMend, Goto, CasPrev, Return, client, IInv, OneCall
  <2> QED  BY <2>1
<1>22. CASE LockFails(t)
  BY <1>22 DEF LockFails, Goto, Links, client
<1>23. CASE SwingFails(t)
  BY <1>23 DEF SwingFails, Goto, Links, client
<1>24. CASE UnlockNext(t)
  BY <1>24 DEF UnlockNext, Goto, CasNext, client
<1>25. CASE UnlockPrev(t)
  BY <1>25 DEF UnlockPrev, Goto, CasPrev, client
<1> QED
  BY <1>3, <1>4, <1>5, <1>6, <1>7, <1>8, <1>9, <1>10, <1>11, <1>12, <1>13, <1>14,
     <1>15, <1>16, <1>17, <1>18, <1>19, <1>20, <1>21, <1>22, <1>23, <1>24, <1>25
  DEF Step, Insert, RemoveRest

\* A purge runs when nobody holds anything.
LEMMA PurgeKeeps ==
  ASSUME IInv, Purge
  PROVE  IInv'
<1> USE LockFreeSetAssumption
<1>1. /\ UNCHANGED <<next, prev, pc, item, before, after>>
      /\ head' = NULL /\ present' = {} /\ gone' = gone \cup Reached
      /\ \A t \in Threads : pc[t] = "idle"
      /\ inserted' = inserted
  BY DEF Purge, locals
<1>2. Types'  BY <1>1 DEF IInv, Types, Reached
<1>3. OneCall'  BY <1>1 DEF IInv, OneCall
<1>4. Known'
  BY <1>1 DEF IInv, Known, PrevOf, NextOf, NextHeld
<1>5. Holders'  BY <1>1 DEF Holders
<1> QED  BY <1>2, <1>3, <1>4, <1>5 DEF IInv

\* The invariant is inductive.
LEMMA NextIInv == IInv /\ [Next]_vars => IInv'
<1> SUFFICES ASSUME IInv, [Next]_vars  PROVE IInv'
  OBVIOUS
<1>1. ASSUME NEW t \in Threads, InsertStart(t) \/ RemoveStart(t) \/ Step(t)
      PROVE  IInv'
  <2>1. Types' /\ OneCall'  BY <1>1, TypesKept, OneCallKept
  <2>2. Quiet(t) /\ OwnHeld(t)  BY <1>1, StepsAreQuiet, OwnMarksHeld
  <2>3. Known'
    <3>1. PrevOf(t)' /\ NextOf(t)'  BY <1>1, OwnLinksKnown
    <3>2. \A u \in Threads \ {t} : PrevOf(u)' /\ NextOf(u)'  BY <2>2, OthersKnow
    <3> QED  BY <3>1, <3>2 DEF Known
  <2>4. present' \subseteq present \cup {item[t]}
    BY <1>1
    DEF Step, Insert, RemoveRest, InsertStart, RemoveStart, InsertReadHead, InsertAtHead,
        InsertAgain, Join, RemoveReadHead, HeadReadNext, HeadLockPrev, HeadLockNext,
        HeadSwing, HeadMend, MidReadPrev, MidLockPrev, MidReadNext, MidLockNext,
        MidReadHead, MidSwing, MidMend, LockFails, SwingFails, UnlockNext, UnlockPrev
  <2>5. Holders'  BY <2>2, <2>4, HoldersKept
  <2> QED  BY <2>1, <2>3, <2>5 DEF IInv
<1>2. CASE Purge
  BY <1>2, PurgeKeeps
<1>3. CASE UNCHANGED vars
  BY <1>3
  DEF vars, locals, client, IInv, Types, OneCall, Known, PrevOf, NextOf, NextHeld, Holders
<1> QED
  BY <1>1, <1>2, <1>3 DEF Next

-----------------------------------------------------------------------------
(* The set as a list *)

\* Where a thread has swung a link past its item, and has the link back to mend.
Mends == {"head_mend", "mid_mend"}
\* Where it has still to take its item out.
Takes == {"remove", "head_next", "head_lock", "head_mark", "head_swing", "head_back_next",
          "head_back", "mid_prev", "mid_lock", "mid_next", "mid_mark", "mid_head",
          "mid_swing", "mid_back", "mid_back_next"}
\* Where a local that is NULL says that the item is the last.
Lasts == {"head_lock", "head_swing", "mid_head", "mid_swing"}

\* What a thread knows of the set at every place.
Place(t) ==
    /\ pc[t] \in {"insert", "in_front"} => item[t] \notin present
    /\ pc[t] \in Takes => item[t] \in present
    /\ pc[t] = "in_front" => next[item[t]] = Link(after[t]) /\ prev[item[t]] = Nowhere
    /\ pc[t] \in Lasts /\ after[t] = NULL => next[item[t]] = Nowhere
    /\ pc[t] = "join" => /\ item[t] \in present /\ after[t] \in present
                         /\ next[item[t]] = Link(after[t])
    /\ pc[t] \in Mends => after[t] \in present
Places == \A t \in Threads : Place(t)

\* q is the set in the order of the next links.
Order(n, q) ==
    /\ \A k, l \in 1..n : q[k] = q[l] => k = l
    /\ present = {q[k] : k \in 1..n}
    /\ head = IF n = 0 THEN NULL ELSE q[1]
    /\ \A k \in 1..n : next[q[k]].ptr = IF k = n THEN NULL ELSE q[k + 1]
Linked == \E n \in Nat : \E q \in [1..n -> Items] : Order(n, q)

\* f is in front of i; NULL is in front of the head.
Front(f, i) == IF f = NULL THEN head = i ELSE f \in present /\ next[f].ptr = i

\* The threads that have to mend the link back of i, and what they will set it to.
Menders(i) == {t \in Threads : pc[t] \in Mends /\ after[t] = i}
Target(t) == IF pc[t] = "head_mend" THEN NULL ELSE before[t]

\* What the link back to f is until the insert of f has set it.
Shown(f) == IF \E t \in Threads : pc[t] = "join" /\ item[t] = f THEN NULL ELSE f

\* The link back of i leads to the item that the first of its menders has taken out,
\* what a mender sets it to is the item of the next one, and the last sets it right.
Chain(i, f, r, c) ==
    /\ \A j, k \in 1..r : c[j] = c[k] => j = k
    /\ Menders(i) = {c[j] : j \in 1..r}
    /\ prev[i].ptr = IF r = 0 THEN Shown(f) ELSE item[c[1]]
    /\ \A j \in 1..r : Target(c[j]) = IF j = r THEN Shown(f) ELSE item[c[j + 1]]
Chained(i, f) == \E r \in Nat : \E c \in [1..r -> Threads] : Chain(i, f, r, c)
Backs == \A i \in present, f \in present \cup {NULL} : Front(f, i) => Chained(i, f)

LInv == IInv /\ Places /\ Linked /\ Backs

-----------------------------------------------------------------------------
(* The order of the set *)

\* In the set every item has one in front of it and leads to one at most.
LEMMA Straight ==
  ASSUME Types, Linked
  PROVE  /\ head \in present \cup {NULL}
         /\ \A i \in present : /\ next[i].ptr \in present \cup {NULL}
                               /\ next[i].ptr # i
                               /\ next[i].ptr = head => head = NULL
                               /\ \E f \in present \cup {NULL} : Front(f, i)
         /\ \A i, j \in present : next[i].ptr = next[j].ptr /\ next[i].ptr # NULL => i = j
<1>0. PICK n \in Nat : \E q \in [1..n -> Items] : Order(n, q)
  BY DEF Linked
<1>1. PICK q \in [1..n -> Items] : Order(n, q)
  BY <1>0
<1>2. NULL \notin Items  BY LockFreeSetAssumption
<1>3. present = {q[k] : k \in 1..n} /\ \A k \in 1..n : q[k] \in Items
  BY <1>1 DEF Order
<1>4. head \in present \cup {NULL}
  <2>1. CASE n = 0  BY <2>1, <1>1 DEF Order
  <2>2. CASE n # 0
    <3>1. 1 \in 1..n  BY <2>2
    <3> QED  BY <3>1, <1>1, <2>2 DEF Order
  <2> QED  BY <2>1, <2>2
<1>5. ASSUME NEW k \in 1..n  PROVE \E f \in present \cup {NULL} : Front(f, q[k])
  <2>1. CASE k = 1
    <3>1. head = q[k]  BY <2>1, <1>1 DEF Order
    <3> QED  BY <3>1 DEF Front
  <2>2. CASE k # 1
    <3>1. k - 1 \in 1..n /\ k - 1 # n /\ (k - 1) + 1 = k  BY <2>2
    <3>2. next[q[k - 1]].ptr = q[k]  BY <3>1, <1>1 DEF Order
    <3>3. q[k - 1] \in present /\ q[k - 1] # NULL  BY <3>1, <1>2, <1>3
    <3> QED  BY <3>2, <3>3 DEF Front
  <2> QED  BY <2>1, <2>2
<1>6. ASSUME NEW k \in 1..n
      PROVE  /\ next[q[k]].ptr \in present \cup {NULL}
             /\ next[q[k]].ptr # q[k]
             /\ next[q[k]].ptr = head => head = NULL
  <2>1. CASE k = n
    <3>1. next[q[k]].ptr = NULL /\ q[k] \in Items  BY <2>1, <1>1, <1>3 DEF Order
    <3> QED  BY <3>1, <1>2
  <2>2. CASE k # n
    <3>1. k + 1 \in 1..n /\ next[q[k]].ptr = q[k + 1] /\ 1 \in 1..n /\ head = q[1]
      BY <2>2, <1>1 DEF Order
    <3>2. q[k + 1] # q[k] /\ q[k + 1] # q[1]
      BY <3>1, <1>1 DEF Order
    <3> QED  BY <3>1, <3>2, <1>3
  <2> QED  BY <2>1, <2>2
<1>7. ASSUME NEW k \in 1..n, NEW l \in 1..n, next[q[k]].ptr = next[q[l]].ptr,
             next[q[k]].ptr # NULL
      PROVE  q[k] = q[l]
  <2>1. k # n /\ l # n  BY <1>1, <1>7 DEF Order
  <2>2. k + 1 \in 1..n /\ l + 1 \in 1..n /\ q[k + 1] = q[l + 1]
    BY <2>1, <1>1, <1>7 DEF Order
  <2>3. k + 1 = l + 1  BY <2>2, <1>1 DEF Order
  <2> QED  BY <2>3
<1>8. \A i \in present : \E k \in 1..n : i = q[k]  BY <1>3
<1>9. \A i \in present : /\ next[i].ptr \in present \cup {NULL}
                         /\ next[i].ptr # i
                         /\ next[i].ptr = head => head = NULL
                         /\ \E f \in present \cup {NULL} : Front(f, i)
  BY <1>5, <1>6, <1>8
<1>10. \A i, j \in present : next[i].ptr = next[j].ptr /\ next[i].ptr # NULL => i = j
  BY <1>7, <1>8
<1> QED  BY <1>4, <1>9, <1>10

\* Nothing of the order changes.
LEMMA OrderKept ==
  ASSUME Linked, UNCHANGED <<head, present>>, \A i \in present : next'[i].ptr = next[i].ptr
  PROVE  Linked'
<1>0. PICK n \in Nat : \E q \in [1..n -> Items] : Order(n, q)
  BY DEF Linked
<1>1. PICK q \in [1..n -> Items] : Order(n, q)
  BY <1>0
<1>2. \A k \in 1..n : q[k] \in present
  BY <1>1 DEF Order
<1>3. Order(n, q)'
  BY <1>1, <1>2 DEF Order
<1> QED  BY <1>3 DEF Linked

\* An item is put in front.
LEMMA OrderGrows ==
  ASSUME Types, Linked, NEW x \in Items \ present, head' = x, present' = present \cup {x},
         next'[x].ptr = head, \A i \in present : next'[i].ptr = next[i].ptr
  PROVE  Linked'
<1>0. PICK n \in Nat : \E q \in [1..n -> Items] : Order(n, q)
  BY DEF Linked
<1>1. PICK q \in [1..n -> Items] : Order(n, q)
  BY <1>0
<1>2. present = {q[k] : k \in 1..n} /\ (\A k \in 1..n : q[k] \in present)
  BY <1>1 DEF Order
<1> DEFINE p == [k \in 1..(n + 1) |-> IF k = 1 THEN x ELSE q[k - 1]]
<1>3. /\ p[1] = x /\ \A k \in 1..n : k + 1 \in 1..(n + 1) /\ p[k + 1] = q[k]
      /\ \A k \in 1..(n + 1) : k # 1 => k - 1 \in 1..n /\ p[k] = q[k - 1]
  OBVIOUS
<1>4. p \in [1..(n + 1) -> Items]
  OBVIOUS
<1> HIDE DEF p
<1>5. ASSUME NEW k \in 1..(n + 1), NEW l \in 1..(n + 1), p[k] = p[l]  PROVE k = l
  <2>1. CASE k = 1 /\ l = 1  BY <2>1
  <2>2. ASSUME NEW j \in 1..(n + 1), j # 1  PROVE p[j] # x
    <3>1. j - 1 \in 1..n /\ p[j] = q[j - 1]  BY <2>2, <1>3
    <3>2. q[j - 1] \in present  BY <3>1, <1>2
    <3> QED  BY <3>1, <3>2
  <2>3. CASE (k = 1 /\ l # 1) \/ (k # 1 /\ l = 1)
    BY <2>2, <2>3, <1>3, <1>5
  <2>4. CASE k # 1 /\ l # 1
    <3>1. k - 1 \in 1..n /\ l - 1 \in 1..n /\ q[k - 1] = q[l - 1]  BY <2>4, <1>3, <1>5
    <3>2. k - 1 = l - 1  BY <3>1, <1>1 DEF Order
    <3> QED  BY <3>2
  <2> QED  BY <2>1, <2>3, <2>4
<1>6. present' = {p[k] : k \in 1..(n + 1)}
  <2>1. ASSUME NEW i \in present  PROVE \E k \in 1..(n + 1) : i = p[k]
    <3>1. PICK k \in 1..n : i = q[k]  BY <1>2
    <3>2. k + 1 \in 1..(n + 1) /\ p[k + 1] = i  BY <3>1, <1>3
    <3> QED  BY <3>2
  <2>2. \A k \in 1..(n + 1) : p[k] \in present \cup {x}  BY <1>2, <1>3
  <2>3. 1 \in 1..(n + 1)  OBVIOUS
  <2> QED  BY <2>1, <2>2, <2>3, <1>3
<1>7. ASSUME NEW k \in 1..(n + 1)
      PROVE  next'[p[k]].ptr = IF k = n + 1 THEN NULL ELSE p[k + 1]
  <2>1. CASE k = 1 /\ n = 0  BY <2>1, <1>1, <1>3 DEF Order
  <2>2. CASE k = 1 /\ n # 0
    <3>1. head = q[1] /\ 1 \in 1..n /\ p[k + 1] = q[1]  BY <2>2, <1>1, <1>3 DEF Order
    <3> QED  BY <2>2, <3>1, <1>3
  <2>3. CASE k # 1
    <3>1. k - 1 \in 1..n /\ p[k] = q[k - 1] /\ q[k - 1] \in present  BY <2>3, <1>2, <1>3
    <3>2. next[q[k - 1]].ptr = IF k - 1 = n THEN NULL ELSE q[k]
      BY <3>1, <1>1 DEF Order
    <3>3. k # n + 1 => p[k + 1] = q[k]  BY <3>1, <1>3
    <3> QED  BY <3>1, <3>2, <3>3
  <2> QED  BY <2>1, <2>2, <2>3
<1>8. Order(n + 1, p)'
  <2>1. head' = p[1]  BY <1>3
  <2> QED  BY <1>5, <1>6, <1>7, <2>1 DEF Order
<1> QED  BY <1>4, <1>8 DEF Linked

\* An item is taken out, and the link that led to it leads to the one after it.
LEMMA OrderCut ==
  ASSUME Types, Linked, NEW x \in present, NEW f \in present \cup {NULL}, Front(f, x),
         present' = present \ {x},
         head' = IF f = NULL THEN next[x].ptr ELSE head,
         \A i \in present \ {x} :
             next'[i].ptr = IF i = f THEN next[x].ptr ELSE next[i].ptr
  PROVE  Linked'
<1>0. PICK n \in Nat : \E q \in [1..n -> Items] : Order(n, q)
  BY DEF Linked
<1>1. PICK q \in [1..n -> Items] : Order(n, q)
  BY <1>0
<1>2. present = {q[k] : k \in 1..n} /\ (\A k \in 1..n : q[k] \in present)
  BY <1>1 DEF Order
<1>3. PICK m \in 1..n : x = q[m]
  BY <1>2
<1>4. NULL \notin Items /\ present \subseteq Items
  BY LockFreeSetAssumption DEF Types
<1>5. \A k \in 1..n : q[k] = f <=> k + 1 = m
  <2>1. CASE f = NULL
    <3>1. head = x /\ n # 0 /\ 1 \in 1..n /\ x = q[1]
      BY <2>1, <1>1, <1>3 DEF Front, Order
    <3>2. m = 1  BY <3>1, <1>1, <1>3 DEF Order
    <3> QED  BY <2>1, <3>2, <1>2, <1>4
  <2>2. CASE f # NULL
    <3>1. f \in present /\ next[f].ptr = x /\ x # NULL
      BY <2>2, <1>4 DEF Front
    <3>2. PICK j \in 1..n : f = q[j]  BY <3>1, <1>2
    <3>3. j # n /\ j + 1 \in 1..n /\ q[j + 1] = x  BY <3>1, <3>2, <1>1 DEF Order
    <3>4. j + 1 = m  BY <3>3, <1>1, <1>3 DEF Order
    <3>5. ASSUME NEW k \in 1..n  PROVE q[k] = f <=> k = j
      BY <3>2, <1>1 DEF Order
    <3> QED  BY <3>4, <3>5
  <2> QED  BY <2>1, <2>2
<1> DEFINE p == [k \in 1..(n - 1) |-> IF k < m THEN q[k] ELSE q[k + 1]]
<1>6. /\ \A k \in 1..(n - 1) : /\ k < m => k \in 1..n /\ p[k] = q[k]
                               /\ ~(k < m) => k + 1 \in 1..n /\ p[k] = q[k + 1]
      /\ n - 1 \in Nat
  OBVIOUS
<1>7. p \in [1..(n - 1) -> Items]
  OBVIOUS
<1> HIDE DEF p
<1>8. ASSUME NEW k \in 1..(n - 1), NEW l \in 1..(n - 1), p[k] = p[l]  PROVE k = l
  <2> DEFINE k1 == IF k < m THEN k ELSE k + 1
             l1 == IF l < m THEN l ELSE l + 1
  <2>1. k1 \in 1..n /\ l1 \in 1..n /\ p[k] = q[k1] /\ p[l] = q[l1]
    BY <1>6
  <2>2. k1 = l1
    <3> HIDE DEF k1, l1
    <3> QED  BY <2>1, <1>1, <1>8 DEF Order
  <2> QED  BY <2>2
<1>9. present' = {p[k] : k \in 1..(n - 1)}
  <2>1. ASSUME NEW i \in present, i # x  PROVE \E k \in 1..(n - 1) : i = p[k]
    <3>1. PICK k \in 1..n : i = q[k]  BY <1>2
    <3>2. k # m  BY <3>1, <2>1, <1>3
    <3>3. CASE k < m  BY <3>1, <3>3, <1>6
    <3>4. CASE k > m
      <4>1. k - 1 \in 1..(n - 1) /\ ~(k - 1 < m) /\ (k - 1) + 1 = k  BY <3>4
      <4> QED  BY <3>1, <4>1, <1>6
    <3> QED  BY <3>2, <3>3, <3>4
  <2>2. ASSUME NEW k \in 1..(n - 1)  PROVE p[k] \in present /\ p[k] # x
    <3>1. CASE k < m
      <4>1. p[k] = q[k] /\ k \in 1..n /\ k # m  BY <3>1, <1>6
      <4> QED  BY <4>1, <1>1, <1>2, <1>3 DEF Order
    <3>2. CASE ~(k < m)
      <4>1. p[k] = q[k + 1] /\ k + 1 \in 1..n /\ k + 1 # m  BY <3>2, <1>6
      <4> QED  BY <4>1, <1>1, <1>2, <1>3 DEF Order
    <3> QED  BY <3>1, <3>2
  <2> QED  BY <2>1, <2>2
<1>10. next[x].ptr = IF m = n THEN NULL ELSE q[m + 1]
  BY <1>1, <1>3 DEF Order
<1>11. ASSUME NEW k \in 1..(n - 1)
       PROVE  next'[p[k]].ptr = IF k = n - 1 THEN NULL ELSE p[k + 1]
  <2>0. p[k] \in present \ {x}  BY <1>9
  <2>1. CASE k + 1 = m
    <3>1. p[k] = q[k] /\ k \in 1..n  BY <2>1, <1>6
    <3>2. next'[p[k]].ptr = next[x].ptr  BY <2>0, <2>1, <3>1, <1>5
    <3>3. k # n - 1 => k + 1 \in 1..(n - 1) /\ p[k + 1] = q[m + 1]
      BY <2>1, <1>6
    <3> QED  BY <2>1, <3>2, <3>3, <1>10
  <2>2. CASE k + 1 < m
    <3>1. p[k] = q[k] /\ k \in 1..n /\ k + 1 # m /\ k # n /\ k # n - 1
      BY <2>2, <1>6
    <3>2. next'[p[k]].ptr = next[q[k]].ptr  BY <2>0, <3>1, <1>5
    <3>3. next[q[k]].ptr = q[k + 1]  BY <3>1, <1>1 DEF Order
    <3>4. p[k + 1] = q[k + 1]  BY <2>2, <3>1, <1>6
    <3> QED  BY <3>1, <3>2, <3>3, <3>4
  <2>3. CASE ~(k < m)
    <3>1. p[k] = q[k + 1] /\ k + 1 \in 1..n /\ (k + 1) + 1 # m
      BY <2>3, <1>6
    <3>2. next'[p[k]].ptr = next[q[k + 1]].ptr  BY <2>0, <3>1, <1>5
    <3>3. next[q[k + 1]].ptr = IF k + 1 = n THEN NULL ELSE q[(k + 1) + 1]
      BY <3>1, <1>1 DEF Order
    <3>4. k # n - 1 => p[k + 1] = q[(k + 1) + 1]  BY <2>3, <1>6
    <3> QED  BY <3>1, <3>2, <3>3, <3>4
  <2> QED  BY <2>1, <2>2, <2>3
<1>12. head' = IF n - 1 = 0 THEN NULL ELSE p[1]
  <2>1. CASE f = NULL
    <3>1. head = x /\ n # 0 /\ 1 \in 1..n /\ x = q[1]
      BY <2>1, <1>1, <1>3 DEF Front, Order
    <3>2. m = 1  BY <3>1, <1>1, <1>3 DEF Order
    <3>3. n - 1 # 0 => p[1] = q[m + 1]  BY <3>2, <1>6
    <3> QED  BY <2>1, <3>2, <3>3, <1>10
  <2>2. CASE f # NULL
    <3>1. f \in present  BY <2>2 DEF Front
    <3>2. PICK j \in 1..n : f = q[j]  BY <3>1, <1>2
    <3>3. j + 1 = m  BY <3>2, <1>5
    <3>4. n # 0 /\ n - 1 # 0 /\ 1 \in 1..(n - 1) /\ 1 < m  BY <3>3
    <3>5. head = q[1] /\ p[1] = q[1]  BY <3>4, <1>1, <1>6 DEF Order
    <3> QED  BY <2>2, <3>4, <3>5
  <2> QED  BY <2>1, <2>2
<1>13. Order(n - 1, p)'
  BY <1>8, <1>9, <1>11, <1>12 DEF Order
<1> QED  BY <1>6, <1>7, <1>13 DEF Linked

-----------------------------------------------------------------------------
(* The links back *)

\* In front of an item is one.
LEMMA OneFront ==
  ASSUME Types, Linked, NEW i \in present, NEW f \in present \cup {NULL},
         NEW g \in present \cup {NULL}, Front(f, i), Front(g, i)
  PROVE  f = g
<1>1. NULL \notin present
  BY LockFreeSetAssumption DEF Types
<1> QED  BY <1>1, Straight DEF Front

\* The pointer back that is not to the item of a mender is as it has to be, and nobody
\* is about to mend it.
LEMMA Settled ==
  ASSUME NEW i, NEW f, Chained(i, f), \A m \in Menders(i) : prev[i].ptr # item[m]
  PROVE  Menders(i) = {} /\ prev[i].ptr = Shown(f)
<1>1. PICK r \in Nat : \E c \in [1..r -> Threads] : Chain(i, f, r, c)
  BY DEF Chained
<1>2. PICK c \in [1..r -> Threads] : Chain(i, f, r, c)
  BY <1>1
<1>3. r = 0
  <2>1. SUFFICES ASSUME r # 0  PROVE FALSE
    OBVIOUS
  <2>2. 1 \in 1..r  BY <2>1
  <2>3. c[1] \in Menders(i) /\ prev[i].ptr = item[c[1]]  BY <2>1, <2>2, <1>2 DEF Chain
  <2> QED  BY <2>3
<1> QED  BY <1>2, <1>3 DEF Chain

\* When nobody has to mend the link and it is as it has to be, there is no chain.
LEMMA ChainStarts ==
  ASSUME NEW i, NEW f, Menders(i)' = {}, prev'[i].ptr = Shown(f)'
  PROVE  Chained(i, f)'
<1> DEFINE c == [j \in 1..0 |-> CHOOSE t \in Threads : TRUE]
<1>1. c \in [1..0 -> Threads]  OBVIOUS
<1> HIDE DEF c
<1>2. Chain(i, f, 0, c)'  BY DEF Chain
<1> QED  BY <1>1, <1>2 DEF Chained

\* A step that changes neither the link nor its menders keeps the chain, whoever is in
\* front then.
LEMMA ChainKept ==
  ASSUME NEW i, NEW f, NEW g, Chained(i, f), prev'[i].ptr = prev[i].ptr,
         Menders(i)' = Menders(i), Shown(g)' = Shown(f),
         \A m \in Menders(i) : Target(m)' = Target(m) /\ item'[m] = item[m]
  PROVE  Chained(i, g)'
<1>1. PICK r \in Nat : \E c \in [1..r -> Threads] : Chain(i, f, r, c)
  BY DEF Chained
<1>2. PICK c \in [1..r -> Threads] : Chain(i, f, r, c)
  BY <1>1
<1>3. \A j \in 1..r : c[j] \in Menders(i)  BY <1>2 DEF Chain
<1>4. Chain(i, g, r, c)'
  <2>1. (\A j, k \in 1..r : c[j] = c[k] => j = k) /\ Menders(i)' = {c[j] : j \in 1..r}
    BY <1>2 DEF Chain
  <2>2. prev'[i].ptr = IF r = 0 THEN Shown(g)' ELSE item'[c[1]]
    BY <1>2, <1>3 DEF Chain
  <2>3. ASSUME NEW j \in 1..r
        PROVE  Target(c[j])' = IF j = r THEN Shown(g)' ELSE item'[c[j + 1]]
    BY <1>2, <1>3 DEF Chain
  <2> QED  BY <2>1, <2>2, <2>3 DEF Chain
<1> QED  BY <1>4 DEF Chained

\* The thread that takes the item in front away becomes the last of the menders.
LEMMA ChainGrows ==
  ASSUME NEW i, NEW f, NEW g, NEW t \in Threads, Chained(i, f), prev'[i].ptr = prev[i].ptr,
         t \notin Menders(i), Menders(i)' = Menders(i) \cup {t},
         Shown(f) = item[t], item'[t] = item[t], Target(t)' = Shown(g)',
         \A m \in Menders(i) : Target(m)' = Target(m) /\ item'[m] = item[m]
  PROVE  Chained(i, g)'
<1>1. PICK r \in Nat : \E c \in [1..r -> Threads] : Chain(i, f, r, c)
  BY DEF Chained
<1>2. PICK c \in [1..r -> Threads] : Chain(i, f, r, c)
  BY <1>1
<1>3. \A j \in 1..r : c[j] \in Menders(i)  BY <1>2 DEF Chain
<1> DEFINE d == [j \in 1..(r + 1) |-> IF j = r + 1 THEN t ELSE c[j]]
<1>4. d[r + 1] = t /\ \A j \in 1..(r + 1) : j # r + 1 => j \in 1..r /\ d[j] = c[j]
  OBVIOUS
<1>5. d \in [1..(r + 1) -> Threads]
  OBVIOUS
<1> HIDE DEF d
<1>6. Chain(i, g, r + 1, d)'
  <2>1. \A j, k \in 1..(r + 1) : d[j] = d[k] => j = k
    BY <1>2, <1>3, <1>4 DEF Chain
  <2>2. Menders(i)' = {d[j] : j \in 1..(r + 1)}
    <3>1. Menders(i) = {c[j] : j \in 1..r}  BY <1>2 DEF Chain
    <3>2. ASSUME NEW m \in Menders(i)'  PROVE \E j \in 1..(r + 1) : m = d[j]
      <4>1. CASE m = t  BY <4>1, <1>4
      <4>2. CASE m \in Menders(i)
        <5>1. PICK j \in 1..r : m = c[j]  BY <3>1, <4>2
        <5>2. j \in 1..(r + 1) /\ j # r + 1  OBVIOUS
        <5> QED  BY <5>1, <5>2, <1>4
      <4> QED  BY <4>1, <4>2
    <3>3. \A j \in 1..(r + 1) : d[j] \in Menders(i)'
      BY <1>3, <1>4
    <3> QED  BY <3>2, <3>3
  <2>3. prev'[i].ptr = item'[d[1]]
    <3>1. CASE r = 0  BY <3>1, <1>2, <1>4 DEF Chain
    <3>2. CASE r # 0
      <4>1. 1 \in 1..r /\ d[1] = c[1]  BY <3>2, <1>4
      <4> QED  BY <3>2, <4>1, <1>2, <1>3 DEF Chain
    <3> QED  BY <3>1, <3>2
  <2>4. ASSUME NEW j \in 1..(r + 1)
        PROVE  Target(d[j])' = IF j = r + 1 THEN Shown(g)' ELSE item'[d[j + 1]]
    <3>1. CASE j = r + 1  BY <3>1, <1>4
    <3>2. CASE j = r
      <4>1. d[j] = c[j] /\ d[j + 1] = t /\ j \in 1..r  BY <3>2, <1>4
      <4>2. Target(c[j]) = item[t]  BY <3>2, <4>1, <1>2 DEF Chain
      <4>3. Target(c[j])' = Target(c[j])  BY <4>1, <1>3
      <4> QED  BY <3>2, <4>1, <4>2, <4>3
    <3>3. CASE j # r /\ j # r + 1
      <4>1. j \in 1..r /\ j + 1 \in 1..r /\ d[j] = c[j] /\ d[j + 1] = c[j + 1]
        BY <3>3, <1>4
      <4>2. Target(c[j]) = item[c[j + 1]]  BY <3>3, <4>1, <1>2 DEF Chain
      <4>3. Target(c[j])' = Target(c[j]) /\ item'[c[j + 1]] = item[c[j + 1]]
        BY <4>1, <1>3
      <4> QED  BY <3>3, <4>1, <4>2, <4>3
    <3> QED  BY <3>1, <3>2, <3>3
  <2> QED  BY <2>1, <2>2, <2>3, <2>4 DEF Chain
<1>7. r + 1 \in Nat  OBVIOUS
<1> QED  BY <1>5, <1>6, <1>7 DEF Chained

\* The first of the menders sets the link to what it has to, and is done.
LEMMA ChainShrinks ==
  ASSUME NEW i, NEW f, NEW t \in Threads, Chained(i, f), t \in Menders(i),
         prev[i].ptr = item[t], prev'[i].ptr = Target(t),
         Menders(i)' = Menders(i) \ {t}, Shown(f)' = Shown(f),
         \A m \in Menders(i) : item[m] = item[t] => m = t,
         \A m \in Menders(i) \ {t} : Target(m)' = Target(m) /\ item'[m] = item[m]
  PROVE  Chained(i, f)'
<1>1. PICK r \in Nat : \E c \in [1..r -> Threads] : Chain(i, f, r, c)
  BY DEF Chained
<1>2. PICK c \in [1..r -> Threads] : Chain(i, f, r, c)
  BY <1>1
<1>3. \A j \in 1..r : c[j] \in Menders(i)  BY <1>2 DEF Chain
<1>4. r # 0 /\ 1 \in 1..r /\ c[1] = t
  <2>1. r # 0  BY <1>2 DEF Chain
  <2>2. 1 \in 1..r  BY <2>1
  <2>3. prev[i].ptr = item[c[1]] /\ c[1] \in Menders(i)  BY <2>1, <2>2, <1>2, <1>3 DEF Chain
  <2> QED  BY <2>1, <2>2, <2>3
<1>5. \A j \in 1..r : c[j] = t <=> j = 1
  BY <1>2, <1>4 DEF Chain
<1> DEFINE d == [j \in 1..(r - 1) |-> c[j + 1]]
<1>6. r - 1 \in Nat /\ \A j \in 1..(r - 1) : j + 1 \in 1..r /\ d[j] = c[j + 1] /\ d[j] # t
  BY <1>4, <1>5
<1>7. d \in [1..(r - 1) -> Threads]
  BY <1>6
<1> HIDE DEF d
<1>8. Chain(i, f, r - 1, d)'
  <2>1. ASSUME NEW j \in 1..(r - 1), NEW k \in 1..(r - 1), d[j] = d[k]  PROVE j = k
    <3>1. j + 1 = k + 1  BY <2>1, <1>2, <1>6 DEF Chain
    <3> QED  BY <3>1
  <2>2. Menders(i)' = {d[j] : j \in 1..(r - 1)}
    <3>1. Menders(i) = {c[j] : j \in 1..r}  BY <1>2 DEF Chain
    <3>2. ASSUME NEW m \in Menders(i), m # t  PROVE \E j \in 1..(r - 1) : m = d[j]
      <4>1. PICK j \in 1..r : m = c[j]  BY <3>1
      <4>2. j - 1 \in 1..(r - 1) /\ (j - 1) + 1 = j  BY <4>1, <3>2, <1>4
      <4> QED  BY <4>1, <4>2, <1>6
    <3>3. \A j \in 1..(r - 1) : d[j] \in Menders(i) /\ d[j] # t
      BY <1>3, <1>6
    <3> QED  BY <3>2, <3>3
  <2>3. prev'[i].ptr = IF r - 1 = 0 THEN Shown(f)' ELSE item'[d[1]]
    <3>1. Target(c[1]) = IF 1 = r THEN Shown(f) ELSE item[c[1 + 1]]
      BY <1>2, <1>4 DEF Chain
    <3>2. CASE r - 1 = 0
      BY <3>1, <3>2, <1>4
    <3>3. CASE r - 1 # 0
      <4>1. 1 \in 1..(r - 1) /\ d[1] = c[1 + 1] /\ d[1] \in Menders(i) \ {t} /\ 1 # r
        BY <3>3, <1>3, <1>6
      <4> QED  BY <3>1, <3>3, <4>1, <1>4
    <3> QED  BY <3>2, <3>3
  <2>4. ASSUME NEW j \in 1..(r - 1)
        PROVE  Target(d[j])' = IF j = r - 1 THEN Shown(f)' ELSE item'[d[j + 1]]
    <3>1. j + 1 \in 1..r /\ d[j] = c[j + 1] /\ d[j] \in Menders(i) \ {t}
      BY <1>3, <1>6
    <3>2. Target(c[j + 1]) = IF j + 1 = r THEN Shown(f) ELSE item[c[(j + 1) + 1]]
      BY <3>1, <1>2 DEF Chain
    <3>3. CASE j = r - 1  BY <3>1, <3>2, <3>3
    <3>4. CASE j # r - 1
      <4>1. j + 1 \in 1..(r - 1) /\ j + 1 # r /\ d[j + 1] = c[(j + 1) + 1]
            /\ d[j + 1] \in Menders(i) \ {t}
        BY <3>4, <1>3, <1>6
      <4> QED  BY <3>1, <3>2, <3>4, <4>1
    <3> QED  BY <3>3, <3>4
  <2> QED  BY <2>1, <2>2, <2>3, <2>4 DEF Chain
<1> QED  BY <1>6, <1>7, <1>8 DEF Chained

-----------------------------------------------------------------------------
(* Steps that leave the set alone *)

\* The step of t changes no link of another's item and no pointer of the set, and t
\* neither owes a link back before nor after it.
Calm(t) ==
    /\ UNCHANGED <<head, present>>
    /\ \A i \in Items \ {item[t]} : next'[i] = next[i] /\ prev'[i] = prev[i]
    /\ \A i \in present : next'[i].ptr = next[i].ptr /\ prev'[i].ptr = prev[i].ptr
    /\ pc[t] \notin Mends \cup {"join"} /\ pc'[t] \notin Mends \cup {"join"}

\* What the other threads know of the set stays true when their items stay in it, the
\* items they are about to link back stay too, and the links they know stay.
LEMMA OthersPlaced ==
  ASSUME IInv, NEW t \in Threads, Quiet(t), NEW u \in Threads \ {t}, Place(u),
         present' \subseteq present \cup {item[t]}, present \subseteq present' \cup {item[t]},
         pc[u] \in Mends \cup {"join"} => after[u] \in present',
         pc[u] = "in_front" => prev'[item[u]] = prev[item[u]],
         pc[u] \in {"in_front", "join"} \/ (pc[u] \in Lasts /\ next[item[u]] = Nowhere)
             => next'[item[u]] = next[item[u]]
  PROVE  Place(u)'
<1>1. pc'[u] = pc[u] /\ item'[u] = item[u] /\ before'[u] = before[u] /\ after'[u] = after[u]
  BY DEF Quiet
<1>2. CASE pc[u] = "idle"
  BY <1>1, <1>2 DEF Place, Takes, Lasts, Mends
<1>3. CASE pc[u] # "idle"
  <2>1. item[u] # item[t]
    BY <1>3, LockFreeSetAssumption DEF IInv, OneCall
  <2>2. item[u] \in present' <=> item[u] \in present
    BY <2>1
  <2> QED  BY <1>1, <2>2 DEF Place
<1> QED  BY <1>2, <1>3

\* The chain of every link stays.
LEMMA CalmKeeps ==
  ASSUME LInv, NEW t \in Threads, Quiet(t), Calm(t)
  PROVE  Linked' /\ Backs' /\ \A u \in Threads \ {t} : Place(u)'
<1>1. IInv /\ Types /\ Places /\ Linked /\ Backs
  BY DEF LInv, IInv
<1>2. Linked'
  <2>1. \A i \in present : next'[i].ptr = next[i].ptr
    BY DEF Calm
  <2> QED  BY <1>1, <2>1, OrderKept DEF Calm
<1>3. Backs'
  <2> SUFFICES ASSUME NEW i \in present', NEW f \in present' \cup {NULL}, Front(f, i)'
               PROVE  Chained(i, f)'
    BY DEF Backs
  <2>1. i \in present /\ f \in present \cup {NULL}
    BY DEF Calm
  <2>2. Front(f, i)
    BY <2>1 DEF Calm, Front
  <2>3. Chained(i, f)
    BY <1>1, <2>1, <2>2 DEF Backs
  <2>4. Menders(i)' = Menders(i)
    BY DEF Menders, Calm, Quiet
  <2>5. Shown(f)' = Shown(f)
    BY DEF Shown, Calm, Quiet
  <2>6. \A m \in Menders(i) : Target(m)' = Target(m) /\ item'[m] = item[m]
    BY DEF Menders, Target, Calm, Quiet
  <2>7. prev'[i].ptr = prev[i].ptr
    BY <2>1 DEF Calm
  <2> QED  BY <2>3, <2>4, <2>5, <2>6, <2>7, ChainKept
<1>4. ASSUME NEW u \in Threads \ {t}
      PROVE  Place(u)'
  <2>1. Place(u)  BY <1>1 DEF Places
  <2>2. CASE pc[u] = "idle"
    BY <2>2 DEF Quiet, Place, Takes, Lasts, Mends
  <2>3. CASE pc[u] # "idle"
    <3>1. item[u] \in Items \ {item[t]}
      BY <1>1, <2>3, LockFreeSetAssumption DEF IInv, OneCall
    <3>2. next'[item[u]] = next[item[u]] /\ prev'[item[u]] = prev[item[u]]
      BY <3>1 DEF Calm
    <3>3. present' = present  BY DEF Calm
    <3>4. pc[u] \in Mends \cup {"join"} => after[u] \in present'
      BY <2>1, <3>3 DEF Place
    <3> QED  BY <1>1, <2>1, <3>2, <3>3, <3>4, OthersPlaced
  <2> QED  BY <2>2, <2>3
<1> QED  BY <1>2, <1>3, <1>4

\* The steps that only read, that mark and unmark the thread's own links, and that
\* prepare an item nobody else knows.
CalmStep(t) ==
    \/ InsertStart(t) \/ RemoveStart(t) \/ InsertReadHead(t) \/ InsertAgain(t)
    \/ RemoveReadHead(t) \/ HeadReadNext(t) \/ HeadLockPrev(t) \/ HeadLockNext(t)
    \/ MidReadPrev(t) \/ MidLockPrev(t) \/ MidReadNext(t) \/ MidLockNext(t)
    \/ MidReadHead(t) \/ LockFails(t) \/ SwingFails(t) \/ UnlockNext(t) \/ UnlockPrev(t)

LEMMA StepsAreCalm ==
  ASSUME LInv, NEW t \in Threads, CalmStep(t)
  PROVE  Calm(t)
<1>1. /\ Types /\ (IF pc[t] = "idle" THEN item[t] = NULL ELSE item[t] \in Items)
      /\ Place(t) /\ NULL \notin Items /\ present \subseteq Items
  BY LockFreeSetAssumption DEF LInv, IInv, OneCall, Places, Types
<1>2. /\ \A p : Link(p).ptr = p /\ Marked(p).ptr = p
  BY LinkFacts DEF Marked
<1> USE <1>1, <1>2 DEF Types, Calm, Mends
<1>3. CASE InsertStart(t)
  BY <1>3 DEF InsertStart, Goto, Links, client
<1>4. CASE RemoveStart(t)
  BY <1>4 DEF RemoveStart, Goto, Links, client
<1>5. CASE InsertReadHead(t)
  BY <1>5 DEF InsertReadHead, Goto, Links, client, Place
<1>6. CASE InsertAgain(t)
  BY <1>6 DEF InsertAgain, Goto, Links, client
<1>7. CASE RemoveReadHead(t)
  BY <1>7 DEF RemoveReadHead, Goto, Links, client
<1>8. CASE HeadReadNext(t)
  BY <1>8 DEF HeadReadNext, Goto, Links, client
<1>9. CASE HeadLockPrev(t)
  BY <1>9 DEF HeadLockPrev, Goto, CasPrev, client, Nowhere
<1>10. CASE HeadLockNext(t)
  BY <1>10 DEF HeadLockNext, Goto, CasNext, client
<1>11. CASE MidReadPrev(t)
  BY <1>11 DEF MidReadPrev, Goto, Links, client
<1>12. CASE MidLockPrev(t)
  BY <1>12 DEF MidLockPrev, Goto, CasPrev, client
<1>13. CASE MidReadNext(t)
  BY <1>13 DEF MidReadNext, Goto, Links, client
<1>14. CASE MidLockNext(t)
  BY <1>14 DEF MidLockNext, Goto, CasNext, client
<1>15. CASE MidReadHead(t)
  BY <1>15 DEF MidReadHead, Goto, Links, client
<1>16. CASE LockFails(t)
  BY <1>16 DEF LockFails, Goto, Links, client
<1>17. CASE SwingFails(t)
  BY <1>17 DEF SwingFails, Goto, Links, client
<1>18. CASE UnlockNext(t)
  BY <1>18 DEF UnlockNext, Goto, CasNext, client
<1>19. CASE UnlockPrev(t)
  BY <1>19 DEF UnlockPrev, Goto, CasPrev, client, Nowhere
<1> QED
  BY <1>3, <1>4, <1>5, <1>6, <1>7, <1>8, <1>9, <1>10, <1>11, <1>12, <1>13, <1>14,
     <1>15, <1>16, <1>17, <1>18, <1>19
  DEF CalmStep

\* Each of them leads from what the thread knows of the set at one place to what it knows
\* at the next.
LEMMA CalmPlaced ==
  ASSUME LInv, NEW t \in Threads, CalmStep(t)
  PROVE  Place(t)'
<1>1. /\ Types /\ (IF pc[t] = "idle" THEN item[t] = NULL ELSE item[t] \in Items)
      /\ Place(t) /\ NULL \notin Items /\ present \subseteq Items
      /\ NextOf(t)
  BY LockFreeSetAssumption DEF LInv, IInv, OneCall, Places, Types, Known
<1> USE <1>1 DEF Types, Place, Mends, Takes, Lasts
<1>3. CASE InsertStart(t)
  BY <1>3 DEF InsertStart, Goto, Links, client, LInv, IInv, OneCall
<1>4. CASE RemoveStart(t)
  BY <1>4 DEF RemoveStart, Goto, Links, client
<1>5. CASE InsertReadHead(t)
  BY <1>5 DEF InsertReadHead, Goto, Links, client
<1>6. CASE InsertAgain(t)
  BY <1>6 DEF InsertAgain, Goto, Links, client
<1>7. CASE RemoveReadHead(t)
  BY <1>7 DEF RemoveReadHead, Goto, Links, client
<1>8. CASE HeadReadNext(t)
  <2>1. ~next[item[t]].mark /\ next[item[t]] \in LinkValues /\ next' = next
        /\ item' = item /\ present' = present /\ pc[t] = "head_next"
        /\ pc' = [pc EXCEPT ![t] = "head_lock"]
        /\ after' = [after EXCEPT ![t] = next[item[t]].ptr]
    BY <1>8 DEF HeadReadNext, Goto, Links, client, NextOf
  <2>2. next[item[t]] = Link(next[item[t]].ptr)
    BY <2>1, LinkFacts
  <2> QED  BY <2>1, <2>2 DEF Nowhere
<1>9. CASE HeadLockPrev(t)
  BY <1>9 DEF HeadLockPrev, Goto, CasPrev, client
<1>10. CASE HeadLockNext(t)
  BY <1>10 DEF HeadLockNext, Goto, CasNext, client, NextOf
<1>11. CASE MidReadPrev(t)
  BY <1>11 DEF MidReadPrev, Goto, Links, client
<1>12. CASE MidLockPrev(t)
  BY <1>12 DEF MidLockPrev, Goto, CasPrev, client
<1>13. CASE MidReadNext(t)
  BY <1>13 DEF MidReadNext, Goto, Links, client
<1>14. CASE MidLockNext(t)
  BY <1>14 DEF MidLockNext, Goto, CasNext, client, NextOf
<1>15. CASE MidReadHead(t)
  BY <1>15 DEF MidReadHead, Goto, Links, client
<1>16. CASE LockFails(t)
  BY <1>16 DEF LockFails, Goto, Links, client
<1>17. CASE SwingFails(t)
  BY <1>17 DEF SwingFails, Goto, Links, client
<1>18. CASE UnlockNext(t)
  BY <1>18 DEF UnlockNext, Goto, CasNext, client
<1>19. CASE UnlockPrev(t)
  BY <1>19 DEF UnlockPrev, Goto, CasPrev, client
<1> QED
  BY <1>3, <1>4, <1>5, <1>6, <1>7, <1>8, <1>9, <1>10, <1>11, <1>12, <1>13, <1>14,
     <1>15, <1>16, <1>17, <1>18, <1>19
  DEF CalmStep

-----------------------------------------------------------------------------
(* Steps that change the set or mend a link back *)

\* What the lemmas on these steps need of the invariant.
LEMMA Facts ==
  ASSUME LInv, NEW t \in Threads, pc[t] # "idle"
  PROVE  /\ Types /\ OneCall /\ Places /\ Linked /\ Backs /\ Place(t) /\ PrevOf(t) /\ NextOf(t)
         /\ NULL \notin Items /\ present \subseteq Items /\ item[t] \in Items
         /\ \A u \in Threads : item[u] = item[t] => u = t
  BY LockFreeSetAssumption DEF LInv, IInv, OneCall, Places, Types, Known

\* The other threads keep their chains apart from t.
LEMMA OthersMend ==
  ASSUME NEW t \in Threads, Quiet(t)
  PROVE  /\ \A i : \A u \in Threads \ {t} : u \in Menders(i)' <=> u \in Menders(i)
         /\ \A u \in Threads \ {t} : Target(u)' = Target(u) /\ item'[u] = item[u]
         /\ \A f : (pc[t] = "join" => item[t] # f) /\ (pc'[t] = "join" => item'[t] # f)
                       => Shown(f)' = Shown(f)
  BY DEF Quiet, Menders, Target, Shown

\* An insert that has put its item in front has the link of the old head to set.
LEMMA InsertAtHeadKeeps ==
  ASSUME LInv, NEW t \in Threads, Quiet(t), InsertAtHead(t)
  PROVE  Places' /\ Linked' /\ Backs'
<1>1. /\ Types /\ OneCall /\ Places /\ Linked /\ Backs /\ Place(t) /\ PrevOf(t) /\ NextOf(t)
      /\ NULL \notin Items /\ present \subseteq Items /\ item[t] \in Items
      /\ \A u \in Threads : item[u] = item[t] => u = t
  BY Facts DEF InsertAtHead
<1>2. PICK x \in Items, h \in {head} : x = item[t] /\ h = head
  BY <1>1
<1>3. /\ pc[t] = "in_front" /\ after[t] = h /\ head' = x /\ UNCHANGED <<next, prev>>
      /\ present' = present \cup {x} /\ x \notin present
      /\ next[x] = Link(h) /\ prev[x] = Nowhere
      /\ IF h = NULL THEN pc' = [pc EXCEPT ![t] = "idle"]
         ELSE pc' = [pc EXCEPT ![t] = "join"] /\ UNCHANGED <<item, before, after>>
  BY <1>1, <1>2 DEF InsertAtHead, CasHead, Return, Goto, Place
<1>4. Linked'
  <2>1. next'[x].ptr = head  BY <1>2, <1>3, LinkFacts
  <2> QED  BY <2>1, <1>1, <1>3, OrderGrows
<1>5. h \in present \cup {NULL}
  BY <1>1, <1>2, Straight
<1>6. Places'
  <2>1. Place(t)'
    BY <1>1, <1>2, <1>3, <1>5 DEF Place, Takes, Lasts, Mends, Types
  <2>2. ASSUME NEW u \in Threads \ {t}  PROVE Place(u)'
    <3>1. Place(u)  BY <1>1 DEF Places
    <3>2. pc[u] \in Mends \cup {"join"} => after[u] \in present'
      BY <3>1, <1>3 DEF Place
    <3> QED  BY <3>1, <3>2, <1>2, <1>3, OthersPlaced DEF LInv
  <2> QED  BY <2>1, <2>2 DEF Places
<1>7. Backs'
  <2> SUFFICES ASSUME NEW j \in present', NEW g \in present' \cup {NULL}, Front(g, j)'
               PROVE  Chained(j, g)'
    BY DEF Backs
  <2>1. \A i : Menders(i)' = Menders(i)
    <3>1. \A i : t \notin Menders(i) /\ t \notin Menders(i)'
      BY <1>1, <1>3 DEF Menders, Mends, Types
    <3> QED  BY <3>1, OthersMend DEF Menders
  <2>2. \A m \in Menders(j) : Target(m)' = Target(m) /\ item'[m] = item[m]
    <3>1. t \notin Menders(j)  BY <1>3 DEF Menders, Mends
    <3> QED  BY <3>1, OthersMend DEF Menders
  <2>3. \A f : f # x => Shown(f)' = Shown(f)
    BY <1>1, <1>2, <1>3, OthersMend DEF Types
  <2>4. x # NULL /\ Shown(NULL) = NULL /\ Shown(NULL)' = NULL
    BY <1>1 DEF Shown
  <2>5. CASE j = x
    <3>1. g = NULL
      <4>1. SUFFICES ASSUME g # NULL  PROVE FALSE
        OBVIOUS
      <4>2. g \in present \cup {x} /\ next[g].ptr = x
        BY <4>1, <2>5, <1>3 DEF Front
      <4>3. CASE g = x
        BY <4>2, <4>3, <1>3, <1>5, <2>4, LinkFacts
      <4>4. CASE g \in present
        BY <4>2, <4>4, <1>1, <1>3, <2>4, Straight
      <4> QED  BY <4>2, <4>3, <4>4
    <3>2. Menders(j) = {}
      BY <2>5, <1>1, <1>3 DEF Menders, Places, Place
    <3>3. prev'[j].ptr = NULL
      BY <2>5, <1>3 DEF Nowhere, Link
    <3>4. Menders(j)' = {} /\ prev'[j].ptr = Shown(g)'
      BY <3>1, <3>2, <3>3, <2>1, <2>4
    <3> QED  BY <3>4, ChainStarts
  <2>6. CASE j = h /\ j # x
    <3>1. j \in present /\ h # NULL  BY <2>6, <1>1, <1>5, <1>3
    <3>2. Front(NULL, j)  BY <2>6, <1>2 DEF Front
    <3>3. Chained(j, NULL)  BY <3>1, <3>2, <1>1 DEF Backs
    <3>4. g = x
      <4>1. g # NULL  BY <2>6, <1>3 DEF Front
      <4>2. g \in present => next[g].ptr # head  BY <1>1, <1>2, <3>1, Straight
      <4>3. g \in present => next[g].ptr = j  BY <4>1, <1>3 DEF Front
      <4> QED  BY <4>1, <4>2, <4>3, <2>6, <1>2, <1>3
    <3>5. Shown(g)' = NULL
      BY <3>1, <3>4, <1>1, <1>2, <1>3 DEF Shown, Types
    <3> QED  BY <3>3, <3>5, <2>1, <2>2, <2>4, <1>3, ChainKept
  <2>7. CASE j # h /\ j # x
    <3>1. j \in present  BY <2>7, <1>3
    <3>2. g # NULL /\ g # x
      BY <2>7, <1>1, <1>3, <2>4, LinkFacts DEF Front
    <3>3. g \in present /\ Front(g, j)  BY <3>2, <1>3 DEF Front
    <3>4. Chained(j, g)  BY <3>1, <3>3, <1>1 DEF Backs
    <3> QED  BY <3>2, <3>4, <2>1, <2>2, <2>3, <1>3, ChainKept
  <2> QED  BY <2>5, <2>6, <2>7
<1> QED  BY <1>4, <1>6, <1>7

\* The insert has set the link of the item behind its own.
LEMMA JoinKeeps ==
  ASSUME LInv, NEW t \in Threads, Quiet(t), Join(t)
  PROVE  Places' /\ Linked' /\ Backs'
<1>1. /\ Types /\ OneCall /\ Places /\ Linked /\ Backs /\ Place(t) /\ PrevOf(t) /\ NextOf(t)
      /\ NULL \notin Items /\ present \subseteq Items /\ item[t] \in Items
      /\ \A u \in Threads : item[u] = item[t] => u = t
  BY Facts DEF Join, Return, Goto
<1>2. PICK x \in Items, i \in present : x = item[t] /\ i = after[t] /\ x \in present
                                        /\ next[x] = Link(i) /\ pc[t] = "join"
  BY <1>1 DEF Join, Return, Goto, Place
<1>3. /\ UNCHANGED <<head, next, present>> /\ prev[i] = Nowhere
      /\ prev' = [prev EXCEPT ![i] = Link(x)]
      /\ pc' = [pc EXCEPT ![t] = "idle"]
  BY <1>2 DEF Join, CasPrev, Return, Goto
<1>4. prev'[i].ptr = x /\ \A j \in present : j # i => prev'[j] = prev[j]
  BY <1>1, <1>2, <1>3, LinkFacts DEF Types
<1>5. Linked'
  BY <1>1, <1>3, OrderKept
<1>6. Places'
  <2>1. Place(t)'
    BY <1>1, <1>3 DEF Place, Takes, Lasts, Mends, Types
  <2>2. ASSUME NEW u \in Threads \ {t}  PROVE Place(u)'
    <3>1. Place(u)  BY <1>1 DEF Places
    <3>2. pc[u] \in Mends \cup {"join"} => after[u] \in present'
      BY <3>1, <1>3 DEF Place
    <3>3. pc[u] = "in_front" => prev'[item[u]] = prev[item[u]]
      BY <3>1, <1>1, <1>2, <1>3 DEF Place, Types
    <3> QED  BY <3>1, <3>2, <3>3, <1>3, OthersPlaced DEF LInv
  <2> QED  BY <2>1, <2>2 DEF Places
<1>7. Backs'
  <2> SUFFICES ASSUME NEW j \in present', NEW g \in present' \cup {NULL}, Front(g, j)'
               PROVE  Chained(j, g)'
    BY DEF Backs
  <2>1. j \in present /\ g \in present \cup {NULL} /\ Front(g, j)
    BY <1>3 DEF Front
  <2>2. Chained(j, g)
    BY <2>1, <1>1 DEF Backs
  <2>3. Menders(j)' = Menders(j) /\ t \notin Menders(j)
    <3>1. t \notin Menders(j) /\ t \notin Menders(j)'
      BY <1>1, <1>2, <1>3 DEF Menders, Mends, Types
    <3> QED  BY <3>1, OthersMend DEF Menders
  <2>4. \A m \in Menders(j) : Target(m)' = Target(m) /\ item'[m] = item[m]
    BY <2>3, OthersMend DEF Menders
  <2>5. \A f : f # x => Shown(f)' = Shown(f)
    BY <1>1, <1>2, <1>3, OthersMend DEF Types
  <2>6. Front(x, i)
    BY <1>1, <1>2, LinkFacts DEF Front
  <2>7. CASE j = i
    <3>1. g = x  BY <2>1, <2>6, <2>7, <1>1, <1>2, OneFront
    <3>2. \A m \in Menders(j) : prev[j].ptr # item[m]
      BY <2>7, <1>1, <1>3 DEF Menders, Mends, OneCall, Nowhere, Link
    <3>3. Menders(j) = {}  BY <2>2, <3>2, Settled
    <3>4. Shown(x)' = x
      BY <1>1, <1>2, <1>3 DEF Shown, Types, Quiet
    <3> QED  BY <2>3, <2>7, <3>1, <3>3, <3>4, <1>4, ChainStarts
  <2>8. CASE j # i
    <3>1. g # x
      BY <2>1, <2>8, <1>1, <1>2, LinkFacts DEF Front
    <3> QED  BY <2>1, <2>2, <2>3, <2>4, <2>5, <2>8, <3>1, <1>4, ChainKept
  <2> QED  BY <2>7, <2>8
<1> QED  BY <1>5, <1>6, <1>7

\* A remove has mended the link behind its item.
LEMMA MendKeeps ==
  ASSUME LInv, NEW t \in Threads, Quiet(t), HeadMend(t) \/ MidMend(t)
  PROVE  Places' /\ Linked' /\ Backs'
<1>0. pc[t] \in Mends
  BY DEF HeadMend, MidMend, Return, Goto, Mends
<1>1. /\ Types /\ OneCall /\ Places /\ Linked /\ Backs /\ Place(t) /\ PrevOf(t) /\ NextOf(t)
      /\ NULL \notin Items /\ present \subseteq Items /\ item[t] \in Items
      /\ \A u \in Threads : item[u] = item[t] => u = t
  BY <1>0, Facts DEF Mends
<1>2. PICK i \in present : i = after[t]
  BY <1>0, <1>1 DEF Place
<1>3. /\ UNCHANGED <<head, next, present>> /\ prev[i] = Link(item[t])
      /\ prev' = [prev EXCEPT ![i] = Link(Target(t))]
      /\ pc' = [pc EXCEPT ![t] = "idle"]
  BY <1>2 DEF HeadMend, MidMend, CasPrev, Return, Goto, Target, Nowhere
<1>4. /\ prev'[i].ptr = Target(t) /\ prev[i].ptr = item[t]
      /\ \A j \in present : j # i => prev'[j] = prev[j]
  BY <1>1, <1>2, <1>3, LinkFacts DEF Types
<1>5. Linked'
  BY <1>1, <1>3, OrderKept
<1>6. Places'
  <2>1. Place(t)'
    BY <1>1, <1>3 DEF Place, Takes, Lasts, Mends, Types
  <2>2. ASSUME NEW u \in Threads \ {t}  PROVE Place(u)'
    <3>1. Place(u)  BY <1>1 DEF Places
    <3>2. pc[u] \in Mends \cup {"join"} => after[u] \in present'
      BY <3>1, <1>3 DEF Place
    <3>3. pc[u] = "in_front" => prev'[item[u]] = prev[item[u]]
      BY <3>1, <1>1, <1>2, <1>3 DEF Place, Types
    <3> QED  BY <3>1, <3>2, <3>3, <1>3, OthersPlaced DEF LInv
  <2> QED  BY <2>1, <2>2 DEF Places
<1>7. Backs'
  <2> SUFFICES ASSUME NEW j \in present', NEW g \in present' \cup {NULL}, Front(g, j)'
               PROVE  Chained(j, g)'
    BY DEF Backs
  <2>1. j \in present /\ g \in present \cup {NULL} /\ Front(g, j)
    BY <1>3 DEF Front
  <2>2. Chained(j, g)
    BY <2>1, <1>1 DEF Backs
  <2>3. t \notin Menders(j)' /\ Menders(j)' = Menders(j) \ {t}
    <3>1. t \notin Menders(j)'
      BY <1>1, <1>3 DEF Menders, Mends, Types
    <3> QED  BY <3>1, OthersMend DEF Menders
  <2>4. \A m \in Menders(j) \ {t} : Target(m)' = Target(m) /\ item'[m] = item[m]
    BY OthersMend DEF Menders
  <2>5. Shown(g)' = Shown(g)
    BY <1>0, <1>1, <1>3, OthersMend DEF Types, Mends
  <2>6. CASE j = i
    <3>1. t \in Menders(j)  BY <2>6, <1>0, <1>2 DEF Menders
    <3>2. \A m \in Menders(j) : item[m] = item[t] => m = t
      BY <1>1 DEF Menders
    <3> QED  BY <2>2, <2>3, <2>4, <2>5, <2>6, <3>1, <3>2, <1>4, ChainShrinks
  <2>7. CASE j # i
    <3>1. t \notin Menders(j)  BY <2>7, <1>2 DEF Menders
    <3> QED  BY <2>1, <2>2, <2>3, <2>4, <2>5, <2>7, <3>1, <1>4, ChainKept
  <2> QED  BY <2>6, <2>7
<1> QED  BY <1>5, <1>6, <1>7

\* The exchange that takes an item out finds the link of the item in front, which is in
\* the set and linked to it for good; nobody has to mend the item's own link back.
LEMMA SwingFacts ==
  ASSUME LInv, NEW t \in Threads, HeadSwing(t) \/ MidSwing(t)
  PROVE  \E f \in present \cup {NULL} :
           /\ Front(f, item[t]) /\ Menders(item[t]) = {} /\ item[t] \in present
           /\ f = (IF pc[t] = "head_swing" THEN NULL ELSE before[t])
           /\ f # NULL => \A u \in Threads : pc[u] = "join" => item[u] # f
           /\ next[item[t]].ptr = after[t]
<1>0. pc[t] \in {"head_swing", "mid_swing"}
  BY DEF HeadSwing, MidSwing
<1>1. /\ Types /\ OneCall /\ Places /\ Linked /\ Backs /\ Place(t) /\ PrevOf(t) /\ NextOf(t)
      /\ NULL \notin Items /\ present \subseteq Items /\ item[t] \in Items
      /\ \A u \in Threads : item[u] = item[t] => u = t
  BY <1>0, Facts
<1>2. PICK x \in present : x = item[t]
  BY <1>0, <1>1 DEF Place, Takes
<1>3. PICK f \in present \cup {NULL} : Front(f, x)
  BY <1>1, Straight
<1>4. Chained(x, f)
  BY <1>1, <1>3 DEF Backs
<1>5. next[x].ptr = after[t]
  BY <1>0, <1>1, <1>2, LinkFacts DEF NextOf, NextHeld, Place, Lasts, Nowhere, Marked
<1>6. \A m \in Menders(x) : item[m] \in Items /\ next[item[m]].mark
  <2>1. \A m \in Threads : pc[m] \in Mends => next[item[m]] = Marked(after[m])
    BY DEF LInv, IInv, Known, NextOf, NextHeld, Mends
  <2> QED  BY <2>1, <1>1, LinkFacts DEF Menders, Mends, OneCall
<1>7. CASE pc[t] = "head_swing"
  <2>1. head = x /\ prev[x].ptr = NULL
    BY <1>1, <1>2, <1>7 DEF HeadSwing, MidSwing, CasHead, PrevOf, InHead, Marked
  <2>2. Menders(x) = {}
    <3>1. \A m \in Menders(x) : prev[x].ptr # item[m]
      BY <2>1, <1>1, <1>6
    <3> QED  BY <3>1, <1>4, Settled
  <2>3. Front(NULL, x)  BY <2>1 DEF Front
  <2> QED  BY <1>2, <1>5, <1>7, <2>2, <2>3
<1>8. CASE pc[t] = "mid_swing"
  <2>1. /\ next[before[t]] = Link(x) /\ prev[x].ptr = before[t] /\ before[t] # NULL
    BY <1>1, <1>2, <1>8 DEF HeadSwing, MidSwing, CasNext, PrevOf, InMid, Marked
  <2>2. Menders(x) = {} /\ prev[x].ptr = Shown(f)
    <3>1. \A m \in Menders(x) : prev[x].ptr # item[m]
      BY <2>1, <1>6, LinkFacts
    <3> QED  BY <3>1, <1>4, Settled
  <2>3. f = before[t] /\ \A u \in Threads : pc[u] = "join" => item[u] # f
    BY <2>1, <2>2 DEF Shown
  <2> QED  BY <1>2, <1>3, <1>5, <1>8, <2>2, <2>3
<1> QED  BY <1>0, <1>7, <1>8

\* A remove has taken its item out: the link back behind it is the last that it mends.
LEMMA SwingKeeps ==
  ASSUME LInv, NEW t \in Threads, Quiet(t), HeadSwing(t) \/ MidSwing(t)
  PROVE  Places' /\ Linked' /\ Backs'
<1>0. pc[t] \in {"head_swing", "mid_swing"}
  BY DEF HeadSwing, MidSwing
<1>1. /\ Types /\ OneCall /\ Places /\ Linked /\ Backs /\ Place(t) /\ PrevOf(t) /\ NextOf(t)
      /\ NULL \notin Items /\ present \subseteq Items /\ item[t] \in Items
      /\ \A u \in Threads : item[u] = item[t] => u = t
  BY <1>0, Facts
<1>2. PICK x \in Items, a \in Items \cup {NULL} : x = item[t] /\ a = after[t]
  BY <1>1 DEF Types
<1>3. PICK f \in present \cup {NULL} :
           /\ Front(f, x) /\ Menders(x) = {} /\ x \in present
           /\ f = (IF pc[t] = "head_swing" THEN NULL ELSE before[t])
           /\ f # NULL => \A u \in Threads : pc[u] = "join" => item[u] # f
           /\ next[x].ptr = a
  BY <1>2, SwingFacts
<1>4. /\ prev' = prev /\ present' = present \ {x}
      /\ IF a = NULL THEN pc' = [pc EXCEPT ![t] = "idle"]
         ELSE /\ pc' = [pc EXCEPT ![t] = IF f = NULL THEN "head_mend" ELSE "mid_mend"]
              /\ UNCHANGED <<item, before, after>>
      /\ IF f = NULL THEN head' = a /\ next' = next
         ELSE head' = head /\ next' = [next EXCEPT ![f] = Link(a)] /\ next[f] = Link(x)
  <2>1. CASE HeadSwing(t)
    BY <2>1, <1>1, <1>2, <1>3 DEF HeadSwing, CasHead, Return, Goto, Types
  <2>2. CASE MidSwing(t)
    <3>1. f # NULL /\ pc[t] = "mid_swing" /\ f = before[t]
      BY <2>2, <1>1, <1>2, <1>3 DEF MidSwing, NextOf, PrevOf, InMid
    <3> QED  BY <2>2, <3>1, <1>2 DEF MidSwing, CasNext, Return, Goto
  <2> QED  BY <2>1, <2>2
<1>5. \A i \in present \ {x} : next'[i].ptr = IF i = f THEN a ELSE next[i].ptr
  BY <1>1, <1>4, LinkFacts DEF Types
<1>6. head' = IF f = NULL THEN next[x].ptr ELSE head
  BY <1>3, <1>4
<1>7. Linked'
  BY <1>1, <1>3, <1>4, <1>5, <1>6, OrderCut
<1>8. a \in present \cup {NULL} /\ a # x
  BY <1>1, <1>3, Straight
<1>9. Front(x, a)
  BY <1>1, <1>3 DEF Front
<1>10. Places'
  <2>1. Place(t)'
    BY <1>1, <1>2, <1>4, <1>8 DEF Place, Takes, Lasts, Mends, Types
  <2>2. ASSUME NEW u \in Threads \ {t}  PROVE Place(u)'
    <3>1. Place(u)  BY <1>1 DEF Places
    <3>2. pc[u] \in Mends \cup {"join"} => after[u] \in present'
      <4>1. after[u] # x \/ pc[u] \notin Mends
        BY <1>3 DEF Menders
      <4>2. pc[u] = "join" => after[u] # x
        <5>1. SUFFICES ASSUME pc[u] = "join", after[u] = x  PROVE FALSE
          OBVIOUS
        <5>2. item[u] \in present /\ next[item[u]].ptr = x /\ item[u] # NULL
          BY <5>1, <3>1, <1>1, LinkFacts DEF Place
        <5>3. Front(item[u], x)  BY <5>2 DEF Front
        <5>4. f = item[u]  BY <5>2, <5>3, <1>1, <1>3, OneFront
        <5> QED  BY <5>1, <5>2, <5>4, <1>3
      <4> QED  BY <4>1, <4>2, <3>1, <1>4 DEF Place
    <3>3. ASSUME pc[u] \in {"in_front", "join"} \/ (pc[u] \in Lasts /\ next[item[u]] = Nowhere)
          PROVE  next'[item[u]] = next[item[u]]
      <4>1. CASE f = NULL  BY <4>1, <1>4
      <4>2. CASE f # NULL
        <5>1. item[u] # f
          <6>1. CASE pc[u] = "join"  BY <6>1, <4>2, <1>3
          <6>2. CASE pc[u] = "in_front"  BY <6>2, <4>2, <3>1 DEF Place
          <6>3. CASE next[item[u]] = Nowhere
            BY <6>3, <4>2, <1>1, <1>4, LinkFacts DEF Nowhere
          <6> QED  BY <3>3, <6>1, <6>2, <6>3
        <5>2. item[u] \in Items  BY <3>3, <1>1 DEF OneCall, Lasts
        <5> QED  BY <5>1, <5>2, <4>2, <1>1, <1>4 DEF Types
      <4> QED  BY <4>1, <4>2
    <3> QED  BY <3>1, <3>2, <3>3, <1>2, <1>4, OthersPlaced DEF LInv
  <2> QED  BY <2>1, <2>2 DEF Places
<1>11. Backs'
  <2> SUFFICES ASSUME NEW j \in present', NEW g \in present' \cup {NULL}, Front(g, j)'
               PROVE  Chained(j, g)'
    BY DEF Backs
  <2>1. j \in present /\ j # x /\ g \in present \cup {NULL} /\ g # x
    BY <1>1, <1>4
  <2>2. t \notin Menders(j)
    BY <1>0 DEF Menders, Mends
  <2>3. \A m \in Menders(j) : Target(m)' = Target(m) /\ item'[m] = item[m]
    BY <2>2, OthersMend DEF Menders
  <2>4. Shown(g)' = Shown(g)
    BY <1>0, <1>1, <1>4, OthersMend DEF Types
  <2>5. CASE j = a
    <3>1. g = f
      <4>1. a # NULL  BY <2>1, <2>5, <1>1
      <4>2. g = NULL => f = NULL
        BY <2>5, <4>1, <1>1, <1>3, <1>4, Straight DEF Front
      <4>3. g \in present /\ g # f => next[g].ptr = a
        BY <2>1, <2>5, <1>1, <1>5 DEF Front
      <4>4. g \in present /\ g # f => g = x
        BY <4>1, <4>3, <1>1, <1>3, Straight
      <4> QED  BY <2>1, <4>2, <4>4
    <3>2. Chained(a, x)
      BY <2>1, <2>5, <1>1, <1>3, <1>9 DEF Backs
    <3>3. Shown(x) = x
      BY <1>0, <1>1, <1>2 DEF Shown
    <3>4. pc'[t] \in Mends /\ item'[t] = x /\ after'[t] = a
          /\ Target(t)' = f
      BY <2>1, <2>5, <1>0, <1>1, <1>2, <1>3, <1>4 DEF Types, Mends, Target
    <3>5. Menders(j)' = Menders(j) \cup {t}
      <4>1. t \in Menders(j)'  BY <2>5, <3>4 DEF Menders
      <4> QED  BY <4>1, OthersMend DEF Menders
    <3>6. Shown(f)' = f
      BY <3>1, <2>4, <1>3 DEF Shown
    <3> QED  BY <2>2, <2>3, <2>5, <3>1, <3>2, <3>3, <3>4, <3>5, <3>6, <1>2, <1>4, ChainGrows
  <2>6. CASE j # a
    <3>1. t \notin Menders(j)'
      BY <2>6, <1>1, <1>2, <1>4 DEF Menders, Mends, Types
    <3>2. Menders(j)' = Menders(j)
      BY <2>2, <3>1, OthersMend DEF Menders
    <3>3. Front(g, j)
      BY <2>1, <2>6, <1>4, <1>5 DEF Front
    <3>4. Chained(j, g)  BY <2>1, <3>3, <1>1 DEF Backs
    <3> QED  BY <2>3, <2>4, <3>2, <3>4, <1>4, ChainKept
  <2> QED  BY <2>5, <2>6
<1> QED  BY <1>7, <1>10, <1>11

-----------------------------------------------------------------------------
(* The invariant of the set is inductive *)

\* The set is empty at first.
LEMMA InitLInv == Init => LInv
<1> SUFFICES ASSUME Init  PROVE LInv
  OBVIOUS
<1> DEFINE q == [k \in 1..0 |-> CHOOSE i \in Items : TRUE]
<1>1. q \in [1..0 -> Items]
  OBVIOUS
<1> HIDE DEF q
<1>2. Order(0, q)  BY DEF Order, Init
<1>3. Linked  BY <1>1, <1>2 DEF Linked
<1>4. Places  BY DEF Places, Place, Init, Takes, Lasts, Mends
<1>5. Backs  BY DEF Backs, Init
<1> QED  BY <1>3, <1>4, <1>5, InitIInv DEF LInv

\* The steps that change the set are those of a thread that are not calm.
LEMMA StepsKeep ==
  ASSUME LInv, NEW t \in Threads, InsertStart(t) \/ RemoveStart(t) \/ Step(t)
  PROVE  Places' /\ Linked' /\ Backs'
<1>1. Quiet(t)
  BY StepsAreQuiet DEF LInv
<1>2. CASE CalmStep(t)
  <2>1. Calm(t) /\ Place(t)'
    BY <1>2, StepsAreCalm, CalmPlaced
  <2>2. Linked' /\ Backs' /\ \A u \in Threads \ {t} : Place(u)'
    BY <1>1, <2>1, CalmKeeps
  <2> QED  BY <2>1, <2>2 DEF Places
<1>3. CASE InsertAtHead(t)  BY <1>1, <1>3, InsertAtHeadKeeps
<1>4. CASE Join(t)  BY <1>1, <1>4, JoinKeeps
<1>5. CASE HeadMend(t) \/ MidMend(t)  BY <1>1, <1>5, MendKeeps
<1>6. CASE HeadSwing(t) \/ MidSwing(t)  BY <1>1, <1>6, SwingKeeps
<1> QED  BY <1>2, <1>3, <1>4, <1>5, <1>6 DEF Step, Insert, RemoveRest, CalmStep

\* The invariant is inductive.
LEMMA NextLInv == LInv /\ [Next]_vars => LInv'
<1> SUFFICES ASSUME LInv, [Next]_vars  PROVE LInv'
  OBVIOUS
<1>1. IInv'
  BY NextIInv DEF LInv
<1>2. ASSUME NEW t \in Threads, InsertStart(t) \/ RemoveStart(t) \/ Step(t)
      PROVE  LInv'
  BY <1>1, <1>2, StepsKeep DEF LInv
<1>3. CASE Purge
  <2>1. /\ UNCHANGED <<next, prev, pc, item, before, after>>
        /\ head' = NULL /\ present' = {} /\ \A t \in Threads : pc[t] = "idle"
    BY <1>3 DEF Purge, locals
  <2> DEFINE q == [k \in 1..0 |-> CHOOSE i \in Items : TRUE]
  <2>2. q \in [1..0 -> Items]
    OBVIOUS
  <2> HIDE DEF q
  <2>3. Order(0, q)'  BY <2>1 DEF Order
  <2>4. Linked'  BY <2>2, <2>3 DEF Linked
  <2>5. Places'  BY <2>1 DEF Places, Place, Takes, Lasts, Mends
  <2>6. Backs'  BY <2>1 DEF Backs
  <2> QED  BY <1>1, <2>4, <2>5, <2>6 DEF LInv
<1>4. CASE UNCHANGED vars
  <2>1. UNCHANGED <<head, next, prev, pc, item, before, after, present>>
    BY <1>4 DEF vars, locals
  <2>2. Places'  BY <2>1 DEF LInv, Places, Place
  <2>3. Linked'  BY <2>1, OrderKept DEF LInv
  <2>4. ASSUME NEW i \in present', NEW f \in present' \cup {NULL}, Front(f, i)'
        PROVE  Chained(i, f)'
    <3>1. Chained(i, f)  BY <2>1, <2>4 DEF LInv, Backs, Front
    <3>2. Shown(f)' = Shown(f) /\ Menders(i)' = Menders(i) /\ \A m : Target(m)' = Target(m)
      BY <2>1 DEF Shown, Menders, Target
    <3> QED  BY <2>1, <3>1, <3>2, ChainKept
  <2>5. Backs'  BY <2>4 DEF Backs
  <2> QED  BY <1>1, <2>2, <2>3, <2>5 DEF LInv
<1> QED
  BY <1>2, <1>3, <1>4 DEF Next

-----------------------------------------------------------------------------
(* The walk along the next links *)

\* Every set of naturals that is not empty has a least element.
LEMMA LeastNat ==
  ASSUME NEW T, T \subseteq Nat, T # {}
  PROVE  \E x \in T : \A y \in T : x <= y
<1> DEFINE R == OpToRel(<, Nat)
<1>1. IsWellFoundedOn(R, Nat)
  BY NatLessThanWellFounded
<1>2. \E x \in T : \A y \in T : ~ (<<y, x>> \in R)
  <2> HIDE DEF R
  <2> QED  BY <1>1, WFMin
<1>3. PICK x \in T : \A y \in T : ~ (<<y, x>> \in R)
  BY <1>2
<1>4. ASSUME NEW y \in T  PROVE x <= y
  <2>1. ~ (<<y, x>> \in R)
    BY <1>3
  <2> QED  BY <2>1 DEF OpToRel
<1> QED  BY <1>4

\* What the walk is to be, by its own definition.
IsWalk(w) ==
    w = [k \in 0..Cardinality(Items) |->
            IF k = 0 THEN head
            ELSE IF w[k - 1] = NULL THEN NULL ELSE next[w[k - 1]].ptr]

\* The walk meets the items of the set in order.
LEMMA WalkInOrder ==
  ASSUME NEW n \in Nat, NEW q \in [1..n -> Items], Order(n, q)
  PROVE  /\ n <= Cardinality(Items) /\ Cardinality(Items) \in Nat
         /\ Walk = [k \in 0..Cardinality(Items) |-> IF k < n THEN q[k + 1] ELSE NULL]
<1> DEFINE N == Cardinality(Items)
           w == [k \in 0..N |-> IF k < n THEN q[k + 1] ELSE NULL]
<1>1. N \in Nat
  BY ItemsAreFinite, FS_CardinalityType
<1>2. n <= N
  <2>1. SUFFICES ASSUME N < n  PROVE FALSE
    BY <1>1
  <2>2. IsFiniteSet(1..n) /\ Cardinality(1..n) = n
    BY FS_Interval
  <2>3. \E x, y \in 1..n : x # y /\ q[x] = q[y]
    BY <2>1, <2>2, ItemsAreFinite, FS_PigeonHole
  <2> QED  BY <2>3 DEF Order
<1>3. NULL \notin Items
  BY LockFreeSetAssumption
<1>4. IsWalk(w)
  <2>1. ASSUME NEW k \in 0..N
        PROVE  w[k] = IF k = 0 THEN head
                      ELSE IF w[k - 1] = NULL THEN NULL ELSE next[w[k - 1]].ptr
    <3>1. CASE k = 0
      BY <3>1, <1>1 DEF Order
    <3>2. CASE k # 0 /\ k - 1 < n
      <4>1. k \in 1..n /\ k - 1 \in 0..N /\ w[k - 1] = q[k] /\ q[k] # NULL
        BY <3>2, <1>1, <1>3
      <4>2. next[q[k]].ptr = IF k = n THEN NULL ELSE q[k + 1]
        BY <4>1 DEF Order
      <4>3. w[k] = IF k < n THEN q[k + 1] ELSE NULL
        OBVIOUS
      <4> QED  BY <4>1, <4>2, <4>3, <3>2
    <3>3. CASE k # 0 /\ ~(k - 1 < n)
      <4>1. k - 1 \in 0..N /\ w[k - 1] = NULL /\ w[k] = NULL
        BY <3>3, <1>1
      <4> QED  BY <4>1, <3>3
    <3> QED  BY <3>1, <3>2, <3>3
  <2> HIDE DEF w
  <2>2. w = [k \in 0..N |-> w[k]]
    BY DEF w
  <2> QED  BY <2>1, <2>2 DEF IsWalk
<1>5. IsWalk(Walk)
  <2>1. Walk = CHOOSE v : IsWalk(v)
    BY DEF Walk, IsWalk
  <2> HIDE DEF w
  <2> QED  BY <2>1, <1>4
<1>6. \A k \in 0..N : Walk[k] = w[k]
  <2> DEFINE Bad == {k \in 0..N : Walk[k] # w[k]}
  <2>1. SUFFICES ASSUME Bad # {}  PROVE FALSE
    OBVIOUS
  <2>2. PICK k \in Bad : \A j \in Bad : k <= j
    <3> Bad \subseteq Nat  OBVIOUS
    <3> HIDE DEF Bad
    <3> QED  BY <2>1, LeastNat
  <2> HIDE DEF w
  <2>3. k \in 0..N /\ Walk[k] # w[k]
    OBVIOUS
  <2>4. k = 0 => Walk[k] = w[k]
    BY <2>3, <1>4, <1>5 DEF IsWalk
  <2>5. k # 0 => Walk[k - 1] = w[k - 1]
    <3>1. k # 0 => k - 1 \in 0..N /\ ~(k <= k - 1)
      BY <2>3, <1>1
    <3> QED  BY <3>1, <2>2
  <2>6. k # 0 => Walk[k] = w[k]
    BY <2>3, <2>5, <1>4, <1>5 DEF IsWalk
  <2> QED  BY <2>3, <2>4, <2>6
<1>7. Walk = w
  <2>1. Walk = [k \in 0..N |-> Walk[k]]
    <3>1. \A v : IsWalk(v) => v = [k \in 0..N |-> v[k]]
      BY DEF IsWalk
    <3> QED  BY <3>1, <1>5
  <2>2. w = [k \in 0..N |-> w[k]]
    OBVIOUS
  <2> HIDE DEF w
  <2> QED  BY <2>1, <2>2, <1>6
<1> QED  BY <1>1, <1>2, <1>7

-----------------------------------------------------------------------------
(* What the invariant says of the properties *)

\* The order of the set is what the walk meets, and the chains say of every link back
\* what SetIntact does.
LEMMA LInvImpliesIntact == LInv => SetIntact
<1> SUFFICES ASSUME LInv  PROVE SetIntact
  OBVIOUS
<1> DEFINE N == Cardinality(Items)
<1>1. Types /\ OneCall /\ Places /\ Linked /\ Backs /\ NULL \notin Items
      /\ present \subseteq Items
  BY LockFreeSetAssumption DEF LInv, IInv, Types
<1>2. PICK n \in Nat : \E q \in [1..n -> Items] : Order(n, q)
  BY <1>1 DEF Linked
<1>3. PICK q \in [1..n -> Items] : Order(n, q)
  BY <1>2
<1>4. /\ n <= N /\ N \in Nat /\ DOMAIN Walk = 0..N
      /\ \A k \in 0..N : Walk[k] = IF k < n THEN q[k + 1] ELSE NULL
  <2>1. Walk = [k \in 0..N |-> IF k < n THEN q[k + 1] ELSE NULL]
    BY <1>3, WalkInOrder
  <2> QED  BY <2>1, <1>3, WalkInOrder
<1> HIDE DEF N
<1>5. \A k \in 0..N : k < n => k + 1 \in 1..n /\ Walk[k] = q[k + 1] /\ Walk[k] \in present
  BY <1>3, <1>4 DEF Order
<1>6. \A k \in 0..N : Walk[k] # NULL => k < n
  BY <1>4
<1>7. Walk[N] = NULL
  BY <1>4
<1>8. Reached = present
  <2>1. ASSUME NEW i \in present  PROVE i \in Reached
    <3>1. PICK k \in 1..n : i = q[k]  BY <1>3 DEF Order
    <3>2. k - 1 \in 0..N /\ k - 1 < n /\ (k - 1) + 1 = k  BY <1>4
    <3>3. Walk[k - 1] = i  BY <3>1, <3>2, <1>5
    <3> QED  BY <3>2, <3>3, <1>1, <1>4 DEF Reached
  <2>2. ASSUME NEW i \in Reached  PROVE i \in present
    <3>1. PICK k \in 0..N : Walk[k] = i  BY <1>4 DEF Reached
    <3>2. i # NULL  BY <1>1 DEF Reached
    <3> QED  BY <3>1, <3>2, <1>5, <1>6
  <2> QED  BY <2>1, <2>2
<1>9. \A k, l \in DOMAIN Walk : Walk[k] = Walk[l] /\ Walk[k] # NULL => k = l
  <2>1. ASSUME NEW k \in 0..N, NEW l \in 0..N, Walk[k] = Walk[l], Walk[k] # NULL
        PROVE  k = l
    <3>1. k + 1 \in 1..n /\ l + 1 \in 1..n /\ q[k + 1] = q[l + 1]
      BY <2>1, <1>5, <1>6
    <3>2. k + 1 = l + 1  BY <3>1, <1>3 DEF Order
    <3> QED  BY <3>2
  <2> QED  BY <2>1, <1>4
<1>10. ASSUME NEW k \in DOMAIN Walk, NEW i, i = Walk[k], i # NULL
       PROVE  \/ prev[i].ptr = IF k = 0 THEN NULL ELSE Walk[k - 1]
              \/ \E t \in Threads :
                   /\ after[t] = i
                   /\ \/ pc[t] = "join" /\ prev[i].ptr = NULL
                      \/ pc[t] \in {"head_mend", "mid_mend"} /\ prev[i].ptr = item[t]
  <2>1. k \in 0..N /\ k < n /\ i = q[k + 1] /\ k + 1 \in 1..n /\ i \in present
    BY <1>10, <1>4, <1>5, <1>6
  <2>2. PICK f : f = (IF k = 0 THEN NULL ELSE Walk[k - 1])
    OBVIOUS
  <2>3. f \in present \cup {NULL} /\ Front(f, i)
    <3>1. CASE k = 0
      BY <3>1, <2>1, <2>2, <1>3 DEF Front, Order
    <3>2. CASE k # 0
      <4>1. k - 1 \in 0..N /\ k - 1 < n /\ k \in 1..n /\ k # n /\ (k - 1) + 1 = k
        BY <3>2, <2>1, <1>4
      <4>2. f = q[k] /\ f \in present  BY <3>2, <4>1, <2>2, <1>5
      <4>3. next[f].ptr = i  BY <4>1, <4>2, <2>1, <1>3 DEF Order
      <4> QED  BY <4>2, <4>3, <1>1 DEF Front
    <3> QED  BY <3>1, <3>2
  <2>4. Chained(i, f)
    BY <2>1, <2>3, <1>1 DEF Backs
  <2>5. CASE \E m \in Menders(i) : prev[i].ptr = item[m]
    BY <2>5 DEF Menders, Mends
  <2>6. CASE \A m \in Menders(i) : prev[i].ptr # item[m]
    <3>1. prev[i].ptr = Shown(f)  BY <2>4, <2>6, Settled
    <3>2. CASE prev[i].ptr = f  BY <3>2, <2>2
    <3>3. CASE prev[i].ptr # f
      <4>1. PICK t \in Threads : pc[t] = "join" /\ item[t] = f /\ prev[i].ptr = NULL
        BY <3>1, <3>3 DEF Shown
      <4>2. item[t] \in present /\ next[item[t]].ptr = after[t] /\ f # NULL
        BY <4>1, <1>1, LinkFacts DEF Places, Place
      <4>3. after[t] = i  BY <4>1, <4>2, <2>3 DEF Front
      <4> QED  BY <4>1, <4>3
    <3> QED  BY <3>2, <3>3
  <2> QED  BY <2>5, <2>6
<1>11. ASSUME NEW t \in Threads, pc[t] = "mid_mend"  PROVE prev[after[t]] # Nowhere
  <2>1. PICK i \in present : i = after[t]
    BY <1>11, <1>1 DEF Places, Place, Mends
  <2>2. t \in Menders(i)  BY <1>11, <2>1 DEF Menders, Mends
  <2>3. PICK f \in present \cup {NULL} : Front(f, i)
    BY <1>1, Straight
  <2>4. Chained(i, f)  BY <2>3, <1>1 DEF Backs
  <2>5. PICK m \in Menders(i) : prev[i].ptr = item[m]
    BY <2>2, <2>4, Settled
  <2>6. item[m] # NULL  BY <2>5, <1>1 DEF Menders, Mends, OneCall
  <2> QED  BY <2>1, <2>5, <2>6 DEF Nowhere, Link
<1> QED
  BY <1>4, <1>7, <1>8, <1>9, <1>10, <1>11 DEF SetIntact, N

\* Every item that a thread touches is in the set or in the hands of a call.
LEMMA LInvImpliesNoAccess == LInv => NoAccessAfterRemove
<1> SUFFICES ASSUME LInv, NEW t \in Threads  PROVE Touches(t) \cap gone = {}
  BY DEF NoAccessAfterRemove
<1>1. CASE pc[t] = "idle"
  BY <1>1 DEF Touches
<1>2. CASE pc[t] # "idle"
  <2>1. /\ Types /\ OneCall /\ Places /\ Linked /\ Backs /\ Place(t) /\ PrevOf(t) /\ NextOf(t)
        /\ NULL \notin Items /\ present \subseteq Items /\ item[t] \in Items
        /\ \A u \in Threads : item[u] = item[t] => u = t
    BY <1>2, Facts
  <2>2. item[t] \notin gone /\ present \cap gone = {}
    BY <1>2, <2>1 DEF OneCall
  <2>3. CASE pc[t] \in {"join", "head_mend", "mid_mend"}
    BY <2>1, <2>2, <2>3 DEF Touches, Place, Mends
  <2>4. CASE pc[t] = "mid_swing"
    <3>1. PICK i \in present : i = item[t]
      BY <2>1, <2>4 DEF Place, Takes
    <3>2. prev[i].ptr = before[t] /\ before[t] # NULL
      BY <2>1, <2>4, <3>1 DEF PrevOf, InMid, Marked
    <3>3. PICK f \in present \cup {NULL} : Front(f, i)
      BY <2>1, Straight
    <3>4. Chained(i, f)  BY <2>1, <3>3 DEF Backs
    <3>5. CASE \E m \in Menders(i) : prev[i].ptr = item[m]
      <4>1. PICK m \in Menders(i) : prev[i].ptr = item[m]  BY <3>5
      <4>2. item[m] \notin gone  BY <2>1 DEF Menders, Mends, OneCall
      <4> QED  BY <4>1, <4>2, <3>2, <2>4 DEF Touches
    <3>6. CASE \A m \in Menders(i) : prev[i].ptr # item[m]
      <4>1. prev[i].ptr = Shown(f)  BY <3>4, <3>6, Settled
      <4>2. before[t] \in present  BY <4>1, <3>2 DEF Shown
      <4> QED  BY <4>2, <2>2, <2>4 DEF Touches
    <3> QED  BY <3>5, <3>6
  <2>5. CASE pc[t] \notin {"join", "head_mend", "mid_mend", "mid_swing"}
    BY <1>2, <2>2, <2>5 DEF Touches
  <2> QED  BY <2>3, <2>4, <2>5
<1> QED  BY <1>1, <1>2

-----------------------------------------------------------------------------
(* Theorems *)

\* Every variable has its type, and the marks on the links of an item belong to the
\* thread that removes it, until it takes them off: no exchange of
\* lock_free_set_remove that puts a mark back fails, and the branches that log an
\* unexpected change are never taken.
THEOREM MarksAreHeld == Spec => []TypeOK
<1>1. Spec => []IInv
  BY InitIInv, NextIInv, PTL DEF Spec
<1> QED
  BY <1>1, IInvImplies, PTL

\* Whatever neighbours are removed while others are put in, the next links lead through
\* the items of the set, each once, and every link back is right or some thread still has
\* to set it: no insert or remove of lock_free_set.c is lost, and a purge gives back all.
THEOREM SetStaysIntact == Spec => []SetIntact
<1>1. Spec => []LInv
  BY InitLInv, NextLInv, PTL DEF Spec
<1> QED
  BY <1>1, LInvImpliesIntact, PTL

\* No thread reads or writes a link of an item whose remove has returned: a thread that
\* works on a neighbour's link keeps the neighbour's remove from returning.
THEOREM RemovedItemsAreLeftAlone == Spec => []NoAccessAfterRemove
<1>1. Spec => []LInv
  BY InitLInv, NextLInv, PTL DEF Spec
<1> QED
  BY <1>1, LInvImpliesNoAccess, PTL
=============================================================================
