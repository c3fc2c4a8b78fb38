------------------------ MODULE SortedList_proofs ---------------------------
(***************************************************************************)
(* The sorted list, for any number of threads, keys and items.             *)
(*                                                                         *)
(* First the sequence numbers: a number that was drawn is told to the      *)
(* client once, with the result of its operation or as skipped, whatever   *)
(* fails, is restarted or renumbered in between.  A step does one of three *)
(* things to them, which the first lemmas establish for every action:      *)
(* nothing, tell the number of the call, or draw one for it.               *)
(*                                                                         *)
(* Then the list itself.  It is a set of items that the links put in the   *)
(* order of their keys (Sorted), and such a set is what InList reaches.    *)
(* The invariant LInv says what every call knows of the items it stands    *)
(* on, holds and is about to link; Progress says what a step of one call   *)
(* may do to the list, and ProgressKeeps that it then takes nothing from   *)
(* what the others know.  One lemma for every action shows Progress.       *)
(* The reference counts (CInv), the numbers of the items (BInv) and the    *)
(* map that the clients see rest on that invariant.                        *)
(*                                                                         *)
(* All but the first theorem are about clients that insert no item again   *)
(* after a remove gave it to them (Reinsert): the comment of NoneLost says *)
(* what goes wrong when they do.                                           *)
(***************************************************************************)
EXTENDS SortedList, FiniteSetTheorems, WellFoundedInduction, TLAPS

-----------------------------------------------------------------------------
(* The inductive invariant *)

Ops == Writes \cup Takes \cup {"none", "find"}

\* Where a find may be.
Fits(place, what) == what = "find" => place \in {"walk", "check", "take_ref"}
TakesRef(place, what) == place = "take_ref" => what = "find"

\* Numbers come from the counter; a thread outside a call has none, nor has a find.
Drawn ==
    /\ seqNo \in Nat /\ num \in [Threads -> Nat]
    /\ pc \in [Threads -> PCs] /\ op \in [Threads -> Ops]
    /\ \A t \in Threads :
          /\ num[t] <= seqNo
          /\ pc[t] = "idle" \/ op[t] = "find" => num[t] = 0
          /\ Fits(pc[t], op[t]) /\ TakesRef(pc[t], op[t])

NInv == Drawn /\ ToldOnce

\* What a step of thread t may do to its place and to the numbers.
Moves(t, places) ==
    \E p \in places, what \in Ops :
        /\ pc' = [pc EXCEPT ![t] = p] /\ op' = [op EXCEPT ![t] = what]
        /\ Fits(p, what) /\ TakesRef(p, what)
Busy == PCs \ {"idle"}

Keeps(t) == /\ Moves(t, Busy) /\ UNCHANGED <<seqNo, open, num>>
            /\ op'[t] = "find" => op[t] = "find" \/ pc[t] = "idle"

Tells(t) == /\ Moves(t, PCs) /\ UNCHANGED seqNo
            /\ open' = open \ {num[t]} /\ num' = [num EXCEPT ![t] = 0]

Draws(t) == /\ Moves(t, Busy) /\ seqNo' = seqNo + 1 /\ op'[t] # "find"
            /\ num' = [num EXCEPT ![t] = seqNo + 1]
            /\ open' = (open \ {num[t]}) \cup {seqNo + 1}

-----------------------------------------------------------------------------
(* The three kinds of steps keep the invariant. *)

LEMMA KeepsNumbers ==
  ASSUME NInv, NEW t \in Threads, Keeps(t)
  PROVE  NInv'
<1>1. PICK p \in Busy, what \in Ops :
        /\ pc' = [pc EXCEPT ![t] = p] /\ op' = [op EXCEPT ![t] = what]
        /\ Fits(p, what) /\ TakesRef(p, what)
  BY DEF Keeps, Moves
<1>2. Drawn'
  BY <1>1 DEF NInv, Drawn, Keeps, Busy
<1>3. ToldOnce'
  BY DEF NInv, ToldOnce, Keeps
<1> QED  BY <1>2, <1>3 DEF NInv

LEMMA TellsNumber ==
  ASSUME NInv, NEW t \in Threads, Tells(t)
  PROVE  NInv'
<1>1. PICK p \in PCs, what \in Ops :
        /\ pc' = [pc EXCEPT ![t] = p] /\ op' = [op EXCEPT ![t] = what]
        /\ Fits(p, what) /\ TakesRef(p, what)
  BY DEF Tells, Moves
<1>2. Drawn'
  BY <1>1 DEF NInv, Drawn, Tells
<1>3. \A u, v \in Threads : num'[u] = num'[v] /\ num'[u] # 0 => u = v
  BY DEF NInv, Drawn, ToldOnce, Tells
<1>4. open' = {num'[u] : u \in Threads} \ {0}
  <2>1. \A x : x \in open' => x \in {num'[u] : u \in Threads} \ {0}
    BY DEF NInv, Drawn, ToldOnce, Tells
  <2>2. \A u \in Threads : num'[u] # 0 => num'[u] \in open'
    BY DEF NInv, Drawn, ToldOnce, Tells
  <2> QED  BY <2>1, <2>2
<1> QED  BY <1>2, <1>3, <1>4 DEF NInv, ToldOnce

LEMMA DrawsNumber ==
  ASSUME NInv, NEW t \in Threads, Draws(t)
  PROVE  NInv'
<1>1. PICK p \in Busy, what \in Ops :
        /\ pc' = [pc EXCEPT ![t] = p] /\ op' = [op EXCEPT ![t] = what]
        /\ Fits(p, what) /\ TakesRef(p, what)
  BY DEF Draws, Moves
<1>2. Drawn'
  BY <1>1 DEF NInv, Drawn, Draws, Busy
<1>3. \A u, v \in Threads : num'[u] = num'[v] /\ num'[u] # 0 => u = v
  BY DEF NInv, Drawn, ToldOnce, Draws
<1>4. open' = {num'[u] : u \in Threads} \ {0}
  <2>1. \A x : x \in open' => x \in {num'[u] : u \in Threads} \ {0}
    <3>1. SUFFICES ASSUME NEW x \in open'  PROVE \E u \in Threads : num'[u] = x /\ x # 0
      OBVIOUS
    <3>2. CASE x = seqNo + 1
      BY <3>2 DEF NInv, Drawn, Draws
    <3>3. CASE x \in open \ {num[t]}
      BY <3>3 DEF NInv, Drawn, ToldOnce, Draws
    <3> QED  BY <3>2, <3>3 DEF Draws
  <2>2. \A u \in Threads : num'[u] # 0 => num'[u] \in open'
    BY DEF NInv, Drawn, ToldOnce, Draws
  <2> QED  BY <2>1, <2>2
<1> QED  BY <1>2, <1>3, <1>4 DEF NInv, ToldOnce

-----------------------------------------------------------------------------
(* Every action is of one of these kinds. *)

LEMMA BeginDraws ==
  ASSUME NInv, NEW t \in Threads, NEW what \in Writes, NEW i \in Items,
         WriteStart(t, what, i) \/ RewriteStart(t, what, i)
  PROVE  Draws(t)
<1>1. pc[t] = "idle" /\ Moves(t, Busy)
  BY DEF WriteStart, RewriteStart, Call, Goto, Moves, Busy, PCs, Ops, Fits, TakesRef, Writes
<1>2. num[t] = 0 /\ 0 \notin open
  BY <1>1 DEF NInv, Drawn, ToldOnce
<1> QED  BY <1>1, <1>2 DEF WriteStart, RewriteStart, Draw, Draws, Call, Writes, NInv, Drawn

LEMMA BeginKeeps ==
  ASSUME NInv, NEW t \in Threads,
         \/ \E i \in Items : DeleteItemStart(t, i)
         \/ \E k \in Keys, what \in {"delete_key", "remove", "find"} : KeyStart(t, what, k)
  PROVE  Keeps(t)
BY DEF DeleteItemStart, KeyStart, Call, Goto, Keeps, Moves, Busy, PCs, numbers, Ops, Fits,
       TakesRef, Takes

LEMMA GiveUpTells ==
  ASSUME NEW t \in Threads, NEW from, GiveUp(t, from)
  PROVE  Tells(t)
BY DEF GiveUp, Return, Goto, Tell, Tells, Moves, PCs, Ops, Fits, TakesRef

\* A step inside a call changes no op, so it only has to leave a find where it may be.
LEMMA StaysInCall ==
  ASSUME NInv, NEW t \in Threads, NEW p \in Busy, UNCHANGED op,
         pc' = [pc EXCEPT ![t] = p], Fits(p, op[t]), TakesRef(p, op[t])
  PROVE  Moves(t, Busy) /\ (op'[t] = "find" => op[t] = "find" \/ pc[t] = "idle")
<1>1. op[t] \in Ops /\ op' = [op EXCEPT ![t] = op[t]]
  BY DEF NInv, Drawn
<1> QED  BY <1>1 DEF Moves

LEMMA StepNumbers ==
  ASSUME NInv, NEW t \in Threads, Step(t)
  PROVE  Keeps(t) \/ Tells(t) \/ Draws(t)
<1>0. ASSUME NEW p \in Busy, UNCHANGED <<op, seqNo, open, num>>, pc' = [pc EXCEPT ![t] = p],
             Fits(p, op[t]), TakesRef(p, op[t])
      PROVE  Keeps(t)
  BY <1>0, StaysInCall DEF Keeps
<1> USE DEF NInv, Drawn, Busy, PCs, Ops, Fits, TakesRef, Goto, numbers, call
<1>1. CASE WalkRead(t)
  BY <1>0, <1>1 DEF WalkRead
<1>2. CASE WalkMisses(t)
  BY <1>2, GiveUpTells DEF WalkMisses
<1>3. CASE WalkAppend(t)
  BY <1>0, <1>3 DEF WalkAppend
<1>4. CASE AcquireFails(t)
  BY <1>4, GiveUpTells DEF AcquireFails
<1>5. CASE CheckAgain(t)
  BY <1>0, <1>5 DEF CheckAgain, Restart
<1>6. CASE CheckAdvance(t)
  BY <1>0, <1>6 DEF CheckAdvance
<1>7. CASE CheckPassed(t)
  <2>1. op[t] # "find" /\ UNCHANGED <<op, seqNo, open, num>> /\ pc' = [pc EXCEPT ![t] = "cas"]
    BY <1>7 DEF CheckPassed, Passed, Writes
  <2> QED  BY <1>0, <2>1
<1>8. CASE CheckMisses(t)
  BY <1>8, GiveUpTells DEF CheckMisses
<1>9. CASE CheckRefused(t)
  BY <1>9, GiveUpTells DEF CheckRefused
<1>10. CASE CheckFound(t)
  BY <1>0, <1>10 DEF CheckFound
<1>11. CASE TakeRef(t)
  <2>1. num[t] = 0 /\ 0 \notin open
    BY <1>11 DEF TakeRef, Return, ToldOnce
  <2> QED  BY <1>11, <2>1 DEF TakeRef, Return, Tells, Moves
<1>12. CASE Cas(t) /\ link[prev[t]] = Link(cur[t])
  BY <1>12 DEF Cas, Tell, Return, Tells, Moves
<1>13. CASE Cas(t) /\ link[prev[t]] # Link(cur[t])
  BY <1>0, <1>13 DEF Cas, Restart
<1>14. CASE MarkRead(t)
  BY <1>0, <1>14 DEF MarkRead
<1>15. CASE Mark(t)
  BY <1>0, <1>15 DEF Mark, Restart
<1>16. CASE Number(t)
  <2>1. PICK p \in {"same", "unlink"} : pc' = [pc EXCEPT ![t] = p]
    BY <1>16 DEF Number
  <2>2. op[t] # "find" /\ UNCHANGED op
    BY <1>16 DEF Number
  <2>3. Moves(t, Busy)
    BY <2>1, <2>2, StaysInCall
  <2>4. \/ UNCHANGED <<seqNo, num, open>>
        \/ Draw(t, {num[t]})
    BY <1>16 DEF Number
  <2> QED  BY <2>2, <2>3, <2>4 DEF Draw, Draws, Keeps
<1>17. CASE SameItem(t)
  BY <1>17 DEF SameItem, Tell, Return, Tells, Moves
<1>18. CASE Unlink(t)
  <2>1. PICK p \in {"retire", "unmark"} : pc' = [pc EXCEPT ![t] = p]
    BY <1>18 DEF Unlink
  <2>2. op[t] # "find" /\ UNCHANGED <<op, seqNo, open, num>>
    BY <1>18 DEF Unlink
  <2> QED  BY <1>0, <2>1, <2>2
<1>19. CASE Unmark(t) /\ Setting(t)
  BY <1>0, <1>19 DEF Unmark, Restart
<1>20. CASE Unmark(t) /\ ~Setting(t)
  BY <1>20 DEF Unmark, Restart, Tell, Tells, Moves
<1>21. CASE Retire(t)
  BY <1>21 DEF Retire, Tell, Return, Tells, Moves
<1> QED
  BY <1>1, <1>2, <1>3, <1>4, <1>5, <1>6, <1>7, <1>8, <1>9, <1>10, <1>11, <1>12, <1>13,
     <1>14, <1>15, <1>16, <1>17, <1>18, <1>19, <1>20, <1>21 DEF Step

-----------------------------------------------------------------------------
(* Theorem *)

LEMMA InitNInv == Init => NInv
<1> SUFFICES ASSUME Init  PROVE NInv
  OBVIOUS
<1>1. Cardinality(Loaded) \in Nat
  BY SortedListAssumption, FS_Subset, FS_CardinalityType
<1> QED  BY <1>1 DEF Init, NInv, Drawn, ToldOnce, PCs, Ops, Fits, TakesRef

LEMMA NextNInv == NInv /\ [Next]_vars => NInv'
<1> SUFFICES ASSUME NInv, [Next]_vars  PROVE NInv'
  OBVIOUS
<1>1. ASSUME NEW t \in Threads, Keeps(t) \/ Tells(t) \/ Draws(t)  PROVE NInv'
  BY <1>1, KeepsNumbers, TellsNumber, DrawsNumber
<1>2. ASSUME UNCHANGED <<seqNo, open, num, pc, op>>  PROVE NInv'
  BY <1>2 DEF NInv, Drawn, ToldOnce
<1>3. ASSUME NEW t \in Threads, Step(t)  PROVE NInv'
  BY <1>1, <1>3, StepNumbers
<1>4. ASSUME NEW t \in Threads, NodeRelease(t) \/ GetAll(t)  PROVE NInv'
  BY <1>2, <1>4 DEF NodeRelease, GetAll, numbers, call
<1>5. ASSUME NEW t \in Threads, NEW what \in Writes, NEW i \in Items,
             WriteStart(t, what, i) \/ RewriteStart(t, what, i)
      PROVE  NInv'
  BY <1>1, <1>5, BeginDraws
<1>6. ASSUME NEW t \in Threads,
             \/ \E i \in Items : DeleteItemStart(t, i)
             \/ \E k \in Keys, what \in {"delete_key", "remove", "find"} :
                   KeyStart(t, what, k)
      PROVE  NInv'
  BY <1>1, <1>6, BeginKeeps
<1>7. CASE (\E i \in Items : ReclaimNode(i)) \/ Destroy
  BY <1>2, <1>7 DEF ReclaimNode, Destroy, numbers, call
<1>8. CASE UNCHANGED vars
  BY <1>2, <1>8 DEF vars, numbers, call
<1> QED
  BY <1>3, <1>4, <1>5, <1>6, <1>7, <1>8 DEF Next

\* Every number drawn from *sequence_number is held by one call until it is told, with
\* the result or through skipped_seq_no_cb, and by none after that: however calls
\* fail, restart, or take a new number, none is lost and none is told twice.
THEOREM EveryNumberToldOnce == Spec => []ToldOnce
<1>1. NInv => ToldOnce  BY DEF NInv
<1> QED  BY InitNInv, NextNInv, <1>1, PTL DEF Spec

-----------------------------------------------------------------------------
(* Lists of links *)

LinkValues == [ptr : Items \cup {NULL}, mark : BOOLEAN]
Places == Items \cup {HEAD}
LinkMaps == [Places -> LinkValues]

After(p, j) == p = HEAD \/ Key(p) < Key(j)

\* Along the links lk, L is the list: every link leads to the item of the next key.
Sorted(lk, L) ==
    /\ L \subseteq Items
    /\ \A i, j \in L : Key(i) = Key(j) => i = j
    /\ \A p \in L \cup {HEAD} : lk[p].ptr # NULL => lk[p].ptr \in L /\ After(p, lk[p].ptr)
    /\ \A p \in L \cup {HEAD} : \A j \in L :
          After(p, j) => lk[p].ptr # NULL /\ Key(lk[p].ptr) <= Key(j)

\* InList, of any links.
Reached(lk) ==
    LET hop[k \in 0..Cardinality(Items)] ==
            IF k = 0 THEN lk[HEAD].ptr
            ELSE LET i == hop[k - 1] IN IF i = NULL THEN NULL ELSE lk[i].ptr
    IN  {hop[k] : k \in 0..Cardinality(Items)} \ {NULL}

\* The constants, as the proofs use them.
LEMMA Constants ==
  /\ NULL \notin Items /\ HEAD \notin Items /\ HEAD # NULL /\ NULL \notin Keys
  /\ IsFiniteSet(Items) /\ Loaded \subseteq Items
  /\ \A i \in Items : Key(i) \in Keys /\ Key(i) \in Nat
  /\ \A k \in Keys : k \in Nat
<1>1. \A i \in Items : Key(i) \in Keys
  BY DEF Items, Key
<1> QED  BY <1>1, SortedListAssumption

\* A link is its pointer and its mark.
LEMMA LinkFacts ==
  /\ \A p : Link(p).mark = FALSE /\ Link(p).ptr = p /\ Marked(p).mark = TRUE /\ Marked(p).ptr = p
  /\ \A p, q : Link(p) # Marked(q) /\ (p # q => Link(p) # Link(q) /\ Marked(p) # Marked(q))
  /\ \A p \in Items \cup {NULL} : Link(p) \in LinkValues /\ Marked(p) \in LinkValues
  BY DEF Link, Marked, LinkValues

\* Every set of naturals that is not empty has a least element.
LEMMA LeastNat ==
  ASSUME NEW T, T \subseteq Nat, T # {}
  PROVE  \E x \in T : \A y \in T : x <= y
<1> DEFINE R == OpToRel(<, Nat)
<1>1. IsWellFoundedOn(R, Nat)
  BY NatLessThanWellFounded
<1>2. \E x \in T : \A y \in T : ~ (<<y, x>> \in R)
  <2> HIDE DEF R
  <2> QED  BY <1>1, WFMin
<1>3. PICK x \in T : \A y \in T : ~ (<<y, x>> \in R)
  BY <1>2
<1>4. ASSUME NEW y \in T  PROVE x <= y
  <2>1. ~ (<<y, x>> \in R)
    BY <1>3
  <2> QED  BY <2>1 DEF OpToRel
<1> QED  BY <1>4

\* One step along the links, and the first m of them.
Hop(lk, i) == IF i = NULL THEN NULL ELSE lk[i].ptr
Hops(lk, m, f) ==
    f = [k \in 0..m |-> IF k = 0 THEN lk[HEAD].ptr ELSE Hop(lk, f[k - 1])]

LEMMA HopsExist ==
  ASSUME NEW lk, NEW m \in Nat
  PROVE  \E f : Hops(lk, m, f)
<1> DEFINE Bad == {k \in Nat : ~\E f : Hops(lk, k, f)}
<1>1. SUFFICES ASSUME Bad # {}  PROVE FALSE
  OBVIOUS
<1>2. PICK k \in Bad : \A j \in Bad : k <= j
  <2> Bad \subseteq Nat  OBVIOUS
  <2> HIDE DEF Bad
  <2> QED  BY <1>1, LeastNat
<1>3. k \in Nat /\ ~\E f : Hops(lk, k, f)
  OBVIOUS
<1>4. k # 0
  <2> DEFINE f == [j \in 0..0 |-> lk[HEAD].ptr]
  <2>1. f = [j \in 0..0 |-> IF j = 0 THEN lk[HEAD].ptr ELSE Hop(lk, f[j - 1])]
    OBVIOUS
  <2>2. Hops(lk, 0, f)  BY <2>1 DEF Hops
  <2> HIDE DEF f
  <2> QED  BY <1>3, <2>2
<1>5. k - 1 \in Nat /\ k - 1 \notin Bad
  BY <1>2, <1>3, <1>4
<1>6. PICK f : Hops(lk, k - 1, f)
  BY <1>5
<1> DEFINE g == [j \in 0..k |-> IF j = k THEN Hop(lk, f[k - 1]) ELSE f[j]]
<1>7. \A j \in 0..(k - 1) : f[j] = IF j = 0 THEN lk[HEAD].ptr ELSE Hop(lk, f[j - 1])
  BY <1>3, <1>6 DEF Hops
<1>8. ASSUME NEW j \in 0..k
      PROVE  g[j] = IF j = 0 THEN lk[HEAD].ptr ELSE Hop(lk, g[j - 1])
  <2>1. CASE j = k
    <3>1. j # 0 /\ g[j] = Hop(lk, f[k - 1]) /\ k - 1 \in 0..k /\ k - 1 # k  BY <2>1, <1>3, <1>4
    <3>2. g[k - 1] = f[k - 1]  BY <3>1
    <3> QED  BY <2>1, <3>1, <3>2
  <2>2. CASE j # k
    <3>1. j \in 0..(k - 1) /\ g[j] = f[j]  BY <2>2, <1>3
    <3>2. j # 0 => j - 1 \in 0..k /\ j - 1 # k  BY <3>1, <1>3
    <3>3. j # 0 => g[j - 1] = f[j - 1]  BY <3>2
    <3> QED  BY <3>1, <3>3, <1>7
  <2> QED  BY <2>1, <2>2
<1>9. g = [j \in 0..k |-> g[j]]
  OBVIOUS
<1> HIDE DEF g
<1>10. Hops(lk, k, g)
  BY <1>8, <1>9 DEF Hops
<1> QED  BY <1>3, <1>10

\* Where every link leads to the item of the next key, the items that the links reach are
\* exactly those.
LEMMA SortedIsReached ==
  ASSUME NEW lk, NEW L, Sorted(lk, L)
  PROVE  Reached(lk) = L
<1> DEFINE N == Cardinality(Items)
           h == CHOOSE f : Hops(lk, N, f)
<1>1. N \in Nat /\ NULL \notin Items /\ HEAD \notin Items /\ L \subseteq Items /\ IsFiniteSet(Items)
  BY Constants, FS_CardinalityType DEF Sorted
<1>2. Reached(lk) = {h[k] : k \in 0..N} \ {NULL}
  BY DEF Reached, Hops, Hop
<1>3. Hops(lk, N, h)
  BY <1>1, HopsExist
<1> HIDE DEF h, N
<1>4. /\ h[0] = lk[HEAD].ptr
      /\ \A k \in 0..N : k # 0 => k - 1 \in 0..N /\ h[k] = Hop(lk, h[k - 1])
  BY <1>1, <1>3 DEF Hops
<1>5. \A k \in 0..N : h[k] \in L \cup {NULL}
  <2> DEFINE Bad == {k \in 0..N : h[k] \notin L \cup {NULL}}
  <2>1. SUFFICES ASSUME Bad # {}  PROVE FALSE
    OBVIOUS
  <2>2. PICK k \in Bad : \A j \in Bad : k <= j
    <3> Bad \subseteq Nat  BY <1>1
    <3> HIDE DEF Bad
    <3> QED  BY <2>1, LeastNat
  <2>3. k \in 0..N /\ h[k] \notin L \cup {NULL}  OBVIOUS
  <2>4. k # 0  BY <2>3, <1>4 DEF Sorted
  <2>5. k - 1 \in 0..N /\ ~(k <= k - 1)  BY <2>3, <2>4, <1>1
  <2>6. h[k - 1] \in L \cup {NULL}  BY <2>2, <2>5
  <2>7. h[k] = Hop(lk, h[k - 1])  BY <2>3, <2>4, <1>4
  <2> QED  BY <2>3, <2>6, <2>7 DEF Hop, Sorted
<1>6. \A k \in 0..N : k # 0 /\ h[k] # NULL =>
          /\ k - 1 \in 0..N /\ h[k - 1] # NULL /\ h[k - 1] \in L /\ h[k] \in L
          /\ Key(h[k - 1]) < Key(h[k])
  <2> TAKE k \in 0..N
  <2> HAVE k # 0 /\ h[k] # NULL
  <2>1. k - 1 \in 0..N /\ h[k] = Hop(lk, h[k - 1])  BY <1>4
  <2>2. h[k - 1] # NULL /\ h[k - 1] \in L /\ h[k] \in L  BY <2>1, <1>5 DEF Hop
  <2>3. h[k - 1] # HEAD  BY <2>2, <1>1
  <2>4. After(h[k - 1], h[k])  BY <2>1, <2>2 DEF Hop, Sorted
  <2> QED  BY <2>1, <2>2, <2>3, <2>4 DEF After
<1>7. \A i \in L : Key(i) \in Nat
  BY <1>1, Constants
<1>8. ASSUME NEW j \in 0..N, NEW k \in 0..N, j < k, h[k] # NULL
      PROVE  h[j] # NULL /\ Key(h[j]) < Key(h[k])
  <2> DEFINE Bad == {l \in 0..N : j < l /\ h[l] # NULL
                                 /\ ~(h[j] # NULL /\ Key(h[j]) < Key(h[l]))}
  <2>1. SUFFICES ASSUME Bad # {}  PROVE FALSE
    BY <1>8
  <2>2. PICK l \in Bad : \A x \in Bad : l <= x
    <3> Bad \subseteq Nat  BY <1>1
    <3> HIDE DEF Bad
    <3> QED  BY <2>1, LeastNat
  <2>3. l \in 0..N /\ j < l /\ h[l] # NULL /\ ~(h[j] # NULL /\ Key(h[j]) < Key(h[l]))
    OBVIOUS
  <2>4. l # 0 /\ ~(l <= l - 1)  BY <2>3, <1>1
  <2>5. /\ l - 1 \in 0..N /\ h[l - 1] # NULL /\ h[l - 1] \in L /\ h[l] \in L
        /\ Key(h[l - 1]) < Key(h[l])
    BY <2>3, <2>4, <1>6
  <2>6. l - 1 # j  BY <2>3, <2>5
  <2>7. j < l - 1  BY <2>3, <2>6, <1>1
  <2>8. h[j] # NULL /\ Key(h[j]) < Key(h[l - 1])
    BY <2>2, <2>4, <2>5, <2>7
  <2>9. h[j] \in L  BY <2>8, <1>5
  <2>10. Key(h[j]) < Key(h[l])  BY <2>5, <2>8, <2>9, <1>7
  <2> QED  BY <2>3, <2>8, <2>10
<1>9. \E k \in 0..N : h[k] = NULL
  <2>1. SUFFICES ASSUME \A k \in 0..N : h[k] # NULL  PROVE FALSE
    OBVIOUS
  <2> DEFINE g == [k \in 0..N |-> h[k]]
  <2>2. g \in [0..N -> Items]  BY <2>1, <1>1, <1>5
  <2>3. IsFiniteSet(0..N) /\ Cardinality(0..N) = N + 1
    BY <1>1, FS_Interval
  <2>4. \E x, y \in 0..N : x # y /\ g[x] = g[y]
    <3>1. N < N + 1 /\ N = Cardinality(Items)  BY <1>1 DEF N
    <3> HIDE DEF g
    <3> QED  BY <2>2, <2>3, <3>1, <1>1, FS_PigeonHole
  <2>5. PICK x \in 0..N, y \in 0..N : x # y /\ h[x] = h[y]
    BY <2>4
  <2>6. h[x] \in L /\ h[y] \in L  BY <2>1, <1>5
  <2>7. CASE x < y  BY <2>1, <2>5, <2>6, <2>7, <1>7, <1>8
  <2>8. CASE y < x  BY <2>1, <2>5, <2>6, <2>8, <1>7, <1>8
  <2> QED  BY <2>5, <2>7, <2>8, <1>1
<1>10. ASSUME NEW i \in L  PROVE \E k \in 0..N : h[k] = i
  <2> DEFINE T == {k \in 0..N : h[k] = NULL \/ ~(Key(h[k]) < Key(i))}
  <2>1. PICK k \in T : \A j \in T : k <= j
    <3>1. T # {} /\ T \subseteq Nat  BY <1>1, <1>9
    <3> HIDE DEF T
    <3> QED  BY <3>1, LeastNat
  <2>2. k \in 0..N /\ (h[k] = NULL \/ ~(Key(h[k]) < Key(i)))  OBVIOUS
  <2>3. h[k] # NULL /\ Key(h[k]) <= Key(i)
    <3>1. CASE k = 0
      <4>1. After(HEAD, i)  BY DEF After
      <4> QED  BY <3>1, <4>1, <1>4 DEF Sorted
    <3>2. CASE k # 0
      <4>0. k - 1 \in 0..N /\ ~(k <= k - 1)
        <5>1. k \in 0..N  BY <2>2
        <5> HIDE DEF T
        <5> QED  BY <5>1, <3>2, <1>1
      <4>1. h[k] = Hop(lk, h[k - 1])
        <5>1. k \in 0..N  BY <2>2
        <5> HIDE DEF T
        <5> QED  BY <5>1, <3>2, <1>4
      <4>2. h[k - 1] # NULL /\ Key(h[k - 1]) < Key(i)
        <5>1. k - 1 \notin T
          <6> HIDE DEF T
          <6> QED  BY <4>0, <2>1
        <5> QED  BY <4>0, <5>1
      <4>3. h[k - 1] \in L  BY <4>0, <4>2, <1>5
      <4>4. After(h[k - 1], i)  BY <4>2 DEF After
      <4> QED  BY <4>0, <4>1, <4>2, <4>3, <4>4 DEF Hop, Sorted
    <3> QED  BY <3>1, <3>2
  <2>4. h[k] \in L  BY <2>2, <2>3, <1>5
  <2>5. Key(h[k]) = Key(i)  BY <2>2, <2>3, <2>4, <1>7
  <2> QED  BY <2>2, <2>4, <2>5 DEF Sorted
<1> QED  BY <1>1, <1>2, <1>5, <1>10

-----------------------------------------------------------------------------
(* What may happen to a list *)

\* A list depends on the pointers of its items only.
LEMMA ListKept ==
  ASSUME NEW lk, NEW lk2, NEW L, Sorted(lk, L),
         \A p \in L \cup {HEAD} : lk2[p].ptr = lk[p].ptr
  PROVE  Sorted(lk2, L)
BY DEF Sorted

\* Between two places there is no key.
LEMMA NoneBetween ==
  ASSUME NEW lk, NEW L, Sorted(lk, L), NEW p \in L \cup {HEAD}, NEW j \in L, After(p, j)
  PROVE  lk[p].ptr \in L /\ Key(lk[p].ptr) <= Key(j) /\ After(p, lk[p].ptr)
BY Constants DEF Sorted

\* An item is put in between p and what comes after p.
LEMMA ListInsert ==
  ASSUME NEW lk, NEW lk2, NEW L, Sorted(lk, L), NEW p \in L \cup {HEAD}, NEW i \in Items \ L,
         After(p, i), lk[p].ptr # NULL => Key(i) < Key(lk[p].ptr),
         lk2[p].ptr = i, lk2[i].ptr = lk[p].ptr,
         \A q \in L \cup {HEAD} : q # p => lk2[q].ptr = lk[q].ptr
  PROVE  Sorted(lk2, L \cup {i})
<1> DEFINE M == L \cup {i}
           c == lk[p].ptr
<1>1. /\ L \subseteq Items /\ \A j \in M : Key(j) \in Nat
      /\ NULL \notin Items /\ HEAD \notin Items /\ i # HEAD /\ p # i
  BY Constants DEF Sorted
<1>2. c # NULL => c \in L /\ After(p, c)
  BY DEF Sorted
<1>3. ASSUME NEW j \in L  PROVE After(p, j) => c # NULL /\ Key(i) < Key(j) /\ Key(c) <= Key(j)
  <2>1. After(p, j) => c # NULL /\ Key(c) <= Key(j)  BY <1>3 DEF Sorted
  <2>2. Key(j) \in Nat /\ Key(i) \in Nat  BY <1>1, <1>3
  <2>3. c # NULL => Key(c) \in Nat /\ Key(i) < Key(c)  BY <1>1, <1>2
  <2> QED  BY <2>1, <2>2, <2>3
<1>4. ASSUME NEW j \in L  PROVE ~After(p, j) => After(j, i) /\ Key(j) < Key(i)
  <2>1. CASE p = HEAD  BY <2>1 DEF After
  <2>2. CASE p # HEAD
    <3>1. Key(p) < Key(i) /\ Key(p) \in Nat /\ Key(i) \in Nat /\ Key(j) \in Nat
      BY <2>2, <1>1, <1>4 DEF After
    <3> QED  BY <2>2, <3>1 DEF After
  <2> QED  BY <2>1, <2>2
<1>5. \A j, k \in M : Key(j) = Key(k) => j = k
  <2>1. ASSUME NEW j \in L  PROVE Key(j) # Key(i)
    <3>1. Key(j) \in Nat /\ Key(i) \in Nat  BY <1>1, <2>1
    <3> QED  BY <2>1, <3>1, <1>3, <1>4
  <2> QED  BY <2>1 DEF Sorted
<1>6. ASSUME NEW q \in M \cup {HEAD}
      PROVE  /\ lk2[q].ptr # NULL => lk2[q].ptr \in M /\ After(q, lk2[q].ptr)
             /\ \A j \in M : After(q, j) => lk2[q].ptr # NULL /\ Key(lk2[q].ptr) <= Key(j)
  <2>1. CASE q = p
    <3>1. ASSUME NEW j \in M, After(q, j)  PROVE Key(i) <= Key(j)
      <4>1. Key(i) \in Nat /\ Key(j) \in Nat  BY <1>1, <3>1
      <4> QED  BY <4>1, <3>1, <2>1, <1>3
    <3> QED  BY <2>1, <3>1, <1>1
  <2>2. CASE q = i
    <3>1. c # NULL => After(i, c)  BY DEF After
    <3>2. ASSUME NEW j \in M, After(i, j)  PROVE c # NULL /\ Key(c) <= Key(j)
      <4>1. Key(i) < Key(j) /\ Key(i) \in Nat /\ Key(j) \in Nat
        BY <3>2, <1>1 DEF After
      <4>2. j \in L  BY <3>2, <4>1
      <4>3. After(p, j)
        <5>1. ~(Key(j) < Key(i))  BY <4>1
        <5> QED  BY <4>2, <5>1, <1>4
      <4> QED  BY <4>2, <4>3, <1>3
    <3> QED  BY <2>2, <3>1, <3>2, <1>2
  <2>3. CASE q \in L \cup {HEAD} /\ q # p
    <3>1. lk2[q].ptr = lk[q].ptr  BY <2>3
    <3>2. ASSUME After(q, i)  PROVE lk[q].ptr # NULL /\ Key(lk[q].ptr) <= Key(i)
      \* p comes after q, and i after p
      <4>1. p # HEAD /\ p \in L /\ Key(p) < Key(i)
        <5>1. p = HEAD => After(p, q) /\ q \in L  BY <2>3 DEF After
        <5>2. p = HEAD => Key(i) < Key(q) /\ Key(q) \in Nat /\ Key(i) \in Nat  BY <5>1, <1>1, <1>3
        <5>3. p = HEAD => Key(q) < Key(i)  BY <5>1, <3>2, <1>1 DEF After
        <5>4. p # HEAD  BY <5>2, <5>3
        <5> QED  BY <5>4 DEF After
      <4>2. After(q, p)
        <5>1. CASE q = HEAD  BY <5>1 DEF After
        <5>2. CASE q \in L
          <6>1. ~After(p, q)
            <7>1. Key(q) < Key(i) /\ Key(q) \in Nat /\ Key(i) \in Nat
              BY <5>2, <3>2, <1>1 DEF After
            <7> QED  BY <7>1, <5>2, <1>3
          <6>2. Key(p) # Key(q)  BY <5>2, <4>1, <2>3 DEF Sorted
          <6>3. Key(p) \in Nat /\ Key(q) \in Nat  BY <5>2, <4>1, <1>1
          <6> QED  BY <6>1, <6>2, <6>3, <4>1 DEF After
        <5> QED  BY <5>1, <5>2, <2>3
      <4>3. lk[q].ptr \in L /\ Key(lk[q].ptr) <= Key(p)
        BY <4>1, <4>2, <2>3, NoneBetween
      <4>4. Key(lk[q].ptr) \in Nat /\ Key(p) \in Nat /\ Key(i) \in Nat
        BY <4>1, <4>3, <1>1
      <4> QED  BY <4>1, <4>3, <4>4, <1>1
    <3>3. lk2[q].ptr # NULL => lk2[q].ptr \in M /\ After(q, lk2[q].ptr)
      BY <2>3, <3>1 DEF Sorted
    <3>4. ASSUME NEW j \in M, After(q, j)  PROVE lk2[q].ptr # NULL /\ Key(lk2[q].ptr) <= Key(j)
      <4>1. CASE j = i  BY <4>1, <3>1, <3>2, <3>4
      <4>2. CASE j \in L  BY <4>2, <3>1, <3>4, <2>3 DEF Sorted
      <4> QED  BY <4>1, <4>2, <3>4
    <3> QED  BY <3>3, <3>4
  <2> QED  BY <2>1, <2>2, <2>3, <1>6
<1> QED  BY <1>1, <1>5, <1>6 DEF Sorted

\* The item after p is taken out.
LEMMA ListCut ==
  ASSUME NEW lk, NEW lk2, NEW L, Sorted(lk, L), NEW p \in L \cup {HEAD}, NEW c \in L,
         lk[p].ptr = c, lk2[p].ptr = lk[c].ptr,
         \A q \in L \cup {HEAD} : q # p => lk2[q].ptr = lk[q].ptr
  PROVE  Sorted(lk2, L \ {c})
<1> DEFINE M == L \ {c}
           d == lk[c].ptr
<1>1. /\ L \subseteq Items /\ \A j \in L : Key(j) \in Nat
      /\ NULL \notin Items /\ HEAD \notin Items /\ c # HEAD /\ c # NULL
  BY Constants DEF Sorted
<1>2. After(p, c) /\ p # c
  <2>1. After(p, c)  BY <1>1 DEF Sorted
  <2>2. Key(c) \in Nat  BY <1>1
  <2> QED  BY <2>1, <2>2, <1>1 DEF After
<1>3. d # NULL => d \in M /\ After(c, d) /\ Key(c) < Key(d) /\ Key(d) \in Nat
  <2>1. d # NULL => d \in L /\ After(c, d)  BY DEF Sorted
  <2>2. Key(c) \in Nat /\ (d # NULL => Key(d) \in Nat)  BY <2>1, <1>1
  <2>3. d # NULL => Key(c) < Key(d)  BY <2>1, <1>1 DEF After
  <2>4. d # NULL => d # c  BY <2>2, <2>3
  <2> QED  BY <2>1, <2>2, <2>3, <2>4
<1>4. ASSUME NEW q \in M \cup {HEAD}
      PROVE  /\ lk2[q].ptr # NULL => lk2[q].ptr \in M /\ After(q, lk2[q].ptr)
             /\ \A j \in M : After(q, j) => lk2[q].ptr # NULL /\ Key(lk2[q].ptr) <= Key(j)
  <2>1. CASE q = p
    <3>1. d # NULL => After(p, d)
      <4>1. CASE p = HEAD  BY <4>1 DEF After
      <4>2. CASE p # HEAD
        <5>1. Key(p) < Key(c) /\ Key(p) \in Nat /\ Key(c) \in Nat
          BY <4>2, <1>1, <1>2 DEF After
        <5> QED  BY <5>1, <1>3 DEF After
      <4> QED  BY <4>1, <4>2
    <3>2. ASSUME NEW j \in M, After(p, j)  PROVE d # NULL /\ Key(d) <= Key(j)
      <4>1. Key(c) <= Key(j) /\ Key(c) # Key(j)  BY <3>2 DEF Sorted
      <4>2. Key(c) \in Nat /\ Key(j) \in Nat  BY <3>2, <1>1
      <4>3. After(c, j)  BY <4>1, <4>2 DEF After
      <4> QED  BY <4>3, <3>2 DEF Sorted
    <3> QED  BY <2>1, <3>1, <3>2, <1>3
  <2>2. CASE q # p
    <3>1. lk2[q].ptr = lk[q].ptr /\ q \in L \cup {HEAD}  BY <2>2
    <3>2. lk[q].ptr # c
      <4>1. SUFFICES ASSUME lk[q].ptr = c  PROVE FALSE
        OBVIOUS
      <4>2. After(q, c)  BY <3>1, <4>1, <1>1 DEF Sorted
      <4>3. CASE p = HEAD
        <5>1. q \in L /\ After(p, q)  BY <2>2, <3>1, <4>3 DEF After
        <5>2. Key(c) <= Key(q)  BY <5>1 DEF Sorted
        <5>3. Key(q) < Key(c) /\ Key(q) \in Nat /\ Key(c) \in Nat
          BY <4>2, <5>1, <1>1 DEF After
        <5> QED  BY <5>2, <5>3
      <4>4. CASE q = HEAD
        <5>1. p \in L /\ After(q, p)  BY <2>2, <3>1, <4>4 DEF After
        <5>2. Key(c) <= Key(p)  BY <4>1, <3>1, <5>1 DEF Sorted
        <5>3. Key(p) < Key(c) /\ Key(p) \in Nat /\ Key(c) \in Nat
          BY <1>2, <5>1, <1>1 DEF After
        <5> QED  BY <5>2, <5>3
      <4>5. CASE p \in L /\ q \in L
        <5>1. Key(p) # Key(q)  BY <2>2, <4>5 DEF Sorted
        <5>2. Key(p) \in Nat /\ Key(q) \in Nat /\ Key(c) \in Nat  BY <4>5, <1>1
        <5>3. Key(p) < Key(c) /\ Key(q) < Key(c)  BY <4>2, <4>5, <1>1, <1>2 DEF After
        <5>4. CASE Key(p) < Key(q)
          <6>1. Key(c) <= Key(q)  BY <4>5, <5>4 DEF Sorted, After
          <6> QED  BY <5>2, <5>3, <6>1
        <5>5. CASE Key(q) < Key(p)
          <6>1. Key(c) <= Key(p)  BY <4>1, <4>5, <5>5 DEF Sorted, After
          <6> QED  BY <5>2, <5>3, <6>1
        <5> QED  BY <5>1, <5>2, <5>4, <5>5
      <4> QED  BY <4>3, <4>4, <4>5, <3>1
    <3> QED  BY <3>1, <3>2 DEF Sorted
  <2> QED  BY <2>1, <2>2
<1> QED  BY <1>4 DEF Sorted

\* The item after p is replaced by one with its key.
LEMMA ListSwap ==
  ASSUME NEW lk, NEW lk2, NEW L, Sorted(lk, L), NEW p \in L \cup {HEAD}, NEW c \in L,
         lk[p].ptr = c, NEW i \in Items \ L, Key(i) = Key(c),
         lk2[p].ptr = i, lk2[i].ptr = lk[c].ptr,
         \A q \in L \cup {HEAD} : q # p => lk2[q].ptr = lk[q].ptr
  PROVE  Sorted(lk2, (L \ {c}) \cup {i})
<1>1. /\ L \subseteq Items /\ \A j \in L : Key(j) \in Nat
      /\ NULL \notin Items /\ HEAD \notin Items /\ c # HEAD /\ c # NULL
      /\ i # HEAD /\ i # p /\ i # c
  BY Constants DEF Sorted
<1>2. After(p, c) /\ p # c
  <2>1. After(p, c)  BY <1>1 DEF Sorted
  <2>2. Key(c) \in Nat  BY <1>1
  <2> QED  BY <2>1, <2>2, <1>1 DEF After
<1> DEFINE mid == [q \in Places |-> IF q = p THEN lk[c] ELSE lk[q]]
<1>3. p \in Places /\ \A q \in L \cup {HEAD} : q \in Places
  BY <1>1 DEF Places
<1>4. mid[p].ptr = lk[c].ptr /\ \A q \in L \cup {HEAD} : q # p => mid[q].ptr = lk[q].ptr
  BY <1>3
<1> HIDE DEF mid
<1>5. Sorted(mid, L \ {c})
  BY <1>4, ListCut
<1>6. p \in (L \ {c}) \cup {HEAD} /\ i \in Items \ (L \ {c})
  BY <1>2
<1>7. After(p, i)
  BY <1>2, <1>1 DEF After
<1>8. mid[p].ptr # NULL => Key(i) < Key(mid[p].ptr)
  <2>1. lk[c].ptr # NULL => After(c, lk[c].ptr)  BY DEF Sorted
  <2> QED  BY <2>1, <1>1, <1>4 DEF After
<1>9. /\ lk2[p].ptr = i /\ lk2[i].ptr = mid[p].ptr
      /\ \A q \in (L \ {c}) \cup {HEAD} : q # p => lk2[q].ptr = mid[q].ptr
  BY <1>4
<1> QED  BY <1>5, <1>6, <1>7, <1>8, <1>9, ListInsert

-----------------------------------------------------------------------------
(* What is known of the list and of the calls under way *)

\* Where a call holds the mark of its current item, and where it has found that item.
Marking == {"number", "same", "unlink", "unmark"}
Holding == {"mark_read", "mark"} \cup Marking

\* Items that were in the list and are not any more; items that are or were in it.
Out  == {i \in Items : link[i].mark /\ i \notin InList}
Seen == InList \cup Out

\* Items that still have the reference of the list, which a reclaim or destroy drops.
Leaving(i) == \E u \in Threads : pc[u] = "retire" /\ cur[u] = i
Listed(i) == i \in InList \/ i \in retired \/ Leaving(i)

Given(t) == op[t] \in Writes /\ pc[t] # "retire"
Alters(t) == op[t] \in Takes \/ op[t] \in {"set", "set_existing"}

Shapes ==
    /\ link \in LinkMaps
    /\ fresh \subseteq Items /\ retired \subseteq Items
    /\ pc \in [Threads -> PCs] /\ op \in [Threads -> Ops]
    /\ key \in [Threads -> Keys \cup {NULL}] /\ item \in [Threads -> Items \cup {NULL}]
    /\ absent \in [Threads -> BOOLEAN]
    /\ prev \in [Threads -> Items \cup {HEAD}]
    /\ cur \in [Threads -> Items \cup {NULL}] /\ nxt \in [Threads -> Items \cup {NULL}]
    /\ guards \in [Threads -> SUBSET Items]

\* What was taken out is still marked, and what follows it is or was in the list; a new
\* item is nobody's.
Heap ==
    /\ Sorted(link, InList) /\ link[HEAD].mark = FALSE
    /\ retired \subseteq Out
    /\ \A i \in fresh : i \notin Seen /\ \A t \in Threads : item[t] # i
    /\ IF destroyed THEN InList = {} /\ \A t \in Threads : pc[t] = "idle"
       ELSE \A i \in Out : link[i].ptr \in Seen \cup {NULL}

\* What a call was given.
Args(t) ==
    /\ pc[t] = "idle" <=> op[t] = "none"
    /\ pc[t] = "idle" => prev[t] = HEAD /\ guards[t] = {}
    /\ pc[t] # "idle" => key[t] \in Keys
    /\ IF op[t] \in Writes \cup {"delete_item"} THEN item[t] \in Items /\ key[t] = Key(item[t])
       ELSE item[t] = NULL
    /\ pc[t] \in {"idle", "walk"} => cur[t] = NULL
    /\ pc[t] = "cas" => op[t] \in {"insert", "set"}
    /\ pc[t] = "take_ref" => op[t] = "find"
    /\ pc[t] \in Holding \cup {"retire"} => Alters(t)

\* What it knows of the items it stands on.
Stands(t) ==
    /\ prev[t] \in Seen \cup {HEAD}
    /\ pc[t] \notin {"idle", "take_ref", "retire"} => prev[t] \in guards[t] \cup {HEAD}
    /\ op[t] \in Writes /\ prev[t] # HEAD => Key(prev[t]) < key[t]
    /\ pc[t] \in {"check", "take_ref", "retire"} \cup Holding => cur[t] \in Seen
    /\ pc[t] \in {"take_ref", "retire"} \cup Holding => cur[t] \in guards[t] /\ Key(cur[t]) = key[t]
    /\ \A i \in guards[t] : Listed(i)

\* What it has written to, or marked on, the items it is about to link or to take out.
Holds(t) ==
    /\ pc[t] = "cas" => /\ link[item[t]] = Link(cur[t])
                        /\ cur[t] # NULL => cur[t] \in Seen /\ Key(cur[t]) > key[t]
    /\ pc[t] \in Marking => cur[t] \in InList /\ link[cur[t]] = Marked(nxt[t])
    /\ pc[t] = "same" => Setting(t) /\ cur[t] = item[t]
    /\ pc[t] \in {"unlink", "unmark"} /\ Setting(t)
         => cur[t] # item[t] /\ link[item[t]] = Link(nxt[t])
    /\ pc[t] = "retire" => cur[t] \in Out /\ cur[t] \notin retired

\* The item of a write is new, or it is in the list and nobody else takes its key out.
Owns(t) ==
    Given(t) =>
        \/ item[t] \notin Seen
        \/ /\ op[t] = "set" /\ item[t] \in InList /\ ~absent[t] /\ pc[t] # "cas"
           /\ pc[t] \in Holding => cur[t] = item[t]
           /\ \A u \in Threads \ {t} : ~(Alters(u) /\ key[u] = key[t])

\* While a call has not seen a moment without what it looks for, it has not passed it.
Looks(t) ==
    /\ op[t] # "none" /\ ~absent[t] => Has(op[t], key[t], item[t])
    /\ pc[t] \in {"walk", "check"} /\ ~absent[t] /\ prev[t] # HEAD =>
          /\ Key(prev[t]) < key[t]
          /\ prev[t] \in InList \/ (link[prev[t]].ptr # NULL /\ Key(link[prev[t]].ptr) <= key[t])

Knows(t) == Args(t) /\ Stands(t) /\ Holds(t) /\ Owns(t) /\ Looks(t)

\* An item is marked by one call, taken out by one, and given to one.
Apart(t, u) ==
    /\ ~(pc[t] \in Marking /\ pc[u] \in Marking /\ cur[t] = cur[u])
    /\ ~(pc[t] = "retire" /\ pc[u] = "retire" /\ cur[t] = cur[u])
    /\ ~(Given(t) /\ Given(u) /\ item[t] = item[u])

LInv ==
    /\ Shapes /\ Heap
    /\ \A t \in Threads : Knows(t)
    /\ \A t, u \in Threads : t # u => Apart(t, u)

-----------------------------------------------------------------------------
(* What a step of one thread may do to the list, and to what the others know *)

\* Only the step's thread moves.
Alone(t) == \A u \in Threads \ {t} :
    /\ pc'[u] = pc[u] /\ op'[u] = op[u] /\ key'[u] = key[u] /\ item'[u] = item[u]
    /\ prev'[u] = prev[u] /\ cur'[u] = cur[u] /\ nxt'[u] = nxt[u] /\ guards'[u] = guards[u]

\* The links it changes: of its own new item, or of the list; a marked one only if the
\* mark is its own.
Writes1(t) == \A p \in Places : link'[p] # link[p] =>
    \/ p \in InList \cup {HEAD} /\ (link[p].mark => pc[t] \in Marking /\ p = cur[t])
    \/ Given(t) /\ p = item[t] /\ item[t] \notin Seen /\ ~link'[p].mark

\* The items that it puts in and takes out.
PutsIn(t) == \A i \in InList' : i \notin InList =>
    Given(t) /\ i = item[t] /\ item[t] \notin Seen /\ pc'[t] \in {"idle", "retire"}
TakesOut(t) == \A i \in InList : i \notin InList' =>
    pc[t] = "unlink" /\ i = cur[t] /\ pc'[t] = "retire" /\ cur'[t] = i /\ link'[i] = link[i]

\* The moments without an item are remembered.
Recalls(t) == \A u \in Threads \ {t} :
    \/ absent'[u] = absent[u] /\ InList \subseteq InList'
    \/ absent'[u] = (absent[u] \/ (op[u] # "none" /\ ~Has(op[u], key[u], item[u])'))

Retires(t) ==
    /\ retired \subseteq retired'
    /\ \A i \in retired' : i \in retired \/ (pc[t] = "retire" /\ i = cur[t])
    /\ pc[t] = "retire" => cur[t] \in retired'

Effect(t) ==
    /\ Sorted(link', InList') /\ ~link'[HEAD].mark
    /\ Writes1(t) /\ PutsIn(t) /\ TakesOut(t) /\ Recalls(t) /\ Retires(t)

\* A new call does not take out the key of an item that another thread is setting again.
Respects(t) == \A u \in Threads \ {t} :
    Given(u) /\ item[u] \in InList => ~(Alters(t)' /\ key'[t] = key[u])

Progress(t) ==
    /\ ~destroyed /\ ~destroyed'
    /\ Shapes' /\ fresh' \subseteq fresh /\ item'[t] \notin fresh'
    /\ Alone(t) /\ Effect(t) /\ Respects(t)
    /\ Knows(t)' /\ \A u \in Threads \ {t} : Apart(t, u)'

LEMMA OutFacts ==
  /\ \A i \in Out : i \in Items /\ link[i].mark /\ i \notin InList /\ i \in Seen
  /\ \A i \in Seen : i \notin InList => i \in Out
  /\ \A i \in Items : link[i].mark => i \in Seen
  /\ Out \subseteq Seen /\ InList \subseteq Seen
BY DEF Out, Seen

\* What was in the list stays in it or among what was taken out.
LEMMA SeenGrows ==
  ASSUME LInv, NEW t \in Threads, Effect(t), Shapes'
  PROVE  /\ \A i \in Out : link'[i] = link[i] /\ i \in Out'
         /\ \A i \in Seen : i \in Seen'
         /\ \A i \in Seen' : i \in Seen \/ (Given(t) /\ i = item[t] /\ item[t] \notin Seen)
         /\ \A i \in Out' : i \notin Out => i \in InList /\ i \notin InList' /\ link'[i] = link[i]
         /\ InList \subseteq Items /\ InList' \subseteq Items /\ Seen \subseteq Items
<1>1. InList \subseteq Items /\ InList' \subseteq Items /\ Seen \subseteq Items
  BY DEF LInv, Heap, Effect, Sorted, Seen, Out
<1>2. ASSUME NEW i \in Out  PROVE link'[i] = link[i] /\ i \in Out'
  <2>1. i \in Items /\ link[i].mark /\ i \notin InList /\ i \in Seen /\ i # HEAD /\ i \in Places
    BY <1>2, OutFacts, Constants DEF Places
  <2>2. link'[i] = link[i]
    BY <2>1 DEF Effect, Writes1
  <2>3. i \notin InList'
    BY <2>1 DEF Effect, PutsIn
  <2> QED  BY <2>1, <2>2, <2>3 DEF Out
<1>3. ASSUME NEW i \in InList, i \notin InList'  PROVE i \in Out' /\ link'[i] = link[i]
  <2>1. pc[t] = "unlink" /\ i = cur[t] /\ link'[i] = link[i]
    BY <1>3 DEF Effect, TakesOut
  <2>2. link[i] = Marked(nxt[t])
    BY <2>1 DEF LInv, Knows, Holds, Marking
  <2>3. link'[i].mark
    BY <2>1, <2>2, LinkFacts
  <2> QED  BY <1>1, <1>3, <2>1, <2>3 DEF Out
<1>4. \A i \in Seen : i \in Seen'
  BY <1>2, <1>3 DEF Seen
<1>5. ASSUME NEW i \in Out', i \notin Out
      PROVE  i \in InList /\ i \notin InList' /\ link'[i] = link[i]
  <2>1. i \in Items /\ link'[i].mark /\ i \notin InList' /\ i \in Places
    BY <1>5 DEF Out, Places
  <2>2. CASE i \in InList  BY <1>3, <2>1, <2>2
  <2>3. CASE i \notin InList
    <3>1. ~link[i].mark /\ i # HEAD  BY <1>5, <2>1, <2>3, Constants DEF Out
    <3>2. link'[i] # link[i]  BY <2>1, <3>1
    <3> QED  BY <2>1, <2>3, <3>1, <3>2 DEF Effect, Writes1
  <2> QED  BY <2>2, <2>3
<1>6. ASSUME NEW i \in Seen'  PROVE i \in Seen \/ (Given(t) /\ i = item[t] /\ item[t] \notin Seen)
  <2>1. CASE i \in InList'  BY <2>1 DEF Effect, PutsIn, Seen
  <2>2. CASE i \in Out'  BY <2>2, <1>5 DEF Seen
  <2> QED  BY <1>6, <2>1, <2>2 DEF Seen
<1> QED  BY <1>1, <1>2, <1>4, <1>5, <1>6

\* Nothing loses the reference of the list.
LEMMA ListedStays ==
  ASSUME LInv, NEW t \in Threads, Effect(t), Alone(t), NEW i, Listed(i)
  PROVE  Listed(i)'
<1>1. CASE i \in InList
  <2>1. CASE i \in InList'  BY <2>1 DEF Listed
  <2>2. CASE i \notin InList'
    <3>1. pc'[t] = "retire" /\ cur'[t] = i  BY <1>1, <2>2 DEF Effect, TakesOut
    <3> QED  BY <3>1 DEF Listed, Leaving
  <2> QED  BY <2>1, <2>2
<1>2. CASE i \in retired
  BY <1>2 DEF Effect, Retires, Listed
<1>3. CASE Leaving(i)
  <2>1. PICK u \in Threads : pc[u] = "retire" /\ cur[u] = i  BY <1>3 DEF Leaving
  <2>2. CASE u = t  BY <2>1, <2>2 DEF Effect, Retires, Listed
  <2>3. CASE u # t
    <3>1. pc'[u] = "retire" /\ cur'[u] = i  BY <2>1, <2>3 DEF Alone
    <3> QED  BY <3>1 DEF Listed, Leaving
  <2> QED  BY <2>2, <2>3
<1> QED  BY <1>1, <1>2, <1>3 DEF Listed

LEMMA HeapStays ==
  ASSUME LInv, NEW t \in Threads, Progress(t)
  PROVE  Heap'
<1> Effect(t) /\ Shapes' /\ ~destroyed /\ ~destroyed' /\ Alone(t)
  BY DEF Progress
<1>1. Sorted(link', InList') /\ link'[HEAD].mark = FALSE
  <2>1. link'[HEAD] \in LinkValues  BY DEF Shapes, LinkMaps, Places
  <2> QED  BY <2>1 DEF Effect, LinkValues
<1>2. retired' \subseteq Out'
  <2>1. ASSUME NEW i \in retired'  PROVE i \in Out
    <3>1. i \in retired \/ (pc[t] = "retire" /\ i = cur[t])  BY <2>1 DEF Effect, Retires
    <3>2. pc[t] = "retire" => cur[t] \in Out  BY DEF LInv, Knows, Holds
    <3> QED  BY <3>1, <3>2 DEF LInv, Heap
  <2> QED  BY <2>1, SeenGrows
<1>3. ASSUME NEW i \in fresh'  PROVE i \notin Seen' /\ \A u \in Threads : item'[u] # i
  <2>1. i \in fresh /\ i # item'[t]  BY <1>3 DEF Progress
  <2>2. i \notin Seen /\ \A u \in Threads : item[u] # i  BY <2>1 DEF LInv, Heap
  <2>3. i \notin Seen'  BY <2>2, SeenGrows
  <2> QED  BY <2>1, <2>2, <2>3 DEF Alone
<1>4. ASSUME NEW i \in Out'  PROVE link'[i].ptr \in Seen' \cup {NULL}
  <2>1. link[i].ptr \in Seen \cup {NULL}
    <3>1. CASE i \in Out  BY <3>1 DEF LInv, Heap
    <3>2. CASE i \notin Out
      <4>1. i \in InList  BY <1>4, <3>2, SeenGrows
      <4> QED  BY <4>1 DEF LInv, Heap, Sorted, Seen
    <3> QED  BY <3>1, <3>2
  <2>2. link'[i] = link[i]  BY <1>4, SeenGrows
  <2> QED  BY <2>1, <2>2, SeenGrows
<1> QED  BY <1>1, <1>2, <1>3, <1>4 DEF Heap

LEMMA OthersStand ==
  ASSUME LInv, NEW t \in Threads, Progress(t), NEW u \in Threads \ {t}
  PROVE  Args(u)' /\ Stands(u)'
<1> USE DEF Marking, Holding
<1>1. /\ pc'[u] = pc[u] /\ op'[u] = op[u] /\ key'[u] = key[u] /\ item'[u] = item[u]
      /\ prev'[u] = prev[u] /\ cur'[u] = cur[u] /\ nxt'[u] = nxt[u] /\ guards'[u] = guards[u]
  BY DEF Progress, Alone
<1>2. Args(u) /\ Stands(u)  BY DEF LInv, Knows
<1>3. Args(u)'  BY <1>1, <1>2 DEF Args, Alters
<1>4. \A i \in Seen : i \in Seen'  BY SeenGrows DEF Progress
<1>5. ASSUME NEW i \in guards'[u]  PROVE Listed(i)'
  <2>1. Listed(i)  BY <1>1, <1>2, <1>5 DEF Stands
  <2> QED  BY <2>1, ListedStays DEF Progress
<1>6. prev'[u] \in Seen' \cup {HEAD}  BY <1>1, <1>2, <1>4 DEF Stands
<1>7. cur[u] \in Seen => cur[u] \in Seen'  BY <1>4
<1>8. Stands(u)'
  BY <1>1, <1>2, <1>5, <1>6, <1>7 DEF Stands
<1> QED  BY <1>3, <1>8

LEMMA OthersHold ==
  ASSUME LInv, NEW t \in Threads, Progress(t), NEW u \in Threads \ {t}
  PROVE  Holds(u)'
<1> USE DEF Marking, Holding
<1>1. /\ pc'[u] = pc[u] /\ op'[u] = op[u] /\ key'[u] = key[u] /\ item'[u] = item[u]
      /\ prev'[u] = prev[u] /\ cur'[u] = cur[u] /\ nxt'[u] = nxt[u] /\ guards'[u] = guards[u]
  BY DEF Progress, Alone
<1>2. Args(u) /\ Stands(u) /\ Holds(u) /\ Owns(u) /\ Apart(t, u) /\ Holds(t)
  BY DEF LInv, Knows
<1>3. Effect(t) /\ Shapes' /\ InList \subseteq Items  BY SeenGrows DEF Progress
\* a new item of another call is out of reach
<1>4. ASSUME Given(u), item[u] \notin Seen, item[u] \in Items  PROVE link'[item[u]] = link[item[u]]
  <2>1. item[u] \in Places /\ item[u] \notin InList /\ item[u] # HEAD
    BY <1>4, Constants DEF Places, Seen
  <2>2. ~(Given(t) /\ item[u] = item[t])  BY <1>2, <1>4 DEF Apart
  <2> QED  BY <1>3, <2>1, <2>2 DEF Effect, Writes1
<1>5. pc[u] = "cas" => link'[item[u]] = link[item[u]]
  <2>1. pc[u] = "cas" => Given(u) /\ item[u] \in Items /\ item[u] \notin Seen
    BY <1>2 DEF Args, Owns, Given, Writes
  <2> QED  BY <1>4, <2>1
<1>6. pc[u] \in {"unlink", "unmark"} /\ Setting(u) => link'[item[u]] = link[item[u]]
  <2>1. pc[u] \in {"unlink", "unmark"} /\ Setting(u) =>
           Given(u) /\ item[u] \in Items /\ item[u] \notin Seen
    BY <1>2 DEF Args, Owns, Given, Writes, Setting, Holds
  <2> QED  BY <1>4, <2>1
<1>7. pc[u] \in Marking => cur[u] \in InList' /\ link'[cur[u]] = link[cur[u]]
  <2> SUFFICES ASSUME pc[u] \in Marking  PROVE cur[u] \in InList' /\ link'[cur[u]] = link[cur[u]]
    OBVIOUS
  <2>1. cur[u] \in InList /\ link[cur[u]].mark  BY <1>2, LinkFacts DEF Holds
  <2>2. ~(pc[t] \in Marking /\ cur[u] = cur[t])  BY <1>2 DEF Apart
  <2>3. cur[u] \in Places /\ cur[u] \in Seen  BY <1>3, <2>1 DEF Places, Seen
  <2>4. link'[cur[u]] = link[cur[u]]  BY <1>3, <2>1, <2>2, <2>3 DEF Effect, Writes1
  <2>5. cur[u] \in InList'  BY <1>3, <2>1, <2>2 DEF Effect, TakesOut
  <2> QED  BY <2>4, <2>5
<1>8. pc[u] = "retire" => cur[u] \in Out' /\ cur[u] \notin retired'
  <2>1. pc[u] = "retire" => cur[u] \in Out /\ cur[u] \notin retired  BY <1>2 DEF Holds
  <2>2. pc[u] = "retire" => ~(pc[t] = "retire" /\ cur[u] = cur[t])  BY <1>2 DEF Apart
  <2>3. pc[u] = "retire" => cur[u] \notin retired'  BY <1>3, <2>1, <2>2 DEF Effect, Retires
  <2> QED  BY <1>3, <2>1, <2>3, SeenGrows
<1>9. cur[u] \in Seen => cur[u] \in Seen'  BY <1>3, SeenGrows
<1> QED
  BY <1>1, <1>2, <1>5, <1>6, <1>7, <1>8, <1>9 DEF Holds, Setting

LEMMA OthersOwn ==
  ASSUME LInv, NEW t \in Threads, Progress(t), NEW u \in Threads \ {t}
  PROVE  Owns(u)'
<1> USE DEF Marking, Holding
<1>1. \A v \in Threads \ {t} :
      /\ pc'[v] = pc[v] /\ op'[v] = op[v] /\ key'[v] = key[v] /\ item'[v] = item[v]
      /\ cur'[v] = cur[v]
  BY DEF Progress, Alone
<1>2. Args(u) /\ Owns(u) /\ Apart(t, u) /\ Args(t) /\ Holds(t) /\ Stands(t)
  BY DEF LInv, Knows
<1>3. Effect(t) /\ Shapes' /\ InList \subseteq Items /\ InList \subseteq Seen
  BY SeenGrows DEF Progress, Seen
<1> SUFFICES ASSUME Given(u)'  PROVE
        \/ item'[u] \notin Seen'
        \/ /\ op'[u] = "set" /\ item'[u] \in InList' /\ ~absent'[u] /\ pc'[u] # "cas"
           /\ pc'[u] \in Holding => cur'[u] = item'[u]
           /\ \A v \in Threads \ {u} : ~(Alters(v)' /\ key'[v] = key'[u])
  BY DEF Owns
<1>4. Given(u)  BY <1>1 DEF Given
<1>5. CASE item[u] \notin Seen
  <2>1. ~(Given(t) /\ item[u] = item[t])  BY <1>2, <1>4 DEF Apart
  <2> QED  BY <1>1, <1>3, <1>5, <2>1, SeenGrows
<1>6. CASE item[u] \in Seen
  <2>1. /\ op[u] = "set" /\ item[u] \in InList /\ ~absent[u] /\ pc[u] # "cas"
        /\ pc[u] \in Holding => cur[u] = item[u]
        /\ \A v \in Threads \ {u} : ~(Alters(v) /\ key[v] = key[u])
    BY <1>2, <1>4, <1>6 DEF Owns
  <2>2. item[u] \in InList'
    <3>1. SUFFICES ASSUME item[u] \notin InList'  PROVE FALSE
      OBVIOUS
    <3>2. pc[t] = "unlink" /\ item[u] = cur[t]
      BY <1>3, <2>1, <3>1 DEF Effect, TakesOut
    <3>3. key[u] = Key(item[u]) /\ Key(cur[t]) = key[t] /\ Alters(t)
      BY <1>2, <2>1, <3>2 DEF Args, Stands, Writes
    <3> QED  BY <2>1, <3>2, <3>3
  <2>3. ~absent'[u]
    <3>1. \E j \in InList' : Key(j) = key'[u]
      BY <1>1, <1>2, <2>1, <2>2 DEF Args, Writes
    <3>2. Has(op[u], key[u], item[u])'
      BY <1>1, <2>1, <3>1 DEF Has
    <3>3. Recalls(t)  BY <1>3 DEF Effect
    <3> QED  BY <2>1, <3>2, <3>3 DEF Recalls
  <2>4. \A v \in Threads \ {u, t} : ~(Alters(v)' /\ key'[v] = key'[u])
    BY <1>1, <2>1 DEF Alters
  <2>5. ~(Alters(t)' /\ key'[t] = key'[u])
    BY <1>1, <1>4, <2>1 DEF Progress, Respects
  <2> QED  BY <1>1, <2>1, <2>2, <2>3, <2>4, <2>5
<1> QED  BY <1>5, <1>6

\* What a call that has missed no moment still has in front of it.
LEMMA StillAhead ==
  ASSUME LInv, NEW t \in Threads, op[t] # "none", ~absent[t]
  PROVE  \E j \in InList : Key(j) = key[t] /\ (op[t] = "delete_item" => j = item[t])
BY DEF LInv, Knows, Looks, Has, Args

LEMMA NotPassed ==
  ASSUME LInv, NEW t \in Threads, pc[t] \in {"walk", "check"}, ~absent[t]
  PROVE  link[prev[t]].ptr # NULL /\ Key(link[prev[t]].ptr) <= key[t]
<1>1. Looks(t) /\ op[t] # "none" /\ Sorted(link, InList)
  BY DEF LInv, Knows, Args, Heap
<1>2. PICK j \in InList : Key(j) = key[t]
  BY <1>1, StillAhead
<1>3. CASE prev[t] = HEAD
  BY <1>1, <1>2, <1>3 DEF Sorted, After
<1>4. CASE prev[t] # HEAD /\ prev[t] \in InList
  <2>1. After(prev[t], j)  BY <1>1, <1>2, <1>4 DEF Looks, After
  <2> QED  BY <1>1, <1>2, <1>4, <2>1 DEF Sorted
<1>5. CASE prev[t] # HEAD /\ prev[t] \notin InList
  BY <1>1, <1>5 DEF Looks
<1> QED  BY <1>3, <1>4, <1>5

LEMMA OthersLook ==
  ASSUME LInv, NEW t \in Threads, Progress(t), NEW u \in Threads \ {t}
  PROVE  Looks(u)'
<1>1. /\ pc'[u] = pc[u] /\ op'[u] = op[u] /\ key'[u] = key[u] /\ item'[u] = item[u]
      /\ prev'[u] = prev[u] /\ cur'[u] = cur[u]
  BY DEF Progress, Alone
<1>2. Args(u) /\ Stands(u) /\ Looks(u) /\ Holds(t) /\ Sorted(link, InList)
  BY DEF LInv, Knows, Heap
<1>3. Effect(t) /\ Shapes' /\ InList \subseteq Items /\ InList \subseteq Seen
  BY SeenGrows DEF Progress, Seen
<1>4. ~absent'[u] => ~absent[u]
  BY <1>3 DEF Effect, Recalls
<1>5. ASSUME op'[u] # "none", ~absent'[u]  PROVE Has(op[u], key[u], item[u])'
  <2>1. CASE absent'[u] = absent[u] /\ InList \subseteq InList'
    <3>1. Has(op[u], key[u], item[u])  BY <1>1, <1>2, <1>5, <2>1 DEF Looks
    <3> QED  BY <1>1, <2>1, <3>1 DEF Has
  <2>2. CASE absent'[u] = (absent[u] \/ (op[u] # "none" /\ ~Has(op[u], key[u], item[u])'))
    BY <1>1, <1>5, <2>2
  <2> QED  BY <1>3, <2>1, <2>2 DEF Effect, Recalls
<1>6. ASSUME pc[u] \in {"walk", "check"}, ~absent'[u], prev[u] # HEAD
      PROVE  \/ prev[u] \in InList'
             \/ link'[prev[u]].ptr # NULL /\ Key(link'[prev[u]].ptr) <= key[u]
  <2>1. link[prev[u]].ptr # NULL /\ Key(link[prev[u]].ptr) <= key[u]
    BY <1>4, <1>6, NotPassed
  <2>2. CASE prev[u] \in InList /\ prev[u] \notin InList'
    <3>1. link'[prev[u]] = link[prev[u]]  BY <1>3, <2>2 DEF Effect, TakesOut
    <3> QED  BY <2>1, <3>1
  <2>3. CASE prev[u] \notin InList
    <3>1. prev[u] \in Out  BY <1>2, <1>6, <2>3 DEF Stands, Seen
    <3>2. link'[prev[u]] = link[prev[u]]  BY <1>3, <3>1, SeenGrows
    <3> QED  BY <2>1, <3>2
  <2> QED  BY <2>2, <2>3
<1>7. op'[u] # "none" /\ ~absent'[u] => Has(op[u], key[u], item[u])'
  BY <1>5
<1> QED  BY <1>1, <1>2, <1>4, <1>6, <1>7 DEF Looks

\* A step that is right for its own thread is right for all.
LEMMA ProgressKeeps ==
  ASSUME LInv, NEW t \in Threads, Progress(t)
  PROVE  LInv'
<1>1. Shapes' /\ Knows(t)' /\ \A u \in Threads \ {t} : Apart(t, u)'
  BY DEF Progress
<1>2. Heap'  BY HeapStays
<1>3. ASSUME NEW u \in Threads  PROVE Knows(u)'
  <2>1. CASE u = t  BY <1>1, <2>1
  <2>2. CASE u # t
    BY <2>2, OthersStand, OthersHold, OthersOwn, OthersLook DEF Knows
  <2> QED  BY <2>1, <2>2
<1>4. ASSUME NEW u \in Threads, NEW v \in Threads, u # v  PROVE Apart(u, v)'
  <2>1. CASE u = t  BY <1>1, <1>4, <2>1
  <2>2. CASE v = t
    <3>1. Apart(v, u)'  BY <1>1, <1>4, <2>2
    <3> QED  BY <3>1 DEF Apart
  <2>3. CASE u # t /\ v # t
    <3>1. Apart(u, v)  BY <1>4 DEF LInv
    <3>2. /\ pc'[u] = pc[u] /\ op'[u] = op[u] /\ item'[u] = item[u] /\ cur'[u] = cur[u]
          /\ pc'[v] = pc[v] /\ op'[v] = op[v] /\ item'[v] = item[v] /\ cur'[v] = cur[v]
      BY <2>3 DEF Progress, Alone
    <3> QED  BY <3>1, <3>2 DEF Apart, Given
  <2> QED  BY <2>1, <2>2, <2>3
<1> QED  BY <1>1, <1>2, <1>3, <1>4 DEF LInv

-----------------------------------------------------------------------------
(* Steps that leave the list as it is *)

\* Same list, same items taken out.
SameList == InList' = InList /\ Seen' = Seen /\ Out' = Out

LEMMA ListUnchanged ==
  ASSUME LInv, link' \in LinkMaps,
         \A p \in Places : link'[p].ptr = link[p].ptr \/ (p \in Items /\ p \notin Seen),
         \A p \in Places : link'[p].mark = link[p].mark \/ p \in InList
  PROVE  SameList /\ Sorted(link', InList')
<1>1. Sorted(link, InList) /\ InList \subseteq Items /\ HEAD \notin Items
  BY Constants DEF LInv, Heap, Sorted
<1>2. \A p \in InList \cup {HEAD} : link'[p].ptr = link[p].ptr
  BY <1>1 DEF Places, Seen
<1>3. Sorted(link', InList)
  BY <1>1, <1>2, ListKept
<1>4. InList' = InList
  <2>1. Reached(link') = InList  BY <1>3, SortedIsReached
  <2> QED  BY <2>1 DEF InList, Reached
<1>5. Out' = Out
  <2>1. \A i \in Items : i \notin InList => link'[i].mark = link[i].mark
    BY DEF Places
  <2> QED  BY <1>4, <2>1 DEF Out
<1> QED  BY <1>3, <1>4, <1>5 DEF SameList, Seen

\* A step that changes links in this way has no further effect on the list.
LEMMA SameListEffect ==
  ASSUME LInv, NEW t \in Threads, link' \in LinkMaps, ~link'[HEAD].mark,
         SameList, Sorted(link', InList'), Writes1(t), pc[t] # "retire", UNCHANGED <<retired, absent>>
  PROVE  Effect(t)
BY DEF Effect, SameList, PutsIn, TakesOut, Recalls, Retires

\* No link changes, ...
LEMMA QuietEffect ==
  ASSUME LInv, NEW t \in Threads, pc[t] # "retire", UNCHANGED <<link, retired>>,
         \A u \in Threads \ {t} : absent'[u] = absent[u]
  PROVE  Effect(t) /\ SameList
<1>1. SameList /\ Sorted(link', InList')
  <2>1. InList' = InList /\ link' = link  BY DEF InList
  <2>2. Out' = Out  BY <2>1 DEF Out
  <2>3. Seen' = Seen  BY <2>1, <2>2 DEF Seen
  <2>4. Sorted(link, InList)  BY DEF LInv, Heap
  <2> QED  BY <2>1, <2>2, <2>3, <2>4 DEF SameList
<1> QED
  BY <1>1 DEF Effect, SameList, Writes1, PutsIn, TakesOut, Recalls, Retires, LInv, Heap

\* ... only the new item of the call gets one, ...
LEMMA PrivateEffect ==
  ASSUME LInv, NEW t \in Threads, Given(t), item[t] \notin Seen, item[t] \in Items,
         NEW x \in Items \cup {NULL}, link' = [link EXCEPT ![item[t]] = Link(x)],
         UNCHANGED <<retired, absent>>
  PROVE  Effect(t) /\ SameList /\ link' \in LinkMaps
<1>1. link' \in LinkMaps /\ item[t] # HEAD /\ ~link[HEAD].mark /\ ~link'[HEAD].mark
  BY LinkFacts, Constants DEF LInv, Shapes, Heap, LinkMaps, Places
<1>2. link[item[t]].mark = FALSE
  BY DEF Seen, Out, LInv, Shapes, LinkMaps, Places, LinkValues
<1>3. /\ \A p \in Places : p # item[t] => link'[p] = link[p]
      /\ link'[item[t]] = Link(x)
  BY DEF LInv, Shapes, LinkMaps, Places
<1>4. SameList /\ Sorted(link', InList')
  <2>1. link'[item[t]].mark = link[item[t]].mark
    BY <1>2, <1>3, LinkFacts
  <2>2. \A p \in Places : link'[p].mark = link[p].mark
    BY <1>3, <2>1
  <2>3. \A p \in Places : link'[p].ptr = link[p].ptr \/ (p \in Items /\ p \notin Seen)
    BY <1>3
  <2> QED  BY <1>1, <2>2, <2>3, ListUnchanged
<1>5. Writes1(t)
  BY <1>3, LinkFacts DEF Writes1
<1> QED  BY <1>1, <1>4, <1>5, SameListEffect DEF Given

\* ... or the current item a mark, or it loses its own.
LEMMA MarkEffect ==
  ASSUME LInv, NEW t \in Threads, cur[t] \in InList, NEW v \in LinkValues,
         link' = [link EXCEPT ![cur[t]] = v], v.ptr = link[cur[t]].ptr,
         link[cur[t]].mark => pc[t] \in Marking, pc[t] # "retire",
         UNCHANGED <<retired, absent>>
  PROVE  Effect(t) /\ SameList /\ link' \in LinkMaps
<1>1. cur[t] \in Items /\ cur[t] \in Places /\ cur[t] # HEAD
  BY Constants DEF LInv, Heap, Sorted, Places
<1>2. link' \in LinkMaps /\ ~link[HEAD].mark /\ ~link'[HEAD].mark
  BY <1>1, Constants DEF LInv, Shapes, Heap, LinkMaps, Places
<1>3. /\ \A p \in Places : p # cur[t] => link'[p] = link[p]
      /\ link'[cur[t]] = v
  BY <1>1 DEF LInv, Shapes, LinkMaps
<1>4. SameList /\ Sorted(link', InList')
  BY <1>1, <1>2, <1>3, ListUnchanged
<1>5. Writes1(t)
  BY <1>1, <1>3 DEF Writes1
<1> QED  BY <1>2, <1>4, <1>5, SameListEffect

-----------------------------------------------------------------------------
(* Steps inside a call *)

LEMMA Running ==
  ASSUME LInv, NEW t \in Threads, pc[t] # "idle"
  PROVE  ~destroyed /\ op[t] # "none" /\ op[t] \in Ops /\ key[t] \in Keys /\ key[t] \in Nat
<1>1. key[t] \in Keys /\ op[t] # "none" /\ ~destroyed /\ op[t] \in Ops
  BY DEF LInv, Heap, Knows, Args, Shapes
<1> QED  BY <1>1, Constants

\* Threads stay apart while a call marks only what is not marked.
LEMMA StaysApart ==
  ASSUME LInv, NEW t \in Threads, Alone(t),
         \/ op'[t] = op[t] /\ item'[t] = item[t] /\ pc[t] # "retire"
         \/ op'[t] = "none",
         pc'[t] \in Marking => \/ pc[t] \in Marking /\ cur'[t] = cur[t]
                               \/ link[cur'[t]].mark = FALSE,
         pc'[t] = "retire" => cur'[t] \in InList,
         NEW u \in Threads \ {t}
  PROVE  Apart(t, u)'
<1>1. /\ pc'[u] = pc[u] /\ op'[u] = op[u] /\ item'[u] = item[u] /\ cur'[u] = cur[u]
      /\ Apart(t, u) /\ Holds(u)
  BY DEF Alone, LInv, Knows
<1>2. ~(pc'[t] \in Marking /\ pc'[u] \in Marking /\ cur'[t] = cur'[u])
  <2>1. pc[u] \in Marking => link[cur[u]].mark
    BY <1>1, LinkFacts DEF Holds
  <2> QED  BY <1>1, <2>1 DEF Apart
<1>3. ~(pc'[t] = "retire" /\ pc'[u] = "retire" /\ cur'[t] = cur'[u])
  <2>1. pc[u] = "retire" => cur[u] \notin InList  BY <1>1 DEF Holds, Out
  <2> QED  BY <1>1, <2>1
<1>4. ~(Given(t)' /\ Given(u)' /\ item'[t] = item'[u])
  BY <1>1 DEF Given, Apart, Writes
<1> QED  BY <1>2, <1>3, <1>4 DEF Apart

LEMMA StaysRespectful ==
  ASSUME LInv, NEW t \in Threads,
         (op'[t] = op[t] /\ key'[t] = key[t]) \/ op'[t] = "none"
  PROVE  Respects(t)
<1>1. SUFFICES ASSUME NEW u \in Threads \ {t}, Given(u), item[u] \in InList,
                      Alters(t)', key'[t] = key[u]
               PROVE  FALSE
  BY DEF Respects
<1>2. Alters(t) /\ key[t] = key[u]
  BY <1>1 DEF Alters, Takes
<1>3. Owns(u)
  BY DEF LInv, Knows
<1> QED  BY <1>1, <1>2, <1>3 DEF Owns, Seen

\* The call goes on with what it was given, and the list stays.
LEMMA GoesOn ==
  ASSUME LInv, NEW t \in Threads, Shapes', Alone(t), Effect(t), SameList,
         UNCHANGED <<op, key, item, absent, fresh, destroyed>>,
         pc[t] \notin {"idle", "retire"}, pc'[t] \notin {"idle", "retire"},
         pc'[t] = "walk" => cur'[t] = NULL,
         pc'[t] = "cas" => op[t] \in {"insert", "set"} /\ item[t] \notin Seen,
         pc'[t] = "take_ref" => op[t] = "find",
         pc'[t] \in Holding => /\ Alters(t)
                               /\ op[t] = "set" /\ item[t] \in InList => cur'[t] = item[t],
         pc'[t] \in Marking => \/ pc[t] \in Marking /\ cur'[t] = cur[t]
                               \/ link[cur'[t]].mark = FALSE,
         Stands(t)', Holds(t)',
         pc'[t] \in {"walk", "check"} /\ ~absent[t] /\ prev'[t] # HEAD =>
            /\ Key(prev'[t]) < key[t]
            /\ \/ prev'[t] \in InList
               \/ link'[prev'[t]].ptr # NULL /\ Key(link'[prev'[t]].ptr) <= key[t]
  PROVE  Progress(t)
<1>1. Args(t) /\ Owns(t) /\ Looks(t) /\ ~destroyed /\ op[t] # "none" /\ InList' = InList /\ Seen' = Seen
  BY Running DEF LInv, Knows, SameList
<1>2. Args(t)'
  BY <1>1 DEF Args, Alters
<1>3. Owns(t)'
  <2>1. Given(t)' <=> Given(t)  BY DEF Given
  <2>2. \A u \in Threads \ {t} : Alters(u)' <=> Alters(u)  BY DEF Alters
  <2>3. item[t] \in InList => item[t] \in Seen  BY DEF Seen
  <2> QED  BY <1>1, <2>1, <2>2, <2>3 DEF Owns
<1>4. Looks(t)'
  BY <1>1 DEF Looks, Has
<1>5. item'[t] \notin fresh'
  BY DEF LInv, Heap
<1>6. \A u \in Threads \ {t} : Apart(t, u)'
  BY StaysApart
<1>7. Respects(t)
  BY StaysRespectful
<1> QED  BY <1>1, <1>2, <1>3, <1>4, <1>5, <1>6, <1>7 DEF Progress, Knows

\* A walk begins again.
LEMMA RestartsWell ==
  ASSUME LInv, NEW t \in Threads, Shapes', Effect(t), SameList, Restart(t),
         UNCHANGED <<op, key, item, absent, fresh, destroyed>>, pc[t] \notin {"idle", "retire"}
  PROVE  Progress(t)
<1>1. /\ pc'[t] = "walk" /\ prev'[t] = HEAD /\ cur'[t] = NULL /\ guards'[t] = {}
      /\ Alone(t)
  BY DEF Restart, LInv, Shapes, Alone
<1>2. Stands(t)'
  BY <1>1 DEF Stands, Holding, Marking
<1>3. Holds(t)'
  BY <1>1 DEF Holds, Marking
<1> QED  BY <1>1, <1>2, <1>3, GoesOn DEF Holding, Marking

\* A call ends.
LEMMA ReturnsWell ==
  ASSUME LInv, NEW t \in Threads, NEW from, Shapes', Effect(t), Return(t, from), from # "idle",
         UNCHANGED <<fresh, destroyed>>
  PROVE  Progress(t)
<1>1. /\ pc[t] = from /\ pc'[t] = "idle" /\ op'[t] = "none" /\ key'[t] = NULL /\ item'[t] = NULL
      /\ prev'[t] = HEAD /\ cur'[t] = NULL /\ nxt'[t] = NULL /\ guards'[t] = {}
      /\ Alone(t)
  BY DEF Return, Goto, LInv, Shapes, Alone
<1>2. ~destroyed  BY <1>1, Running
<1>3. Knows(t)'
  <2>1. Args(t)'  BY <1>1 DEF Args, Holding, Marking, Writes
  <2>2. Stands(t)'  BY <1>1 DEF Stands, Holding, Marking, Writes
  <2>3. Holds(t)'  BY <1>1 DEF Holds, Marking
  <2>4. Owns(t)'  BY <1>1 DEF Owns, Given, Writes
  <2>5. Looks(t)'  BY <1>1 DEF Looks
  <2> QED  BY <2>1, <2>2, <2>3, <2>4, <2>5 DEF Knows
<1>4. item'[t] \notin fresh'
  BY <1>1, Constants DEF LInv, Shapes
<1>5. \A u \in Threads \ {t} : Apart(t, u)'
  BY <1>1, StaysApart DEF Marking
<1>6. Respects(t)
  BY <1>1, StaysRespectful
<1> QED  BY <1>1, <1>2, <1>3, <1>4, <1>5, <1>6 DEF Progress

-----------------------------------------------------------------------------
(* The walk *)

\* A link that is not marked is one of the list.
LEMMA UnmarkedIsListed ==
  ASSUME LInv, NEW t \in Threads, NEW x, link[prev[t]] = Link(x)
  PROVE  prev[t] \in InList \cup {HEAD} /\ (x # NULL => x \in InList /\ After(prev[t], x))
<1>1. prev[t] \in Seen \cup {HEAD}  BY DEF LInv, Knows, Stands
<1>2. ~link[prev[t]].mark /\ link[prev[t]].ptr = x  BY LinkFacts
<1>3. prev[t] \in InList \cup {HEAD}  BY <1>1, <1>2 DEF Seen, Out
<1> QED  BY <1>2, <1>3 DEF LInv, Heap, Sorted

LEMMA WalkReadWell ==
  ASSUME LInv, NEW t \in Threads, WalkRead(t)
  PROVE  Progress(t)
<1>1. /\ pc[t] = "walk" /\ pc'[t] = "check" /\ link[prev[t]].ptr # NULL
      /\ cur'[t] = link[prev[t]].ptr /\ UNCHANGED <<link, retired, fresh, absent, op, key, item, destroyed>>
      /\ prev' = prev /\ guards' = guards
  BY DEF WalkRead, Goto, AtEnd, LInv, Shapes, memory, call
<1>2. Effect(t) /\ SameList  BY <1>1, QuietEffect
<1>3. link[prev[t]].ptr \in Seen
  <2>1. prev[t] \in Seen \cup {HEAD} /\ ~destroyed  BY <1>1, Running DEF LInv, Knows, Stands
  <2>2. CASE prev[t] \in Out  BY <1>1, <2>1, <2>2 DEF LInv, Heap
  <2>3. CASE prev[t] \in InList \cup {HEAD}  BY <1>1, <2>3 DEF LInv, Heap, Sorted, Seen
  <2> QED  BY <2>1, <2>2, <2>3 DEF Seen
<1>4. cur'[t] \in Seen  BY <1>1, <1>3
<1>5. Shapes' /\ Alone(t)
  <2>1. link[prev[t]].ptr \in Items \cup {NULL}
    BY DEF LInv, Shapes, LinkMaps, Places, LinkValues
  <2> QED  BY <2>1, <1>1 DEF WalkRead, Goto, LInv, Shapes, memory, call, Alone, PCs
<1>6. Stands(t)'
  <2>1. Stands(t)  BY DEF LInv, Knows
  <2>2. \A i \in guards'[t] : Listed(i)'
    BY <1>1, <1>2, <1>5, <2>1, ListedStays DEF Stands
  <2> QED  BY <1>1, <1>2, <1>4, <2>1, <2>2 DEF Stands, SameList, Holding, Marking
<1>7. Holds(t)'
  BY <1>1 DEF Holds, Marking
<1>8. Looks(t)  BY DEF LInv, Knows
<1> QED
  BY <1>1, <1>2, <1>5, <1>6, <1>7, <1>8, GoesOn DEF Holding, Marking, Looks

\* Past its key, a write has an item that is not in the list.
LEMMA PassedIsNew ==
  ASSUME LInv, NEW t \in Threads, pc[t] \in {"walk", "check"}, op[t] \in Writes,
         link[prev[t]].ptr = NULL \/ Key(link[prev[t]].ptr) > key[t],
         link[prev[t]].ptr # NULL => link[prev[t]].ptr \in Items
  PROVE  item[t] \notin Seen /\ item[t] \in Items /\ Given(t)
<1>1. Args(t) /\ Owns(t) /\ key[t] \in Nat
  BY Running DEF LInv, Knows
<1>2. absent[t]
  <2>1. SUFFICES ASSUME ~absent[t]  PROVE FALSE
    OBVIOUS
  <2>2. link[prev[t]].ptr # NULL /\ Key(link[prev[t]].ptr) <= key[t]
    BY <2>1, NotPassed
  <2>3. Key(link[prev[t]].ptr) \in Nat
    BY <2>2, Constants
  <2> QED  BY <2>2, <2>3, <1>1
<1> QED  BY <1>1, <1>2 DEF Owns, Args, Given

LEMMA WalkAppendWell ==
  ASSUME LInv, NEW t \in Threads, WalkAppend(t)
  PROVE  Progress(t)
<1>1. /\ pc[t] = "walk" /\ pc' = [pc EXCEPT ![t] = "cas"] /\ link[prev[t]].ptr = NULL
      /\ op[t] \in {"insert", "set"} /\ link' = [link EXCEPT ![item[t]] = Link(NULL)]
      /\ UNCHANGED <<retired, fresh, absent, op, key, item, destroyed, prev, cur, nxt, guards>>
  BY DEF WalkAppend, Goto, AtEnd, call, walk
<1>2. item[t] \notin Seen /\ item[t] \in Items /\ Given(t)
  BY <1>1, PassedIsNew DEF Writes
<1>3. Effect(t) /\ SameList /\ link' \in LinkMaps  BY <1>1, <1>2, PrivateEffect
<1>4. Shapes' /\ Alone(t) /\ pc'[t] = "cas"
  BY <1>1, <1>3 DEF LInv, Shapes, Alone, PCs
<1>5. Args(t) /\ Stands(t) /\ cur[t] = NULL  BY <1>1 DEF LInv, Knows, Args
<1>6. Stands(t)'
  <2>1. \A i \in guards'[t] : Listed(i)'
    BY <1>1, <1>3, <1>4, <1>5, ListedStays DEF Stands
  <2> QED  BY <1>1, <1>3, <1>4, <1>5, <2>1 DEF Stands, SameList, Holding, Marking
<1>7. Holds(t)'
  <2>1. link'[item[t]] = Link(NULL)  BY <1>1, <1>2 DEF LInv, Shapes, LinkMaps, Places
  <2> QED  BY <1>1, <1>4, <1>5, <2>1 DEF Holds, Marking
<1> QED
  BY <1>1, <1>2, <1>3, <1>4, <1>6, <1>7, GoesOn DEF Holding, Marking

LEMMA GiveUpWell ==
  ASSUME LInv, NEW t \in Threads, NEW from, GiveUp(t, from), from \notin {"idle", "retire"}
  PROVE  Progress(t)
<1>1. /\ Return(t, from) /\ pc[t] = from /\ UNCHANGED <<link, retired, fresh, destroyed>>
      /\ absent' = [absent EXCEPT ![t] = FALSE]
  BY DEF GiveUp, Return, Goto, memory
<1>2. Effect(t) /\ SameList
  BY <1>1, QuietEffect DEF LInv, Shapes
<1>3. Shapes'
  BY <1>1 DEF Return, Goto, LInv, Shapes, PCs, Ops
<1> QED  BY <1>1, <1>2, <1>3, ReturnsWell

LEMMA CheckAgainWell ==
  ASSUME LInv, NEW t \in Threads, CheckAgain(t)
  PROVE  Progress(t)
<1>1. /\ pc[t] = "check" /\ Restart(t) /\ UNCHANGED <<link, retired, fresh, absent, op, key, item, destroyed>>
  BY DEF CheckAgain, memory, call
<1>2. Effect(t) /\ SameList
  BY <1>1, QuietEffect
<1>3. Shapes'
  BY <1>1 DEF Restart, LInv, Shapes, PCs
<1> QED  BY <1>1, <1>2, <1>3, RestartsWell

\* What a call finds in place is in the list, behind what it stands on.
LEMMA Found ==
  ASSUME LInv, NEW t \in Threads, pc[t] = "check", StillThere(t)
  PROVE  /\ prev[t] \in InList \cup {HEAD} /\ cur[t] \in InList /\ After(prev[t], cur[t])
         /\ link[prev[t]].ptr = cur[t] /\ cur[t] \in Items /\ cur[t] \in Seen
         /\ Key(cur[t]) \in Nat
<1>1. cur[t] \in Seen /\ Seen \subseteq Items /\ InList \subseteq Items
  BY DEF LInv, Knows, Stands, Heap, Sorted, Seen, Out
<1>2. cur[t] # NULL  BY <1>1, Constants
<1> QED  BY <1>1, <1>2, UnmarkedIsListed, LinkFacts, Constants DEF StillThere

LEMMA CheckAdvanceWell ==
  ASSUME LInv, NEW t \in Threads, CheckAdvance(t)
  PROVE  Progress(t)
<1>1. /\ pc[t] = "check" /\ pc'[t] = "walk" /\ StillThere(t) /\ ~Matches(t) /\ ~Passed(t)
      /\ UNCHANGED <<link, retired, fresh, absent, op, key, item, destroyed, nxt>>
      /\ prev'[t] = cur[t] /\ cur'[t] = NULL /\ guards'[t] = {cur[t]}
  BY DEF CheckAdvance, Goto, memory, call, LInv, Shapes
<1>2. Effect(t) /\ SameList  BY <1>1, QuietEffect
<1>3. /\ cur[t] \in InList /\ link[prev[t]].ptr = cur[t] /\ cur[t] \in Items /\ cur[t] \in Seen
      /\ Key(cur[t]) \in Nat
  BY <1>1, Found
<1>4. Shapes' /\ Alone(t)
  BY <1>1, <1>3 DEF CheckAdvance, Goto, memory, call, LInv, Shapes, Alone, PCs
<1>5. key[t] \in Nat /\ op[t] # "none" /\ Args(t)  BY <1>1, Running DEF LInv, Knows
\* the key is larger than that of the item it passes
<1>6. op[t] \in Writes => Key(cur[t]) < key[t]
  BY <1>1, <1>3, <1>5 DEF Matches, Passed, Writes
<1>7. ~absent[t] => Key(cur[t]) < key[t]
  <2>1. SUFFICES ASSUME ~absent[t]  PROVE Key(cur[t]) < key[t]
    OBVIOUS
  <2>2. Key(cur[t]) <= key[t]  BY <1>1, <1>3, <2>1, NotPassed
  <2>3. PICK j \in InList : Key(j) = key[t] /\ (op[t] = "delete_item" => j = item[t])
    BY <1>5, <2>1, StillAhead
  <2>4. Key(cur[t]) # key[t]
    <3>1. Key(cur[t]) = Key(j) => cur[t] = j  BY <1>3, <2>3 DEF LInv, Heap, Sorted
    <3> QED  BY <1>1, <2>3, <3>1 DEF Matches
  <2> QED  BY <1>3, <1>5, <2>2, <2>4
<1>8. Stands(t)'
  <2>1. ASSUME NEW i \in guards'[t]  PROVE Listed(i)'
    BY <1>1, <1>2, <1>3, <2>1 DEF Listed, SameList
  <2> QED  BY <1>1, <1>2, <1>3, <1>6, <2>1 DEF Stands, SameList, Holding, Marking
<1>9. Holds(t)'
  BY <1>1 DEF Holds, Marking
<1> QED
  BY <1>1, <1>2, <1>3, <1>4, <1>7, <1>8, <1>9, GoesOn DEF Holding, Marking, SameList

LEMMA CheckPassedWell ==
  ASSUME LInv, NEW t \in Threads, CheckPassed(t)
  PROVE  Progress(t)
<1>1. /\ pc[t] = "check" /\ pc'[t] = "cas" /\ StillThere(t) /\ Passed(t) /\ op[t] # "set_existing"
      /\ link' = [link EXCEPT ![item[t]] = Link(cur[t])] /\ guards'[t] = guards[t] \cup {cur[t]}
      /\ UNCHANGED <<retired, fresh, absent, op, key, item, destroyed, prev, cur, nxt>>
  BY DEF CheckPassed, Goto, call, LInv, Shapes
<1>2. /\ cur[t] \in InList /\ link[prev[t]].ptr = cur[t] /\ cur[t] \in Items /\ cur[t] \in Seen
      /\ op[t] \in {"insert", "set"} /\ Key(cur[t]) > key[t]
  BY <1>1, Found DEF Passed, Writes
<1>3. item[t] \notin Seen /\ item[t] \in Items /\ Given(t)
  BY <1>1, <1>2, PassedIsNew DEF Writes
<1>4. Effect(t) /\ SameList /\ link' \in LinkMaps  BY <1>1, <1>2, <1>3, PrivateEffect
<1>5. Shapes' /\ Alone(t)
  BY <1>1, <1>2, <1>4 DEF CheckPassed, Goto, LInv, Shapes, Alone, PCs
<1>6. Stands(t)'
  <2>1. Stands(t)  BY DEF LInv, Knows
  <2>2. ASSUME NEW i \in InList  PROVE Listed(i)'
    BY <1>4, <2>2 DEF Listed, SameList
  <2>3. \A i \in guards'[t] : Listed(i)'
    BY <1>1, <1>2, <1>4, <1>5, <2>1, <2>2, ListedStays DEF Stands
  <2> QED  BY <1>1, <1>4, <2>1, <2>3 DEF Stands, SameList, Holding, Marking
<1>7. Holds(t)'
  <2>1. link'[item[t]] = Link(cur[t])  BY <1>1, <1>3 DEF LInv, Shapes, LinkMaps, Places
  <2> QED  BY <1>1, <1>2, <1>4, <2>1 DEF Holds, Marking, SameList
<1> QED
  BY <1>1, <1>2, <1>3, <1>4, <1>5, <1>6, <1>7, GoesOn DEF Holding, Marking

LEMMA CheckFoundWell ==
  ASSUME LInv, NEW t \in Threads, CheckFound(t)
  PROVE  Progress(t)
<1>1. /\ pc[t] = "check" /\ StillThere(t) /\ Matches(t) /\ op[t] # "insert"
      /\ pc'[t] = (IF op[t] = "find" THEN "take_ref" ELSE "mark_read")
      /\ UNCHANGED <<link, retired, fresh, absent, op, key, item, destroyed, prev, cur, nxt>>
      /\ guards'[t] = (IF op[t] = "find" THEN {} ELSE guards[t]) \cup {cur[t]}
  BY DEF CheckFound, Goto, memory, call, LInv, Shapes
<1>2. Effect(t) /\ SameList  BY <1>1, QuietEffect
<1>3. /\ cur[t] \in InList /\ cur[t] \in Items /\ cur[t] \in Seen
  BY <1>1, Found
<1>4. Shapes' /\ Alone(t)
  <2>1. pc' = [pc EXCEPT ![t] = pc'[t]] /\ pc'[t] \in PCs
    BY <1>1 DEF CheckFound, Goto, LInv, Shapes, PCs
  <2>2. guards' = [guards EXCEPT ![t] = guards'[t]] /\ guards'[t] \in SUBSET Items
    BY <1>1, <1>3 DEF CheckFound, LInv, Shapes
  <2> QED  BY <1>1, <2>1, <2>2 DEF LInv, Shapes, Alone
<1>5. /\ Args(t) /\ op[t] # "none" /\ Stands(t) /\ op[t] \in Ops
      /\ \A j \in InList : Key(j) = Key(cur[t]) => j = cur[t]
  BY <1>1, <1>3, Running DEF LInv, Knows, Heap, Sorted
<1>6. Key(cur[t]) = key[t]
  BY <1>1, <1>5 DEF Matches, Args
<1>7. op[t] = "set" /\ item[t] \in InList => cur[t] = item[t]
  BY <1>5, <1>6 DEF Args, Writes
<1>8. op[t] # "find" => Alters(t)
  BY <1>1, <1>5 DEF Alters, Ops, Writes, Takes
<1>9. Stands(t)'
  <2>1. ASSUME NEW i \in InList  PROVE Listed(i)'
    BY <1>2, <2>1 DEF Listed, SameList
  <2>2. \A i \in guards'[t] : Listed(i)'
    BY <1>1, <1>2, <1>3, <1>4, <1>5, <2>1, ListedStays DEF Stands
  <2> QED  BY <1>1, <1>2, <1>3, <1>5, <1>6, <2>2 DEF Stands, SameList, Holding, Marking
<1>10. Holds(t)'
  BY <1>1 DEF Holds, Marking
<1> QED
  BY <1>1, <1>2, <1>4, <1>7, <1>8, <1>9, <1>10, GoesOn DEF Holding, Marking

LEMMA TakeRefWell ==
  ASSUME LInv, NEW t \in Threads, TakeRef(t)
  PROVE  Progress(t)
<1>1. /\ Return(t, "take_ref") /\ pc[t] = "take_ref" /\ UNCHANGED <<link, retired, fresh, destroyed>>
      /\ absent' = [absent EXCEPT ![t] = FALSE]
  BY DEF TakeRef, Return, Goto
<1>2. Effect(t) /\ SameList
  BY <1>1, QuietEffect DEF LInv, Shapes
<1>3. Shapes'
  BY <1>1 DEF Return, Goto, LInv, Shapes, PCs, Ops
<1> QED  BY <1>1, <1>2, <1>3, ReturnsWell

-----------------------------------------------------------------------------
(* Putting in *)

\* The item of an insert, or of set_value of a new key, comes between its neighbours.
LEMMA CasInserts ==
  ASSUME LInv, NEW t \in Threads, pc[t] = "cas", link[prev[t]] = Link(cur[t]),
         link' = [link EXCEPT ![prev[t]] = Link(item[t])]
  PROVE  /\ Sorted(link', InList') /\ InList' = InList \cup {item[t]}
         /\ link' \in LinkMaps /\ Given(t) /\ item[t] \in Items /\ item[t] \notin Seen
         /\ prev[t] \in InList \cup {HEAD} /\ prev[t] \in Places
         /\ key[t] = Key(item[t])
<1>1. prev[t] \in InList \cup {HEAD} /\ link[prev[t]].ptr = cur[t]
  BY UnmarkedIsListed, LinkFacts
<1>2. Args(t) /\ Stands(t) /\ Holds(t) /\ Owns(t) /\ Sorted(link, InList)
  BY DEF LInv, Knows, Heap
<1>3. /\ op[t] \in Writes /\ Given(t) /\ item[t] \in Items /\ key[t] = Key(item[t])
      /\ item[t] \notin Seen /\ item[t] \notin InList
  BY <1>2 DEF Args, Writes, Given, Owns, Seen
<1>4. prev[t] \in Places /\ item[t] \in Places /\ item[t] # prev[t]
  BY <1>1, <1>2, <1>3, Constants DEF Sorted, Places
<1>5. After(prev[t], item[t])
  BY <1>2, <1>3 DEF Stands, After
<1>6. cur[t] # NULL => Key(item[t]) < Key(cur[t])
  <2>1. cur[t] # NULL => Key(cur[t]) > key[t] /\ cur[t] \in Items
    BY <1>2 DEF Holds, LInv, Shapes
  <2> QED  BY <2>1, <1>3, Constants
<1>7. link' \in LinkMaps
  BY <1>3, <1>4, LinkFacts DEF LInv, Shapes, LinkMaps
<1>8. link'[prev[t]].ptr = item[t] /\ link'[item[t]].ptr = cur[t]
  BY <1>2, <1>3, <1>4, LinkFacts DEF LInv, Shapes, LinkMaps, Holds
<1>9. \A q \in InList \cup {HEAD} : q # prev[t] => link'[q].ptr = link[q].ptr
  BY <1>2, <1>4 DEF LInv, Shapes, LinkMaps, Places, Sorted
<1>10. Sorted(link', InList \cup {item[t]})
  <2>1. prev[t] \in InList \cup {HEAD} /\ item[t] \in Items \ InList
    BY <1>1, <1>3
  <2>2. link[prev[t]].ptr # NULL => Key(item[t]) < Key(link[prev[t]].ptr)
    BY <1>1, <1>6
  <2>3. link'[prev[t]].ptr = item[t] /\ link'[item[t]].ptr = link[prev[t]].ptr
    BY <1>1, <1>8
  <2>4. Sorted(link, InList)  BY <1>2
  <2> QED  BY <1>5, <1>9, <2>1, <2>2, <2>3, <2>4, ListInsert
<1>11. InList' = InList \cup {item[t]}
  <2>1. Reached(link') = InList \cup {item[t]}  BY <1>10, SortedIsReached
  <2> QED  BY <2>1 DEF InList, Reached
<1> QED  BY <1>1, <1>3, <1>4, <1>7, <1>10, <1>11

LEMMA CasWell ==
  ASSUME LInv, NEW t \in Threads, Cas(t)
  PROVE  Progress(t)
<1>1. CASE link[prev[t]] # Link(cur[t])
  <2>1. /\ pc[t] = "cas" /\ Restart(t)
        /\ UNCHANGED <<link, retired, fresh, absent, op, key, item, destroyed>>
    BY <1>1 DEF Cas, call
  <2>2. Effect(t) /\ SameList
    BY <2>1, QuietEffect
  <2>3. Shapes'
    BY <2>1 DEF Restart, LInv, Shapes, PCs
  <2> QED  BY <2>1, <2>2, <2>3, RestartsWell
<1>2. CASE link[prev[t]] = Link(cur[t])
  <2>1. /\ pc[t] = "cas" /\ Return(t, "cas") /\ link' = [link EXCEPT ![prev[t]] = Link(item[t])]
        /\ UNCHANGED <<retired, fresh, destroyed>>
        /\ absent' = [absent EXCEPT ![t] = FALSE]
    BY <1>2 DEF Cas, Return, Goto
  <2>2. /\ Sorted(link', InList') /\ InList' = InList \cup {item[t]}
        /\ link' \in LinkMaps /\ Given(t) /\ item[t] \in Items /\ item[t] \notin Seen
        /\ prev[t] \in InList \cup {HEAD} /\ prev[t] \in Places
    BY <1>2, <2>1, CasInserts
  <2>3. Shapes'
    BY <2>1, <2>2 DEF Return, Goto, LInv, Shapes, PCs, Ops
  <2>4. ~link'[HEAD].mark
    BY <2>1, <2>2, LinkFacts DEF LInv, Shapes, Heap, LinkMaps, Places
  <2>5. Writes1(t)
    <3>1. \A p \in Places : p # prev[t] => link'[p] = link[p]
      BY <2>1 DEF LInv, Shapes, LinkMaps
    <3>2. ~link[prev[t]].mark  BY <1>2, LinkFacts
    <3> QED  BY <2>2, <3>1, <3>2 DEF Writes1
  <2>6. Recalls(t)
    BY <2>1, <2>2 DEF Recalls, LInv, Shapes
  <2>7. Effect(t)
    <3>1. pc'[t] = "idle"  BY <2>1 DEF Return, Goto, LInv, Shapes
    <3> QED  BY <2>1, <2>2, <2>4, <2>5, <2>6, <3>1 DEF Effect, PutsIn, TakesOut, Retires
  <2> QED  BY <2>1, <2>3, <2>7, ReturnsWell
<1> QED  BY <1>1, <1>2

-----------------------------------------------------------------------------
(* Marking *)

LEMMA MarkReadWell ==
  ASSUME LInv, NEW t \in Threads, MarkRead(t)
  PROVE  Progress(t)
<1>1. /\ pc[t] = "mark_read" /\ pc'[t] = "mark"
      /\ UNCHANGED <<link, retired, fresh, absent, op, key, item, destroyed, prev, cur, guards>>
  BY DEF MarkRead, Goto, memory, call, LInv, Shapes
<1>2. Effect(t) /\ SameList  BY <1>1, QuietEffect
<1>3. Args(t) /\ Stands(t) /\ Owns(t) /\ cur[t] \in Items
  BY <1>1, Constants DEF LInv, Knows, Stands, Holding, Seen, Out, Heap, Sorted
<1>4. Shapes' /\ Alone(t)
  <2>1. link[cur[t]].ptr \in Items \cup {NULL}
    BY <1>3 DEF LInv, Shapes, LinkMaps, Places, LinkValues
  <2> QED  BY <2>1, <1>1 DEF MarkRead, Goto, memory, call, LInv, Shapes, Alone, PCs
<1>5. Stands(t)'
  <2>1. \A i \in guards'[t] : Listed(i)'
    BY <1>1, <1>2, <1>3, <1>4, ListedStays DEF Stands
  <2> QED  BY <1>1, <1>2, <1>3, <2>1 DEF Stands, SameList, Holding, Marking
<1>6. Holds(t)'
  BY <1>1 DEF Holds, Marking
<1>7. Alters(t) /\ (op[t] = "set" /\ item[t] \in InList => cur[t] = item[t])
  BY <1>1, <1>3 DEF Args, Owns, Holding, Given, Writes, Seen
<1> QED
  BY <1>1, <1>2, <1>4, <1>5, <1>6, <1>7, GoesOn DEF Holding, Marking

\* Where a call goes on with the item it has found.
LEMMA HoldsOn ==
  ASSUME LInv, NEW t \in Threads, pc[t] \in Holding
  PROVE  /\ Alters(t) /\ (op[t] = "set" /\ item[t] \in InList => cur[t] = item[t])
         /\ cur[t] \in Items /\ cur[t] \in Places /\ cur[t] \in Seen /\ cur[t] # HEAD
         /\ cur[t] \in guards[t] /\ Key(cur[t]) = key[t]
         /\ prev[t] \in guards[t] \cup {HEAD}
         /\ (op[t] \in {"set", "set_existing"} => Given(t) /\ item[t] \in Items /\ key[t] = Key(item[t]))
         /\ op[t] # "insert"
<1>1. Args(t) /\ Stands(t) /\ Owns(t) /\ Seen \subseteq Items
  BY DEF LInv, Knows, Heap, Sorted, Seen, Out
<1>2. pc[t] \notin {"idle", "walk", "cas", "retire", "take_ref"}  BY DEF Holding, Marking
<1> QED  BY <1>1, <1>2, Constants DEF Args, Stands, Owns, Given, Writes, Seen, Alters, Takes, Places

LEMMA MarkWell ==
  ASSUME LInv, NEW t \in Threads, Mark(t)
  PROVE  Progress(t)
<1>1. CASE link[cur[t]] # Link(nxt[t])
  <2>1. /\ pc[t] = "mark" /\ Restart(t)
        /\ UNCHANGED <<link, retired, fresh, absent, op, key, item, destroyed>>
    BY <1>1 DEF Mark, call
  <2>2. Effect(t) /\ SameList
    BY <2>1, QuietEffect
  <2>3. Shapes'
    BY <2>1 DEF Restart, LInv, Shapes, PCs
  <2> QED  BY <2>1, <2>2, <2>3, RestartsWell
<1>2. CASE link[cur[t]] = Link(nxt[t])
  <2>1. /\ pc[t] = "mark" /\ pc'[t] = "number" /\ link' = [link EXCEPT ![cur[t]] = Marked(nxt[t])]
        /\ UNCHANGED <<retired, fresh, absent, op, key, item, destroyed, prev, cur, nxt, guards>>
    BY <1>2 DEF Mark, Goto, call, walk, LInv, Shapes
  <2>2. ~link[cur[t]].mark /\ link[cur[t]].ptr = nxt[t] /\ nxt[t] \in Items \cup {NULL}
    BY <1>2, LinkFacts DEF LInv, Shapes
  <2>3. pc[t] \in Holding  BY <2>1 DEF Holding
  <2>4. cur[t] \in InList
    BY <2>2, <2>3, HoldsOn DEF Seen, Out
  <2>5. Effect(t) /\ SameList /\ link' \in LinkMaps
    <3>1. Marked(nxt[t]) \in LinkValues /\ Marked(nxt[t]).ptr = nxt[t]  BY <2>2, LinkFacts
    <3> HIDE DEF LinkValues
    <3> QED  BY <2>1, <2>2, <2>4, <3>1, MarkEffect
  <2>6. Shapes' /\ Alone(t)
    BY <1>2, <2>1, <2>5 DEF Mark, Goto, LInv, Shapes, Alone, PCs
  <2>7. Stands(t)'
    <3>1. Stands(t)  BY DEF LInv, Knows
    <3>2. \A i \in guards'[t] : Listed(i)'
      BY <2>1, <2>5, <2>6, <3>1, ListedStays DEF Stands
    <3> QED  BY <2>1, <2>5, <3>1, <3>2 DEF Stands, SameList, Holding, Marking
  <2>8. Holds(t)'
    <3>1. link'[cur[t]] = Marked(nxt[t])  BY <2>1, <2>3, HoldsOn DEF LInv, Shapes, LinkMaps
    <3> QED  BY <2>1, <2>4, <2>5, <3>1 DEF Holds, Marking, SameList
  <2>9. link[cur'[t]].mark = FALSE
    <3>1. link[cur[t]] \in LinkValues  BY <2>3, HoldsOn DEF LInv, Shapes, LinkMaps
    <3> QED  BY <2>1, <2>2, <3>1 DEF LinkValues
  <2> QED
    BY <2>1, <2>3, <2>5, <2>6, <2>7, <2>8, <2>9, HoldsOn, GoesOn DEF Holding, Marking
<1> QED  BY <1>1, <1>2

LEMMA NumberWell ==
  ASSUME LInv, NEW t \in Threads, Number(t)
  PROVE  Progress(t)
<1>1. /\ pc[t] = "number"
      /\ pc'[t] = IF Setting(t) /\ cur[t] = item[t] THEN "same" ELSE "unlink"
      /\ pc' = [pc EXCEPT ![t] = pc'[t]]
      /\ link' = IF Setting(t) /\ cur[t] # item[t]
                 THEN [link EXCEPT ![item[t]] = Link(nxt[t])] ELSE link
      /\ UNCHANGED <<retired, fresh, absent, op, key, item, destroyed, prev, cur, nxt, guards>>
  BY DEF Number, Goto, call, walk, LInv, Shapes
<1>2. pc[t] \in Holding /\ Holds(t) /\ Owns(t) /\ Stands(t) /\ nxt[t] \in Items \cup {NULL}
  BY <1>1 DEF Holding, Marking, LInv, Knows, Shapes
<1>3. cur[t] \in InList /\ link[cur[t]] = Marked(nxt[t])
  BY <1>1, <1>2 DEF Holds, Marking
\* an item set in place of another one is new
<1>4. Setting(t) /\ cur[t] # item[t] => item[t] \notin Seen /\ item[t] \in Items /\ Given(t)
  BY <1>2, HoldsOn DEF Setting, Owns
<1>5. Effect(t) /\ SameList /\ link' \in LinkMaps
  <2>1. CASE Setting(t) /\ cur[t] # item[t]
    BY <1>1, <1>2, <1>4, <2>1, PrivateEffect
  <2>2. CASE ~(Setting(t) /\ cur[t] # item[t])
    BY <1>1, <2>2, QuietEffect DEF LInv, Shapes
  <2> QED  BY <2>1, <2>2
<1>6. Shapes' /\ Alone(t)
  <2>1. pc'[t] \in PCs  BY <1>1 DEF PCs
  <2> QED  BY <1>1, <1>5, <2>1 DEF LInv, Shapes, Alone
<1>7. Stands(t)'
  <2>1. \A i \in guards'[t] : Listed(i)'
    BY <1>1, <1>2, <1>5, <1>6, ListedStays DEF Stands
  <2> QED  BY <1>1, <1>2, <1>5, <2>1 DEF Stands, SameList, Holding, Marking
<1>8. Holds(t)'
  <2>1. link'[cur[t]] = Marked(nxt[t])
    BY <1>1, <1>2, <1>3, <1>4, HoldsOn DEF LInv, Shapes, LinkMaps, Places
  <2>2. Setting(t) /\ cur[t] # item[t] => link'[item[t]] = Link(nxt[t])
    BY <1>1, <1>4 DEF LInv, Shapes, LinkMaps, Places
  <2> QED  BY <1>1, <1>3, <1>5, <2>1, <2>2 DEF Holds, Marking, SameList, Setting
<1> QED
  BY <1>1, <1>2, <1>5, <1>6, <1>7, <1>8, HoldsOn, GoesOn DEF Holding, Marking

LEMMA SameItemWell ==
  ASSUME LInv, NEW t \in Threads, SameItem(t)
  PROVE  Progress(t)
<1>1. /\ pc[t] = "same" /\ link[cur[t]] = Marked(nxt[t]) /\ Return(t, "same")
      /\ link' = [link EXCEPT ![cur[t]] = Link(nxt[t])]
      /\ UNCHANGED <<retired, fresh, destroyed>>
      /\ absent' = [absent EXCEPT ![t] = FALSE]
  BY DEF SameItem, Return, Goto
<1>2. pc[t] \in Marking /\ cur[t] \in InList /\ nxt[t] \in Items \cup {NULL}
  BY <1>1 DEF LInv, Knows, Holds, Marking, Shapes
<1>3. Effect(t) /\ link' \in LinkMaps
  <2>1. Link(nxt[t]) \in LinkValues /\ Link(nxt[t]).ptr = link[cur[t]].ptr
    BY <1>1, <1>2, LinkFacts
  <2>2. cur[t] \in Places /\ cur[t] # HEAD  BY <1>2, HoldsOn DEF Holding
  <2>3. link' \in LinkMaps /\ ~link[HEAD].mark /\ ~link'[HEAD].mark
    BY <1>1, <2>1, <2>2 DEF LInv, Shapes, Heap, LinkMaps, Places
  <2>4. /\ \A p \in Places : p # cur[t] => link'[p] = link[p]
        /\ link'[cur[t]] = Link(nxt[t])
    BY <1>1, <2>2 DEF LInv, Shapes, LinkMaps
  <2>5. SameList /\ Sorted(link', InList')
    BY <1>2, <2>1, <2>3, <2>4, ListUnchanged
  <2>6. Writes1(t)
    BY <1>2, <2>4 DEF Writes1
  <2>7. Recalls(t)
    BY <1>1, <2>5 DEF Recalls, SameList, LInv, Shapes
  <2> QED  BY <1>1, <2>3, <2>5, <2>6, <2>7 DEF Effect, SameList, PutsIn, TakesOut, Retires
<1>4. Shapes'
  BY <1>1, <1>3 DEF Return, Goto, LInv, Shapes, PCs, Ops
<1> QED  BY <1>1, <1>3, <1>4, ReturnsWell

LEMMA UnmarkWell ==
  ASSUME LInv, NEW t \in Threads, Unmark(t)
  PROVE  Progress(t)
<1>1. /\ pc[t] = "unmark" /\ link[cur[t]] = Marked(nxt[t]) /\ Restart(t)
      /\ link' = [link EXCEPT ![cur[t]] = Link(nxt[t])]
      /\ UNCHANGED <<retired, fresh, absent, op, key, item, destroyed>>
  BY DEF Unmark, call
<1>2. pc[t] \in Marking /\ cur[t] \in InList /\ nxt[t] \in Items \cup {NULL}
  BY <1>1 DEF LInv, Knows, Holds, Marking, Shapes
<1>3. Effect(t) /\ SameList /\ link' \in LinkMaps
  <2>1. Link(nxt[t]) \in LinkValues /\ Link(nxt[t]).ptr = link[cur[t]].ptr
    BY <1>1, <1>2, LinkFacts
  <2> HIDE DEF LinkValues
  <2> QED  BY <1>1, <1>2, <2>1, MarkEffect
<1>4. Shapes'
  BY <1>1, <1>3 DEF Restart, LInv, Shapes, PCs
<1> QED  BY <1>1, <1>3, <1>4, RestartsWell

LEMMA RetireWell ==
  ASSUME LInv, NEW t \in Threads, Retire(t)
  PROVE  Progress(t)
<1>1. /\ pc[t] = "retire" /\ Return(t, "retire") /\ retired' = retired \cup {cur[t]}
      /\ UNCHANGED <<link, fresh, destroyed>>
      /\ absent' = [absent EXCEPT ![t] = FALSE]
  BY DEF Retire, Return, Goto
<1>2. cur[t] \in Items
  BY <1>1 DEF LInv, Knows, Holds, Out
<1>3. Shapes'
  BY <1>1, <1>2 DEF Return, Goto, LInv, Shapes, PCs, Ops
<1>4. InList' = InList
  BY <1>1 DEF InList
<1>5. Effect(t)
  BY <1>1, <1>4 DEF Effect, Writes1, PutsIn, TakesOut, Recalls, Retires, LInv, Heap, Shapes
<1> QED  BY <1>1, <1>3, <1>5, ReturnsWell

-----------------------------------------------------------------------------
(* Taking out *)

LEMMA UnlinkTakesOut ==
  ASSUME LInv, NEW t \in Threads, Unlink(t), link[prev[t]] = Link(cur[t])
  PROVE  /\ Sorted(link', InList') /\ link' \in LinkMaps
         /\ prev[t] \in InList \cup {HEAD} /\ prev[t] \in Places /\ prev[t] # cur[t]
         /\ cur[t] \in InList /\ cur[t] \notin InList' /\ link'[cur[t]] = link[cur[t]]
         /\ \/ ~Setting(t) /\ InList' = InList \ {cur[t]}
            \/ /\ Setting(t) /\ InList' = (InList \ {cur[t]}) \cup {item[t]}
               /\ Given(t) /\ item[t] \in Items /\ item[t] \notin Seen
               /\ Key(item[t]) = Key(cur[t]) /\ key[t] = Key(item[t])
         /\ \A p \in Places : p # prev[t] => link'[p] = link[p]
         /\ ~link[prev[t]].mark /\ link[cur[t]].mark
<1>1. /\ pc[t] = "unlink"
      /\ link' = [link EXCEPT ![prev[t]] = Link(IF Setting(t) THEN item[t] ELSE nxt[t])]
  BY DEF Unlink, Goto
<1>2. /\ Holds(t) /\ Owns(t) /\ Stands(t) /\ Sorted(link, InList) /\ nxt[t] \in Items \cup {NULL}
      /\ pc[t] \in Holding /\ pc[t] \in Marking
  BY <1>1 DEF LInv, Knows, Heap, Shapes, Holding, Marking
<1>3. cur[t] \in InList /\ link[cur[t]] = Marked(nxt[t]) /\ link[cur[t]].ptr = nxt[t] /\ link[cur[t]].mark
  BY <1>2, LinkFacts DEF Holds
<1>4. prev[t] \in InList \cup {HEAD} /\ link[prev[t]].ptr = cur[t] /\ ~link[prev[t]].mark
  BY UnmarkedIsListed, LinkFacts
<1>5. prev[t] # cur[t] /\ prev[t] \in Places /\ cur[t] \in Places
  BY <1>2, <1>3, <1>4 DEF Sorted, Places
<1>6. \A p \in Places : p # prev[t] => link'[p] = link[p]
  BY <1>1 DEF LInv, Shapes, LinkMaps
<1>7. Setting(t) => /\ Given(t) /\ item[t] \in Items /\ item[t] \notin Seen /\ item[t] \notin InList
                    /\ Key(item[t]) = Key(cur[t]) /\ key[t] = Key(item[t])
                    /\ link[item[t]] = Link(nxt[t])
  BY <1>1, <1>2, HoldsOn DEF Setting, Owns, Holds, Seen
<1>8. link' \in LinkMaps
  <2>1. Link(IF Setting(t) THEN item[t] ELSE nxt[t]) \in LinkValues
    BY <1>2, <1>7, LinkFacts
  <2> QED  BY <1>1, <1>5, <2>1 DEF LInv, Shapes, LinkMaps
<1>9. \A q \in InList \cup {HEAD} : q # prev[t] => link'[q].ptr = link[q].ptr
  BY <1>2, <1>6 DEF Sorted, Places
<1>10. CASE ~Setting(t)
  <2>1. link'[prev[t]].ptr = nxt[t]
    BY <1>1, <1>5, <1>10, LinkFacts DEF LInv, Shapes, LinkMaps
  <2>2. Sorted(link', InList \ {cur[t]})
    <3>1. Sorted(link, InList) /\ prev[t] \in InList \cup {HEAD} /\ cur[t] \in InList
      BY <1>2, <1>3, <1>4
    <3>2. link[prev[t]].ptr = cur[t] /\ link'[prev[t]].ptr = link[cur[t]].ptr
      BY <1>3, <1>4, <2>1
    <3> QED  BY <1>9, <3>1, <3>2, ListCut
  <2>3. InList' = InList \ {cur[t]}
    <3>1. Reached(link') = InList \ {cur[t]}  BY <2>2, SortedIsReached
    <3> QED  BY <3>1 DEF InList, Reached
  <2> QED  BY <1>3, <1>4, <1>5, <1>6, <1>8, <1>10, <2>2, <2>3
<1>11. CASE Setting(t)
  <2>1. link'[prev[t]].ptr = item[t] /\ link'[item[t]].ptr = nxt[t]
    <3>1. item[t] # prev[t] /\ item[t] \in Places
      BY <1>4, <1>7, <1>11, Constants DEF Places
    <3> QED  BY <1>1, <1>5, <1>6, <1>7, <1>11, <3>1, LinkFacts DEF LInv, Shapes, LinkMaps
  <2>2. Sorted(link', (InList \ {cur[t]}) \cup {item[t]})
    <3>1. item[t] \in Items \ InList /\ Key(item[t]) = Key(cur[t])  BY <1>7, <1>11
    <3>2. link'[item[t]].ptr = link[cur[t]].ptr  BY <2>1, <1>3
    <3>3. Sorted(link, InList) /\ prev[t] \in InList \cup {HEAD} /\ cur[t] \in InList
      BY <1>2, <1>3, <1>4
    <3>4. link[prev[t]].ptr = cur[t] /\ link'[prev[t]].ptr = item[t]
      BY <1>4, <2>1
    <3> QED  BY <1>9, <3>1, <3>2, <3>3, <3>4, ListSwap
  <2>3. InList' = (InList \ {cur[t]}) \cup {item[t]}
    <3>1. Reached(link') = (InList \ {cur[t]}) \cup {item[t]}  BY <2>2, SortedIsReached
    <3> QED  BY <3>1 DEF InList, Reached
  <2>4. cur[t] # item[t]  BY <1>3, <1>7, <1>11
  <2> QED  BY <1>3, <1>4, <1>5, <1>6, <1>7, <1>8, <1>11, <2>2, <2>3, <2>4
<1> QED  BY <1>10, <1>11

LEMMA UnlinkWell ==
  ASSUME LInv, NEW t \in Threads, Unlink(t)
  PROVE  Progress(t)
<1>1. /\ pc[t] = "unlink" /\ pc[t] \in Holding /\ pc[t] \in Marking
      /\ pc' = [pc EXCEPT ![t] = pc'[t]]
      /\ UNCHANGED <<retired, fresh, op, key, item, destroyed, prev, cur, nxt, guards>>
  BY DEF Unlink, Goto, walk, LInv, Shapes, Holding, Marking
<1>2. Holds(t) /\ Stands(t) /\ Args(t)
  BY DEF LInv, Knows
<1>3. CASE link[prev[t]] # Link(cur[t])
  <2>1. pc'[t] = "unmark" /\ UNCHANGED <<link, absent>>
    BY <1>3 DEF Unlink, Goto, LInv, Shapes
  <2>2. Effect(t) /\ SameList  BY <1>1, <2>1, QuietEffect
  <2>3. Shapes' /\ Alone(t)
    BY <1>1, <2>1 DEF LInv, Shapes, Alone, PCs
  <2>4. Stands(t)'
    <3>1. \A i \in guards'[t] : Listed(i)'
      BY <1>1, <1>2, <2>2, <2>3, ListedStays DEF Stands
    <3> QED  BY <1>1, <1>2, <2>1, <2>2, <3>1 DEF Stands, SameList, Holding, Marking
  <2>5. Holds(t)'
    BY <1>1, <1>2, <2>1, <2>2 DEF Holds, Marking, SameList, Setting
  <2> QED
    BY <1>1, <2>1, <2>2, <2>3, <2>4, <2>5, HoldsOn, GoesOn DEF Holding, Marking
<1>4. CASE link[prev[t]] = Link(cur[t])
  <2>1. /\ pc'[t] = "retire"
        /\ absent' = [u \in Threads |->
              absent[u] \/ (op[u] # "none" /\ ~Has(op[u], key[u], item[u])')]
    BY <1>4 DEF Unlink, Goto, LInv, Shapes
  <2>2. /\ Sorted(link', InList') /\ link' \in LinkMaps
        /\ prev[t] \in InList \cup {HEAD} /\ prev[t] \in Places /\ prev[t] # cur[t]
        /\ cur[t] \in InList /\ cur[t] \notin InList' /\ link'[cur[t]] = link[cur[t]]
        /\ \/ ~Setting(t) /\ InList' = InList \ {cur[t]}
           \/ /\ Setting(t) /\ InList' = (InList \ {cur[t]}) \cup {item[t]}
              /\ Given(t) /\ item[t] \in Items /\ item[t] \notin Seen
        /\ \A p \in Places : p # prev[t] => link'[p] = link[p]
        /\ ~link[prev[t]].mark /\ link[cur[t]].mark
    BY <1>4, UnlinkTakesOut
  <2>3. Alone(t)
    BY <1>1 DEF LInv, Shapes, Alone
  <2>4. Shapes'
    <3>1. absent' \in [Threads -> BOOLEAN]
      <4>1. \A u \in Threads : absent[u] \in BOOLEAN  BY DEF LInv, Shapes
      <4> QED  BY <2>1, <4>1
    <3> QED  BY <1>1, <2>1, <2>2, <3>1 DEF LInv, Shapes, PCs
  <2>5. Effect(t)
    <3>1. ~link'[HEAD].mark
      <4>1. link'[prev[t]] = Link(IF Setting(t) THEN item[t] ELSE nxt[t])
        BY <1>4, <2>2 DEF Unlink, LInv, Shapes, LinkMaps
      <4>2. HEAD # prev[t] => link'[HEAD] = link[HEAD]  BY <2>2 DEF Places
      <4> QED  BY <4>1, <4>2, LinkFacts DEF LInv, Heap
    <3>2. Writes1(t)  BY <2>2 DEF Writes1
    <3>3. PutsIn(t)  BY <2>1, <2>2 DEF PutsIn
    <3>4. TakesOut(t)
      <4>1. \A i \in InList : i \notin InList' => i = cur[t]  BY <2>2
      <4> QED  BY <1>1, <2>1, <2>2, <4>1 DEF TakesOut
    <3>5. Recalls(t)  BY <2>1 DEF Recalls
    <3>6. Retires(t)  BY <1>1 DEF Retires
    <3> QED  BY <2>2, <3>1, <3>2, <3>3, <3>4, <3>5, <3>6 DEF Effect
  <2>6. Knows(t)'
    <3>1. \A i \in Seen : i \in Seen'  BY <2>4, <2>5, SeenGrows
    <3>2. Args(t)'
      BY <1>1, <1>2, <2>1 DEF Args, Alters, Holding, Marking
    <3>3. Stands(t)'
      <4>1. \A i \in guards'[t] : Listed(i)'
        BY <1>1, <1>2, <2>3, <2>5, ListedStays DEF Stands
      <4> QED  BY <1>1, <1>2, <2>1, <3>1, <4>1 DEF Stands, Holding, Marking
    <3>4. Holds(t)'
      <4>1. cur[t] \in Out'
        BY <1>1, <2>2, HoldsOn DEF Out
      <4>2. cur[t] \notin retired  BY <2>2 DEF LInv, Heap, Out
      <4> QED  BY <1>1, <2>1, <4>1, <4>2 DEF Holds, Marking
    <3>5. Owns(t)'
      BY <2>1 DEF Owns, Given
    <3>6. Looks(t)'
      BY <1>1, <2>1 DEF Looks
    <3> QED  BY <3>2, <3>3, <3>4, <3>5, <3>6 DEF Knows
  <2>7. item'[t] \notin fresh'
    BY <1>1 DEF LInv, Heap
  <2>8. \A u \in Threads \ {t} : Apart(t, u)'
    BY <1>1, <2>1, <2>2, <2>3, StaysApart DEF Marking
  <2>9. Respects(t)
    BY <1>1, StaysRespectful
  <2>10. ~destroyed  BY <1>1, Running
  <2> QED  BY <1>1, <2>3, <2>4, <2>5, <2>6, <2>7, <2>8, <2>9, <2>10 DEF Progress
<1> QED  BY <1>3, <1>4

LEMMA StepWell ==
  ASSUME LInv, NEW t \in Threads, Step(t)
  PROVE  Progress(t)
<1>1. CASE WalkMisses(t) \/ AcquireFails(t) \/ CheckMisses(t) \/ CheckRefused(t)
  BY <1>1, GiveUpWell DEF WalkMisses, AcquireFails, CheckMisses, CheckRefused
<1> QED
  BY <1>1, WalkReadWell, WalkAppendWell, CheckAgainWell, CheckAdvanceWell, CheckPassedWell,
     CheckFoundWell, TakeRefWell, CasWell, MarkReadWell, MarkWell, NumberWell, SameItemWell,
     UnlinkWell, UnmarkWell, RetireWell DEF Step

-----------------------------------------------------------------------------
(* Calls begin *)

\* Only set_value has an item that is in the list already.
LEMMA ListedIsSet ==
  ASSUME LInv, NEW u \in Threads, Given(u), item[u] \in InList
  PROVE  op[u] = "set" /\ Setting(u) /\ Alters(u) /\ key[u] = Key(item[u])
BY DEF LInv, Knows, Owns, Args, Seen, Setting, Alters, Writes

LEMMA CallWell ==
  ASSUME LInv, NEW t \in Threads,
         NEW what \in Ops \ {"none"}, NEW k \in Keys, NEW i \in Items \cup {NULL},
         Call(t, what, k, i, "walk"),
         UNCHANGED <<link, retired, walk, destroyed>>, fresh' \subseteq fresh, i \notin fresh',
         IF what \in Writes \cup {"delete_item"} THEN i \in Items /\ k = Key(i) ELSE i = NULL,
         what \in Takes \cup {"set", "set_existing"} =>
            \A u \in Threads \ {t} : ~(Given(u) /\ item[u] \in InList /\ key[u] = k),
         what \in Writes =>
            /\ \A u \in Threads \ {t} : ~(Given(u) /\ item[u] = i)
            /\ \/ i \notin Seen
               \/ /\ what = "set" /\ i \in InList
                  /\ \A u \in Threads \ {t} : ~(Alters(u) /\ key[u] = k)
  PROVE  Progress(t)
<1>1. /\ ~destroyed /\ pc[t] = "idle" /\ pc'[t] = "walk" /\ op'[t] = what /\ key'[t] = k
      /\ item'[t] = i /\ absent'[t] = ~Has(what, k, i)
      /\ \A u \in Threads \ {t} : absent'[u] = absent[u]
      /\ UNCHANGED <<prev, cur, nxt, guards>>
  BY DEF Call, Goto, walk, LInv, Shapes
<1>2. Alone(t)
  BY <1>1 DEF Call, Goto, LInv, Shapes, Alone
<1>3. Shapes'
  <2>1. (~Has(what, k, i)) \in BOOLEAN  OBVIOUS
  <2> QED  BY <1>1, <2>1 DEF Call, Goto, LInv, Shapes, PCs
<1>4. Effect(t) /\ SameList
  BY <1>1, QuietEffect
<1>5. prev[t] = HEAD /\ guards[t] = {} /\ cur[t] = NULL
  BY <1>1 DEF LInv, Knows, Args
<1>6. Args(t)'
  BY <1>1, <1>5 DEF Args, Holding, Marking, Ops
<1>7. Stands(t)' /\ Holds(t)'
  BY <1>1, <1>5 DEF Stands, Holds, Holding, Marking
<1>8. Owns(t)'
  <2> SUFFICES ASSUME Given(t)'  PROVE
        \/ item'[t] \notin Seen'
        \/ /\ op'[t] = "set" /\ item'[t] \in InList' /\ ~absent'[t] /\ pc'[t] # "cas"
           /\ pc'[t] \in Holding => cur'[t] = item'[t]
           /\ \A u \in Threads \ {t} : ~(Alters(u)' /\ key'[u] = key'[t])
    BY DEF Owns
  <2>1. what \in Writes  BY <1>1 DEF Given
  <2>2. CASE i \notin Seen  BY <1>1, <1>4, <2>2 DEF SameList
  <2>3. CASE i \in Seen
    <3>1. /\ what = "set" /\ i \in InList
          /\ \A u \in Threads \ {t} : ~(Alters(u) /\ key[u] = k)
      BY <2>1, <2>3
    <3>2. Has(what, k, i)
      BY <2>1, <3>1 DEF Has
    <3>3. ~absent'[t]  BY <1>1, <3>2
    <3>4. \A u \in Threads \ {t} : ~(Alters(u)' /\ key'[u] = key'[t])
      BY <1>1, <1>2, <3>1 DEF Alters, Alone
    <3> QED  BY <1>1, <1>4, <3>1, <3>3, <3>4 DEF SameList, Holding, Marking
  <2> QED  BY <2>2, <2>3
<1>9. Looks(t)'
  BY <1>1, <1>4, <1>5 DEF Looks, Has, SameList
<1>10. Respects(t)
  <2>1. Alters(t)' => what \in Takes \cup {"set", "set_existing"}  BY <1>1 DEF Alters
  <2> QED  BY <1>1, <2>1 DEF Respects
<1>11. ASSUME NEW u \in Threads \ {t}  PROVE Apart(t, u)'
  <2>1. Given(u)' <=> Given(u)  BY <1>2 DEF Given, Alone
  <2>2. Given(t)' => what \in Writes  BY <1>1 DEF Given
  <2> QED  BY <1>1, <1>2, <2>1, <2>2 DEF Apart, Alone, Marking
<1> QED
  BY <1>1, <1>2, <1>3, <1>4, <1>6, <1>7, <1>8, <1>9, <1>10, <1>11 DEF Progress, Knows

\* A call begins.
Begins(t) ==
    \/ \E i \in Items :
          \/ DeleteItemStart(t, i)
          \/ \E what \in Writes : WriteStart(t, what, i) \/ RewriteStart(t, what, i)
    \/ \E k \in Keys, what \in {"delete_key", "remove", "find"} : KeyStart(t, what, k)

LEMMA BeginsWell ==
  ASSUME LInv, ~Reinsert, NEW t \in Threads, Begins(t)
  PROVE  Progress(t)
<1>0. ASSUME NEW k, ~Renewing(k), NEW u \in Threads, Given(u), item[u] \in InList, key[u] = k
      PROVE  FALSE
  BY <1>0, ListedIsSet DEF Renewing
<1>1. ASSUME NEW i \in Items, DeleteItemStart(t, i)  PROVE Progress(t)
  <2>1. /\ Call(t, "delete_item", Key(i), i, "walk") /\ i \notin fresh /\ ~Renewing(Key(i))
        /\ UNCHANGED <<link, retired, fresh, walk, destroyed>>
    BY <1>1 DEF DeleteItemStart, memory
  <2>2. Key(i) \in Keys  BY Constants
  <2> QED  BY <1>0, <2>1, <2>2, CallWell DEF Ops, Takes, Writes
<1>2. ASSUME NEW i \in Items, NEW what \in Writes, WriteStart(t, what, i)  PROVE Progress(t)
  <2>1. /\ Call(t, what, Key(i), i, "walk") /\ i \in fresh /\ fresh' = fresh \ {i}
        /\ what \in {"set", "set_existing"} => ~Renewing(Key(i))
        /\ UNCHANGED <<link, retired, walk, destroyed>>
    BY <1>2 DEF WriteStart
  <2>2. Key(i) \in Keys  BY Constants
  <2>3. i \notin Seen /\ \A u \in Threads : item[u] # i  BY <2>1 DEF LInv, Heap
  <2>4. what \in Takes \cup {"set", "set_existing"} => what \in {"set", "set_existing"}
    BY DEF Takes, Writes
  <2>5. what \in Ops \ {"none"}  BY DEF Ops, Writes
  <2> QED  BY <1>0, <2>1, <2>2, <2>3, <2>4, <2>5, CallWell
<1>3. ASSUME NEW i \in Items, NEW what \in Writes, RewriteStart(t, what, i)  PROVE Progress(t)
  <2>1. /\ Call(t, what, Key(i), i, "walk") /\ i \in InList /\ what = "set" /\ ~Taking(Key(i))
        /\ UNCHANGED <<link, retired, fresh, walk, destroyed>>
    BY <1>3 DEF RewriteStart, memory
  <2>2. Key(i) \in Keys  BY Constants
  <2>3. i \notin fresh  BY <2>1 DEF LInv, Heap, Seen
  <2>4. \A u \in Threads : ~(Alters(u) /\ key[u] = Key(i))
    BY <2>1 DEF Taking, Alters, Setting
  <2>5. \A u \in Threads : Given(u) /\ item[u] \in InList => Alters(u) /\ key[u] = Key(item[u])
    BY ListedIsSet
  <2>6. what \in Ops \ {"none"} /\ what \in Writes  BY DEF Ops, Writes
  <2> QED  BY <2>1, <2>2, <2>3, <2>4, <2>5, <2>6, CallWell
<1>4. ASSUME NEW k \in Keys, NEW what \in {"delete_key", "remove", "find"}, KeyStart(t, what, k)
      PROVE  Progress(t)
  <2>1. /\ Call(t, what, k, NULL, "walk")
        /\ what # "find" => ~Renewing(k)
        /\ UNCHANGED <<link, retired, fresh, walk, destroyed>>
    BY <1>4 DEF KeyStart, memory
  <2>2. NULL \notin fresh /\ what \notin Writes \cup {"delete_item"} /\ what \in Ops \ {"none"}
    BY Constants DEF LInv, Shapes, Writes, Ops, Takes
  <2>3. what \in Takes \cup {"set", "set_existing"} => what # "find"  BY DEF Takes
  <2> QED  BY <1>0, <2>1, <2>2, <2>3, CallWell
<1> QED  BY <1>1, <1>2, <1>3, <1>4 DEF Begins

-----------------------------------------------------------------------------
(* Steps outside the calls *)

\* Nothing changes that the invariant looks at but retired.
LEMMA ReclaimWell ==
  ASSUME LInv, NEW i \in Items, ReclaimNode(i)
  PROVE  LInv'
<1>1. /\ retired' = retired \ {i} /\ \A t \in Threads : i \notin guards[t]
      /\ UNCHANGED <<link, fresh, absent, op, key, item, destroyed, pc, prev, cur, nxt, guards>>
  BY DEF ReclaimNode, call, walk
<1>2. InList' = InList /\ Seen' = Seen /\ Out' = Out
  BY <1>1 DEF InList, Seen, Out
<1>3. Shapes'  BY <1>1 DEF LInv, Shapes
<1>4. Heap'  BY <1>1, <1>2 DEF LInv, Heap
<1>5. ASSUME NEW t \in Threads  PROVE Knows(t)'
  <2>1. Args(t) /\ Stands(t) /\ Holds(t) /\ Owns(t) /\ Looks(t)  BY DEF LInv, Knows
  <2>2. Args(t)'  BY <1>1, <2>1 DEF Args, Alters
  <2>3. Stands(t)'
    <3>1. ASSUME NEW j \in guards[t]  PROVE Listed(j)'
      <4>1. Listed(j) /\ j # i  BY <1>1, <2>1, <3>1 DEF Stands
      <4> QED  BY <1>1, <1>2, <4>1 DEF Listed, Leaving
    <3> QED  BY <1>1, <1>2, <2>1, <3>1 DEF Stands
  <2>4. Holds(t)'  BY <1>1, <1>2, <2>1 DEF Holds, Setting
  <2>5. Owns(t)'
    <3>1. Given(t)' <=> Given(t)  BY <1>1 DEF Given
    <3>2. \A u \in Threads : Alters(u)' <=> Alters(u)  BY <1>1 DEF Alters
    <3> QED  BY <1>1, <1>2, <2>1, <3>1, <3>2 DEF Owns
  <2>6. Looks(t)'  BY <1>1, <1>2, <2>1 DEF Looks, Has
  <2> QED  BY <2>2, <2>3, <2>4, <2>5, <2>6 DEF Knows
<1>6. \A t, u \in Threads : t # u => Apart(t, u)'
  BY <1>1 DEF LInv, Apart, Given
<1> QED  BY <1>3, <1>4, <1>5, <1>6 DEF LInv

LEMMA StutterWell ==
  ASSUME LInv,
         UNCHANGED <<link, fresh, retired, absent, op, key, item, destroyed, pc, prev, cur, nxt, guards>>
  PROVE  LInv'
<1>1. InList' = InList /\ Seen' = Seen /\ Out' = Out
  BY DEF InList, Seen, Out
<1>2. Shapes'  BY DEF LInv, Shapes
<1>3. Heap'  BY <1>1 DEF LInv, Heap
<1>4. ASSUME NEW t \in Threads  PROVE Knows(t)'
  <2>1. Args(t) /\ Stands(t) /\ Holds(t) /\ Owns(t) /\ Looks(t)  BY DEF LInv, Knows
  <2>2. Args(t)'  BY <2>1 DEF Args, Alters
  <2>3. Stands(t)'
    <3>1. \A j : Listed(j)' <=> Listed(j)  BY <1>1 DEF Listed, Leaving
    <3> QED  BY <1>1, <2>1, <3>1 DEF Stands
  <2>4. Holds(t)'  BY <1>1, <2>1 DEF Holds, Setting
  <2>5. Owns(t)'
    <3>1. Given(t)' <=> Given(t)  BY DEF Given
    <3>2. \A u \in Threads : Alters(u)' <=> Alters(u)  BY DEF Alters
    <3> QED  BY <1>1, <2>1, <3>1, <3>2 DEF Owns
  <2>6. Looks(t)'  BY <1>1, <2>1 DEF Looks, Has
  <2> QED  BY <2>2, <2>3, <2>4, <2>5, <2>6 DEF Knows
<1>5. \A t, u \in Threads : t # u => Apart(t, u)'
  BY DEF LInv, Apart, Given
<1> QED  BY <1>2, <1>3, <1>4, <1>5 DEF LInv

\* An empty list.
LEMMA EmptyIsSorted ==
  ASSUME NEW lk, lk[HEAD].ptr = NULL
  PROVE  Sorted(lk, {})
BY DEF Sorted

LEMMA DestroyWell ==
  ASSUME LInv, Destroy
  PROVE  LInv'
<1>1. /\ \A t \in Threads : pc[t] = "idle" /\ pc'[t] = "idle"
      /\ destroyed' = TRUE
      /\ link' = [link EXCEPT ![HEAD] = Link(NULL)]
      /\ UNCHANGED <<fresh, retired, absent, op, key, item, pc, prev, cur, nxt, guards>>
  BY DEF Destroy, call, walk
<1>2. link' \in LinkMaps /\ link'[HEAD] = Link(NULL) /\ \A i \in Items : link'[i] = link[i]
  BY <1>1, LinkFacts, Constants DEF LInv, Shapes, LinkMaps, Places
<1>3. Sorted(link', {}) /\ InList' = {}
  <2>1. Sorted(link', {})  BY <1>2, EmptyIsSorted, LinkFacts
  <2>2. Reached(link') = {}  BY <2>1, SortedIsReached
  <2> QED  BY <2>1, <2>2 DEF InList, Reached
<1>4. /\ \A i \in Out : i \in Out'
      /\ \A i \in Seen' : i \in Seen
  BY <1>2, <1>3 DEF Seen, Out
<1>5. Shapes'  BY <1>1, <1>2 DEF LInv, Shapes
<1>6. Heap'
  <2>1. retired' \subseteq Out'  BY <1>1, <1>4 DEF LInv, Heap
  <2> QED  BY <1>1, <1>2, <1>3, <1>4, <2>1, LinkFacts DEF LInv, Heap
<1>7. ASSUME NEW t \in Threads  PROVE Knows(t)'
  <2>1. Args(t) /\ pc[t] = "idle" /\ pc'[t] = "idle" /\ op[t] = "none"
    BY <1>1 DEF LInv, Knows, Args
  <2>2. Args(t)'  BY <1>1, <2>1 DEF Args, Alters
  <2>3. Stands(t)'  BY <1>1, <2>1 DEF Stands, Args, Holding, Marking, Writes
  <2>4. Holds(t)'  BY <2>1 DEF Holds, Marking
  <2>5. Owns(t)'  BY <1>1, <2>1 DEF Owns, Given, Writes
  <2>6. Looks(t)'  BY <1>1, <2>1 DEF Looks
  <2> QED  BY <2>2, <2>3, <2>4, <2>5, <2>6 DEF Knows
<1>8. \A t, u \in Threads : t # u => Apart(t, u)'
  BY <1>1 DEF LInv, Apart, Given
<1> QED  BY <1>5, <1>6, <1>7, <1>8 DEF LInv

-----------------------------------------------------------------------------
(* The beginning *)

\* Among the loaded items that follow i one comes first.
LEMMA FollowingFacts ==
  ASSUME NEW p \in Loaded \cup {HEAD}
  PROVE  /\ Following(p) # NULL => Following(p) \in Loaded /\ After(p, Following(p))
         /\ \A j \in Loaded : After(p, j) => Following(p) # NULL /\ Key(Following(p)) <= Key(j)
<1> DEFINE later == {j \in Loaded : p = HEAD \/ Key(j) > Key(p)}
           first(j) == \A l \in later : Key(j) <= Key(l)
<1>1. Following(p) = IF later = {} THEN NULL ELSE CHOOSE j \in later : first(j)
  BY DEF Following
<1>2. Loaded \subseteq Items /\ (p # HEAD => Key(p) \in Nat) /\ \A j \in Loaded : Key(j) \in Nat
  BY Constants
<1>3. \A j \in Loaded : After(p, j) <=> j \in later
  BY <1>2 DEF After
<1>4. ASSUME later # {}  PROVE \E j \in later : first(j)
  <2> DEFINE T == {Key(j) : j \in later}
  <2>1. T # {} /\ T \subseteq Nat  BY <1>2, <1>4
  <2>2. PICK x \in T : \A y \in T : x <= y
    <3> HIDE DEF T
    <3> QED  BY <2>1, LeastNat
  <2> QED  BY <2>2
<1>5. later # {} => Following(p) \in later /\ first(Following(p))
  BY <1>1, <1>4
<1>6. Following(p) # NULL => later # {}
  BY <1>1
<1>7. later # {} => Following(p) # NULL
  BY <1>2, <1>5, Constants
<1> QED  BY <1>3, <1>5, <1>6, <1>7

\* The links of the beginning are a list of the loaded items.
LEMMA InitList ==
  ASSUME Init
  PROVE  /\ InList = Loaded /\ Sorted(link, Loaded)
         /\ link \in LinkMaps /\ \A i \in Places : link[i].mark = FALSE
<1>1. link = [i \in Places |-> IF i \in Loaded \cup {HEAD} THEN Link(Following(i)) ELSE Link(NULL)]
  BY DEF Init, Places
<1>2. Loaded \subseteq Items /\ \A i, j \in Loaded : Key(i) = Key(j) => i = j
  BY SortedListAssumption
<1>3. link \in LinkMaps
  <2>1. \A i \in Loaded \cup {HEAD} : Following(i) \in Items \cup {NULL}
    BY <1>2, FollowingFacts
  <2>2. \A i \in Places : (IF i \in Loaded \cup {HEAD} THEN Link(Following(i)) ELSE Link(NULL)) \in LinkValues
    BY <2>1, LinkFacts
  <2> QED  BY <1>1, <2>2 DEF LinkMaps
<1>4. \A i \in Places : link[i].mark = FALSE
  BY <1>1, LinkFacts
<1>5. \A p \in Loaded \cup {HEAD} : link[p].ptr = Following(p)
  BY <1>1, <1>2, LinkFacts DEF Places
<1>6. Sorted(link, Loaded) /\ InList = Loaded
  <2>1. Sorted(link, Loaded)  BY <1>2, <1>5, FollowingFacts DEF Sorted
  <2>2. Reached(link) = Loaded  BY <2>1, SortedIsReached
  <2> QED  BY <2>1, <2>2 DEF InList, Reached
<1> QED  BY <1>3, <1>4, <1>6

LEMMA InitLInv == Init => LInv
<1> SUFFICES ASSUME Init  PROVE LInv
  OBVIOUS
<1>1. /\ fresh = Items \ Loaded /\ retired = {} /\ ~destroyed
      /\ \A t \in Threads : /\ pc[t] = "idle" /\ op[t] = "none" /\ item[t] = NULL
                            /\ prev[t] = HEAD /\ cur[t] = NULL /\ guards[t] = {}
  BY DEF Init
<1>2. Loaded \subseteq Items
  BY SortedListAssumption
<1>3. /\ InList = Loaded /\ Sorted(link, Loaded)
      /\ link \in LinkMaps /\ \A i \in Places : link[i].mark = FALSE
  BY InitList
<1>7. Out = {} /\ Seen = Loaded
  BY <1>3 DEF Out, Seen, Places
<1>8. Shapes
  BY <1>2, <1>3 DEF Init, Shapes, PCs, Ops
<1>9. Heap
  BY <1>1, <1>3, <1>7, Constants DEF Heap, Places
<1>10. ASSUME NEW t \in Threads  PROVE Knows(t)
  <2>1. Args(t)  BY <1>1 DEF Args, Holding, Marking, Writes
  <2>2. Stands(t)  BY <1>1 DEF Stands, Holding, Marking, Writes
  <2>3. Holds(t)  BY <1>1 DEF Holds, Marking
  <2>4. Owns(t)  BY <1>1 DEF Owns, Given, Writes
  <2>5. Looks(t)  BY <1>1 DEF Looks
  <2> QED  BY <2>1, <2>2, <2>3, <2>4, <2>5 DEF Knows
<1>11. \A t, u \in Threads : t # u => Apart(t, u)
  BY <1>1 DEF Apart, Marking, Given, Writes
<1> QED  BY <1>8, <1>9, <1>10, <1>11 DEF LInv

\* Every step is one of a call, or one of these.
LEMMA NextCases ==
  ASSUME Next
  PROVE  \/ \E t \in Threads : Step(t)
         \/ \E t \in Threads : NodeRelease(t) \/ GetAll(t)
         \/ \E t \in Threads : Begins(t)
         \/ \E i \in Items : ReclaimNode(i)
         \/ Destroy
BY DEF Next, Begins

LEMMA NextLInv == LInv /\ ~Reinsert /\ [Next]_vars => LInv'
<1> SUFFICES ASSUME LInv, ~Reinsert, [Next]_vars  PROVE LInv'
  OBVIOUS
<1>1. ASSUME NEW t \in Threads, Step(t)  PROVE LInv'
  BY <1>1, StepWell, ProgressKeeps
<1>2. ASSUME NEW t \in Threads, NodeRelease(t) \/ GetAll(t)  PROVE LInv'
  BY <1>2, StutterWell DEF NodeRelease, GetAll, call, walk
<1>3. ASSUME NEW t \in Threads, Begins(t)  PROVE LInv'
  BY <1>3, BeginsWell, ProgressKeeps
<1>4. ASSUME NEW i \in Items, ReclaimNode(i)  PROVE LInv'
  BY <1>4, ReclaimWell
<1>5. CASE UNCHANGED vars
  BY <1>5, StutterWell DEF vars, memory, call, walk
<1> QED
  BY <1>1, <1>2, <1>3, <1>4, <1>5, DestroyWell, NextCases

\* While nobody inserts an item again: along the list the keys grow, and nobody else
\* touches the link of an item that a call has marked.  Inserts, deletes and sets that race
\* for neighbouring links, for any number of threads, keys and items.
THEOREM ListIsWellFormed == ~Reinsert => (Spec => []WellFormed)
<1> SUFFICES ASSUME ~Reinsert  PROVE Spec => []WellFormed
  OBVIOUS
<1>1. ASSUME LInv  PROVE WellFormed
  <2>1. \A i \in InList : link[i].ptr # NULL => Key(i) < Key(link[i].ptr)
    BY <1>1, Constants DEF LInv, Heap, Sorted, After
  <2>2. \A t \in Threads : pc[t] \in {"number", "same", "unlink", "unmark"} => link[cur[t]] = Marked(nxt[t])
    BY <1>1 DEF LInv, Knows, Holds, Marking
  <2> QED  BY <2>1, <2>2 DEF WellFormed
<1>2. LInv /\ [Next]_vars => LInv'
  BY NextLInv
<1> QED  BY InitLInv, <1>1, <1>2, PTL DEF Spec

\* While nobody inserts an item again: a call that answers "not found" has lived through
\* a moment at which the list did not have what it looks for.
THEOREM NotFoundIsJustified == ~Reinsert => (Spec => []NotFoundJustified)
<1> SUFFICES ASSUME ~Reinsert  PROVE Spec => []NotFoundJustified
  OBVIOUS
<1>1. ASSUME LInv  PROVE NotFoundJustified
  <2>1. SUFFICES ASSUME NEW t \in Threads, ~absent[t],
                        \/ pc[t] = "walk" /\ AtEnd(t) /\ op[t] \notin {"insert", "set"}
                        \/ pc[t] = "check" /\ StillThere(t) /\ Passed(t) /\ op[t] = "set_existing"
                 PROVE  FALSE
    BY <1>1 DEF NotFoundJustified
  <2>2. link[prev[t]].ptr # NULL /\ Key(link[prev[t]].ptr) <= key[t]
    BY <1>1, <2>1, NotPassed
  <2>3. pc[t] = "check" /\ StillThere(t) /\ Passed(t)
    BY <2>1, <2>2 DEF AtEnd
  <2>4. link[prev[t]].ptr = cur[t] /\ Key(cur[t]) \in Nat /\ key[t] \in Nat /\ Key(cur[t]) > key[t]
    BY <1>1, <2>3, Found, Running DEF Passed
  <2> QED  BY <2>2, <2>4
<1>2. LInv /\ [Next]_vars => LInv'
  BY NextLInv
<1> QED  BY InitLInv, <1>1, <1>2, PTL DEF Spec

-----------------------------------------------------------------------------
(* Reference counts *)

Users(i)  == {t \in Threads : i \in refs[t]}
Givers(i) == {t \in Threads : Given(t) /\ item[t] = i}
One(b) == IF b THEN 1 ELSE 0

\* The references there are to an item.
Counted(i) ==
    /\ ref[i] = Cardinality(Users(i)) + Cardinality(Givers(i)) + One(Listed(i))
    /\ i \in freed <=> ref[i] = 0

CInv ==
    /\ ref \in [Items -> Nat] /\ freed \subseteq Items
    /\ refs \in [Threads -> SUBSET Items]
    /\ \A t \in Threads : pc[t] # "idle" => refs[t] = {}
    /\ \A i \in fresh : i \notin freed /\ \A t \in Threads : i \notin refs[t]
    /\ \A i \in Items \ fresh : Counted(i)

LEMMA CardMoves ==
  ASSUME NEW S, IsFiniteSet(S), NEW A \in SUBSET S, NEW B \in SUBSET S, NEW t \in S,
         \A u \in S \ {t} : u \in A <=> u \in B
  PROVE  /\ Cardinality(A) \in Nat /\ Cardinality(B) \in Nat
         /\ Cardinality(B) + One(t \in A) = Cardinality(A) + One(t \in B)
<1>1. IsFiniteSet(A) /\ IsFiniteSet(B)
  BY FS_Subset
<1>2. Cardinality(A) \in Nat /\ Cardinality(B) \in Nat
  BY <1>1, FS_CardinalityType
<1>3. CASE t \in A <=> t \in B
  <2>1. A = B  BY <1>3
  <2> QED  BY <1>2, <1>3, <2>1 DEF One
<1>4. CASE t \in A /\ t \notin B
  <2>1. B = A \ {t}  BY <1>4
  <2>2. Cardinality(B) = Cardinality(A) - 1  BY <1>1, <1>4, <2>1, FS_RemoveElement
  <2> QED  BY <1>2, <1>4, <2>2 DEF One
<1>5. CASE t \notin A /\ t \in B
  <2>1. B = A \cup {t}  BY <1>5
  <2>2. Cardinality(B) = Cardinality(A) + 1  BY <1>1, <1>5, <2>1, FS_AddElement
  <2> QED  BY <1>2, <1>5, <2>2 DEF One
<1> QED  BY <1>3, <1>4, <1>5

\* One thread's step keeps a count if it changes it by the references it takes and drops.
LEMMA CountChange ==
  ASSUME CInv, NEW t \in Threads, Alone(t), \A u \in Threads \ {t} : refs'[u] = refs[u],
         NEW i \in Items \ fresh, ref'[i] \in Nat,
         ref'[i] + One(i \in refs[t]) + One(Given(t) /\ item[t] = i) + One(Listed(i))
            = ref[i] + One(i \in refs'[t]) + One(Given(t)' /\ item'[t] = i) + One(Listed(i)'),
         i \in freed' <=> ref'[i] = 0
  PROVE  Counted(i)'
<1> DEFINE U == Users(i)
           V == {u \in Threads : i \in refs'[u]}
           G == Givers(i)
           H == {u \in Threads : Given(u)' /\ item'[u] = i}
<1>1. /\ Cardinality(U) \in Nat /\ Cardinality(V) \in Nat
      /\ Cardinality(V) + One(i \in refs[t]) = Cardinality(U) + One(i \in refs'[t])
  <2>1. U \in SUBSET Threads /\ V \in SUBSET Threads /\ \A u \in Threads \ {t} : u \in U <=> u \in V
    BY DEF Users
  <2>2. (t \in U <=> i \in refs[t]) /\ (t \in V <=> i \in refs'[t])
    BY DEF Users
  <2> HIDE DEF U, V
  <2>3. /\ Cardinality(U) \in Nat /\ Cardinality(V) \in Nat
        /\ Cardinality(V) + One(t \in U) = Cardinality(U) + One(t \in V)
    BY <2>1, ThreadsAreFinite, CardMoves
  <2> QED  BY <2>2, <2>3 DEF One
<1>2. /\ Cardinality(G) \in Nat /\ Cardinality(H) \in Nat
      /\ Cardinality(H) + One(Given(t) /\ item[t] = i) = Cardinality(G) + One(Given(t)' /\ item'[t] = i)
  <2>0. \A u \in Threads \ {t} : (Given(u)' <=> Given(u)) /\ item'[u] = item[u]
    BY DEF Alone, Given
  <2>1. G \in SUBSET Threads /\ H \in SUBSET Threads /\ \A u \in Threads \ {t} : u \in G <=> u \in H
    BY <2>0 DEF Givers
  <2>2. (t \in G <=> Given(t) /\ item[t] = i) /\ (t \in H <=> Given(t)' /\ item'[t] = i)
    BY DEF Givers
  <2> HIDE DEF G, H
  <2>3. /\ Cardinality(G) \in Nat /\ Cardinality(H) \in Nat
        /\ Cardinality(H) + One(t \in G) = Cardinality(G) + One(t \in H)
    BY <2>1, ThreadsAreFinite, CardMoves
  <2> QED  BY <2>2, <2>3 DEF One
<1>3. ref[i] = Cardinality(U) + Cardinality(G) + One(Listed(i)) /\ ref[i] \in Nat
  BY DEF CInv, Counted
<1>4. ref'[i] = Cardinality(V) + Cardinality(H) + One(Listed(i)')
  <2> DEFINE a == One(i \in refs[t])
             b == One(i \in refs'[t])
             c == One(Given(t) /\ item[t] = i)
             d == One(Given(t)' /\ item'[t] = i)
             e == One(Listed(i))
             f == One(Listed(i)')
  <2>1. a \in Nat /\ b \in Nat /\ c \in Nat /\ d \in Nat /\ e \in Nat /\ f \in Nat
    BY DEF One
  <2>2. ref'[i] + a + c + e = ref[i] + b + d + f
    OBVIOUS
  <2> HIDE DEF a, b, c, d, e, f, U, V, G, H
  <2>3. Cardinality(V) + a = Cardinality(U) + b  BY <1>1 DEF a, b
  <2>4. Cardinality(H) + c = Cardinality(G) + d  BY <1>2 DEF c, d
  <2>5. ref[i] = Cardinality(U) + Cardinality(G) + e  BY <1>3 DEF e
  <2>6. /\ Cardinality(U) \in Nat /\ Cardinality(V) \in Nat /\ Cardinality(G) \in Nat
        /\ Cardinality(H) \in Nat /\ ref[i] \in Nat /\ ref'[i] \in Nat
    BY <1>1, <1>2, <1>3
  <2>7. ASSUME NEW u \in Nat, NEW v \in Nat, NEW g \in Nat, NEW h \in Nat, NEW r \in Nat, NEW s \in Nat,
               v + a = u + b, h + c = g + d, r = u + g + e, s + a + c + e = r + b + d + f
        PROVE  s = v + h + f
    BY <2>1, <2>7
  <2>8. ref'[i] = Cardinality(V) + Cardinality(H) + f
    BY <2>2, <2>3, <2>4, <2>5, <2>6, <2>7
  <2> QED  BY <2>8 DEF f
<1>5. Users(i)' = V /\ Givers(i)' = H
  BY DEF Users, Givers
<1> QED  BY <1>4, <1>5 DEF Counted

\* What is referenced is not freed, and what has no reference was.
LEMMA CountFacts ==
  ASSUME CInv, NEW i \in Items \ fresh
  PROVE  /\ ref[i] \in Nat /\ (i \in freed <=> ref[i] = 0)
         /\ Listed(i) => ref[i] # 0
         /\ \A t \in Threads : i \in refs[t] \/ (Given(t) /\ item[t] = i) => ref[i] # 0
<1>1. /\ ref[i] \in Nat /\ (i \in freed <=> ref[i] = 0)
      /\ ref[i] = Cardinality(Users(i)) + Cardinality(Givers(i)) + One(Listed(i))
  BY DEF CInv, Counted
<1>2. /\ IsFiniteSet(Users(i)) /\ IsFiniteSet(Givers(i))
      /\ Cardinality(Users(i)) \in Nat /\ Cardinality(Givers(i)) \in Nat
  <2>1. Users(i) \subseteq Threads /\ Givers(i) \subseteq Threads  BY DEF Users, Givers
  <2> QED  BY <2>1, ThreadsAreFinite, FS_Subset, FS_CardinalityType
<1>3. Listed(i) => ref[i] # 0
  BY <1>1, <1>2 DEF One
<1>4. ASSUME NEW t \in Threads, i \in refs[t] \/ (Given(t) /\ item[t] = i)  PROVE ref[i] # 0
  <2>1. Users(i) # {} \/ Givers(i) # {}  BY <1>4 DEF Users, Givers
  <2>2. Cardinality(Users(i)) # 0 \/ Cardinality(Givers(i)) # 0
    BY <1>2, <2>1, FS_EmptySet
  <2> QED  BY <1>1, <1>2, <2>2 DEF One
<1> QED  BY <1>1, <1>3, <1>4

-----------------------------------------------------------------------------
(* Steps that move a reference *)

\* What a call needs to keep the counts: those of the items it touches.
LEMMA CountsFrom ==
  ASSUME LInv, CInv, NEW t \in Threads, Alone(t), \A u \in Threads \ {t} : refs'[u] = refs[u],
         ref' \in [Items -> Nat], freed' \subseteq Items, refs'[t] \subseteq Items,
         refs' \in [Threads -> SUBSET Items],
         pc'[t] # "idle" => refs'[t] = {}, fresh' = fresh, refs'[t] \cap fresh = {},
         freed' \cap fresh = {},
         \A i \in Items \ fresh : i \in freed' <=> ref'[i] = 0,
         \A i \in Items \ fresh :
            ref'[i] + One(i \in refs[t]) + One(Given(t) /\ item[t] = i) + One(Listed(i))
               = ref[i] + One(i \in refs'[t]) + One(Given(t)' /\ item'[t] = i) + One(Listed(i)')
  PROVE  CInv'
<1>1. \A i \in Items \ fresh : Counted(i)'
  BY CountChange
<1>2. \A u \in Threads : pc'[u] # "idle" => refs'[u] = {}
  BY DEF Alone, CInv
<1>3. \A i \in fresh' : i \notin freed' /\ \A u \in Threads : i \notin refs'[u]
  BY DEF CInv
<1> QED  BY <1>1, <1>2, <1>3 DEF CInv

LEMMA ListedSame ==
  ASSUME LInv, NEW t \in Threads, Alone(t), InList' = InList, retired' = retired,
         pc[t] # "retire", pc'[t] # "retire"
  PROVE  \A i : Listed(i)' <=> Listed(i)
<1>1. \A i : Leaving(i)' <=> Leaving(i)
  BY DEF Leaving, Alone
<1> QED  BY <1>1 DEF Listed

\* A step inside a call with no reference given or taken.
LEMMA InsideCounts ==
  ASSUME LInv, CInv, NEW t \in Threads, Progress(t),
         UNCHANGED <<ref, freed, refs, op, item, fresh>>,
         pc[t] \notin {"idle", "retire"}, pc'[t] \notin {"idle", "retire"}
  PROVE  CInv'
<1>1. Alone(t) /\ Effect(t)  BY DEF Progress
<1>2. InList' = InList /\ retired' = retired
  BY <1>1 DEF Effect, PutsIn, TakesOut, Retires
<1>3. \A i : Listed(i)' <=> Listed(i)
  BY <1>1, <1>2, ListedSame
<1>4. Given(t)' <=> Given(t)
  BY DEF Given
<1>5. \A i \in Items :
        /\ One(Listed(i)') = One(Listed(i))
        /\ One(Given(t)' /\ item'[t] = i) = One(Given(t) /\ item[t] = i)
  BY <1>3, <1>4 DEF One
<1>6. \A i \in Items : One(i \in refs'[t]) = One(i \in refs[t])
  OBVIOUS
<1>7. refs[t] = {} /\ refs' \in [Threads -> SUBSET Items] /\ refs'[t] \subseteq Items
  BY DEF CInv
<1>8. \A i \in Items \ fresh : i \in freed <=> ref[i] = 0
  BY DEF CInv, Counted
<1>9. ref' \in [Items -> Nat] /\ freed' \subseteq Items /\ freed' \cap fresh = {}
  BY DEF CInv
<1>10. \A i \in Items \ fresh :
            ref'[i] + One(i \in refs[t]) + One(Given(t) /\ item[t] = i) + One(Listed(i))
               = ref[i] + One(i \in refs'[t]) + One(Given(t)' /\ item'[t] = i) + One(Listed(i)')
  BY <1>5, <1>6
<1> QED  BY <1>1, <1>7, <1>8, <1>9, <1>10, CountsFrom

LEMMA ReturnFacts ==
  ASSUME LInv, NEW t \in Threads, NEW from, Return(t, from)
  PROVE  pc[t] = from /\ pc'[t] = "idle" /\ ~Given(t)' /\ Alone(t)
BY DEF Return, Goto, LInv, Shapes, Given, Writes, Alone

\* A new item has no reference of the list.
LEMMA NewIsUnlisted ==
  ASSUME LInv, NEW i, i \notin Seen
  PROVE  ~Listed(i)
BY DEF Listed, Leaving, Seen, LInv, Heap, Knows, Holds

LEMMA GiveUpCounts ==
  ASSUME LInv, CInv, NEW t \in Threads, NEW from, GiveUp(t, from), from \notin {"idle", "retire"}
  PROVE  CInv'
<1>1. /\ Return(t, from) /\ UNCHANGED <<link, ref, fresh, retired, freed>>
      /\ refs' = [refs EXCEPT ![t] = @ \cup (IF op[t] \in Writes THEN {item[t]} ELSE {})]
  BY DEF GiveUp, memory
<1>2. pc[t] = from /\ pc'[t] = "idle" /\ ~Given(t)' /\ Alone(t)
  BY <1>1, ReturnFacts
<1>3. \A i : Listed(i)' <=> Listed(i)
  <2>1. InList' = InList  BY <1>1 DEF InList
  <2> QED  BY <1>1, <1>2, <2>1, ListedSame
<1>4. /\ refs[t] = {} /\ (Given(t) <=> op[t] \in Writes)
      /\ op[t] \in Writes => item[t] \in Items \ fresh
  BY <1>2 DEF CInv, Given, LInv, Knows, Args, Heap
<1>5. refs'[t] = (IF op[t] \in Writes THEN {item[t]} ELSE {}) /\ \A u \in Threads \ {t} : refs'[u] = refs[u]
  BY <1>1, <1>4 DEF CInv
<1>6. \A i \in Items : /\ One(i \in refs[t]) = 0 /\ One(Given(t)' /\ item'[t] = i) = 0
                       /\ One(Listed(i)') = One(Listed(i))
                       /\ One(i \in refs'[t]) = One(Given(t) /\ item[t] = i)
  BY <1>2, <1>3, <1>4, <1>5 DEF One
<1>7. \A i \in Items \ fresh :
            ref'[i] + One(i \in refs[t]) + One(Given(t) /\ item[t] = i) + One(Listed(i))
               = ref[i] + One(i \in refs'[t]) + One(Given(t)' /\ item'[t] = i) + One(Listed(i)')
  <2> TAKE i \in Items \ fresh
  <2>1. ref'[i] = ref[i] /\ ref[i] \in Nat  BY <1>1 DEF CInv
  <2>2. One(Listed(i)) \in Nat /\ One(Given(t) /\ item[t] = i) \in Nat  BY DEF One
  <2> QED  BY <1>6, <2>1, <2>2
<1>8. refs' \in [Threads -> SUBSET Items] /\ refs'[t] \subseteq Items /\ refs'[t] \cap fresh = {}
  BY <1>1, <1>4, <1>5 DEF CInv
<1>9. ref' \in [Items -> Nat] /\ freed' \subseteq Items /\ freed' \cap fresh = {}
      /\ \A i \in Items \ fresh : i \in freed' <=> ref'[i] = 0
  BY <1>1 DEF CInv, Counted
<1> QED  BY <1>1, <1>2, <1>5, <1>7, <1>8, <1>9, CountsFrom

LEMMA TakeRefCounts ==
  ASSUME LInv, CInv, NEW t \in Threads, TakeRef(t)
  PROVE  CInv'
<1>1. /\ Return(t, "take_ref") /\ UNCHANGED <<link, fresh, retired, freed>>
      /\ refs' = [refs EXCEPT ![t] = {cur[t]}] /\ ref' = [ref EXCEPT ![cur[t]] = @ + 1]
  BY DEF TakeRef
<1>2. pc[t] = "take_ref" /\ pc'[t] = "idle" /\ ~Given(t)' /\ Alone(t)
  BY <1>1, ReturnFacts
<1>3. \A i : Listed(i)' <=> Listed(i)
  <2>1. InList' = InList  BY <1>1 DEF InList
  <2> QED  BY <1>1, <1>2, <2>1, ListedSame
<1>4. refs[t] = {} /\ ~Given(t) /\ cur[t] \in Seen /\ Listed(cur[t]) /\ cur[t] \in Items \ fresh
  BY <1>2 DEF CInv, Given, Writes, LInv, Knows, Args, Stands, Heap, Sorted, Seen, Out
<1>5. refs'[t] = {cur[t]} /\ \A u \in Threads \ {t} : refs'[u] = refs[u]
  BY <1>1 DEF CInv
<1>6. \A i \in Items : /\ One(i \in refs[t]) = 0 /\ One(Given(t)' /\ item'[t] = i) = 0
                       /\ One(Listed(i)') = One(Listed(i)) /\ One(Given(t) /\ item[t] = i) = 0
                       /\ One(i \in refs'[t]) = One(i = cur[t])
  BY <1>2, <1>3, <1>4, <1>5 DEF One
<1>7. \A i \in Items \ fresh :
            ref'[i] + One(i \in refs[t]) + One(Given(t) /\ item[t] = i) + One(Listed(i))
               = ref[i] + One(i \in refs'[t]) + One(Given(t)' /\ item'[t] = i) + One(Listed(i)')
  <2> TAKE i \in Items \ fresh
  <2>1. ref[i] \in Nat /\ ref'[i] = ref[i] + One(i = cur[t])  BY <1>1, <1>4 DEF CInv, One
  <2>2. One(Listed(i)) \in Nat /\ One(i = cur[t]) \in Nat  BY DEF One
  <2> QED  BY <1>6, <2>1, <2>2
<1>8. refs' \in [Threads -> SUBSET Items] /\ refs'[t] \subseteq Items /\ refs'[t] \cap fresh = {}
  BY <1>1, <1>4, <1>5 DEF CInv
<1>9. ref' \in [Items -> Nat] /\ freed' \subseteq Items /\ freed' \cap fresh = {}
  BY <1>1, <1>4 DEF CInv
<1>10. \A i \in Items \ fresh : i \in freed' <=> ref'[i] = 0
  <2> TAKE i \in Items \ fresh
  <2>1. ref[i] \in Nat /\ (i \in freed <=> ref[i] = 0) /\ (i = cur[t] => ref[i] # 0)
    BY <1>4, CountFacts
  <2>2. ref'[i] = IF i = cur[t] THEN ref[i] + 1 ELSE ref[i]  BY <1>1 DEF CInv
  <2> QED  BY <1>1, <2>1, <2>2
<1> QED  BY <1>1, <1>2, <1>5, <1>7, <1>8, <1>9, <1>10, CountsFrom

LEMMA CasCounts ==
  ASSUME LInv, CInv, NEW t \in Threads, Cas(t)
  PROVE  CInv'
<1>1. CASE link[prev[t]] # Link(cur[t])
  <2>1. /\ pc[t] = "cas" /\ pc'[t] = "walk" /\ UNCHANGED <<ref, freed, refs, op, item, fresh>>
    BY <1>1 DEF Cas, Restart, call, LInv, Shapes
  <2> QED  BY <2>1, CasWell, InsideCounts
<1>2. CASE link[prev[t]] = Link(cur[t])
  <2>1. /\ pc[t] = "cas" /\ Return(t, "cas") /\ link' = [link EXCEPT ![prev[t]] = Link(item[t])]
        /\ UNCHANGED <<ref, fresh, retired, freed, refs>>
    BY <1>2 DEF Cas, Return, Goto
  <2>2. /\ InList' = InList \cup {item[t]} /\ Given(t) /\ item[t] \in Items /\ item[t] \notin Seen
    BY <1>2, <2>1, CasInserts
  <2>3. pc'[t] = "idle" /\ ~Given(t)' /\ Alone(t)
    BY <2>1, ReturnFacts
  <2>4. refs[t] = {} /\ ~Listed(item[t])
    BY <2>1, <2>2, NewIsUnlisted DEF CInv
  <2>5. \A i \in Items : i # item[t] => (Listed(i)' <=> Listed(i))
    <3>1. \A i : Leaving(i)' <=> Leaving(i)  BY <2>1, <2>3 DEF Leaving, Alone
    <3> QED  BY <2>1, <2>2, <3>1 DEF Listed
  <2>6. ASSUME NEW i \in Items, i = item[t]  PROVE Listed(i)'
    BY <2>2, <2>6 DEF Listed
  <2>7. \A i \in Items \ fresh :
            ref'[i] + One(i \in refs[t]) + One(Given(t) /\ item[t] = i) + One(Listed(i))
               = ref[i] + One(i \in refs'[t]) + One(Given(t)' /\ item'[t] = i) + One(Listed(i)')
    <3> TAKE i \in Items \ fresh
    <3>1. ref'[i] = ref[i] /\ ref[i] \in Nat  BY <2>1 DEF CInv
    <3>2. One(i \in refs[t]) = 0 /\ One(i \in refs'[t]) = 0 /\ One(Given(t)' /\ item'[t] = i) = 0
      BY <2>1, <2>3, <2>4 DEF One
    <3>3. CASE i = item[t]
      <4>1. One(Given(t) /\ item[t] = i) = 1 /\ One(Listed(i)) = 0 /\ One(Listed(i)') = 1
        BY <2>2, <2>4, <2>6, <3>3 DEF One
      <4> QED  BY <3>1, <3>2, <4>1
    <3>4. CASE i # item[t]
      <4>1. One(Given(t) /\ item[t] = i) = 0 /\ One(Listed(i)) = One(Listed(i)') /\ One(Listed(i)) \in Nat
        BY <2>5, <3>4 DEF One
      <4> QED  BY <3>1, <3>2, <4>1
    <3> QED  BY <3>3, <3>4
  <2>8. /\ refs' \in [Threads -> SUBSET Items] /\ refs'[t] \subseteq Items /\ refs'[t] \cap fresh = {}
        /\ \A u \in Threads \ {t} : refs'[u] = refs[u]
    BY <2>1, <2>4 DEF CInv
  <2>9. ref' \in [Items -> Nat] /\ freed' \subseteq Items /\ freed' \cap fresh = {}
      /\ \A i \in Items \ fresh : i \in freed' <=> ref'[i] = 0
    BY <2>1 DEF CInv, Counted
  <2> QED  BY <2>1, <2>3, <2>7, <2>8, <2>9, CountsFrom
<1> QED  BY <1>1, <1>2

LEMMA SameItemCounts ==
  ASSUME LInv, CInv, NEW t \in Threads, SameItem(t)
  PROVE  CInv'
<1>1. /\ pc[t] = "same" /\ Return(t, "same") /\ UNCHANGED <<ref, fresh, retired, freed>>
      /\ refs' = [refs EXCEPT ![t] = {cur[t]}]
  BY DEF SameItem, Return, Goto
<1>2. pc'[t] = "idle" /\ ~Given(t)' /\ Alone(t)
  BY <1>1, ReturnFacts
<1>3. \A i : Listed(i)' <=> Listed(i)
  <2>1. Effect(t)  BY SameItemWell DEF Progress
  <2>2. Owns(t) /\ cur[t] = item[t] /\ cur[t] \in InList
    BY <1>1 DEF LInv, Knows, Holds, Marking
  <2>3. InList' = InList
    BY <1>1, <2>1, <2>2 DEF Effect, PutsIn, TakesOut
  <2> QED  BY <1>1, <1>2, <2>3, ListedSame
<1>4. /\ refs[t] = {} /\ Given(t) /\ cur[t] = item[t] /\ cur[t] \in Items \ fresh
  BY <1>1, HoldsOn DEF CInv, LInv, Knows, Holds, Heap, Setting, Holding, Marking
<1>5. refs'[t] = {item[t]} /\ \A u \in Threads \ {t} : refs'[u] = refs[u]
  BY <1>1, <1>4 DEF CInv
<1>6. \A i \in Items : /\ One(i \in refs[t]) = 0 /\ One(Given(t)' /\ item'[t] = i) = 0
                       /\ One(Listed(i)') = One(Listed(i))
                       /\ One(i \in refs'[t]) = One(Given(t) /\ item[t] = i)
  BY <1>2, <1>3, <1>4, <1>5 DEF One
<1>7. \A i \in Items \ fresh :
            ref'[i] + One(i \in refs[t]) + One(Given(t) /\ item[t] = i) + One(Listed(i))
               = ref[i] + One(i \in refs'[t]) + One(Given(t)' /\ item'[t] = i) + One(Listed(i)')
  <2> TAKE i \in Items \ fresh
  <2>1. ref'[i] = ref[i] /\ ref[i] \in Nat  BY <1>1 DEF CInv
  <2>2. One(Listed(i)) \in Nat /\ One(Given(t) /\ item[t] = i) \in Nat  BY DEF One
  <2> QED  BY <1>6, <2>1, <2>2
<1>8. refs' \in [Threads -> SUBSET Items] /\ refs'[t] \subseteq Items /\ refs'[t] \cap fresh = {}
  BY <1>1, <1>4, <1>5 DEF CInv
<1>9. ref' \in [Items -> Nat] /\ freed' \subseteq Items /\ freed' \cap fresh = {}
      /\ \A i \in Items \ fresh : i \in freed' <=> ref'[i] = 0
  BY <1>1 DEF CInv, Counted
<1> QED  BY <1>1, <1>2, <1>5, <1>7, <1>8, <1>9, CountsFrom

LEMMA UnlinkCounts ==
  ASSUME LInv, CInv, NEW t \in Threads, Unlink(t)
  PROVE  CInv'
<1>0. /\ pc[t] = "unlink" /\ UNCHANGED <<ref, freed, refs, op, item, cur, fresh, retired>>
  BY DEF Unlink, Goto, walk
<1>1. CASE link[prev[t]] # Link(cur[t])
  <2>1. pc'[t] = "unmark"  BY <1>1 DEF Unlink, Goto, LInv, Shapes
  <2> QED  BY <1>0, <2>1, UnlinkWell, InsideCounts
<1>2. CASE link[prev[t]] = Link(cur[t])
  <2>1. pc'[t] = "retire" /\ Alone(t)
    BY <1>2, UnlinkWell DEF Unlink, Goto, LInv, Shapes, Progress
  <2>2. /\ cur[t] \in InList /\ cur[t] \notin InList'
        /\ \/ ~Setting(t) /\ InList' = InList \ {cur[t]}
           \/ /\ Setting(t) /\ InList' = (InList \ {cur[t]}) \cup {item[t]}
              /\ Given(t) /\ item[t] \in Items /\ item[t] \notin Seen
    BY <1>2, UnlinkTakesOut
  <2>3. Given(t) <=> Setting(t)
    <3>1. op[t] # "insert"  BY <1>0, HoldsOn DEF Holding, Marking
    <3> QED  BY <1>0, <3>1 DEF Given, Setting, Writes
  <2>4. ~Given(t)'  BY <2>1 DEF Given
  <2>5. refs[t] = {}  BY <1>0 DEF CInv
  <2>6. ASSUME NEW i \in Items
        PROVE  One(Listed(i)') = One(Listed(i)) + One(Given(t) /\ item[t] = i)
    <3>1. Leaving(i)' <=> Leaving(i) \/ i = cur[t]
      BY <1>0, <2>1 DEF Leaving, Alone
    <3>2. CASE i = cur[t]
      <4>1. Listed(i)' /\ Listed(i)  BY <2>2, <3>1, <3>2 DEF Listed
      <4>2. ~(Given(t) /\ item[t] = i)  BY <2>2, <2>3, <3>2 DEF Seen
      <4> QED  BY <4>1, <4>2 DEF One
    <3>3. CASE i # cur[t] /\ Given(t) /\ item[t] = i
      <4>1. Listed(i)' /\ ~Listed(i)  BY <2>2, <2>3, <3>3, NewIsUnlisted DEF Listed
      <4> QED  BY <3>3, <4>1 DEF One
    <3>4. CASE i # cur[t] /\ ~(Given(t) /\ item[t] = i)
      <4>1. i \in InList' <=> i \in InList  BY <2>2, <3>4
      <4>2. Listed(i)' <=> Listed(i)  BY <1>0, <3>1, <3>4, <4>1 DEF Listed
      <4> QED  BY <3>4, <4>2 DEF One
    <3> QED  BY <3>2, <3>3, <3>4
  <2>7. \A i \in Items \ fresh :
            ref'[i] + One(i \in refs[t]) + One(Given(t) /\ item[t] = i) + One(Listed(i))
               = ref[i] + One(i \in refs'[t]) + One(Given(t)' /\ item'[t] = i) + One(Listed(i)')
    <3> TAKE i \in Items \ fresh
    <3>1. ref'[i] = ref[i] /\ ref[i] \in Nat  BY <1>0 DEF CInv
    <3>2. One(i \in refs[t]) = 0 /\ One(i \in refs'[t]) = 0 /\ One(Given(t)' /\ item'[t] = i) = 0
      BY <1>0, <2>4, <2>5 DEF One
    <3>3. One(Listed(i)) \in Nat /\ One(Given(t) /\ item[t] = i) \in Nat  BY DEF One
    <3> QED  BY <2>6, <3>1, <3>2, <3>3
  <2>8. /\ refs' \in [Threads -> SUBSET Items] /\ refs'[t] = {}
        /\ \A u \in Threads \ {t} : refs'[u] = refs[u]
    BY <1>0, <2>5 DEF CInv
  <2>9. ref' \in [Items -> Nat] /\ freed' \subseteq Items /\ freed' \cap fresh = {}
      /\ \A i \in Items \ fresh : i \in freed' <=> ref'[i] = 0
    BY <1>0 DEF CInv, Counted
  <2> QED  BY <1>0, <2>1, <2>7, <2>8, <2>9, CountsFrom
<1> QED  BY <1>1, <1>2

LEMMA RetireCounts ==
  ASSUME LInv, CInv, NEW t \in Threads, Retire(t)
  PROVE  CInv'
<1> DEFINE returned == IF op[t] = "remove" \/ Setting(t) THEN {cur[t]} ELSE {}
<1>1. /\ pc[t] = "retire" /\ Return(t, "retire") /\ retired' = retired \cup {cur[t]}
      /\ refs' = [refs EXCEPT ![t] = @ \cup returned]
      /\ ref' = [i \in Items |-> IF i \in returned THEN ref[i] + 1 ELSE ref[i]]
      /\ UNCHANGED <<link, fresh, freed>>
  BY DEF Retire, Return, Goto
<1>2. pc'[t] = "idle" /\ ~Given(t)' /\ Alone(t) /\ ~Given(t)
  BY <1>1, ReturnFacts DEF Given
<1>3. cur[t] \in Items \ fresh /\ Listed(cur[t]) /\ refs[t] = {}
  BY <1>1 DEF LInv, Knows, Holds, Heap, Out, Seen, Listed, Leaving, CInv
<1> returned \subseteq {cur[t]}
  OBVIOUS
<1> HIDE DEF returned
<1>4. ASSUME NEW i \in Items  PROVE Listed(i)' <=> Listed(i)
  <2>1. InList' = InList  BY <1>1 DEF InList
  <2>2. CASE i = cur[t]
    <3>1. Listed(i)'  BY <1>1, <2>2 DEF Listed
    <3> QED  BY <1>3, <2>2, <3>1
  <2>3. CASE i # cur[t]
    <3>1. Leaving(i)' <=> Leaving(i)  BY <1>1, <1>2, <2>3 DEF Leaving, Alone
    <3> QED  BY <1>1, <2>1, <2>3, <3>1 DEF Listed
  <2> QED  BY <2>2, <2>3
<1>5. refs'[t] = returned /\ \A u \in Threads \ {t} : refs'[u] = refs[u]
  BY <1>1, <1>3 DEF CInv
<1>6. \A i \in Items : /\ One(i \in refs[t]) = 0 /\ One(Given(t)' /\ item'[t] = i) = 0
                       /\ One(Listed(i)') = One(Listed(i)) /\ One(Given(t) /\ item[t] = i) = 0
                       /\ One(i \in refs'[t]) = One(i \in returned)
  BY <1>2, <1>3, <1>4, <1>5 DEF One
<1>7. \A i \in Items \ fresh :
            ref'[i] + One(i \in refs[t]) + One(Given(t) /\ item[t] = i) + One(Listed(i))
               = ref[i] + One(i \in refs'[t]) + One(Given(t)' /\ item'[t] = i) + One(Listed(i)')
  <2> TAKE i \in Items \ fresh
  <2>1. ref[i] \in Nat /\ ref'[i] = ref[i] + One(i \in returned)  BY <1>1 DEF CInv, One
  <2>2. One(Listed(i)) \in Nat /\ One(i \in returned) \in Nat  BY DEF One
  <2> QED  BY <1>6, <2>1, <2>2
<1>8. refs' \in [Threads -> SUBSET Items] /\ refs'[t] \subseteq Items /\ refs'[t] \cap fresh = {}
  BY <1>1, <1>3, <1>5 DEF CInv
<1>9. ref' \in [Items -> Nat] /\ freed' \subseteq Items /\ freed' \cap fresh = {}
  BY <1>1 DEF CInv
<1>10. \A i \in Items \ fresh : i \in freed' <=> ref'[i] = 0
  <2> TAKE i \in Items \ fresh
  <2>1. ref[i] \in Nat /\ (i \in freed <=> ref[i] = 0) /\ (i = cur[t] => ref[i] # 0)
    BY <1>3, CountFacts
  <2>2. ref'[i] = IF i \in returned THEN ref[i] + 1 ELSE ref[i]  BY <1>1
  <2> QED  BY <1>1, <2>1, <2>2
<1> QED  BY <1>1, <1>2, <1>5, <1>7, <1>8, <1>9, <1>10, CountsFrom

LEMMA StepCounts ==
  ASSUME LInv, CInv, NEW t \in Threads, Step(t)
  PROVE  CInv'
<1>0. Progress(t)  BY StepWell
<1>1. CASE WalkMisses(t) \/ AcquireFails(t) \/ CheckMisses(t) \/ CheckRefused(t)
  BY <1>1, GiveUpCounts DEF WalkMisses, AcquireFails, CheckMisses, CheckRefused
<1>2. ASSUME UNCHANGED <<ref, freed, refs, op, item, fresh>>,
             pc[t] \notin {"idle", "retire"}, pc'[t] \notin {"idle", "retire"}
      PROVE  CInv'
  BY <1>0, <1>2, InsideCounts
<1> USE DEF Goto, memory, call, LInv, Shapes
<1>3. CASE WalkRead(t)  BY <1>2, <1>3 DEF WalkRead
<1>4. CASE WalkAppend(t)  BY <1>2, <1>4 DEF WalkAppend
<1>5. CASE CheckAgain(t)  BY <1>2, <1>5 DEF CheckAgain, Restart
<1>6. CASE CheckAdvance(t)  BY <1>2, <1>6 DEF CheckAdvance
<1>7. CASE CheckPassed(t)  BY <1>2, <1>7 DEF CheckPassed
<1>8. CASE CheckFound(t)  BY <1>2, <1>8 DEF CheckFound
<1>9. CASE MarkRead(t)  BY <1>2, <1>9 DEF MarkRead
<1>10. CASE Mark(t)  BY <1>2, <1>10 DEF Mark, Restart
<1>11. CASE Number(t)  BY <1>2, <1>11 DEF Number
<1>12. CASE Unmark(t)  BY <1>2, <1>12 DEF Unmark, Restart
<1> QED
  BY <1>1, <1>3, <1>4, <1>5, <1>6, <1>7, <1>8, <1>9, <1>10, <1>11, <1>12,
     TakeRefCounts, CasCounts, SameItemCounts, UnlinkCounts, RetireCounts DEF Step

\* A call begins: of a new item, ...
LEMMA WriteStartCounts ==
  ASSUME LInv, CInv, NEW t \in Threads, NEW what \in Writes, NEW i \in Items, WriteStart(t, what, i)
  PROVE  CInv'
<1>1. /\ Call(t, what, Key(i), i, "walk") /\ refs[t] = {} /\ i \in fresh /\ fresh' = fresh \ {i}
      /\ ref' = [ref EXCEPT ![i] = 1]
      /\ UNCHANGED <<link, retired, freed, refs, prev, cur, nxt, guards>>
  BY DEF WriteStart, walk
<1>2. /\ pc[t] = "idle" /\ pc'[t] = "walk" /\ op'[t] = what /\ item'[t] = i /\ Given(t)' /\ ~Given(t)
      /\ Alone(t)
  BY <1>1 DEF Call, Goto, LInv, Shapes, Given, Knows, Args, Writes, Alone
<1>3. \A j : Listed(j)' <=> Listed(j)
  <2>1. InList' = InList  BY <1>1 DEF InList
  <2> QED  BY <1>1, <1>2, <2>1, ListedSame
<1>4. i \notin Seen /\ i \notin freed /\ \A u \in Threads : item[u] # i /\ i \notin refs[u]
  BY <1>1 DEF LInv, Heap, CInv
<1>5. ref' \in [Items -> Nat] /\ ref'[i] = 1 /\ \A j \in Items : j # i => ref'[j] = ref[j]
  BY <1>1 DEF CInv
<1>6. ASSUME NEW j \in Items \ fresh  PROVE Counted(j)'
  <2>1. j # i  BY <1>1, <1>6
  <2>2. /\ One(Listed(j)') = One(Listed(j)) /\ One(Given(t)' /\ item'[t] = j) = 0
        /\ One(Given(t) /\ item[t] = j) = 0 /\ One(j \in refs'[t]) = One(j \in refs[t])
    BY <1>1, <1>2, <1>3, <2>1 DEF One
  <2>3. ref'[j] = ref[j] /\ ref[j] \in Nat  BY <1>5, <2>1 DEF CInv
  <2>4. One(Listed(j)) \in Nat /\ One(j \in refs[t]) \in Nat  BY DEF One
  <2>5. j \in freed' <=> ref'[j] = 0  BY <1>1, <2>3 DEF CInv, Counted
  <2> QED  BY <1>1, <1>2, <2>2, <2>3, <2>4, <2>5, CountChange
<1>7. Counted(i)'
  <2>1. Users(i)' = {}  BY <1>1, <1>4 DEF Users
  <2>2. Givers(i)' = {t}
    BY <1>2, <1>4 DEF Givers, Alone
  <2>3. ~Listed(i)'  BY <1>3, <1>4, NewIsUnlisted
  <2>4. Cardinality({}) = 0 /\ Cardinality({t}) = 1  BY FS_EmptySet, FS_Singleton
  <2>5. One(Listed(i)') = 0  BY <2>3 DEF One
  <2> QED  BY <1>1, <1>4, <1>5, <2>1, <2>2, <2>4, <2>5 DEF Counted
<1>8. \A u \in Threads : pc'[u] # "idle" => refs'[u] = {}
  BY <1>1, <1>2 DEF CInv, Alone
<1> QED  BY <1>1, <1>5, <1>6, <1>7, <1>8 DEF CInv

\* ... of one that is set again, ...
LEMMA RewriteStartCounts ==
  ASSUME LInv, CInv, NEW t \in Threads, NEW what \in Writes, NEW i \in Items, RewriteStart(t, what, i)
  PROVE  CInv'
<1>1. /\ Call(t, what, Key(i), i, "walk") /\ refs[t] = {i} /\ refs' = [refs EXCEPT ![t] = {}]
      /\ UNCHANGED <<link, ref, fresh, retired, freed, prev, cur, nxt, guards>>
  BY DEF RewriteStart, memory, walk
<1>2. /\ pc[t] = "idle" /\ pc'[t] = "walk" /\ op'[t] = what /\ item'[t] = i /\ Given(t)' /\ ~Given(t)
      /\ Alone(t)
  BY <1>1 DEF Call, Goto, LInv, Shapes, Given, Knows, Args, Writes, Alone
<1>3. \A j : Listed(j)' <=> Listed(j)
  <2>1. InList' = InList  BY <1>1 DEF InList
  <2> QED  BY <1>1, <1>2, <2>1, ListedSame
<1>4. refs'[t] = {} /\ \A u \in Threads \ {t} : refs'[u] = refs[u]
  BY <1>1 DEF CInv
<1>5. \A j \in Items : /\ One(Listed(j)') = One(Listed(j)) /\ One(Given(t) /\ item[t] = j) = 0
                       /\ One(j \in refs'[t]) = 0
                       /\ One(Given(t)' /\ item'[t] = j) = One(j \in refs[t])
  BY <1>1, <1>2, <1>3, <1>4 DEF One
<1>6. \A j \in Items \ fresh :
            ref'[j] + One(j \in refs[t]) + One(Given(t) /\ item[t] = j) + One(Listed(j))
               = ref[j] + One(j \in refs'[t]) + One(Given(t)' /\ item'[t] = j) + One(Listed(j)')
  <2> TAKE j \in Items \ fresh
  <2>1. ref'[j] = ref[j] /\ ref[j] \in Nat  BY <1>1 DEF CInv
  <2>2. One(Listed(j)) \in Nat /\ One(j \in refs[t]) \in Nat  BY DEF One
  <2> QED  BY <1>5, <2>1, <2>2
<1>7. /\ refs' \in [Threads -> SUBSET Items]
      /\ ref' \in [Items -> Nat] /\ freed' \subseteq Items /\ freed' \cap fresh = {}
      /\ \A j \in Items \ fresh : j \in freed' <=> ref'[j] = 0
  BY <1>1 DEF CInv, Counted
<1> QED  BY <1>1, <1>2, <1>4, <1>6, <1>7, CountsFrom

\* ... or of none.
LEMMA CallCounts ==
  ASSUME LInv, CInv, NEW t \in Threads,
         \/ \E i \in Items : DeleteItemStart(t, i)
         \/ \E k \in Keys, what \in {"delete_key", "remove", "find"} : KeyStart(t, what, k)
  PROVE  CInv'
<1>1. PICK what, k, i :
          /\ what \in {"delete_item", "delete_key", "remove", "find"}
          /\ Call(t, what, k, i, "walk") /\ refs[t] = {}
          /\ UNCHANGED <<link, ref, fresh, retired, freed, refs, prev, cur, nxt, guards>>
  BY DEF DeleteItemStart, KeyStart, memory, walk
<1>2. /\ pc[t] = "idle" /\ pc'[t] = "walk" /\ ~Given(t)' /\ ~Given(t) /\ Alone(t)
  BY <1>1 DEF Call, Goto, LInv, Shapes, Given, Knows, Args, Writes, Alone
<1>3. \A j : Listed(j)' <=> Listed(j)
  <2>1. InList' = InList  BY <1>1 DEF InList
  <2> QED  BY <1>1, <1>2, <2>1, ListedSame
<1>4. \A j \in Items : /\ One(Listed(j)') = One(Listed(j)) /\ One(Given(t) /\ item[t] = j) = 0
                       /\ One(j \in refs'[t]) = 0 /\ One(j \in refs[t]) = 0
                       /\ One(Given(t)' /\ item'[t] = j) = 0
  BY <1>1, <1>2, <1>3 DEF One
<1>5. \A j \in Items \ fresh :
            ref'[j] + One(j \in refs[t]) + One(Given(t) /\ item[t] = j) + One(Listed(j))
               = ref[j] + One(j \in refs'[t]) + One(Given(t)' /\ item'[t] = j) + One(Listed(j)')
  <2> TAKE j \in Items \ fresh
  <2>1. ref'[j] = ref[j] /\ ref[j] \in Nat  BY <1>1 DEF CInv
  <2>2. One(Listed(j)) \in Nat  BY DEF One
  <2> QED  BY <1>4, <2>1, <2>2
<1>6. /\ refs' \in [Threads -> SUBSET Items]
      /\ ref' \in [Items -> Nat] /\ freed' \subseteq Items /\ freed' \cap fresh = {}
      /\ \A j \in Items \ fresh : j \in freed' <=> ref'[j] = 0
  BY <1>1 DEF CInv, Counted
<1> QED  BY <1>1, <1>2, <1>5, <1>6, CountsFrom

-----------------------------------------------------------------------------
(* Steps outside the calls *)

LEMMA ReleaseCounts ==
  ASSUME LInv, CInv, NEW t \in Threads, NodeRelease(t) \/ GetAll(t)
  PROVE  CInv'
<1>1. /\ pc[t] = "idle" /\ UNCHANGED <<link, fresh, retired, pc, op, key, item, prev, cur, nxt, guards>>
  BY DEF NodeRelease, GetAll, call, walk
<1>2. Alone(t) /\ ~Given(t) /\ ~Given(t)'
  BY <1>1 DEF Alone, Given, LInv, Knows, Args, Writes
<1>3. \A i : Listed(i)' <=> Listed(i)
  <2>1. InList' = InList  BY <1>1 DEF InList
  <2> QED  BY <1>1, <1>2, <2>1, ListedSame
<1>4. \A i \in Items : /\ One(Listed(i)') = One(Listed(i)) /\ One(Given(t) /\ item[t] = i) = 0
                       /\ One(Given(t)' /\ item'[t] = i) = 0
  BY <1>2, <1>3 DEF One
<1>5. CASE NodeRelease(t)
  <2>1. /\ refs' = [refs EXCEPT ![t] = {}]
        /\ ref' = [i \in Items |-> IF i \in refs[t] THEN ref[i] - 1 ELSE ref[i]]
        /\ freed' = freed \cup {i \in refs[t] : ref[i] = 1}
    BY <1>5 DEF NodeRelease, DropRef
  <2>2. \A i \in Items \ fresh : i \in refs[t] => ref[i] \in Nat \ {0} /\ i \notin freed
    BY CountFacts
  <2>3. refs[t] \subseteq Items \ fresh  BY DEF CInv
  <2>4. \A i \in Items : ref'[i] = IF i \in refs[t] THEN ref[i] - 1 ELSE ref[i]
    BY <2>1
  <2>5. ref' \in [Items -> Nat]
    BY <2>1, <2>2, <2>3 DEF CInv
  <2>6. \A i \in Items \ fresh : i \in freed' <=> ref'[i] = 0
    <3> TAKE i \in Items \ fresh
    <3>1. ref[i] \in Nat /\ (i \in freed <=> ref[i] = 0)  BY CountFacts
    <3> QED  BY <2>1, <2>2, <3>1
  <2>7. \A i \in Items \ fresh :
            ref'[i] + One(i \in refs[t]) + One(Given(t) /\ item[t] = i) + One(Listed(i))
               = ref[i] + One(i \in refs'[t]) + One(Given(t)' /\ item'[t] = i) + One(Listed(i)')
    <3> TAKE i \in Items \ fresh
    <3>1. One(i \in refs'[t]) = 0 /\ One(Listed(i)) \in Nat /\ ref[i] \in Nat
      BY <2>1 DEF One, CInv
    <3>2. ref'[i] + One(i \in refs[t]) = ref[i]
      BY <2>2, <2>4, <3>1 DEF One
    <3>3. One(i \in refs[t]) \in Nat /\ ref'[i] \in Nat  BY <2>5 DEF One
    <3> QED  BY <1>4, <3>1, <3>2, <3>3
  <2>8. /\ refs' \in [Threads -> SUBSET Items] /\ refs'[t] = {}
        /\ \A u \in Threads \ {t} : refs'[u] = refs[u]
        /\ freed' \subseteq Items /\ freed' \cap fresh = {}
    BY <2>1, <2>3 DEF CInv
  <2> QED  BY <1>1, <1>2, <2>5, <2>6, <2>7, <2>8, CountsFrom
<1>6. CASE GetAll(t)
  <2>1. /\ refs[t] = {} /\ refs' = [refs EXCEPT ![t] = InList] /\ freed' = freed
        /\ ref' = [i \in Items |-> IF i \in InList THEN ref[i] + 1 ELSE ref[i]]
    BY <1>6 DEF GetAll
  <2>2. InList \subseteq Items \ fresh
    BY DEF LInv, Heap, Sorted, Seen
  <2>3. \A i \in InList : ref[i] \in Nat \ {0} /\ i \notin freed
    BY <2>2, CountFacts DEF Listed
  <2>4. \A i \in Items : ref'[i] = IF i \in InList THEN ref[i] + 1 ELSE ref[i]
    BY <2>1
  <2>5. ref' \in [Items -> Nat]
    BY <2>1 DEF CInv
  <2>6. \A i \in Items \ fresh : i \in freed' <=> ref'[i] = 0
    <3> TAKE i \in Items \ fresh
    <3>1. ref[i] \in Nat /\ (i \in freed <=> ref[i] = 0)  BY CountFacts
    <3> QED  BY <2>1, <2>3, <2>4, <3>1
  <2>7. /\ refs' \in [Threads -> SUBSET Items] /\ refs'[t] = InList
        /\ \A u \in Threads \ {t} : refs'[u] = refs[u]
    BY <2>1, <2>2 DEF CInv
  <2>8. \A i \in Items \ fresh :
            ref'[i] + One(i \in refs[t]) + One(Given(t) /\ item[t] = i) + One(Listed(i))
               = ref[i] + One(i \in refs'[t]) + One(Given(t)' /\ item'[t] = i) + One(Listed(i)')
    <3> TAKE i \in Items \ fresh
    <3>1. One(i \in refs[t]) = 0 /\ One(Listed(i)) \in Nat /\ ref[i] \in Nat
      BY <2>1 DEF One, CInv
    <3>2. ref'[i] = ref[i] + One(i \in refs'[t])
      BY <2>4, <2>7, <3>1 DEF One
    <3>3. One(i \in refs'[t]) \in Nat  BY DEF One
    <3> QED  BY <1>4, <3>1, <3>2, <3>3
  <2>9. freed' \subseteq Items /\ freed' \cap fresh = {} /\ refs'[t] \cap fresh = {} /\ refs'[t] \subseteq Items
    BY <2>1, <2>2, <2>7 DEF CInv
  <2> QED  BY <1>1, <1>2, <2>5, <2>6, <2>7, <2>8, <2>9, CountsFrom
<1> QED  BY <1>5, <1>6

\* The reference of the list is dropped, for some items that have it.
LEMMA DropCounts ==
  ASSUME LInv, CInv, NEW S \in SUBSET Items, DropRef(S), \A i \in S : Listed(i) /\ i \notin fresh,
         UNCHANGED <<fresh, refs, pc, op, item>>,
         \A i \in Items : Listed(i)' <=> Listed(i) /\ i \notin S
  PROVE  CInv'
<1>1. /\ ref' = [i \in Items |-> IF i \in S THEN ref[i] - 1 ELSE ref[i]]
      /\ freed' = freed \cup {i \in S : ref[i] = 1}
  BY DEF DropRef
<1>2. \A i \in S : ref[i] \in Nat \ {0} /\ i \notin freed
  BY CountFacts
<1>3. ref' \in [Items -> Nat] /\ freed' \subseteq Items /\ refs' \in [Threads -> SUBSET Items]
  BY <1>1, <1>2 DEF CInv
<1>4. ASSUME NEW i \in Items \ fresh  PROVE Counted(i)'
  <2>1. Users(i)' = Users(i) /\ Givers(i)' = Givers(i)
    BY DEF Users, Givers, Given
  <2>2. /\ ref[i] \in Nat /\ (i \in freed <=> ref[i] = 0)
        /\ ref[i] = Cardinality(Users(i)) + Cardinality(Givers(i)) + One(Listed(i))
    BY DEF CInv, Counted
  <2>3. Cardinality(Users(i)) \in Nat /\ Cardinality(Givers(i)) \in Nat
    <3>1. Users(i) \subseteq Threads /\ Givers(i) \subseteq Threads  BY DEF Users, Givers
    <3> QED  BY <3>1, ThreadsAreFinite, FS_Subset, FS_CardinalityType
  <2>4. CASE i \in S
    <3>1. One(Listed(i)) = 1 /\ One(Listed(i)') = 0  BY <2>4 DEF One
    <3>2. ref'[i] = ref[i] - 1 /\ (i \in freed' <=> ref[i] = 1)  BY <1>1, <1>2, <2>4
    <3>3. ref'[i] = Cardinality(Users(i)) + Cardinality(Givers(i)) + One(Listed(i)')
      BY <2>2, <2>3, <3>1, <3>2
    <3>4. i \in freed' <=> ref'[i] = 0  BY <2>2, <3>2
    <3> QED  BY <2>1, <3>3, <3>4 DEF Counted
  <2>5. CASE i \notin S
    <3>1. One(Listed(i)) = One(Listed(i)')  BY <2>5 DEF One
    <3>2. ref'[i] = ref[i] /\ (i \in freed' <=> i \in freed)  BY <1>1, <2>5
    <3> QED  BY <2>1, <2>2, <3>1, <3>2 DEF Counted
  <2> QED  BY <2>4, <2>5
<1>5. \A i \in fresh' : i \notin freed' /\ \A t \in Threads : i \notin refs'[t]
  BY <1>1 DEF CInv
<1> QED  BY <1>3, <1>4, <1>5 DEF CInv

LEMMA ReclaimCounts ==
  ASSUME LInv, CInv, NEW i \in Items, ReclaimNode(i)
  PROVE  CInv'
<1>1. /\ i \in retired /\ retired' = retired \ {i} /\ DropRef({i})
      /\ UNCHANGED <<link, fresh, refs, pc, op, item, cur>>
  BY DEF ReclaimNode, call, walk
<1>2. Listed(i) /\ i \notin fresh /\ i \notin InList /\ ~Leaving(i)
  BY <1>1 DEF LInv, Heap, Knows, Holds, Listed, Leaving, Out, Seen
<1>3. \A j \in Items : Listed(j)' <=> Listed(j) /\ j \notin {i}
  <2>1. InList' = InList  BY <1>1 DEF InList
  <2>2. \A j : Leaving(j)' <=> Leaving(j)  BY <1>1 DEF Leaving
  <2> QED  BY <1>1, <1>2, <2>1, <2>2 DEF Listed
<1> QED  BY <1>1, <1>2, <1>3, DropCounts

LEMMA DestroyCounts ==
  ASSUME LInv, CInv, Destroy
  PROVE  CInv'
<1>1. /\ DropRef(InList) /\ \A t \in Threads : pc[t] = "idle"
      /\ UNCHANGED <<fresh, retired, refs, pc, op, item, cur>>
  BY DEF Destroy, call, walk
<1>2. InList' = {}
  <2>1. Heap' /\ destroyed'  BY DestroyWell DEF LInv, Destroy
  <2> QED  BY <2>1 DEF Heap
<1>3. InList \in SUBSET Items /\ \A i \in InList : Listed(i) /\ i \notin fresh /\ i \notin retired
  BY DEF LInv, Heap, Sorted, Listed, Seen, Out
<1>4. \A i : ~Leaving(i) /\ ~Leaving(i)'
  BY <1>1 DEF Leaving
<1>5. \A i \in Items : Listed(i)' <=> Listed(i) /\ i \notin InList
  BY <1>1, <1>2, <1>3, <1>4 DEF Listed
<1> QED  BY <1>1, <1>3, <1>5, DropCounts

-----------------------------------------------------------------------------
(* Theorem *)

LEMMA InitCInv == Init => CInv
<1> SUFFICES ASSUME Init  PROVE CInv
  OBVIOUS
<1>1. LInv  BY InitLInv
<1>2. /\ ref = [i \in Items |-> IF i \in Loaded THEN 1 ELSE 0]
      /\ fresh = Items \ Loaded /\ retired = {} /\ freed = {}
      /\ refs = [t \in Threads |-> {}]
      /\ \A t \in Threads : pc[t] = "idle" /\ op[t] = "none"
  BY DEF Init
<1>3. ASSUME NEW i \in Items \ fresh  PROVE Counted(i)
  <2>1. i \in Loaded  BY <1>2, <1>3
  <2>2. Users(i) = {} /\ Givers(i) = {}
    BY <1>2 DEF Users, Givers, Given, Writes
  <2>3. i \in InList
    <3>1. Sorted(link, Loaded)
      <4>1. \A p \in Loaded \cup {HEAD} : link[p].ptr = Following(p)
        BY LinkFacts, SortedListAssumption DEF Init
      <4> QED  BY <4>1, FollowingFacts, SortedListAssumption DEF Sorted
    <3>2. Reached(link) = Loaded  BY <3>1, SortedIsReached
    <3> QED  BY <2>1, <3>2 DEF InList, Reached
  <2>4. One(Listed(i)) = 1  BY <2>3 DEF Listed, One
  <2> QED  BY <1>2, <2>1, <2>2, <2>4, FS_EmptySet DEF Counted
<1> QED  BY <1>2, <1>3, SortedListAssumption DEF CInv

LEMMA NextCInv == LInv /\ CInv /\ [Next]_vars => CInv'
<1> SUFFICES ASSUME LInv, CInv, [Next]_vars  PROVE CInv'
  OBVIOUS
<1>1. CASE UNCHANGED vars
  <2>1. InList' = InList /\ UNCHANGED <<pc, op, item, cur, retired>>
    BY <1>1 DEF InList, vars, memory, call, walk
  <2>2. \A i : (Listed(i)' <=> Listed(i)) /\ Users(i)' = Users(i) /\ Givers(i)' = Givers(i)
    BY <1>1, <2>1 DEF Listed, Leaving, Users, Givers, Given, vars
  <2>3. \A i : Counted(i)' <=> Counted(i)
    BY <1>1, <2>2 DEF Counted, One, vars, memory
  <2> QED  BY <1>1, <2>3 DEF CInv, vars, memory
<1> QED
  BY <1>1, StepCounts, ReleaseCounts, CallCounts, WriteStartCounts, RewriteStartCounts,
     ReclaimCounts, DestroyCounts, NextCases DEF Begins

\* While nobody inserts an item again: no call touches an item that was freed or that no
\* client has made yet, and each reference count is the number of references there are,
\* which the list, the calls and the clients hand to each other.
THEOREM MemoryIsSafe == ~Reinsert => (Spec => []MemorySafe)
<1> SUFFICES ASSUME ~Reinsert  PROVE Spec => []MemorySafe
  OBVIOUS
<1>1. ASSUME LInv, CInv  PROVE MemorySafe
  <2>1. ASSUME NEW t \in Threads, NEW i \in Items,
               \/ pc[t] \in {"walk", "check", "cas", "unlink"} /\ i = prev[t]
               \/ pc[t] = "cas" /\ i = item[t]
               \/ pc[t] \notin {"idle", "walk", "check", "cas", "retire"} /\ i = cur[t]
        PROVE  i \notin freed /\ i \notin fresh
    <3>1. Args(t) /\ Stands(t) /\ pc[t] \in PCs
      BY <1>1 DEF LInv, Knows, Shapes
    <3>2. \A j \in fresh : j \notin Seen /\ j # item[t]
      BY <1>1 DEF LInv, Heap
    <3>3. CASE pc[t] \in {"walk", "check", "cas", "unlink"} /\ i = prev[t]
      <4>1. i # HEAD  BY Constants
      <4>2. i \in Seen /\ Listed(i)
        BY <1>1, <3>1, <3>3, <4>1 DEF Stands
      <4> QED  BY <1>1, <3>2, <4>2, CountFacts
    <3>4. CASE pc[t] = "cas" /\ i = item[t]
      <4>1. Given(t)  BY <3>1, <3>4 DEF Args, Given, Writes
      <4> QED  BY <1>1, <3>2, <3>4, <4>1, CountFacts
    <3>5. CASE pc[t] \notin {"idle", "walk", "check", "cas", "retire"} /\ i = cur[t]
      <4>1. pc[t] \in {"take_ref"} \cup Holding
        BY <3>1, <3>5 DEF PCs, Holding, Marking
      <4>2. i \in Seen /\ Listed(i)
        BY <3>1, <3>5, <4>1 DEF Stands
      <4> QED  BY <1>1, <3>2, <4>2, CountFacts
    <3> QED  BY <2>1, <3>3, <3>4, <3>5
  <2>2. ASSUME NEW t \in Threads
        PROVE  (CASE pc[t] \in {"walk", "check"} -> {prev[t]}
                  [] pc[t] = "cas" -> {prev[t], item[t]}
                  [] pc[t] = "unlink" -> {prev[t], cur[t]}
                  [] pc[t] \in {"idle", "retire"} -> {}
                  [] OTHER -> {cur[t]}) \cap (freed \cup fresh) = {}
    <3>1. freed \cup fresh \subseteq Items  BY <1>1 DEF LInv, Shapes, CInv
    <3>2. pc[t] \in PCs  BY <1>1 DEF LInv, Shapes
    <3> QED  BY <2>1, <3>1, <3>2 DEF PCs
  <2>3. ASSUME NEW i \in Items \ fresh
        PROVE  /\ ref[i] = Cardinality({t \in Threads : i \in refs[t]})
                           + Cardinality({t \in Threads : op[t] \in Writes /\ item[t] = i /\ pc[t] # "retire"})
                           + (IF \/ i \in InList \cup retired
                                 \/ \E t \in Threads : pc[t] = "retire" /\ cur[t] = i
                              THEN 1 ELSE 0)
               /\ i \in freed <=> ref[i] = 0
    <3>1. Givers(i) = {t \in Threads : op[t] \in Writes /\ item[t] = i /\ pc[t] # "retire"}
      BY DEF Givers, Given
    <3>2. Listed(i) <=> i \in InList \cup retired \/ \E t \in Threads : pc[t] = "retire" /\ cur[t] = i
      BY DEF Listed, Leaving
    <3> QED  BY <1>1, <3>1, <3>2 DEF CInv, Counted, Users, One
  <2> QED  BY <2>2, <2>3 DEF MemorySafe
<1>2. LInv /\ [Next]_vars => LInv'
  BY NextLInv
<1> QED  BY InitLInv, InitCInv, NextCInv, <1>1, <1>2, PTL DEF Spec

-----------------------------------------------------------------------------
(* The number an item was put in with *)

\* No call that is still to use its number finds it on an item; what is about to be taken
\* out was put in with a lower one.
Earlier(t) ==
    /\ num[t] # 0 /\ pc[t] # "retire" => \A i \in Items : born[i] # num[t]
    /\ op[t] \in Writes => num[t] # 0
    /\ pc[t] \in {"same", "unlink"} => num[t] > born[cur[t]]

BInv ==
    /\ born \in [Items -> Nat] /\ seqNo <= MaxSeq
    /\ \A i \in Items : born[i] <= seqNo
    /\ \A t \in Threads : Earlier(t)

\* A step leaves the numbers of the other calls, and the counter does not go back.
LEMMA OthersNumbers ==
  ASSUME NInv, NEW t \in Threads, Keeps(t) \/ Tells(t) \/ Draws(t)
  PROVE  /\ seqNo \in Nat /\ seqNo' \in Nat /\ seqNo <= seqNo'
         /\ \A u \in Threads \ {t} : num'[u] = num[u] /\ num[u] \in Nat
         /\ num[t] \in Nat /\ num[t] <= seqNo
BY DEF NInv, Drawn, Keeps, Tells, Draws

\* A step that puts nothing in and takes nothing out.
LEMMA BornKept ==
  ASSUME NInv, BInv, NEW t \in Threads, Alone(t), Keeps(t) \/ Tells(t) \/ Draws(t),
         born' = born, seqNo' <= MaxSeq, Earlier(t)'
  PROVE  BInv'
<1>1. /\ seqNo \in Nat /\ seqNo' \in Nat /\ seqNo <= seqNo'
      /\ \A u \in Threads \ {t} : num'[u] = num[u]
  BY OthersNumbers
<1>2. \A i \in Items : born'[i] <= seqNo'
  BY <1>1 DEF BInv
<1>3. ASSUME NEW u \in Threads \ {t}  PROVE Earlier(u)'
  BY <1>1, <1>3 DEF BInv, Earlier, Alone
<1> QED  BY <1>2, <1>3 DEF BInv

\* The number is kept, and the call is not yet where it takes out.
LEMMA BornWaits ==
  ASSUME NInv, BInv, NEW t \in Threads, Alone(t), Keeps(t) \/ Tells(t) \/ Draws(t),
         UNCHANGED <<born, seqNo, num, op>>, pc[t] # "retire", pc'[t] \notin {"same", "unlink"}
  PROVE  BInv'
<1>1. Earlier(t)'  BY DEF BInv, Earlier
<1> QED  BY <1>1, BornKept DEF BInv

\* It is given up.
LEMMA BornDone ==
  ASSUME NInv, BInv, NEW t \in Threads, Alone(t), Keeps(t) \/ Tells(t) \/ Draws(t),
         UNCHANGED <<born, seqNo>>, num'[t] = 0, op'[t] \notin Writes,
         pc'[t] \notin {"same", "unlink"}
  PROVE  BInv'
<1>1. Earlier(t)'  BY DEF Earlier
<1> QED  BY <1>1, BornKept DEF BInv

\* It is new.
LEMMA BornDraws ==
  ASSUME NInv, BInv, NEW t \in Threads, Alone(t), Draws(t), UNCHANGED born, seqNo' <= MaxSeq,
         pc'[t] \in {"same", "unlink"} => cur'[t] \in Items
  PROVE  BInv'
<1>1. num'[t] = seqNo + 1 /\ seqNo \in Nat
  BY DEF NInv, Drawn, Draws
<1>2. \A i \in Items : born'[i] \in Nat /\ born'[i] < num'[t]
  BY <1>1 DEF BInv
<1>3. Earlier(t)'
  BY <1>1, <1>2 DEF Earlier
<1> QED  BY <1>3, BornKept

\* It goes to an item, from which the other calls that take out stand apart.
LEMMA BornPut ==
  ASSUME NInv, BInv, NEW t \in Threads, Alone(t), Keeps(t) \/ Tells(t) \/ Draws(t),
         UNCHANGED seqNo, born' \in [Items -> Nat],
         \A i \in Items : born'[i] \in {born[i], 0, num[t]},
         num[t] # 0, pc[t] # "retire",
         \A u \in Threads \ {t} : pc[u] \in {"same", "unlink"} => born'[cur[u]] = born[cur[u]],
         Earlier(t)'
  PROVE  BInv'
<1>1. /\ seqNo \in Nat /\ num[t] <= seqNo /\ num[t] \in Nat
      /\ \A u \in Threads \ {t} : num'[u] = num[u]
  BY OthersNumbers
<1>2. \A i \in Items : born'[i] <= seqNo'
  BY <1>1 DEF BInv
<1>3. ASSUME NEW u \in Threads \ {t}  PROVE Earlier(u)'
  <2>1. num[u] # 0 => num[u] # num[t]
    BY DEF NInv, ToldOnce
  <2>2. Earlier(u)  BY DEF BInv
  <2>3. /\ pc'[u] = pc[u] /\ op'[u] = op[u] /\ cur'[u] = cur[u] /\ num'[u] = num[u]
    BY <1>1 DEF Alone
  <2>4. num[u] # 0 /\ pc[u] # "retire" => \A i \in Items : born'[i] # num[u]
    BY <2>1, <2>2 DEF Earlier
  <2> QED  BY <2>2, <2>3, <2>4 DEF Earlier
<1> QED  BY <1>2, <1>3 DEF BInv

LEMMA NumberBorn ==
  ASSUME NInv, LInv, BInv, NEW t \in Threads, Number(t)
  PROVE  BInv'
<1>1. Alone(t) /\ (Keeps(t) \/ Tells(t) \/ Draws(t))
  BY StepWell, StepNumbers DEF Step, Progress
<1>2. /\ pc[t] = "number" /\ pc'[t] \in {"same", "unlink"}
      /\ UNCHANGED <<born, op, cur>>
  BY DEF Number, Goto, LInv, Shapes, call, walk
<1>3. cur[t] \in Items /\ op[t] # "find"
  <2>1. pc[t] \in Holding  BY <1>2 DEF Holding, Marking
  <2> QED  BY <2>1, HoldsOn DEF Alters, Takes
<1>4. CASE Setting(t) /\ seqNo = num[t]
  <2>1. UNCHANGED <<seqNo, num>>  BY <1>4 DEF Number
  <2>2. num[t] # 0 /\ born[cur[t]] # num[t] /\ born[cur[t]] <= seqNo /\ born[cur[t]] \in Nat
    BY <1>2, <1>3, <1>4 DEF BInv, Earlier, Setting, Writes
  <2>3. Earlier(t)'
    BY <1>2, <1>4, <2>1, <2>2 DEF BInv, Earlier, NInv, Drawn
  <2> QED  BY <1>1, <1>2, <2>1, <2>3, BornKept DEF BInv
<1>5. CASE ~(Setting(t) /\ seqNo = num[t])
  <2>1. Draw(t, {num[t]})  BY <1>5 DEF Number
  <2>2. seqNo' <= MaxSeq
    BY <2>1, SortedListAssumption DEF Draw, NInv, Drawn
  <2>3. Moves(t, Busy)
    BY <1>2, <1>3, StaysInCall DEF Number, Goto, Busy, PCs, Fits, TakesRef
  <2>4. Draws(t)
    BY <1>2, <1>3, <2>1, <2>3 DEF Draw, Draws
  <2> QED  BY <1>1, <1>2, <1>3, <2>2, <2>4, BornDraws
<1> QED  BY <1>4, <1>5

LEMMA CasBorn ==
  ASSUME NInv, LInv, BInv, NEW t \in Threads, Cas(t)
  PROVE  BInv'
<1>1. Alone(t) /\ (Keeps(t) \/ Tells(t) \/ Draws(t))
  BY StepWell, StepNumbers DEF Step, Progress
<1>2. CASE link[prev[t]] # Link(cur[t])
  <2>1. UNCHANGED <<born, seqNo, num, op>> /\ pc[t] = "cas" /\ pc'[t] = "walk"
    BY <1>2 DEF Cas, Restart, call, LInv, Shapes
  <2> QED  BY <1>1, <2>1, BornWaits
<1>3. CASE link[prev[t]] = Link(cur[t])
  <2>1. /\ pc[t] = "cas" /\ UNCHANGED seqNo
        /\ link' = [link EXCEPT ![prev[t]] = Link(item[t])]
        /\ born' = [born EXCEPT ![item[t]] = num[t]]
        /\ num' = [num EXCEPT ![t] = 0] /\ op' = [op EXCEPT ![t] = "none"]
        /\ pc' = [pc EXCEPT ![t] = "idle"]
    BY <1>3 DEF Cas, Return, Goto
  <2>2. item[t] \in Items /\ item[t] \notin Seen /\ op[t] \in Writes
    BY <1>3, <2>1, CasInserts DEF Given
  <2>3. num[t] # 0 /\ num[t] \in Nat
    BY <2>2 DEF BInv, Earlier, NInv, Drawn
  <2>4. Earlier(t)'
    BY <2>1 DEF Earlier, NInv, Drawn, Writes, LInv, Shapes
  <2>5. ASSUME NEW u \in Threads \ {t}, pc[u] \in {"same", "unlink"}
        PROVE  born'[cur[u]] = born[cur[u]]
    <3>1. cur[u] \in Seen  BY <2>5 DEF LInv, Knows, Holds, Marking, Seen
    <3> QED  BY <2>1, <2>2, <3>1 DEF BInv
  <2>6. born' \in [Items -> Nat] /\ \A i \in Items : born'[i] \in {born[i], 0, num[t]}
    BY <2>1, <2>2, <2>3 DEF BInv
  <2> QED  BY <1>1, <2>1, <2>3, <2>4, <2>5, <2>6, BornPut
<1> QED  BY <1>2, <1>3

LEMMA SameItemBorn ==
  ASSUME NInv, LInv, BInv, NEW t \in Threads, SameItem(t)
  PROVE  BInv'
<1>1. Alone(t) /\ (Keeps(t) \/ Tells(t) \/ Draws(t))
  BY StepWell, StepNumbers DEF Step, Progress
<1>2. /\ pc[t] = "same" /\ UNCHANGED seqNo
      /\ born' = [born EXCEPT ![cur[t]] = num[t]]
      /\ num' = [num EXCEPT ![t] = 0] /\ op' = [op EXCEPT ![t] = "none"]
      /\ pc' = [pc EXCEPT ![t] = "idle"]
  BY DEF SameItem, Return, Goto
<1>3. op[t] \in Writes /\ cur[t] \in Items
  <2>1. pc[t] \in Holding /\ Holds(t)  BY <1>2 DEF Holding, Marking, LInv, Knows
  <2> QED  BY <1>2, <2>1, HoldsOn DEF Holds, Setting, Writes
<1>4. num[t] # 0 /\ num[t] \in Nat
  BY <1>3 DEF BInv, Earlier, NInv, Drawn
<1>5. Earlier(t)'
  BY <1>2 DEF Earlier, NInv, Drawn, Writes, LInv, Shapes
<1>6. ASSUME NEW u \in Threads \ {t}, pc[u] \in {"same", "unlink"}
      PROVE  born'[cur[u]] = born[cur[u]]
  <2>1. cur[u] # cur[t]  BY <1>2, <1>6 DEF LInv, Apart, Marking
  <2> QED  BY <1>2, <1>3, <2>1 DEF BInv
<1>7. born' \in [Items -> Nat] /\ \A i \in Items : born'[i] \in {born[i], 0, num[t]}
  BY <1>2, <1>3, <1>4 DEF BInv
<1> QED  BY <1>1, <1>2, <1>4, <1>5, <1>6, <1>7, BornPut

LEMMA UnlinkBorn ==
  ASSUME NInv, LInv, BInv, NEW t \in Threads, Unlink(t)
  PROVE  BInv'
<1>1. Alone(t) /\ (Keeps(t) \/ Tells(t) \/ Draws(t))
  BY StepWell, StepNumbers DEF Step, Progress
<1>2. CASE link[prev[t]] # Link(cur[t])
  <2>1. UNCHANGED <<born, seqNo, num, op>> /\ pc[t] = "unlink" /\ pc'[t] = "unmark"
    BY <1>2 DEF Unlink, Goto, LInv, Shapes
  <2> QED  BY <1>1, <2>1, BornWaits
<1>3. CASE link[prev[t]] = Link(cur[t])
  <2>1. /\ pc[t] = "unlink" /\ pc'[t] = "retire" /\ UNCHANGED <<seqNo, num, op>>
        /\ born' = [i \in Items |-> CASE i = cur[t] -> 0
                                      [] Setting(t) /\ i = item[t] -> num[t]
                                      [] OTHER -> born[i]]
    BY <1>3 DEF Unlink, Goto, LInv, Shapes
  <2>2. num[t] > born[cur[t]] /\ num[t] \in Nat /\ cur[t] \in Items
    <3>1. pc[t] \in Holding  BY <2>1 DEF Holding, Marking
    <3> QED  BY <2>1, <3>1, HoldsOn DEF BInv, Earlier, NInv, Drawn
  <2>3. num[t] # 0
    BY <2>2 DEF BInv
  <2>4. Earlier(t)'
    BY <2>1, <2>3 DEF Earlier, BInv
  <2>5. Setting(t) => item[t] \notin Seen
    <3>1. Owns(t) /\ Holds(t)  BY DEF LInv, Knows
    <3> QED  BY <2>1, <3>1 DEF Owns, Holds, Given, Setting, Writes, Holding, Marking
  <2>6. ASSUME NEW u \in Threads \ {t}, pc[u] \in {"same", "unlink"}
        PROVE  born'[cur[u]] = born[cur[u]]
    <3>1. cur[u] # cur[t]  BY <2>1, <2>6 DEF LInv, Apart, Marking
    <3>2. cur[u] \in Seen /\ cur[u] \in Items
      BY <2>6, HoldsOn DEF Holding, Marking
    <3> QED  BY <2>1, <2>5, <3>1, <3>2
  <2>7. \A i \in Items : born'[i] \in {born[i], 0, num[t]}
    BY <2>1
  <2>8. born' \in [Items -> Nat]
    BY <2>1, <2>2 DEF BInv
  <2> QED  BY <1>1, <2>1, <2>3, <2>4, <2>6, <2>7, <2>8, BornPut
<1> QED  BY <1>2, <1>3

LEMMA StepBorn ==
  ASSUME NInv, LInv, BInv, NEW t \in Threads, Step(t)
  PROVE  BInv'
<1>1. Alone(t) /\ (Keeps(t) \/ Tells(t) \/ Draws(t))
  BY StepWell, StepNumbers DEF Progress
<1>2. pc \in [Threads -> PCs] /\ op \in [Threads -> Ops] /\ num \in [Threads -> Nat]
  BY DEF LInv, Shapes, NInv, Drawn
<1>3. ASSUME NEW from, GiveUp(t, from)  PROVE BInv'
  <2>1. UNCHANGED <<born, seqNo>> /\ num'[t] = 0 /\ op'[t] = "none" /\ pc'[t] = "idle"
    BY <1>2, <1>3 DEF GiveUp, Return, Goto
  <2> QED  BY <1>1, <2>1, BornDone DEF Writes
<1>4. ASSUME UNCHANGED <<numbers, num, op>>, pc[t] # "retire", pc'[t] \notin {"same", "unlink"}
      PROVE  BInv'
  BY <1>1, <1>4, BornWaits DEF numbers
<1>5. CASE WalkRead(t) \/ WalkAppend(t)
  BY <1>2, <1>4, <1>5 DEF WalkRead, WalkAppend, Goto, call
<1>6. CASE CheckAgain(t) \/ CheckAdvance(t)
  BY <1>2, <1>4, <1>6 DEF CheckAgain, CheckAdvance, Restart, Goto, call
<1>7. CASE CheckPassed(t) \/ CheckFound(t)
  BY <1>2, <1>4, <1>7 DEF CheckPassed, CheckFound, Goto, call
<1>8. CASE MarkRead(t) \/ Mark(t)
  BY <1>2, <1>4, <1>8 DEF MarkRead, Mark, Restart, Goto, call
<1>9. CASE WalkMisses(t) \/ AcquireFails(t) \/ CheckMisses(t) \/ CheckRefused(t)
  BY <1>3, <1>9 DEF WalkMisses, AcquireFails, CheckMisses, CheckRefused
<1>10. CASE TakeRef(t) \/ Retire(t)
  <2>1. UNCHANGED <<born, seqNo>> /\ num'[t] = 0 /\ op'[t] = "none" /\ pc'[t] = "idle"
    BY <1>2, <1>10 DEF TakeRef, Retire, Return, Goto, numbers
  <2> QED  BY <1>1, <2>1, BornDone DEF Writes
<1>11. CASE Unmark(t) /\ Setting(t)
  <2>1. UNCHANGED <<born, seqNo, num, op>> /\ pc[t] = "unmark" /\ pc'[t] = "walk"
    BY <1>2, <1>11 DEF Unmark, Restart, call
  <2> QED  BY <1>1, <2>1, BornWaits
<1>12. CASE Unmark(t) /\ ~Setting(t)
  <2>1. /\ UNCHANGED <<born, seqNo, op>> /\ num'[t] = 0 /\ pc[t] = "unmark" /\ pc'[t] = "walk"
    BY <1>2, <1>12 DEF Unmark, Restart, call
  <2>2. pc[t] \in Holding  BY <2>1 DEF Holding, Marking
  <2>3. op[t] \notin Writes
    BY <1>12, <2>2, HoldsOn DEF Setting, Writes
  <2> QED  BY <1>1, <2>1, <2>3, BornDone
<1> QED
  BY <1>5, <1>6, <1>7, <1>8, <1>9, <1>10, <1>11, <1>12,
     NumberBorn, CasBorn, SameItemBorn, UnlinkBorn DEF Step

LEMMA BeginBorn ==
  ASSUME NInv, LInv, BInv, ~Reinsert, NEW t \in Threads, Begins(t)
  PROVE  BInv'
<1>1. Alone(t)  BY BeginsWell DEF Progress
<1>2. pc \in [Threads -> PCs] /\ op \in [Threads -> Ops]
  BY DEF LInv, Shapes
<1>3. ASSUME NEW i \in Items, NEW what \in Writes, WriteStart(t, what, i) \/ RewriteStart(t, what, i)
      PROVE  BInv'
  <2>1. Draws(t)  BY <1>3, BeginDraws
  <2>2. UNCHANGED born /\ seqNo' <= MaxSeq
    BY <1>3, SortedListAssumption DEF WriteStart, RewriteStart, Draw, NInv, Drawn
  <2>3. pc'[t] = "walk"
    BY <1>2, <1>3 DEF WriteStart, RewriteStart, Call, Goto
  <2> QED  BY <1>1, <2>1, <2>2, <2>3, BornDraws
<1>4. ASSUME \/ \E i \in Items : DeleteItemStart(t, i)
             \/ \E k \in Keys, what \in {"delete_key", "remove", "find"} : KeyStart(t, what, k)
      PROVE  BInv'
  <2>1. Keeps(t)  BY <1>4, BeginKeeps
  <2>2. /\ UNCHANGED <<born, seqNo, num>> /\ pc[t] = "idle" /\ pc'[t] = "walk"
        /\ op'[t] \in {"delete_item", "delete_key", "remove", "find"}
    BY <1>2, <1>4 DEF DeleteItemStart, KeyStart, Call, Goto, numbers
  <2>3. num'[t] = 0 /\ op'[t] \notin Writes
    BY <2>2 DEF NInv, Drawn, Writes
  <2> QED  BY <1>1, <2>1, <2>2, <2>3, BornDone
<1> QED  BY <1>3, <1>4 DEF Begins

LEMMA InitBInv == Init => BInv
<1> SUFFICES ASSUME Init  PROVE BInv
  OBVIOUS
<1>1. IsFiniteSet(Loaded) /\ Cardinality(Loaded) \in Nat
  BY SortedListAssumption, FS_Subset, FS_CardinalityType
<1>2. ASSUME NEW i \in Items  PROVE born[i] \in Nat /\ born[i] <= seqNo
  <2> DEFINE before == {j \in Loaded : i \in Loaded /\ Key(j) <= Key(i)}
  <2>1. before \subseteq Loaded  OBVIOUS
  <2> HIDE DEF before
  <2>2. IsFiniteSet(before) /\ Cardinality(before) <= Cardinality(Loaded)
    BY <1>1, <2>1, FS_Subset
  <2>3. Cardinality(before) \in Nat  BY <2>2, FS_CardinalityType
  <2>4. born[i] = Cardinality(before)  BY DEF before, Init
  <2> QED  BY <2>2, <2>3, <2>4 DEF Init
<1>3. born \in [Items -> Nat]
  <2>1. born = [i \in Items |-> born[i]]  BY DEF Init
  <2> QED  BY <1>2, <2>1
<1>4. \A t \in Threads : Earlier(t)
  BY DEF Init, Earlier, Writes
<1> QED  BY <1>2, <1>3, <1>4, LoadedAreNumbered DEF BInv, Init

LEMMA NextBInv == NInv /\ LInv /\ BInv /\ ~Reinsert /\ [Next]_vars => BInv'
<1> SUFFICES ASSUME NInv, LInv, BInv, ~Reinsert, [Next]_vars  PROVE BInv'
  OBVIOUS
<1>1. ASSUME UNCHANGED <<born, seqNo, num, op, pc, cur>>  PROVE BInv'
  BY <1>1 DEF BInv, Earlier
<1>2. ASSUME NEW t \in Threads, NodeRelease(t) \/ GetAll(t)  PROVE BInv'
  BY <1>1, <1>2 DEF NodeRelease, GetAll, numbers, call, walk
<1>3. ASSUME NEW i \in Items, ReclaimNode(i)  PROVE BInv'
  BY <1>1, <1>3 DEF ReclaimNode, numbers, call, walk
<1>4. ASSUME Destroy  PROVE BInv'
  BY <1>1, <1>4 DEF Destroy, numbers, call, walk
<1>5. ASSUME UNCHANGED vars  PROVE BInv'
  BY <1>1, <1>5 DEF vars, numbers, call, walk
<1>6. ASSUME NEW t \in Threads, Begins(t)  PROVE BInv'
  BY <1>6, BeginBorn
<1> QED
  BY <1>2, <1>3, <1>4, <1>5, <1>6, StepBorn, NextCases

\* While nobody inserts an item again: no number is lost or told twice, and a delete, a
\* remove or a set_value has a higher number than what put its item in, however late
\* it was delayed between the draw and the compare-and-swap.
THEOREM NumbersAreTrue == ~Reinsert => (Spec => []NumbersTrue)
<1> SUFFICES ASSUME ~Reinsert  PROVE Spec => []NumbersTrue
  OBVIOUS
<1>1. NInv /\ BInv => NumbersTrue
  BY DEF NInv, BInv, Earlier, NumbersTrue
<1>2. LInv /\ [Next]_vars => LInv'
  BY NextLInv
<1>3. NInv /\ LInv /\ BInv /\ [Next]_vars => BInv'
  BY NextBInv
<1> QED  BY InitLInv, InitNInv, InitBInv, NextNInv, <1>1, <1>2, <1>3, PTL DEF Spec

\* While nobody inserts an item again: every variable keeps its range, no reference count
\* goes below zero, and a call that goes on with an item has one.
THEOREM TypesAreCorrect == ~Reinsert => (Spec => []TypeOK)
<1> SUFFICES ASSUME ~Reinsert  PROVE Spec => []TypeOK
  OBVIOUS
<1> DEFINE DInv == destroyed \in BOOLEAN
<1>1. ASSUME NInv, LInv, CInv, BInv, DInv  PROVE TypeOK
  <2>1. Shapes  BY <1>1 DEF LInv
  <2>2. link \in [Items \cup {HEAD} -> [ptr : Items \cup {NULL}, mark : BOOLEAN]]
    BY <2>1 DEF Shapes, LinkMaps, Places, LinkValues
  <2>3. /\ seqNo \in 0..MaxSeq /\ \A t \in Threads : num[t] \in 0..MaxSeq
        /\ \A i \in Items : born[i] \in 0..MaxSeq
    BY <1>1, SortedListAssumption DEF NInv, Drawn, BInv
  <2>4. open \subseteq 1..MaxSeq
    <3>1. open = {num[t] : t \in Threads} \ {0}  BY <1>1 DEF NInv, ToldOnce
    <3> QED  BY <2>3, <3>1, SortedListAssumption
  <2>5. num \in [Threads -> 0..MaxSeq] /\ born \in [Items -> 0..MaxSeq]
    BY <1>1, <2>3 DEF NInv, Drawn, BInv
  <2>6. \A t \in Threads : pc[t] \notin {"idle", "walk", "cas"} => cur[t] # NULL
    <3>1. ASSUME NEW t \in Threads, pc[t] \notin {"idle", "walk", "cas"}  PROVE cur[t] # NULL
      <4>1. pc[t] \in PCs /\ Stands(t)  BY <1>1, <2>1 DEF Shapes, LInv, Knows
      <4>2. cur[t] \in Seen  BY <3>1, <4>1 DEF Stands, PCs, Holding, Marking
      <4>3. cur[t] \in Items  BY <1>1, <4>2 DEF LInv, Heap, Sorted, Seen, Out
      <4> QED  BY <4>3, Constants
    <3> QED  BY <3>1
  <2> QED
    BY <1>1, <2>1, <2>2, <2>3, <2>4, <2>5, <2>6 DEF Shapes, CInv, TypeOK, Ops
<1>2. LInv /\ [Next]_vars => LInv'
  BY NextLInv
<1>3. NInv /\ LInv /\ BInv /\ [Next]_vars => BInv'
  BY NextBInv
<1>4. Init => DInv
  BY DEF Init
<1>5. DInv /\ LInv /\ [Next]_vars => DInv'
  <2> SUFFICES ASSUME DInv, LInv, [Next]_vars  PROVE DInv'
    OBVIOUS
  <2>1. ASSUME NEW t \in Threads, Step(t)  PROVE destroyed' = FALSE
    BY <2>1, StepWell DEF Progress
  <2>2. ASSUME NEW t \in Threads, Begins(t)  PROVE destroyed' = destroyed
    BY <2>2 DEF Begins, DeleteItemStart, WriteStart, RewriteStart, KeyStart
  <2>3. ASSUME \/ \E t \in Threads : NodeRelease(t) \/ GetAll(t)
               \/ \E i \in Items : ReclaimNode(i)
               \/ UNCHANGED vars
        PROVE destroyed' = destroyed
    BY <2>3 DEF NodeRelease, GetAll, ReclaimNode, vars
  <2>4. Destroy => destroyed' = TRUE  BY DEF Destroy
  <2> QED  BY <2>1, <2>2, <2>3, <2>4, NextCases
<1> QED
  BY InitLInv, InitNInv, InitBInv, InitCInv, NextNInv, NextCInv,
     <1>1, <1>2, <1>3, <1>4, <1>5, PTL DEF Spec

-----------------------------------------------------------------------------
(* The map *)

\* A key has the item of the list that is of that key, or none.
LEMMA EntryOf ==
  ASSUME NEW L, L \subseteq Items, \A i, j \in L : Key(i) = Key(j) => i = j, NEW k \in Keys
  PROVE  /\ ByKey(L)[k] \in Items \cup {NULL}
         /\ \A i \in L : Key(i) = k => ByKey(L)[k] = i
         /\ (\A i \in L : Key(i) # k) => ByKey(L)[k] = NULL
<1>1. ByKey(L)[k] = IF \E i \in L : Key(i) = k THEN CHOOSE i \in L : Key(i) = k ELSE NULL
  BY DEF ByKey
<1>2. CASE \E i \in L : Key(i) = k
  <2>1. (CHOOSE i \in L : Key(i) = k) \in L /\ Key(CHOOSE i \in L : Key(i) = k) = k
    BY <1>2
  <2> QED  BY <1>1, <1>2, <2>1
<1>3. CASE ~ \E i \in L : Key(i) = k
  BY <1>1, <1>3
<1> QED  BY <1>2, <1>3

\* Where the items of other keys stay, only one key's entry changes.
LEMMA OneEntry ==
  ASSUME NEW L, L \subseteq Items, \A i, j \in L : Key(i) = Key(j) => i = j,
         NEW M, M \subseteq Items, \A i, j \in M : Key(i) = Key(j) => i = j,
         NEW k \in Keys, \A i \in Items : Key(i) # k => (i \in L <=> i \in M)
  PROVE  ByKey(M) = [ByKey(L) EXCEPT ![k] = ByKey(M)[k]]
<1>1. ASSUME NEW j \in Keys, j # k  PROVE ByKey(M)[j] = ByKey(L)[j]
  <2>1. CASE \E i \in L : Key(i) = j
    <3>1. PICK i \in L : Key(i) = j  BY <2>1
    <3>2. i \in M  BY <1>1, <3>1
    <3> QED  BY <3>1, <3>2, EntryOf
  <2>2. CASE \A i \in L : Key(i) # j
    <3>1. \A i \in M : Key(i) # j  BY <1>1, <2>2
    <3> QED  BY <2>2, <3>1, EntryOf
  <2> QED  BY <2>1, <2>2
<1>2. ByKey(L) = [j \in Keys |-> ByKey(L)[j]] /\ ByKey(M) = [j \in Keys |-> ByKey(M)[j]]
  BY DEF ByKey
<1> QED  BY <1>1, <1>2

\* The items of the list are the entries of its keys.
LEMMA EntriesAre ==
  ASSUME NEW L, L \subseteq Items, \A i, j \in L : Key(i) = Key(j) => i = j
  PROVE  {ByKey(L)[k] : k \in Keys} \ {NULL} = L
<1>1. ASSUME NEW i \in L  PROVE i \in {ByKey(L)[k] : k \in Keys} \ {NULL}
  <2>1. i # NULL /\ Key(i) \in Keys  BY Constants
  <2>2. ByKey(L)[Key(i)] = i  BY <2>1, EntryOf
  <2> QED  BY <2>1, <2>2
<1>2. ASSUME NEW k \in Keys, ByKey(L)[k] # NULL  PROVE ByKey(L)[k] \in L
  <2>1. PICK i \in L : Key(i) = k  BY <1>2, EntryOf
  <2> QED  BY <2>1, EntryOf
<1> QED  BY <1>1, <1>2

\* A delete of an item goes on with that item.
IsHis(t) == op[t] = "delete_item" /\ pc[t] \in Holding => cur[t] = item[t]
HisInv == \A t \in Threads : IsHis(t)

LEMMA NextHisInv == LInv /\ HisInv /\ ~Reinsert /\ [Next]_vars => HisInv'
<1> SUFFICES ASSUME LInv, HisInv, ~Reinsert, [Next]_vars  PROVE HisInv'
  OBVIOUS
<1>1. ASSUME NEW t \in Threads, Progress(t), pc'[t] \in Holding => IsHis(t)'  PROVE HisInv'
  <2>1. ASSUME NEW u \in Threads \ {t}  PROVE IsHis(u)'
    BY <1>1, <2>1 DEF Progress, Alone, HisInv, IsHis
  <2> QED  BY <1>1, <2>1 DEF HisInv, IsHis
<1>2. ASSUME NEW t \in Threads, Step(t), pc'[t] \in Holding  PROVE IsHis(t)'
  <2>1. CASE CheckFound(t)
    BY <2>1 DEF CheckFound, Matches, call, IsHis
  <2>2. CASE MarkRead(t) \/ Mark(t) \/ Number(t) \/ Unlink(t)
    <3>1. pc[t] \in Holding
      BY <2>2 DEF MarkRead, Mark, Number, Unlink, Goto, Holding, Marking
    <3>2. UNCHANGED <<op, item>> /\ cur'[t] = cur[t]
      <4>1. CASE Mark(t)
        <5>1. CASE link[cur[t]] = Link(nxt[t])
          BY <4>1, <5>1 DEF Mark, call, walk
        <5>2. CASE link[cur[t]] # Link(nxt[t])
          <6>1. pc'[t] = "walk"
            BY <4>1, <5>2 DEF Mark, Restart, LInv, Shapes
          <6> QED  BY <1>2, <6>1 DEF Holding, Marking
        <5> QED  BY <5>1, <5>2
      <4>2. CASE MarkRead(t) \/ Number(t) \/ Unlink(t)
        BY <4>2 DEF MarkRead, Number, Unlink, call, walk
      <4> QED  BY <2>2, <4>1, <4>2
    <3> QED  BY <3>1, <3>2 DEF HisInv, IsHis
  <2>3. CASE \/ WalkMisses(t) \/ AcquireFails(t) \/ CheckMisses(t) \/ CheckRefused(t)
             \/ TakeRef(t) \/ SameItem(t) \/ Retire(t)
    <3>1. op'[t] = "none"
      BY <2>3 DEF WalkMisses, AcquireFails, CheckMisses, CheckRefused, GiveUp,
                  TakeRef, SameItem, Retire, Return, LInv, Shapes
    <3> QED  BY <3>1 DEF IsHis
  <2>4. CASE CheckAgain(t) \/ Unmark(t) \/ Cas(t)
    <3>1. pc'[t] \in {"walk", "idle"}
      BY <2>4 DEF CheckAgain, Unmark, Cas, Restart, Return, Goto, LInv, Shapes
    <3> QED  BY <1>2, <3>1 DEF Holding, Marking
  <2>5. CASE WalkRead(t) \/ WalkAppend(t) \/ CheckAdvance(t) \/ CheckPassed(t)
    <3>1. pc'[t] \in {"check", "cas", "walk"}
      BY <2>5 DEF WalkRead, WalkAppend, CheckAdvance, CheckPassed, Goto, LInv, Shapes
    <3> QED  BY <1>2, <3>1 DEF Holding, Marking
  <2> QED  BY <1>2, <2>1, <2>2, <2>3, <2>4, <2>5 DEF Step
<1>3. ASSUME NEW t \in Threads, Begins(t)  PROVE pc'[t] = "walk"
  BY <1>3 DEF Begins, DeleteItemStart, WriteStart, RewriteStart, KeyStart, Call, Goto, LInv, Shapes
<1>4. ASSUME UNCHANGED <<pc, op, item, cur>>  PROVE HisInv'
  BY <1>4 DEF HisInv, IsHis
<1>5. ASSUME \/ \E t \in Threads : NodeRelease(t) \/ GetAll(t)
             \/ \E i \in Items : ReclaimNode(i)
             \/ Destroy \/ UNCHANGED vars
      PROVE  UNCHANGED <<pc, op, item, cur>>
  BY <1>5 DEF NodeRelease, GetAll, ReclaimNode, Destroy, vars, call, walk
<1>6. ASSUME NEW t \in Threads, Step(t)  PROVE HisInv'
  BY <1>1, <1>2, <1>6, StepWell
<1>7. ASSUME NEW t \in Threads, Begins(t)  PROVE HisInv'
  BY <1>1, <1>3, <1>7, BeginsWell DEF Holding, Marking
<1> QED  BY <1>4, <1>5, <1>6, <1>7, NextCases

\* What the map sees of a thread that moves.
LEMMA ObtainedMoves ==
  ASSUME LInv, NEW t \in Threads, Alone(t)
  PROVE  /\ \A u \in Threads \ {t} : Obtained(u)' = Obtained(u)
         /\ [u \in Threads |-> Obtained(u)'] = [[u \in Threads |-> Obtained(u)] EXCEPT ![t] = Obtained(t)']
<1>1. ASSUME NEW u \in Threads \ {t}  PROVE Obtained(u)' = Obtained(u)
  BY <1>1 DEF Alone, Obtained
<1> QED  BY <1>1

LEMMA ReturnMaps ==
  ASSUME LInv, NEW t \in Threads, NEW from, Return(t, from), NEW got,
         UNCHANGED destroyed, refs' = [refs EXCEPT ![t] = @ \cup got]
  PROVE  Map!Return(t, got)
<1>1. Alone(t) /\ pc'[t] = "idle"  BY ReturnFacts
<1>2. Obtained(t)' = NULL  BY <1>1 DEF Obtained
<1>3. [u \in Threads |-> Obtained(u)'] = [[u \in Threads |-> Obtained(u)] EXCEPT ![t] = NULL]
  BY <1>1, <1>2, ObtainedMoves
<1> QED  BY <1>3 DEF Return, Map!Return

\* A call that is not about to return has obtained nothing.
LEMMA IsPending ==
  ASSUME LInv, NEW t \in Threads, pc[t] \notin {"idle", "retire", "take_ref"}
  PROVE  Map!Pending(t)
<1>1. op[t] # "none"  BY DEF LInv, Knows, Args
<1>2. [u \in Threads |-> Obtained(u)][t] = NULL  BY DEF Obtained
<1> QED  BY <1>1, <1>2 DEF Map!Pending

\* The list changes only where a call puts its item in and returns, or unlinks.
LEMMA ListStays ==
  ASSUME NEW t \in Threads, Progress(t), pc'[t] \notin {"idle", "retire"}
  PROVE  InList' = InList
BY DEF Progress, Effect, PutsIn, TakesOut

LEMMA InnerStutters ==
  ASSUME LInv, NEW t \in Threads, Progress(t), UNCHANGED <<op, key, item, refs, destroyed>>,
         pc[t] \notin {"retire", "take_ref"}, pc'[t] \notin {"idle", "retire", "take_ref"}
  PROVE  UNCHANGED Map!vars
<1>1. InList' = InList  BY ListStays
<1>2. Alone(t)  BY DEF Progress
<1>3. Obtained(t) = NULL /\ Obtained(t)' = NULL  BY DEF Obtained
<1>4. [u \in Threads |-> Obtained(u)'] = [u \in Threads |-> Obtained(u)]
  BY <1>2, <1>3, ObtainedMoves
<1> QED  BY <1>1, <1>4 DEF Map!vars

LEMMA GiveUpMaps ==
  ASSUME LInv, NEW t \in Threads, NEW from \in {"walk", "check"}, GiveUp(t, from)
  PROVE  Map!GiveUp(t)
<1>1. /\ Return(t, from) /\ pc[t] = from /\ UNCHANGED <<link, destroyed>>
      /\ refs' = [refs EXCEPT ![t] = @ \cup (IF op[t] \in Writes THEN {item[t]} ELSE {})]
  BY DEF GiveUp, Return, Goto, memory
<1>2. Map!Return(t, IF op[t] \in Writes THEN {item[t]} ELSE {})
  BY <1>1, ReturnMaps
<1>3. Map!Writes(t) <=> op[t] \in Writes
  BY DEF Map!Writes, Map!Setting, Writes
<1>4. InList' = InList  BY <1>1 DEF InList
<1>5. Map!Pending(t)  BY <1>1, IsPending
<1> QED  BY <1>2, <1>3, <1>4, <1>5 DEF Map!GiveUp

\* What a call has found is the entry of its key.
LEMMA EntryIsCur ==
  ASSUME LInv, HisInv, NEW t \in Threads, cur[t] \in InList, Key(cur[t]) = key[t],
         op[t] = "delete_item" => cur[t] = item[t]
  PROVE  ByKey(InList)[key[t]] = cur[t] /\ Map!Meets(t)
<1>1. InList \subseteq Items /\ \A i, j \in InList : Key(i) = Key(j) => i = j
  BY DEF LInv, Heap, Sorted
<1>2. key[t] \in Keys /\ cur[t] # NULL  BY <1>1, Constants
<1>3. ByKey(InList)[key[t]] = cur[t]  BY <1>1, <1>2, EntryOf
<1> QED  BY <1>2, <1>3 DEF Map!Meets

LEMMA FindMaps ==
  ASSUME LInv, HisInv, NEW t \in Threads, CheckFound(t), op[t] = "find"
  PROVE  Map!Find(t)
<1>1. /\ pc[t] = "check" /\ pc'[t] = "take_ref" /\ StillThere(t) /\ Matches(t)
      /\ UNCHANGED <<link, op, key, item, cur, refs, destroyed>>
  BY DEF CheckFound, Goto, memory, call, LInv, Shapes
<1>2. cur[t] \in InList /\ Key(cur[t]) = key[t]
  BY <1>1, Found DEF Matches
<1>3. ByKey(InList)[key[t]] = cur[t] /\ Map!Meets(t)  BY <1>2, EntryIsCur
<1>4. Alone(t)  BY CheckFoundWell DEF Progress
<1>5. Obtained(t)' = cur[t]  BY <1>1 DEF Obtained
<1>6. [u \in Threads |-> Obtained(u)']
        = [[u \in Threads |-> Obtained(u)] EXCEPT ![t] = ByKey(InList)[key[t]]]
  BY <1>3, <1>4, <1>5, ObtainedMoves
<1>7. InList' = InList  BY <1>1 DEF InList
<1>8. Map!Pending(t)  BY <1>1, IsPending
<1> QED  BY <1>1, <1>3, <1>6, <1>7, <1>8 DEF Map!Find, Map!call

LEMMA FinishMaps ==
  ASSUME LInv, CInv, NEW t \in Threads, TakeRef(t) \/ Retire(t)
  PROVE  Map!Finish(t)
<1> DEFINE got == IF op[t] \in {"delete_item", "delete_key"} THEN {} ELSE {cur[t]}
<1>1. pc[t] \in {"take_ref", "retire"} /\ InList' = InList /\ UNCHANGED destroyed
  <2>1. pc[t] \in {"take_ref", "retire"} /\ UNCHANGED <<link, destroyed>>
    BY DEF TakeRef, Retire, Return, Goto
  <2> QED  BY <2>1 DEF InList
<1>2. cur[t] \in Items
  BY <1>1 DEF LInv, Knows, Stands, Heap, Sorted, Seen, Out
<1>3. Obtained(t) = cur[t]  BY <1>1 DEF Obtained
<1>4. Args(t)  BY DEF LInv, Knows
<1>5. CASE TakeRef(t)
  <2>1. /\ Return(t, "take_ref") /\ refs' = [refs EXCEPT ![t] = {cur[t]}] /\ pc[t] = "take_ref"
    BY <1>5 DEF TakeRef
  <2>2. op[t] = "find" /\ refs[t] = {}  BY <1>4, <2>1 DEF Args, CInv
  <2>3. refs' = [refs EXCEPT ![t] = @ \cup {cur[t]}]  BY <2>1, <2>2
  <2>4. Map!Return(t, {cur[t]})  BY <1>1, <2>1, <2>3, ReturnMaps
  <2>5. [u \in Threads |-> Obtained(u)][t] = cur[t]  BY <1>3
  <2> QED  BY <1>1, <1>2, <2>2, <2>4, <2>5, Constants DEF Map!Finish
<1>6. CASE Retire(t)
  <2>1. /\ Return(t, "retire") /\ pc[t] = "retire"
        /\ refs' = [refs EXCEPT ![t] = @ \cup (IF op[t] = "remove" \/ Setting(t) THEN {cur[t]} ELSE {})]
    BY <1>6 DEF Retire
  <2>2. Alters(t)  BY <1>4, <2>1 DEF Args
  <2>3. (IF op[t] = "remove" \/ Setting(t) THEN {cur[t]} ELSE {}) = got
    BY <2>2 DEF Alters, Takes, Setting
  <2>4. refs' = [refs EXCEPT ![t] = @ \cup got]  BY <2>1, <2>3
  <2> HIDE DEF got
  <2>5. Map!Return(t, got)  BY <1>1, <2>1, <2>4, ReturnMaps
  <2>6. [u \in Threads |-> Obtained(u)][t] = cur[t]  BY <1>3
  <2> QED  BY <1>1, <1>2, <2>5, <2>6, Constants DEF Map!Finish, got
<1> QED  BY <1>5, <1>6

\* insert and set_value of a new key: the key had no item, and has that of the call.
LEMMA CasMaps ==
  ASSUME LInv, CInv, NEW t \in Threads, Cas(t), link[prev[t]] = Link(cur[t])
  PROVE  Map!PutNew(t)
<1>1. /\ pc[t] = "cas" /\ Return(t, "cas") /\ link' = [link EXCEPT ![prev[t]] = Link(item[t])]
      /\ UNCHANGED <<refs, destroyed>>
  BY DEF Cas
<1>2. /\ Sorted(link', InList') /\ InList' = InList \cup {item[t]}
      /\ item[t] \in Items /\ item[t] \notin Seen /\ key[t] = Key(item[t])
  BY <1>1, CasInserts
<1>3. item[t] \notin InList /\ key[t] \in Keys  BY <1>2, Constants DEF Seen
<1>4. /\ InList \subseteq Items /\ \A i, j \in InList : Key(i) = Key(j) => i = j
      /\ InList' \subseteq Items /\ \A i, j \in InList' : Key(i) = Key(j) => i = j
  BY <1>2 DEF LInv, Heap, Sorted
<1>5. \A i \in InList : Key(i) # key[t]  BY <1>2, <1>3, <1>4
<1>6. ByKey(InList)[key[t]] = NULL  BY <1>3, <1>4, <1>5, EntryOf
<1>7. ByKey(InList')[key[t]] = item[t]  BY <1>2, <1>3, <1>4, EntryOf
<1>8. \A i \in Items : Key(i) # key[t] => (i \in InList <=> i \in InList')  BY <1>2
<1>9. ByKey(InList') = [ByKey(InList) EXCEPT ![key[t]] = item[t]]
  BY <1>3, <1>4, <1>7, <1>8, OneEntry
<1>10. Map!Return(t, {})
  <2>1. refs' = [refs EXCEPT ![t] = @ \cup {}]
    <3>1. refs \in [Threads -> SUBSET Items] /\ refs[t] \cup {} = refs[t]  BY DEF CInv
    <3> QED  BY <1>1, <3>1
  <2> QED  BY <1>1, <2>1, ReturnMaps
<1>11. Map!Pending(t) /\ op[t] \in {"insert", "set"}
  BY <1>1, IsPending DEF LInv, Knows, Args
<1> QED  BY <1>6, <1>9, <1>10, <1>11 DEF Map!PutNew

LEMMA SameItemMaps ==
  ASSUME LInv, CInv, HisInv, NEW t \in Threads, SameItem(t)
  PROVE  Map!PutSame(t)
<1>1. /\ pc[t] = "same" /\ Return(t, "same") /\ UNCHANGED destroyed
      /\ refs' = [refs EXCEPT ![t] = {cur[t]}]
  BY DEF SameItem
<1>2. /\ cur[t] \in InList /\ cur[t] = item[t] /\ Setting(t) /\ Key(cur[t]) = key[t]
  BY <1>1 DEF LInv, Knows, Holds, Stands, Marking, Holding
<1>3. ByKey(InList)[key[t]] = item[t]
  <2>1. op[t] = "delete_item" => cur[t] = item[t]  BY <1>2
  <2> QED  BY <1>2, <2>1, EntryIsCur
<1>4. InList' = InList
  <2>1. Effect(t)  BY SameItemWell DEF Progress
  <2>2. item[t] \in Seen  BY <1>2 DEF Seen
  <2> QED  BY <1>1, <2>1, <2>2 DEF Effect, PutsIn, TakesOut
<1>5. Map!Return(t, {item[t]})
  <2>1. refs[t] = {}  BY <1>1 DEF CInv
  <2>2. refs' = [refs EXCEPT ![t] = @ \cup {item[t]}]  BY <1>1, <1>2, <2>1
  <2> QED  BY <1>1, <2>2, ReturnMaps
<1>6. Map!Pending(t) /\ Map!Setting(t)
  BY <1>1, <1>2, IsPending DEF Map!Setting, Setting
<1> QED  BY <1>3, <1>4, <1>5, <1>6 DEF Map!PutSame

\* The others: the key had the item the call found, and has that of set_value or none.
LEMMA UnlinkMaps ==
  ASSUME LInv, HisInv, NEW t \in Threads, Unlink(t), link[prev[t]] = Link(cur[t])
  PROVE  Map!Change(t)
<1> DEFINE new == IF Setting(t) THEN item[t] ELSE NULL
<1>1. /\ pc[t] = "unlink" /\ pc'[t] = "retire"
      /\ UNCHANGED <<op, key, item, cur, refs, destroyed>>
  BY DEF Unlink, Goto, walk, LInv, Shapes
<1>2. /\ cur[t] \in InList
      /\ Sorted(link', InList')
      /\ \/ ~Setting(t) /\ InList' = InList \ {cur[t]}
         \/ /\ Setting(t) /\ InList' = (InList \ {cur[t]}) \cup {item[t]}
            /\ item[t] \in Items /\ key[t] = Key(item[t])
  BY UnlinkTakesOut
<1>3. pc[t] \in Holding /\ Key(cur[t]) = key[t] /\ Alters(t)
  BY <1>1, HoldsOn DEF Holding, Marking
<1>4. ByKey(InList)[key[t]] = cur[t] /\ Map!Meets(t)
  <2>1. op[t] = "delete_item" => cur[t] = item[t]  BY <1>3 DEF HisInv, IsHis
  <2> QED  BY <1>2, <1>3, <2>1, EntryIsCur
<1>5. /\ InList \subseteq Items /\ \A i, j \in InList : Key(i) = Key(j) => i = j
      /\ InList' \subseteq Items /\ \A i, j \in InList' : Key(i) = Key(j) => i = j
  BY <1>2 DEF LInv, Heap, Sorted
<1>6. key[t] \in Keys  BY <1>2, <1>3, <1>5, Constants
<1>7. ByKey(InList')[key[t]] = new
  <2>1. CASE Setting(t)
    BY <1>2, <1>5, <1>6, <2>1, EntryOf
  <2>2. CASE ~Setting(t)
    <3>1. \A i \in InList' : Key(i) # key[t]  BY <1>2, <1>3, <1>5, <2>2
    <3> QED  BY <1>5, <1>6, <2>2, <3>1, EntryOf
  <2> QED  BY <2>1, <2>2
<1>8. \A i \in Items : Key(i) # key[t] => (i \in InList <=> i \in InList')  BY <1>2, <1>3
<1> HIDE DEF new
<1>9. ByKey(InList') = [ByKey(InList) EXCEPT ![key[t]] = new]
  BY <1>5, <1>6, <1>7, <1>8, OneEntry
<1>10. Alone(t) /\ Obtained(t)' = cur[t]
  BY <1>1, UnlinkWell DEF Progress, Obtained
<1>11. [u \in Threads |-> Obtained(u)']
        = [[u \in Threads |-> Obtained(u)] EXCEPT ![t] = ByKey(InList)[key[t]]]
  BY <1>4, <1>10, ObtainedMoves
<1>12. Map!Pending(t) /\ (Map!Setting(t) \/ Map!Takes(t)) /\ (Setting(t) <=> Map!Setting(t))
  BY <1>1, <1>3, IsPending DEF Map!Setting, Map!Takes, Alters, Takes, Setting
<1> QED  BY <1>1, <1>4, <1>9, <1>11, <1>12 DEF Map!Change, Map!call, new

\* A step of a call is the step of the map that it should be, or the map does not see it.
LEMMA StepMaps ==
  ASSUME LInv, CInv, HisInv, NEW t \in Threads, Step(t)
  PROVE  Map!Next \/ UNCHANGED Map!vars
<1>1. Progress(t)  BY StepWell
<1>2. CASE WalkMisses(t) \/ AcquireFails(t) \/ CheckMisses(t) \/ CheckRefused(t)
  <2>1. Map!GiveUp(t)
    BY <1>2, GiveUpMaps DEF WalkMisses, AcquireFails, CheckMisses, CheckRefused
  <2> QED  BY <2>1 DEF Map!Next
<1>3. CASE TakeRef(t) \/ Retire(t)
  BY <1>3, FinishMaps DEF Map!Next
<1>4. CASE SameItem(t)
  BY <1>4, SameItemMaps DEF Map!Next
<1>5. CASE Cas(t)
  <2>1. CASE link[prev[t]] = Link(cur[t])  BY <1>5, <2>1, CasMaps DEF Map!Next
  <2>2. CASE link[prev[t]] # Link(cur[t])
    <3>1. /\ pc[t] = "cas" /\ pc'[t] = "walk" /\ UNCHANGED <<op, key, item, refs, destroyed>>
      BY <1>5, <2>2 DEF Cas, Restart, call, LInv, Shapes
    <3> QED  BY <1>1, <3>1, InnerStutters
  <2> QED  BY <2>1, <2>2
<1>6. CASE Unlink(t)
  <2>1. CASE link[prev[t]] = Link(cur[t])  BY <1>6, <2>1, UnlinkMaps DEF Map!Next
  <2>2. CASE link[prev[t]] # Link(cur[t])
    <3>1. /\ pc[t] = "unlink" /\ pc'[t] = "unmark" /\ UNCHANGED <<op, key, item, refs, destroyed>>
      BY <1>6, <2>2 DEF Unlink, Goto, LInv, Shapes
    <3> QED  BY <1>1, <3>1, InnerStutters
  <2> QED  BY <2>1, <2>2
<1>7. CASE CheckFound(t)
  <2>1. CASE op[t] = "find"  BY <1>7, <2>1, FindMaps DEF Map!Next
  <2>2. CASE op[t] # "find"
    <3>1. /\ pc[t] = "check" /\ pc'[t] = "mark_read" /\ UNCHANGED <<op, key, item, refs, destroyed>>
      BY <1>7, <2>2 DEF CheckFound, Goto, call, LInv, Shapes
    <3> QED  BY <1>1, <3>1, InnerStutters
  <2> QED  BY <2>1, <2>2
<1>8. CASE WalkRead(t) \/ WalkAppend(t) \/ CheckAgain(t) \/ CheckAdvance(t) \/ CheckPassed(t)
  <2>1. /\ pc[t] \in {"walk", "check"} /\ pc'[t] \in {"walk", "check", "cas"}
        /\ UNCHANGED <<op, key, item, refs, destroyed>>
    BY <1>8 DEF WalkRead, WalkAppend, CheckAgain, CheckAdvance, CheckPassed, Restart, Goto, call,
                LInv, Shapes
  <2> QED  BY <1>1, <2>1, InnerStutters
<1>9. CASE MarkRead(t) \/ Mark(t) \/ Number(t) \/ Unmark(t)
  <2>1. /\ pc[t] \in {"mark_read", "mark", "number", "unmark"}
        /\ pc'[t] \in {"mark", "number", "walk", "same", "unlink"}
    BY <1>9 DEF MarkRead, Mark, Number, Unmark, Restart, Goto, LInv, Shapes
  <2>2. UNCHANGED <<op, key, item, refs, destroyed>>
    BY <1>9 DEF MarkRead, Mark, Number, Unmark, call
  <2> QED  BY <1>1, <2>1, <2>2, InnerStutters
<1> QED  BY <1>2, <1>3, <1>4, <1>5, <1>6, <1>7, <1>8, <1>9 DEF Step

LEMMA BeginsMap ==
  ASSUME LInv, CInv, ~Reinsert, NEW t \in Threads, Begins(t)
  PROVE  Map!Next
<1>1. PICK what \in Map!Calls, k \in Keys, i \in Items \cup {NULL} :
        /\ Call(t, what, k, i, "walk") /\ refs[t] \subseteq {i}
        /\ UNCHANGED <<link, destroyed>>
        /\ refs' = [refs EXCEPT ![t] = {}]
  <2>1. ASSUME refs[t] = {}, refs' = refs  PROVE refs' = [refs EXCEPT ![t] = {}]
    BY <2>1 DEF CInv
  <2>2. ASSUME NEW i \in Items, DeleteItemStart(t, i)
        PROVE  /\ Call(t, "delete_item", Key(i), i, "walk") /\ refs[t] = {} /\ Key(i) \in Keys
               /\ UNCHANGED <<link, refs, destroyed>>
    BY <2>2, Constants DEF DeleteItemStart, memory
  <2>3. ASSUME NEW i \in Items, NEW what \in Writes, WriteStart(t, what, i)
        PROVE  /\ Call(t, what, Key(i), i, "walk") /\ refs[t] = {} /\ Key(i) \in Keys
               /\ UNCHANGED <<link, refs, destroyed>>
    BY <2>3, Constants DEF WriteStart
  <2>4. ASSUME NEW i \in Items, NEW what \in Writes, RewriteStart(t, what, i)
        PROVE  /\ Call(t, what, Key(i), i, "walk") /\ refs[t] = {i} /\ Key(i) \in Keys
               /\ refs' = [refs EXCEPT ![t] = {}] /\ UNCHANGED <<link, destroyed>>
    BY <2>4, Constants DEF RewriteStart, memory
  <2>5. ASSUME NEW k \in Keys, NEW what \in {"delete_key", "remove", "find"}, KeyStart(t, what, k)
        PROVE  /\ Call(t, what, k, NULL, "walk") /\ refs[t] = {}
               /\ UNCHANGED <<link, refs, destroyed>>
    BY <2>5 DEF KeyStart, memory
  <2>6. "delete_item" \in Map!Calls /\ Writes \subseteq Map!Calls
        /\ {"delete_key", "remove", "find"} \subseteq Map!Calls
    BY DEF Map!Calls, Writes
  <2>7. CASE \E i \in Items : DeleteItemStart(t, i)
    BY <2>1, <2>2, <2>6, <2>7
  <2>8. CASE \E i \in Items, what \in Writes : WriteStart(t, what, i)
    BY <2>1, <2>3, <2>6, <2>8
  <2>9. CASE \E i \in Items, what \in Writes : RewriteStart(t, what, i)
    BY <2>4, <2>6, <2>9
  <2>10. CASE \E k \in Keys, what \in {"delete_key", "remove", "find"} : KeyStart(t, what, k)
    BY <2>1, <2>5, <2>6, <2>10
  <2> QED  BY <2>7, <2>8, <2>9, <2>10 DEF Begins
<1>2. InList' = InList  BY <1>1 DEF InList
<1>3. op[t] = "none" /\ ~destroyed /\ pc[t] = "idle" /\ what # "none"
  BY <1>1 DEF Call, Goto, LInv, Knows, Args, Map!Calls
<1>4. Alone(t)  BY BeginsWell DEF Progress
<1>5. Obtained(t) = NULL /\ Obtained(t)' = NULL
  BY <1>1, <1>3 DEF Obtained, Call, Goto, LInv, Shapes
<1>6. [u \in Threads |-> Obtained(u)'] = [u \in Threads |-> Obtained(u)]
  BY <1>4, <1>5, ObtainedMoves
<1>7. Map!Begin(t, what, k, i)
  BY <1>1, <1>2, <1>3, <1>6 DEF Map!Begin, Call
<1> QED  BY <1>7 DEF Map!Next

\* What happens outside the calls.
LEMMA ClientMaps ==
  ASSUME LInv, CInv, NEW t \in Threads, NodeRelease(t) \/ GetAll(t)
  PROVE  Map!Next
<1>1. /\ pc[t] = "idle" /\ UNCHANGED <<link, pc, op, key, item, cur, destroyed>>
  BY DEF NodeRelease, GetAll, call, walk
<1>2. InList' = InList  BY <1>1 DEF InList
<1>3. [u \in Threads |-> Obtained(u)'] = [u \in Threads |-> Obtained(u)]
  BY <1>1 DEF Obtained
<1>4. op[t] = "none"  BY <1>1 DEF LInv, Knows, Args
<1>5. CASE NodeRelease(t)
  <2>1. Map!Release(t)
    BY <1>1, <1>2, <1>3, <1>4, <1>5 DEF NodeRelease, Map!Release, Map!call
  <2> QED  BY <2>1 DEF Map!Next
<1>6. CASE GetAll(t)
  <2>1. {ByKey(InList)[k] : k \in Keys} \ {NULL} = InList
    BY EntriesAre DEF LInv, Heap, Sorted
  <2>2. /\ refs[t] = {} /\ ~destroyed /\ \A u \in Threads : op[u] \in {"none", "find"}
        /\ refs' = [refs EXCEPT ![t] = InList]
    BY <1>6 DEF GetAll
  <2>3. Map!GetAll(t)
    BY <1>1, <1>2, <1>3, <2>1, <2>2 DEF Map!GetAll, Map!call
  <2> QED  BY <2>3 DEF Map!Next
<1> QED  BY <1>5, <1>6

LEMMA DestroyMaps ==
  ASSUME LInv, Destroy
  PROVE  Map!Next
<1>1. /\ ~destroyed /\ destroyed' = TRUE /\ UNCHANGED <<pc, op, key, item, cur, refs>>
      /\ \A t \in Threads : pc[t] = "idle"
  BY DEF Destroy, call, walk
<1>2. \A t \in Threads : op[t] = "none"  BY <1>1 DEF LInv, Knows, Args
<1>3. InList' = {}
  <2>1. LInv'  BY DestroyWell
  <2> QED  BY <1>1, <2>1 DEF LInv, Heap
<1>4. ByKey({}) = [k \in Keys |-> NULL]  BY DEF ByKey
<1>5. [u \in Threads |-> Obtained(u)'] = [u \in Threads |-> Obtained(u)]
  BY <1>1 DEF Obtained
<1>6. Map!Destroy
  BY <1>1, <1>2, <1>3, <1>4, <1>5 DEF Map!Destroy, Map!call
<1> QED  BY <1>6 DEF Map!Next

\* While nobody inserts an item again, the list implements the map of KeyMap.  Each call, of
\* however many steps and restarts, changes the entry of its own key only, to its own item
\* or to none as its operation says, in one step between its start and its return and never
\* twice; what it gives to its client is what that step met; nothing else but destroy, when
\* no call is under way, ever changes an entry.
THEOREM ListImplementsKeyMap == ~Reinsert => (Spec => ImplementsKeyMap)
<1> SUFFICES ASSUME ~Reinsert  PROVE Spec => ImplementsKeyMap
  OBVIOUS
<1>1. Init => Map!Init
  <2> SUFFICES ASSUME Init  PROVE Map!Init
    OBVIOUS
  <2>1. InList = Loaded  BY InitList
  <2>2. [t \in Threads |-> Obtained(t)] = [t \in Threads |-> NULL]
    BY DEF Init, Obtained
  <2> QED  BY <2>1, <2>2 DEF Init, Map!Init
<1>2. Init => HisInv
  BY DEF Init, HisInv, IsHis
<1>3. LInv /\ CInv /\ HisInv /\ [Next]_vars => [Map!Next]_(Map!vars)
  <2> SUFFICES ASSUME LInv, CInv, HisInv, [Next]_vars  PROVE Map!Next \/ UNCHANGED Map!vars
    OBVIOUS
  <2>1. ASSUME UNCHANGED <<link, pc, op, key, item, cur, refs, destroyed>>
        PROVE  UNCHANGED Map!vars
    BY <2>1 DEF InList, Obtained, Map!vars
  <2>2. ASSUME NEW i \in Items, ReclaimNode(i)  PROVE UNCHANGED Map!vars
    BY <2>1, <2>2 DEF ReclaimNode, call, walk
  <2>3. ASSUME UNCHANGED vars  PROVE UNCHANGED Map!vars
    BY <2>1, <2>3 DEF vars, memory, call, walk
  <2> QED
    BY <2>2, <2>3, StepMaps, BeginsMap, ClientMaps, DestroyMaps, NextCases
<1>4. LInv /\ [Next]_vars => LInv'
  BY NextLInv
<1>5. LInv /\ HisInv /\ [Next]_vars => HisInv'
  BY NextHisInv
<1> QED
  BY InitLInv, InitCInv, NextCInv, <1>1, <1>2, <1>3, <1>4, <1>5, PTL
     DEF Spec, ImplementsKeyMap, Map!Spec
=============================================================================
