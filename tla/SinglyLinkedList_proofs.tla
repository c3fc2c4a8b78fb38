---------------------- MODULE SinglyLinkedList_proofs -----------------------
(***************************************************************************)
(* The lock free list, for any number of threads that insert, delete and   *)
(* find any number of items.                                               *)
(*                                                                         *)
(* The list is the least set of items that holds what the head leads to    *)
(* and what its own items lead to (Chain); an item is ahead of a place if  *)
(* every set that is closed from there on holds it (Ahead).  Neither needs *)
(* an order of the items, which have none.  Three things may happen to a   *)
(* chain: an item is pushed, an item is cut out, a mark is set or taken    *)
(* back (ChainPush, ChainCut, ChainKept).                                  *)
(*                                                                         *)
(* What a call knows of its own locals (Knows) is disturbed by no step of  *)
(* another call, as long as that step is one of Progress: this is shown    *)
(* once, for every pair of threads, and a step of the list is then looked  *)
(* at alone.  On the marks rest the list and the protection; on those the  *)
(* reference counts.                                                       *)
(*                                                                         *)
(* The theorems are about builds that compare, after insert's compare-and- *)
(* swap, the value that was loaded for it (~RereadsNext).                  *)
(***************************************************************************)
EXTENDS SinglyLinkedList, FiniteSetTheorems, WellFoundedInduction, TLAPS

-----------------------------------------------------------------------------
(* Lists of links *)

LinkValues == [ptr : Items \cup {NULL}, mark : BOOLEAN]
Places == Items \cup {HEAD}
LinkMaps == [Places -> LinkValues]

\* The set S holds what the link of p leads to, and what the links of its items lead to.
Closed(lk, p, S) ==
    /\ lk[p].ptr \in S \cup {NULL}
    /\ \A j \in S : lk[j].ptr \in S \cup {NULL}

\* Item i comes after p: every set that holds what comes after p holds it.
Ahead(lk, p, i) == \A S \in SUBSET Items : Closed(lk, p, S) => i \in S

\* Along the links lk, L is the list: it is what comes after the head, and no two links
\* lead to the same item.
Chain(lk, L) ==
    /\ L \subseteq Items /\ Closed(lk, HEAD, L)
    /\ \A i \in L : Ahead(lk, HEAD, i)
    /\ \A p, q \in L \cup {HEAD} : lk[p].ptr = lk[q].ptr /\ lk[p].ptr # NULL => p = q

-----------------------------------------------------------------------------
(* What is known of the list and of the calls under way *)

\* Where a call stands on prev, where it holds cur as well, and where it has marked it.
Walking == {"walk", "check"}
Owning  == {"unlink", "unmark"}
Holding == {"mark_read", "mark"} \cup Owning
Inserts == {"ins_read", "ins_cas", "ins_compare"}

\* The insert of t has not put its item in yet; the item of t is out and not yet retired.
Putting(t) == op[t] = "insert" /\ (pc[t] = "ins_compare" => cur[t] # nxt[t])
Leaving(i) == \E u \in Threads : pc[u] = "retire" /\ cur[u].ptr = i

\* Items that a hazard pointer may protect: they have the list's reference.
Listed(i) == i \in InList \/ i \in retired \/ Leaving(i)

Ranges ==
    /\ link \in LinkMaps
    /\ fresh \subseteq Items /\ retired \subseteq Items /\ freed \subseteq Items
    /\ pc \in [Threads -> PCs] /\ op \in [Threads -> {"none", "insert", "delete", "find"}]
    /\ target \in [Threads -> Items \cup {NULL}] /\ absent \in [Threads -> BOOLEAN]
    /\ prev \in [Threads -> Places]
    /\ cur \in [Threads -> LinkValues] /\ nxt \in [Threads -> LinkValues]
    /\ guards \in [Threads -> SUBSET Items] /\ refs \in [Threads -> SUBSET Items]
    /\ destroyed \in BOOLEAN

\* The list is a chain.  What was retired is out of it and still marked; a new item is
\* not in it.  A mark in the list belongs to a delete that is under way.
Heap ==
    /\ Chain(link, InList) /\ ~link[HEAD].mark
    /\ \A i \in retired : i \notin InList \cup fresh /\ link[i].mark
    /\ \A i \in fresh : i \notin InList
    /\ \A i \in InList : link[i].mark => \E t \in Threads : pc[t] \in Owning /\ cur[t].ptr = i
    /\ destroyed => InList = {} /\ \A t \in Threads : pc[t] = "idle"

\* Which calls come to which places, and with what.
Args(t) ==
    /\ pc[t] = "idle" <=> op[t] = "none"
    /\ pc[t] = "idle" => prev[t] = HEAD /\ guards[t] = {}
    /\ pc[t] \in Inserts <=> op[t] = "insert"
    /\ pc[t] \in Holding \cup {"retire"} => op[t] = "delete"
    /\ pc[t] \in {"astray", "take_ref"} => op[t] = "find"
    /\ op[t] # "none" => target[t] \in Items
    /\ op[t] = "find" => refs[t] = {}
    /\ pc[t] = "check" /\ cur[t].ptr = NULL => op[t] = "find" /\ cur[t].mark

\* What a call stands on is protected, and what is protected has not been reclaimed.
Stands(t) ==
    /\ \A i \in guards[t] : Listed(i)
    /\ pc[t] \in Walking \cup Holding /\ prev[t] # HEAD => prev[t] \in guards[t]
    /\ pc[t] \in Holding => cur[t].ptr = target[t] /\ target[t] \in guards[t]
    /\ pc[t] = "take_ref" => target[t] \in guards[t]

\* The mark of an item has one owner, from the marking to the retiring; nobody but the
\* insert knows of the item that it is about to put in.
Owns(t) ==
    /\ pc[t] \in Owning => cur[t].ptr \in InList /\ link[cur[t].ptr] = Marked(nxt[t].ptr)
    /\ pc[t] = "retire" =>
          cur[t].ptr \in Items \ (InList \cup retired \cup fresh) /\ link[cur[t].ptr].mark
    /\ Putting(t) =>
          /\ target[t] \notin fresh /\ ~Listed(target[t]) /\ ~link[target[t]].mark
          /\ pc[t] = "ins_cas" => link[target[t]] = cur[t]
    /\ \A u \in Threads :
          /\ {pc[t], pc[u]} \subseteq Owning \cup {"retire"} /\ cur[t].ptr = cur[u].ptr => t = u
          /\ Putting(t) /\ Putting(u) /\ target[t] = target[u] => t = u

\* The item that a walk is for, and that it never saw absent, is in the list and ahead.
Looks(t) ==
    op[t] \in {"delete", "find"} /\ ~absent[t] =>
        /\ target[t] \in InList /\ pc[t] # "retire"
        /\ pc[t] \in Walking =>
              /\ link[prev[t]].ptr # NULL
              /\ prev[t] \in InList \cup {HEAD} => Ahead(link, prev[t], target[t])

Knows(t) == Args(t) /\ Stands(t) /\ Owns(t) /\ Looks(t)

LInv == Ranges /\ Heap /\ \A t \in Threads : Knows(t)

-----------------------------------------------------------------------------
(* The reference counts *)

Users(i) == {t \in Threads : i \in refs[t]}
Counted(i) == Listed(i) \/ \E t \in Threads : Putting(t) /\ target[t] = i

\* The list's own reference and one for every find that has not released the item.
CInv ==
    /\ ref \in [Items -> Nat]
    /\ \A i \in Items : ref[i] = Cardinality(Users(i)) + (IF Counted(i) THEN 1 ELSE 0)
    /\ \A i \in Items : ref[i] = 0 <=> i \in fresh \cup freed
    /\ fresh \cap freed = {}

IInv == LInv /\ CInv

-----------------------------------------------------------------------------
(* What the links reach *)

\* InList, of any links.
Reached(lk) ==
    LET hop[k \in 0..Cardinality(Items)] ==
            IF k = 0 THEN lk[HEAD].ptr
            ELSE LET i == hop[k - 1] IN IF i = NULL THEN NULL ELSE lk[i].ptr
    IN  {hop[k] : k \in 0..Cardinality(Items)} \ {NULL}

\* The constants, as the proofs use them.
LEMMA Constants ==
  NULL \notin Items /\ HEAD \notin Items /\ HEAD # NULL /\ IsFiniteSet(Items)
BY SinglyLinkedListAssumption

\* A link is its pointer and its mark.
LEMMA LinkFacts ==
  /\ \A p : Link(p).mark = FALSE /\ Link(p).ptr = p /\ Marked(p).mark = TRUE /\ Marked(p).ptr = p
  /\ \A p, q : Link(p) # Marked(q) /\ (p # q => Link(p) # Link(q) /\ Marked(p) # Marked(q))
  /\ \A p \in Items \cup {NULL} : Link(p) \in LinkValues /\ Marked(p) \in LinkValues
  BY DEF Link, Marked, LinkValues

\* Every set of naturals that is not empty has a least element.
LEMMA LeastNat ==
  ASSUME NEW T, T \subseteq Nat, T # {}
  PROVE  \E x \in T : \A y \in T : x <= y
<1> DEFINE R == OpToRel(<, Nat)
<1>1. IsWellFoundedOn(R, Nat)
  BY NatLessThanWellFounded
<1>2. \E x \in T : \A y \in T : ~ (<<y, x>> \in R)
  <2> HIDE DEF R
  <2> QED  BY <1>1, WFMin
<1>3. PICK x \in T : \A y \in T : ~ (<<y, x>> \in R)
  BY <1>2
<1>4. ASSUME NEW y \in T  PROVE x <= y
  <2>1. ~ (<<y, x>> \in R)
    BY <1>3
  <2> QED  BY <2>1 DEF OpToRel
<1> QED  BY <1>4

\* One step along the links, and the first m of them.
Hop(lk, i) == IF i = NULL THEN NULL ELSE lk[i].ptr
Hops(lk, m, f) ==
    f = [k \in 0..m |-> IF k = 0 THEN lk[HEAD].ptr ELSE Hop(lk, f[k - 1])]

LEMMA HopsExist ==
  ASSUME NEW lk, NEW m \in Nat
  PROVE  \E f : Hops(lk, m, f)
<1> DEFINE Bad == {k \in Nat : ~\E f : Hops(lk, k, f)}
<1>1. SUFFICES ASSUME Bad # {}  PROVE FALSE
  OBVIOUS
<1>2. PICK k \in Bad : \A j \in Bad : k <= j
  <2> Bad \subseteq Nat  OBVIOUS
  <2> HIDE DEF Bad
  <2> QED  BY <1>1, LeastNat
<1>3. k \in Nat /\ ~\E f : Hops(lk, k, f)
  OBVIOUS
<1>4. k # 0
  <2> DEFINE f == [j \in 0..0 |-> lk[HEAD].ptr]
  <2>1. f = [j \in 0..0 |-> IF j = 0 THEN lk[HEAD].ptr ELSE Hop(lk, f[j - 1])]
    OBVIOUS
  <2>2. Hops(lk, 0, f)  BY <2>1 DEF Hops
  <2> HIDE DEF f
  <2> QED  BY <1>3, <2>2
<1>5. k - 1 \in Nat /\ k - 1 \notin Bad
  BY <1>2, <1>3, <1>4
<1>6. PICK f : Hops(lk, k - 1, f)
  BY <1>5
<1> DEFINE g == [j \in 0..k |-> IF j = k THEN Hop(lk, f[k - 1]) ELSE f[j]]
<1>7. \A j \in 0..(k - 1) : f[j] = IF j = 0 THEN lk[HEAD].ptr ELSE Hop(lk, f[j - 1])
  BY <1>3, <1>6 DEF Hops
<1>8. ASSUME NEW j \in 0..k
      PROVE  g[j] = IF j = 0 THEN lk[HEAD].ptr ELSE Hop(lk, g[j - 1])
  <2>1. CASE j = k
    <3>1. j # 0 /\ g[j] = Hop(lk, f[k - 1]) /\ k - 1 \in 0..k /\ k - 1 # k  BY <2>1, <1>3, <1>4
    <3>2. g[k - 1] = f[k - 1]  BY <3>1
    <3> QED  BY <2>1, <3>1, <3>2
  <2>2. CASE j # k
    <3>1. j \in 0..(k - 1) /\ g[j] = f[j]  BY <2>2, <1>3
    <3>2. j # 0 => j - 1 \in 0..k /\ j - 1 # k  BY <3>1, <1>3
    <3>3. j # 0 => g[j - 1] = f[j - 1]  BY <3>2
    <3> QED  BY <3>1, <3>3, <1>7
  <2> QED  BY <2>1, <2>2
<1>9. g = [j \in 0..k |-> g[j]]
  OBVIOUS
<1> HIDE DEF g
<1>10. Hops(lk, k, g)
  BY <1>8, <1>9 DEF Hops
<1> QED  BY <1>3, <1>10

\* Where the links make a chain, the items that they reach are exactly those of the chain.
LEMMA ChainIsReached ==
  ASSUME NEW lk, NEW L, Chain(lk, L)
  PROVE  Reached(lk) = L
<1> DEFINE N == Cardinality(Items)
           h == CHOOSE f : Hops(lk, N, f)
           R == {h[k] : k \in 0..N} \ {NULL}
<1>1. N \in Nat /\ NULL \notin Items /\ HEAD \notin Items /\ L \subseteq Items /\ IsFiniteSet(Items)
  BY Constants, FS_CardinalityType DEF Chain
<1>2. Reached(lk) = R
  BY DEF Reached, Hops, Hop
<1>3. Hops(lk, N, h)
  BY <1>1, HopsExist
<1> HIDE DEF h, N
<1>4. /\ h[0] = lk[HEAD].ptr
      /\ \A k \in 0..N : k # 0 => k - 1 \in 0..N /\ h[k] = Hop(lk, h[k - 1])
  BY <1>1, <1>3 DEF Hops
<1>5. \A k \in 0..N : h[k] \in L \cup {NULL}
  <2> DEFINE Bad == {k \in 0..N : h[k] \notin L \cup {NULL}}
  <2>1. SUFFICES ASSUME Bad # {}  PROVE FALSE
    OBVIOUS
  <2>2. PICK k \in Bad : \A j \in Bad : k <= j
    <3> Bad \subseteq Nat  BY <1>1
    <3> HIDE DEF Bad
    <3> QED  BY <2>1, LeastNat
  <2>3. k \in 0..N /\ h[k] \notin L \cup {NULL}  OBVIOUS
  <2>4. k # 0  BY <2>3, <1>4 DEF Chain, Closed
  <2>5. k - 1 \in 0..N /\ ~(k <= k - 1)  BY <2>3, <2>4, <1>1
  <2>6. h[k - 1] \in L \cup {NULL}  BY <2>2, <2>5
  <2>7. h[k] = Hop(lk, h[k - 1])  BY <2>3, <2>4, <1>4
  <2> QED  BY <2>3, <2>6, <2>7 DEF Hop, Chain, Closed
<1>6. R \subseteq L
  BY <1>5
\* No item comes twice: going back from both places ends at the head with one of them.
<1>7. ASSUME NEW x \in 0..N, NEW y \in 0..N, x < y, h[x] = h[y], h[y] # NULL  PROVE FALSE
  <2> DEFINE Bad == {k \in 0..N : \E l \in 0..N : k < l /\ h[k] = h[l] /\ h[l] # NULL}
  <2>1. PICK k \in Bad : \A j \in Bad : k <= j
    <3>1. Bad # {} /\ Bad \subseteq Nat  BY <1>1, <1>7
    <3> HIDE DEF Bad
    <3> QED  BY <3>1, LeastNat
  <2>2. PICK l \in 0..N : k \in 0..N /\ k < l /\ h[k] = h[l] /\ h[l] # NULL
    OBVIOUS
  <2>3. l # 0 /\ l - 1 \in 0..N /\ h[l] = Hop(lk, h[l - 1])
    BY <2>2, <1>1, <1>4
  <2>4. h[l - 1] \in L /\ h[l] = lk[h[l - 1]].ptr
    BY <2>2, <2>3, <1>5 DEF Hop
  <2>5. CASE k = 0
    <3>1. lk[HEAD].ptr = lk[h[l - 1]].ptr /\ lk[HEAD].ptr # NULL
      BY <2>2, <2>4, <2>5, <1>4
    <3>2. h[l - 1] = HEAD
      BY <2>4, <3>1 DEF Chain
    <3> QED  BY <2>4, <3>2, <1>1
  <2>6. CASE k # 0
    <3>1. k - 1 \in 0..N /\ h[k] = Hop(lk, h[k - 1]) /\ k - 1 < l - 1 /\ ~(k <= k - 1)
      BY <2>2, <2>6, <1>1, <1>4
    <3>2. h[k - 1] \in L /\ h[k] = lk[h[k - 1]].ptr
      BY <2>2, <3>1, <1>5 DEF Hop
    <3>3. h[k - 1] = h[l - 1]
      BY <2>2, <2>4, <3>2 DEF Chain
    <3>4. h[l - 1] # NULL
      BY <2>4, <1>1
    <3>5. k - 1 \in Bad
      BY <2>3, <3>1, <3>3, <3>4
    <3> HIDE DEF Bad
    <3> QED  BY <2>1, <3>1, <3>5
  <2> QED  BY <2>5, <2>6
<1>8. \E k \in 0..N : h[k] = NULL
  <2>1. SUFFICES ASSUME \A k \in 0..N : h[k] # NULL  PROVE FALSE
    OBVIOUS
  <2> DEFINE g == [k \in 0..N |-> h[k]]
  <2>2. g \in [0..N -> Items]  BY <2>1, <1>1, <1>5
  <2>3. IsFiniteSet(0..N) /\ Cardinality(0..N) = N + 1
    BY <1>1, FS_Interval
  <2>4. \E x, y \in 0..N : x # y /\ g[x] = g[y]
    <3>1. N < N + 1 /\ N = Cardinality(Items)  BY <1>1 DEF N
    <3> HIDE DEF g
    <3> QED  BY <2>2, <2>3, <3>1, <1>1, FS_PigeonHole
  <2>5. PICK x \in 0..N, y \in 0..N : x # y /\ h[x] = h[y]
    BY <2>4
  <2>6. CASE x < y  BY <2>1, <2>5, <2>6, <1>7
  <2>7. CASE y < x  BY <2>1, <2>5, <2>7, <1>7
  <2> QED  BY <2>5, <2>6, <2>7, <1>1
\* So what is reached holds what comes after the head.
<1>9. Closed(lk, HEAD, R)
  <2>1. lk[HEAD].ptr \in R \cup {NULL}
    BY <1>1, <1>4
  <2>2. ASSUME NEW k \in 0..N, h[k] # NULL  PROVE lk[h[k]].ptr \in R \cup {NULL}
    <3>1. PICK m \in 0..N : h[m] = NULL  BY <1>8
    <3>2. CASE k # N
      <4>1. k + 1 \in 0..N /\ k + 1 # 0 /\ (k + 1) - 1 = k  BY <3>2, <1>1
      <4>2. h[k + 1] = Hop(lk, h[k])  BY <4>1, <1>4
      <4> QED  BY <4>1, <4>2, <2>2 DEF Hop
    <3>3. CASE k = N
      <4> DEFINE T == {l \in 0..N : m <= l /\ h[l] # NULL}
      <4>1. PICK l \in T : \A j \in T : l <= j
        <5>1. N \in T /\ T \subseteq Nat  BY <1>1, <2>2, <3>3
        <5> HIDE DEF T
        <5> QED  BY <5>1, LeastNat
      <4>2. l \in 0..N /\ m <= l /\ h[l] # NULL  OBVIOUS
      <4>3. l # m /\ l # 0 /\ l - 1 \in 0..N /\ m <= l - 1 /\ ~(l <= l - 1)
        BY <3>1, <4>2, <1>1
      <4>4. h[l - 1] # NULL
        BY <4>2, <4>3, <1>4 DEF Hop
      <4>5. l - 1 \in T  BY <4>3, <4>4
      <4> HIDE DEF T
      <4> QED  BY <4>1, <4>3, <4>5
    <3> QED  BY <3>2, <3>3
  <2> QED  BY <2>1, <2>2 DEF Closed
<1>10. L \subseteq R
  <2>1. R \in SUBSET Items  BY <1>1, <1>6
  <2> HIDE DEF R
  <2> QED  BY <2>1, <1>9 DEF Chain, Ahead
<1> QED  BY <1>2, <1>6, <1>10

\* The empty list.
LEMMA ChainEmpty ==
  ASSUME NEW lk, lk[HEAD].ptr = NULL
  PROVE  Chain(lk, {})
BY DEF Chain, Closed

-----------------------------------------------------------------------------
(* What may happen to a list *)

\* What comes after p comes after its successor, but for that one.
LEMMA AheadNext ==
  ASSUME NEW lk, NEW p, NEW c \in Items, lk[p].ptr = c, NEW i, i # c, Ahead(lk, p, i)
  PROVE  Ahead(lk, c, i)
<1> SUFFICES ASSUME NEW S \in SUBSET Items, Closed(lk, c, S)  PROVE i \in S
  BY DEF Ahead
<1>1. Closed(lk, p, S \cup {c})
  BY DEF Closed
<1> QED  BY <1>1 DEF Ahead

\* Nothing comes after the end.
LEMMA AheadNone ==
  ASSUME NEW lk, NEW p, NEW i, Ahead(lk, p, i)
  PROVE  lk[p].ptr # NULL
<1>1. lk[p].ptr = NULL => Closed(lk, p, {})
  BY DEF Closed
<1> QED  BY <1>1 DEF Ahead

\* A list depends on the pointers of its items only.
LEMMA ChainKept ==
  ASSUME NEW lk, NEW lk2, NEW L, Chain(lk, L),
         \A p \in L \cup {HEAD} : lk2[p].ptr = lk[p].ptr
  PROVE  /\ Chain(lk2, L)
         /\ \A p \in L \cup {HEAD} : \A i : Ahead(lk, p, i) => Ahead(lk2, p, i)
<1>1. ASSUME NEW p \in L \cup {HEAD}, NEW i, Ahead(lk, p, i)  PROVE Ahead(lk2, p, i)
  <2> SUFFICES ASSUME NEW S \in SUBSET Items, Closed(lk2, p, S)  PROVE i \in S
    BY DEF Ahead
  <2>1. Closed(lk, p, S \cap L)
    BY DEF Chain, Closed
  <2> QED  BY <1>1, <2>1 DEF Ahead
<1>2. Closed(lk2, HEAD, L)
  BY DEF Chain, Closed
<1> QED  BY <1>1, <1>2 DEF Chain

\* An item is put in at the head.
LEMMA ChainPush ==
  ASSUME NEW lk, NEW lk2, NEW L, Chain(lk, L), NEW i \in Items \ L,
         lk2[HEAD].ptr = i, lk2[i].ptr = lk[HEAD].ptr,
         \A q \in L : lk2[q].ptr = lk[q].ptr
  PROVE  /\ Chain(lk2, L \cup {i})
         /\ \A p \in L : \A j : Ahead(lk, p, j) => Ahead(lk2, p, j)
<1>1. L \subseteq Items /\ HEAD \notin Items /\ NULL \notin Items
  BY Constants DEF Chain
<1>2. Closed(lk2, HEAD, L \cup {i})
  BY DEF Chain, Closed
<1>3. ASSUME NEW j \in L \cup {i}  PROVE Ahead(lk2, HEAD, j)
  <2> SUFFICES ASSUME NEW S \in SUBSET Items, Closed(lk2, HEAD, S)  PROVE j \in S
    BY DEF Ahead
  <2>1. i \in S
    BY <1>1 DEF Closed
  <2>2. Closed(lk, HEAD, S \cap L)
    <3>1. lk[HEAD].ptr \in S \cup {NULL}  BY <2>1 DEF Closed
    <3> QED  BY <3>1 DEF Chain, Closed
  <2>3. \A k \in L : k \in S
    BY <2>2 DEF Chain, Ahead
  <2> QED  BY <2>1, <2>3
<1>4. ASSUME NEW p \in L, NEW j, Ahead(lk, p, j)  PROVE Ahead(lk2, p, j)
  <2> SUFFICES ASSUME NEW S \in SUBSET Items, Closed(lk2, p, S)  PROVE j \in S
    BY DEF Ahead
  <2>1. Closed(lk, p, S \cap L)
    BY DEF Chain, Closed
  <2> QED  BY <1>4, <2>1 DEF Ahead
<1>5. ASSUME NEW p \in L \cup {i, HEAD}, NEW q \in L \cup {i, HEAD},
             lk2[p].ptr = lk2[q].ptr, lk2[p].ptr # NULL
      PROVE  p = q
  <2>1. \A r \in L : lk2[r].ptr \in L \cup {NULL}
    BY DEF Chain, Closed
  <2>2. lk2[i].ptr \in L \cup {NULL}
    BY DEF Chain, Closed
  <2>3. p = HEAD <=> q = HEAD
    BY <1>1, <1>5, <2>1, <2>2
  <2>4. CASE p # HEAD /\ q # HEAD
    <3>1. CASE p = i /\ q \in L
      BY <3>1, <1>1, <1>5 DEF Chain
    <3>2. CASE q = i /\ p \in L
      BY <3>2, <1>1, <1>5 DEF Chain
    <3>3. CASE p \in L /\ q \in L
      BY <3>3, <1>5 DEF Chain
    <3> QED  BY <2>4, <3>1, <3>2, <3>3
  <2> QED  BY <2>3, <2>4
<1>6. L \cup {i} \subseteq Items  BY <1>1
<1> QED  BY <1>2, <1>3, <1>4, <1>5, <1>6 DEF Chain

\* The item after p is taken out.
LEMMA ChainCut ==
  ASSUME NEW lk, NEW lk2, NEW L, Chain(lk, L), NEW p \in L \cup {HEAD}, NEW c \in L, p # c,
         lk[p].ptr = c, lk2[p].ptr = lk[c].ptr,
         \A q \in L \cup {HEAD} : q # p => lk2[q].ptr = lk[q].ptr
  PROVE  /\ Chain(lk2, L \ {c})
         /\ \A q \in (L \ {c}) \cup {HEAD} : \A j :
               j # c /\ Ahead(lk, q, j) => Ahead(lk2, q, j)
<1>1. L \subseteq Items /\ HEAD \notin Items /\ NULL \notin Items
  BY Constants DEF Chain
<1>2. \A q \in L \cup {HEAD} : lk[q].ptr \in L \cup {NULL} /\ (lk[q].ptr = c => q = p)
  BY <1>1 DEF Chain, Closed
<1>3. \A q \in (L \ {c}) \cup {HEAD} : lk2[q].ptr \in (L \ {c}) \cup {NULL}
  BY <1>1, <1>2
<1>4. ASSUME NEW q \in (L \ {c}) \cup {HEAD}, NEW j, j # c, Ahead(lk, q, j)
      PROVE  Ahead(lk2, q, j)
  <2> SUFFICES ASSUME NEW S \in SUBSET Items, Closed(lk2, q, S)  PROVE j \in S
    BY DEF Ahead
  <2> DEFINE A == S \cap (L \ {c})
             T == IF p = q \/ p \in A THEN A \cup {c} ELSE A
  <2>1. lk2[q].ptr \in A \cup {NULL} /\ \A r \in A : lk2[r].ptr \in A \cup {NULL}
    BY <1>3 DEF Closed
  <2>2. p = q \/ p \in A => lk[c].ptr \in A \cup {NULL}
    BY <2>1
  <2>3. \A r \in A \cup {q} : lk[r].ptr \in T \cup {NULL}
    <3> SUFFICES ASSUME NEW r \in A \cup {q}  PROVE lk[r].ptr \in T \cup {NULL}
      OBVIOUS
    <3>1. CASE r = p  BY <3>1
    <3>2. CASE r # p  BY <3>2, <2>1
    <3> QED  BY <3>1, <3>2
  <2>4. Closed(lk, q, T)
    BY <2>2, <2>3 DEF Closed
  <2>5. T \in SUBSET Items
    BY <1>1
  <2>6. j \in T
    <3> HIDE DEF T
    <3> QED  BY <1>4, <2>4, <2>5 DEF Ahead
  <2> QED  BY <1>4, <2>6
<1>5. Closed(lk2, HEAD, L \ {c})
  BY <1>3 DEF Closed
<1>6. \A j \in L \ {c} : Ahead(lk2, HEAD, j)
  BY <1>4 DEF Chain
<1>7. ASSUME NEW q \in (L \ {c}) \cup {HEAD}, NEW r \in (L \ {c}) \cup {HEAD},
             lk2[q].ptr = lk2[r].ptr, lk2[q].ptr # NULL
      PROVE  q = r
  <2>1. CASE q = p /\ r # p
    <3>1. lk[c].ptr = lk[r].ptr /\ lk[r].ptr # NULL /\ r \in L \cup {HEAD}
      BY <2>1, <1>7
    <3> QED  BY <3>1, <1>7, <1>1 DEF Chain
  <2>2. CASE r = p /\ q # p
    <3>1. lk[c].ptr = lk[q].ptr /\ lk[q].ptr # NULL /\ q \in L \cup {HEAD}
      BY <2>2, <1>7
    <3> QED  BY <3>1, <1>7, <1>1 DEF Chain
  <2>3. CASE q # p /\ r # p
    <3>1. lk[q].ptr = lk[r].ptr /\ lk[r].ptr # NULL
      BY <2>3, <1>7
    <3> QED  BY <3>1 DEF Chain
  <2> QED  BY <2>1, <2>2, <2>3
<1> QED  BY <1>1, <1>4, <1>5, <1>6, <1>7 DEF Chain

-----------------------------------------------------------------------------
(* What a step of one call may do *)

\* A step of t leaves the locals of the others alone.
OnlyBy(t) ==
    \A u \in Threads \ {t} :
        /\ pc'[u] = pc[u] /\ op'[u] = op[u] /\ target'[u] = target[u] /\ refs'[u] = refs[u]
        /\ prev'[u] = prev[u] /\ cur'[u] = cur[u] /\ nxt'[u] = nxt[u] /\ guards'[u] = guards[u]
        /\ absent[u] => absent'[u]

\* An item comes into the list by the insert that was given it, and leaves by the delete
\* that marked it; a link is written by its insert, by the owner of its mark, or unmarked.
Progress(t) ==
    /\ Chain(link', InList') /\ ~link'[HEAD].mark
    /\ \A i \in InList' \ InList : Putting(t) /\ i = target[t]
    /\ \A i \in InList \ InList' :
          /\ pc[t] = "unlink" /\ i = cur[t].ptr /\ pc'[t] = "retire" /\ cur'[t] = cur[t]
          /\ link'[i] = link[i] /\ \A u \in Threads : target[u] = i => absent'[u]
    /\ \A i \in Items :
          \/ link'[i] = link[i] \/ i \in fresh \/ (Putting(t) /\ i = target[t])
          \/ i \in InList /\ ~link[i].mark
          \/ pc[t] \in Owning /\ i = cur[t].ptr
    /\ \A p \in InList \cup {HEAD} : \A i \in InList' :
          p \in InList' \cup {HEAD} /\ Ahead(link, p, i) => Ahead(link', p, i)
    /\ \A i \in InList' : link'[i].mark =>
          \/ pc'[t] \in Owning /\ cur'[t].ptr = i
          \/ i \in InList /\ link[i].mark /\ ~(pc[t] \in Owning /\ cur[t].ptr = i)
    /\ retired \subseteq retired' /\ \A i \in retired' \ retired : pc[t] = "retire" /\ i = cur[t].ptr
    /\ pc[t] = "retire" => cur[t].ptr \in retired'
    /\ pc'[t] = "retire" => cur'[t].ptr \in InList
    /\ fresh' \subseteq fresh /\ ~destroyed /\ ~destroyed'

\* What has the list's reference keeps it; only the item of t can get it.
LEMMA ListedKept ==
  ASSUME LInv, NEW t \in Threads, OnlyBy(t), Progress(t), NEW i \in Items
  PROVE  /\ Listed(i) => Listed(i)'
         /\ Listed(i)' => Listed(i) \/ (Putting(t) /\ i = target[t])
<1>1. CASE Listed(i)
  <2>1. CASE i \in InList
    <3>1. i \notin InList' => pc'[t] = "retire" /\ cur'[t].ptr = i
      BY <2>1 DEF Progress
    <3> QED  BY <2>1, <3>1 DEF Listed, Leaving
  <2>2. CASE i \in retired
    BY <2>2 DEF Progress, Listed
  <2>3. ASSUME NEW u \in Threads, pc[u] = "retire", cur[u].ptr = i  PROVE Listed(i)'
    <3>1. CASE u = t
      BY <2>3, <3>1 DEF Progress, Listed
    <3>2. CASE u # t
      BY <2>3, <3>2 DEF OnlyBy, Listed, Leaving
    <3> QED  BY <3>1, <3>2
  <2> QED  BY <1>1, <2>1, <2>2, <2>3 DEF Listed, Leaving
<1>2. CASE Listed(i)'
  <2>1. CASE i \in InList'
    BY <2>1 DEF Progress, Listed
  <2>2. CASE i \in retired'
    BY <2>2 DEF Progress, Listed, Leaving
  <2>3. ASSUME NEW u \in Threads, pc'[u] = "retire", cur'[u].ptr = i  PROVE Listed(i)
    <3>1. CASE u = t
      BY <2>3, <3>1 DEF Progress, Listed
    <3>2. CASE u # t
      BY <2>3, <3>2 DEF OnlyBy, Listed, Leaving
    <3> QED  BY <3>1, <3>2
  <2> QED  BY <1>2, <2>1, <2>2, <2>3 DEF Listed, Leaving
<1> QED  BY <1>1, <1>2

\* What has the list's reference is not new, and is marked once it is out of the list.
LEMMA ListedFacts ==
  ASSUME LInv, NEW i \in Items, Listed(i)
  PROVE  /\ i \notin fresh
         /\ i \notin InList => link[i].mark
         /\ \A u \in Threads : Putting(u) => i # target[u]
<1>1. \A u \in Threads : Owns(u)
  BY DEF LInv, Knows
<1> QED  BY <1>1 DEF LInv, Heap, Owns, Listed, Leaving

\* An item whose link a step of t does not write: it is out of the list, or another's.
LEMMA NotWritten ==
  ASSUME LInv, NEW t \in Threads, Progress(t), NEW i \in Items,
         i \notin fresh, Putting(t) => i # target[t], i \in InList => link[i].mark,
         pc[t] \in Owning => i # cur[t].ptr
  PROVE  link'[i] = link[i]
BY DEF Progress

\* What the other calls know stays true.
LEMMA OthersStand ==
  ASSUME LInv, NEW t \in Threads, OnlyBy(t), Progress(t), NEW u \in Threads \ {t}
  PROVE  Args(u)' /\ Stands(u)'
<1>1. Knows(u) /\ Ranges
  BY DEF LInv
<1>2. /\ pc'[u] = pc[u] /\ op'[u] = op[u] /\ target'[u] = target[u] /\ refs'[u] = refs[u]
      /\ prev'[u] = prev[u] /\ cur'[u] = cur[u] /\ guards'[u] = guards[u]
  BY DEF OnlyBy
<1>3. Args(u)'
  BY <1>1, <1>2 DEF Knows, Args
<1>4. \A i \in guards[u] : Listed(i)'
  <2>1. guards[u] \subseteq Items  BY <1>1 DEF Ranges
  <2>2. \A i \in guards[u] : Listed(i)  BY <1>1 DEF Knows, Stands
  <2> QED  BY <2>1, <2>2, ListedKept
<1> QED  BY <1>1, <1>2, <1>3, <1>4 DEF Knows, Stands

LEMMA OthersOwn ==
  ASSUME LInv, NEW t \in Threads, OnlyBy(t), Progress(t), NEW u \in Threads \ {t}, Owns(t)'
  PROVE  Owns(u)'
<1>1. Owns(u) /\ Owns(t) /\ Ranges /\ Heap
  BY DEF LInv, Knows
<1>2. /\ pc'[u] = pc[u] /\ op'[u] = op[u] /\ target'[u] = target[u]
      /\ cur'[u] = cur[u] /\ nxt'[u] = nxt[u]
  BY DEF OnlyBy
<1>3. Putting(u)' <=> Putting(u)
  BY <1>2 DEF Putting
<1>4. ASSUME pc[u] \in Owning
      PROVE  cur[u].ptr \in InList' /\ link'[cur[u].ptr] = Marked(nxt[u].ptr)
  <2> DEFINE i == cur[u].ptr
  <2>1. i \in InList /\ link[i] = Marked(nxt[u].ptr) /\ i \in Items
    BY <1>1, <1>4 DEF Owns, Heap, Chain
  <2>2. pc[t] \in Owning => i # cur[t].ptr
    BY <1>1, <1>4 DEF Owns
  <2>3. i \in InList'
    BY <2>1, <2>2 DEF Progress, Owning
  <2>4. Listed(i)  BY <2>1 DEF Listed
  <2>5. i \notin fresh /\ (Putting(t) => i # target[t])
    BY <2>1, <2>4, ListedFacts
  <2>6. link[i].mark  BY <2>1 DEF Marked
  <2>7. link'[i] = link[i]
    BY <2>1, <2>2, <2>5, <2>6, NotWritten
  <2> QED  BY <2>1, <2>3, <2>7
<1>5. ASSUME pc[u] = "retire"
      PROVE  /\ cur[u].ptr \in Items \ (InList' \cup retired' \cup fresh')
             /\ link'[cur[u].ptr].mark
  <2> DEFINE i == cur[u].ptr
  <2>1. i \in Items \ (InList \cup retired \cup fresh) /\ link[i].mark
    BY <1>1, <1>5 DEF Owns
  <2>2. Listed(i)  BY <1>5 DEF Listed, Leaving
  <2>3. pc[t] \in Owning \cup {"retire"} => i # cur[t].ptr
    BY <1>1, <1>5 DEF Owns
  <2>4. Putting(t) => i # target[t]
    BY <2>1, <2>2, ListedFacts
  <2>5. i \notin InList' \cup retired' \cup fresh'
    BY <2>1, <2>3, <2>4 DEF Progress
  <2>6. link'[i] = link[i]
    BY <2>1, <2>3, <2>4, NotWritten
  <2> QED  BY <2>1, <2>5, <2>6
<1>6. ASSUME Putting(u), target[u] \in Items
      PROVE  /\ target[u] \notin fresh' /\ ~Listed(target[u])' /\ link'[target[u]] = link[target[u]]
  <2> DEFINE i == target[u]
  <2>1. i \notin fresh /\ ~Listed(i) /\ ~link[i].mark
    BY <1>1, <1>6 DEF Owns
  <2>2. Putting(t) => i # target[t]
    BY <1>1, <1>6 DEF Owns
  <2>3. i \notin InList  BY <2>1 DEF Listed
  <2>4. pc[t] \in Owning => i # cur[t].ptr
    BY <2>3, <1>1 DEF Owns
  <2>5. \A j \in Items : j = i => (Listed(j)' => Listed(j) \/ (Putting(t) /\ j = target[t]))
    BY ListedKept
  <2>6. ~Listed(i)'
    <3>1. PICK j \in Items : j = i  BY <1>6
    <3>2. ~Listed(j)'  BY <3>1, <2>1, <2>2, <2>5
    <3>3. ~(j \in InList' \/ j \in retired' \/ \E v \in Threads : pc'[v] = "retire" /\ cur'[v].ptr = j)
      BY <3>2 DEF Listed, Leaving
    <3>4. target'[u] = j  BY <3>1, <1>2
    <3> QED  BY <3>3, <3>4 DEF Listed, Leaving
  <2>7. link'[i] = link[i]
    BY <1>6, <2>1, <2>2, <2>3, <2>4, NotWritten
  <2> QED  BY <1>2, <2>1, <2>6, <2>7 DEF Progress
<1>7. Putting(u) => target[u] \in Items
  <2>1. Args(u)  BY DEF LInv, Knows
  <2> QED  BY <2>1 DEF Args, Putting
<1>8. ASSUME NEW v \in Threads
      PROVE  /\ {pc'[u], pc'[v]} \subseteq Owning \cup {"retire"} /\ cur'[u].ptr = cur'[v].ptr => u = v
             /\ Putting(u)' /\ Putting(v)' /\ target'[u] = target'[v] => u = v
  <2>1. CASE v = t
    BY <2>1 DEF Owns
  <2>2. CASE v # t
    <3>1. /\ pc'[v] = pc[v] /\ target'[v] = target[v] /\ cur'[v] = cur[v]
          /\ Putting(v)' <=> Putting(v)
      BY <2>2 DEF OnlyBy, Putting
    <3> QED  BY <3>1, <1>1, <1>2, <1>3 DEF Owns
  <2> QED  BY <2>1, <2>2
<1>9. Putting(u)' =>
          /\ target'[u] \notin fresh' /\ ~Listed(target[u])' /\ ~link'[target'[u]].mark
          /\ pc'[u] = "ins_cas" => link'[target'[u]] = cur'[u]
  BY <1>1, <1>2, <1>3, <1>6, <1>7 DEF Owns
<1> QED  BY <1>2, <1>4, <1>5, <1>8, <1>9 DEF Owns

LEMMA OthersLook ==
  ASSUME LInv, NEW t \in Threads, OnlyBy(t), Progress(t), NEW u \in Threads \ {t}
  PROVE  Looks(u)'
<1>1. Looks(u) /\ Stands(u) /\ Owns(t) /\ Ranges /\ Heap
  BY DEF LInv, Knows
<1>2. /\ pc'[u] = pc[u] /\ op'[u] = op[u] /\ target'[u] = target[u]
      /\ prev'[u] = prev[u] /\ (absent[u] => absent'[u])
  BY DEF OnlyBy
<1> SUFFICES ASSUME op[u] \in {"delete", "find"}, ~absent'[u]
             PROVE  /\ target[u] \in InList' /\ pc[u] # "retire"
                    /\ pc[u] \in Walking =>
                          /\ link'[prev[u]].ptr # NULL
                          /\ prev[u] \in InList' \cup {HEAD} => Ahead(link', prev[u], target[u])
  BY <1>2 DEF Looks
<1>3. /\ target[u] \in InList /\ pc[u] # "retire"
      /\ pc[u] \in Walking =>
            /\ link[prev[u]].ptr # NULL
            /\ prev[u] \in InList \cup {HEAD} => Ahead(link, prev[u], target[u])
  BY <1>1, <1>2 DEF Looks
<1>4. target[u] \in InList'
  BY <1>3 DEF Progress
<1> SUFFICES ASSUME pc[u] \in Walking
             PROVE  /\ link'[prev[u]].ptr # NULL
                    /\ prev[u] \in InList' \cup {HEAD} => Ahead(link', prev[u], target[u])
  BY <1>3, <1>4
<1> DEFINE p == prev[u]
<1>5. p # HEAD => p \in Items /\ Listed(p)
  BY <1>1 DEF Stands, Ranges, Places
<1>6. p \in InList' => p \in InList
  <2>1. p \in InList' => p # HEAD /\ p \in Items  BY Constants DEF Progress, Chain
  <2>2. p \in InList' => \A v \in Threads : Putting(v) => p # target[v]
    BY <2>1, <1>5, ListedFacts
  <2> QED  BY <2>2 DEF Progress
<1>7. CASE p \in InList' \cup {HEAD}
  <2>1. Ahead(link', p, target[u])
    BY <1>3, <1>4, <1>6, <1>7 DEF Progress
  <2> QED  BY <2>1, AheadNone
<1>8. CASE p \notin InList' \cup {HEAD}
  <2>1. p \in InList => link'[p] = link[p]
    BY <1>8 DEF Progress
  <2>2. p \notin InList => link'[p] = link[p]
    <3>1. p \in Items /\ p \notin fresh /\ \A v \in Threads : Putting(v) => p # target[v]
      BY <1>5, <1>8, ListedFacts
    <3>2. p \notin InList /\ pc[t] \in Owning => p # cur[t].ptr
      BY <1>1 DEF Owns
    <3> QED  BY <3>1, <3>2, NotWritten
  <2> QED  BY <1>3, <1>8, <2>1, <2>2
<1> QED  BY <1>7, <1>8

\* And the list stays as it has to be.
LEMMA HeapKept ==
  ASSUME LInv, NEW t \in Threads, OnlyBy(t), Progress(t)
  PROVE  Heap'
<1>1. Heap /\ Ranges /\ \A u \in Threads : Owns(u) /\ Args(u)
  BY DEF LInv, Knows
<1>2. Chain(link', InList') /\ ~link'[HEAD].mark
  BY DEF Progress
<1>3. ASSUME NEW i \in retired'  PROVE i \notin InList' \cup fresh' /\ link'[i].mark
  <2>1. i \in Items \ (InList \cup fresh) /\ link[i].mark /\ Listed(i)
    <3>1. CASE i \in retired
      BY <3>1, <1>1 DEF Heap, Ranges, Listed
    <3>2. CASE i \notin retired
      <4>1. pc[t] = "retire" /\ i = cur[t].ptr  BY <3>2, <1>3 DEF Progress
      <4> QED  BY <4>1, <1>1 DEF Owns, Listed, Leaving
    <3> QED  BY <3>1, <3>2
  <2>2. Putting(t) => i # target[t]
    BY <2>1, ListedFacts
  <2>3. pc[t] \in Owning => i # cur[t].ptr
    BY <2>1, <1>1 DEF Owns
  <2>4. link'[i] = link[i]
    BY <2>1, <2>2, <2>3, NotWritten
  <2> QED  BY <2>1, <2>2, <2>4 DEF Progress
<1>4. \A i \in fresh' : i \notin InList'
  BY <1>1 DEF Progress, Heap, Owns
<1>5. ASSUME NEW i \in InList', link'[i].mark
      PROVE  \E u \in Threads : pc'[u] \in Owning /\ cur'[u].ptr = i
  <2>1. CASE pc'[t] \in Owning /\ cur'[t].ptr = i
    BY <2>1
  <2>2. CASE i \in InList /\ link[i].mark /\ ~(pc[t] \in Owning /\ cur[t].ptr = i)
    <3>1. PICK u \in Threads : pc[u] \in Owning /\ cur[u].ptr = i
      BY <2>2, <1>1 DEF Heap
    <3>2. u # t  BY <2>2, <3>1
    <3> QED  BY <3>1, <3>2 DEF OnlyBy
  <2> QED  BY <1>5, <2>1, <2>2 DEF Progress
<1>6. ~destroyed'
  BY DEF Progress
<1> QED  BY <1>2, <1>3, <1>4, <1>5, <1>6 DEF Heap

\* So a step only has to keep the ranges and what its own call knows.
LEMMA ProgressKeeps ==
  ASSUME LInv, NEW t \in Threads, OnlyBy(t), Progress(t), Ranges', Knows(t)'
  PROVE  LInv'
<1>1. \A u \in Threads \ {t} : Knows(u)'
  BY OthersStand, OthersOwn, OthersLook DEF Knows
<1> QED  BY <1>1, HeapKept DEF LInv

-----------------------------------------------------------------------------
(* No step leaves the ranges *)

LEMMA InListAfter == InList = Reached(link) /\ InList' = Reached(link')
BY DEF InList, Reached

\* A link that has the pointer of another, and any mark.
LEMMA LinkRanges ==
  /\ \A v \in LinkValues : v.ptr \in Items \cup {NULL} /\ v.mark \in BOOLEAN
  /\ Link(NULL) \in LinkValues
  /\ \A v \in LinkValues : Link(v.ptr) \in LinkValues /\ Marked(v.ptr) \in LinkValues
  /\ \A v \in LinkValues : (v.mark => v = Marked(v.ptr)) /\ (~v.mark => v = Link(v.ptr))
BY DEF LinkValues, Link, Marked

LEMMA CallRanges ==
  ASSUME Ranges, NEW t \in Threads, NEW what \in {"insert", "delete", "find"}, NEW i \in Items,
         NEW at \in PCs, Call(t, what, i, at)
  PROVE  /\ pc' \in [Threads -> PCs] /\ op' \in [Threads -> {"none", "insert", "delete", "find"}]
         /\ target' \in [Threads -> Items \cup {NULL}] /\ absent' \in [Threads -> BOOLEAN]
<1>1. (i \notin InList) \in BOOLEAN  OBVIOUS
<1> QED  BY <1>1 DEF Ranges, Call, Goto

LEMMA ReturnRanges ==
  ASSUME Ranges, NEW t \in Threads, NEW from, Return(t, from)
  PROVE  /\ pc' \in [Threads -> PCs] /\ op' \in [Threads -> {"none", "insert", "delete", "find"}]
         /\ target' \in [Threads -> Items \cup {NULL}] /\ absent' \in [Threads -> BOOLEAN]
         /\ prev' \in [Threads -> Places]
         /\ cur' \in [Threads -> LinkValues] /\ nxt' \in [Threads -> LinkValues]
         /\ guards' \in [Threads -> SUBSET Items]
BY LinkRanges DEF Ranges, Return, Goto, PCs, Places

LEMMA RestartRanges ==
  ASSUME Ranges, NEW t \in Threads, Restart(t)
  PROVE  /\ pc' \in [Threads -> PCs] /\ prev' \in [Threads -> Places]
         /\ cur' \in [Threads -> LinkValues] /\ nxt' \in [Threads -> LinkValues]
         /\ guards' \in [Threads -> SUBSET Items]
BY LinkRanges DEF Ranges, Restart, PCs, Places

\* Where the call of a step stands.
LEMMA StepArgs ==
  ASSUME LInv, NEW t \in Threads
  PROVE  /\ pc[t] # "idle" => target[t] \in Items /\ ~destroyed
         /\ pc[t] \in Inserts => op[t] = "insert"
         /\ pc[t] \in Walking => op[t] \in {"delete", "find"}
         /\ pc[t] \in Holding \cup {"retire"} => op[t] = "delete"
         /\ pc[t] \in Holding \cup {"retire"} => cur[t].ptr \in Items
         /\ prev[t] \in Places /\ HEAD \in Places
<1>1. Ranges /\ Heap /\ Args(t) /\ Stands(t) /\ Owns(t)
  BY DEF LInv, Knows
<1> QED  BY <1>1 DEF Ranges, Heap, Args, Stands, Owns, Walking, Inserts, Holding, Owning, Places

LEMMA StepRanges ==
  ASSUME LInv, NEW t \in Threads, Step(t)
  PROVE  Ranges'
<1>1. Ranges /\ Args(t)
  BY DEF LInv, Knows
<1>2. /\ pc[t] # "idle" => target[t] \in Items /\ ~destroyed
      /\ pc[t] \in Holding \cup {"retire"} => cur[t].ptr \in Items
      /\ prev[t] \in Places /\ HEAD \in Places
  BY StepArgs
<1>3. /\ link[HEAD] \in LinkValues /\ link[prev[t]] \in LinkValues
      /\ cur[t] \in LinkValues /\ nxt[t] \in LinkValues
  BY <1>1, <1>2 DEF Ranges, LinkMaps
<1> USE <1>1, <1>2, <1>3 DEF Ranges, Goto, memory, call, walk
<1>4. CASE InsertRead(t)
  BY <1>4 DEF InsertRead, LinkMaps, Places, PCs
<1>5. CASE InsertCas(t)
  <2>1. Link(target[t]) \in LinkValues
    BY <1>5, LinkFacts DEF InsertCas
  <2> QED  BY <1>5, <2>1 DEF InsertCas, LinkMaps, PCs
<1>6. CASE InsertCompare(t)
  <2>1. CASE Return(t, "ins_compare")
    BY <1>6, <2>1, ReturnRanges DEF InsertCompare
  <2>2. CASE Goto(t, "ins_compare", "ins_read") /\ UNCHANGED <<call, walk>>
    BY <1>6, <2>2 DEF InsertCompare, PCs
  <2> QED  BY <1>6, <2>1, <2>2 DEF InsertCompare
<1>7. CASE WalkEnd(t)
  BY <1>7, ReturnRanges DEF WalkEnd
<1>8. CASE WalkRead(t)
  BY <1>8 DEF WalkRead, PCs
<1>9. CASE AcquireFails(t)
  BY <1>9, ReturnRanges DEF AcquireFails
<1>10. CASE CheckAgain(t)
  BY <1>10, RestartRanges DEF CheckAgain
<1>11. CASE CheckTagged(t)
  BY <1>11 DEF CheckTagged, PCs
<1>12. CASE CheckAdvance(t)
  <2>1. cur[t].ptr \in Items
    BY <1>12, LinkRanges DEF CheckAdvance, Args
  <2> QED  BY <1>12, <2>1, LinkRanges DEF CheckAdvance, PCs, Places
<1>13. CASE CheckMatch(t)
  <2>1. cur[t].ptr \in Items
    BY <1>13 DEF CheckMatch
  <2>2. Link(cur[t].ptr) \in LinkValues
    BY LinkRanges
  <2> QED  BY <1>13, <2>1, <2>2 DEF CheckMatch, PCs
<1>14. CASE MarkRead(t)
  <2>1. link[cur[t].ptr] \in LinkValues
    BY <1>14 DEF MarkRead, Holding, LinkMaps, Places
  <2> QED  BY <1>14, <2>1 DEF MarkRead, PCs
<1>15. CASE Mark(t)
  <2>1. Marked(nxt[t].ptr) \in LinkValues
    BY LinkRanges
  <2>2. CASE link[cur[t].ptr] = Link(nxt[t].ptr)
    BY <1>15, <2>1, <2>2 DEF Mark, PCs, LinkMaps
  <2>3. CASE link[cur[t].ptr] # Link(nxt[t].ptr)
    BY <1>15, <2>3, RestartRanges DEF Mark
  <2> QED  BY <2>2, <2>3
<1>16. CASE Unlink(t)
  <2>1. Link(nxt[t].ptr) \in LinkValues
    BY LinkRanges
  <2>2. CASE link[prev[t]] = Link(cur[t].ptr)
    BY <1>16, <2>1, <2>2 DEF Unlink, PCs, LinkMaps
  <2>3. CASE link[prev[t]] # Link(cur[t].ptr)
    BY <1>16, <2>3 DEF Unlink, PCs
  <2> QED  BY <2>2, <2>3
<1>17. CASE Unmark(t)
  <2>1. Link(nxt[t].ptr) \in LinkValues
    BY LinkRanges
  <2>2. link' \in LinkMaps
    BY <1>17, <2>1 DEF Unmark, LinkMaps
  <2> QED  BY <1>17, <2>2, RestartRanges DEF Unmark
<1>18. CASE Retire(t)
  <2>1. cur[t].ptr \in Items
    BY <1>18 DEF Retire, Return
  <2> QED  BY <1>18, <2>1, ReturnRanges DEF Retire
<1>19. CASE TakeRef(t)
  <2>1. target[t] \in Items
    BY <1>19 DEF TakeRef, Return
  <2> QED  BY <1>19, <2>1, ReturnRanges DEF TakeRef
<1> QED
  BY <1>4, <1>5, <1>6, <1>7, <1>8, <1>9, <1>10, <1>11, <1>12, <1>13, <1>14, <1>15, <1>16,
     <1>17, <1>18, <1>19 DEF Step

LEMMA BeginRanges ==
  ASSUME LInv, NEW t \in Threads, NEW i \in Items,
         InsertStart(t, i) \/ DeleteStart(t, i) \/ FindStart(t, i)
  PROVE  Ranges'
<1>1. Ranges
  BY DEF LInv
<1>2. CASE InsertStart(t, i)
  <2>1. "ins_read" \in PCs  BY DEF PCs
  <2>2. link' \in LinkMaps
    BY <1>1, <1>2, LinkRanges DEF InsertStart, Ranges, LinkMaps
  <2> QED  BY <1>1, <1>2, <2>1, <2>2, CallRanges DEF InsertStart, Ranges, walk
<1>3. CASE DeleteStart(t, i) \/ FindStart(t, i)
  <2>1. "walk" \in PCs  BY DEF PCs
  <2> QED  BY <1>1, <1>3, <2>1, CallRanges DEF DeleteStart, FindStart, Ranges, walk, memory
<1> QED  BY <1>2, <1>3

-----------------------------------------------------------------------------
(* Steps that leave the list alone *)

LEMMA QuietProgress ==
  ASSUME LInv, NEW t \in Threads, OnlyBy(t), UNCHANGED <<link, fresh, retired, destroyed>>,
         ~destroyed, pc[t] \notin Owning \cup {"retire"}, pc'[t] # "retire"
  PROVE  Progress(t) /\ InList' = InList
<1>1. InList' = InList
  BY InListAfter
<1>2. Chain(link', InList') /\ ~link'[HEAD].mark
  BY <1>1 DEF LInv, Heap
<1> QED  BY <1>1, <1>2 DEF Progress

\* A call that knows nothing any more.
LEMMA IdleKnows ==
  ASSUME NEW t, pc'[t] = "idle", op'[t] = "none", prev'[t] = HEAD, guards'[t] = {}
  PROVE  Knows(t)'
<1>1. Args(t)'  BY DEF Args, Holding, Owning, Inserts
<1>2. Stands(t)'  BY DEF Stands, Walking, Holding, Owning
<1>3. Owns(t)'  BY DEF Owns, Putting, Owning
<1>4. Looks(t)'  BY DEF Looks
<1> QED  BY <1>1, <1>2, <1>3, <1>4 DEF Knows

\* What a step of t writes when it returns, and when it restarts.
LEMMA ReturnWrites ==
  ASSUME Ranges, NEW t \in Threads, NEW from, Return(t, from)
  PROVE  /\ pc[t] = from /\ pc'[t] = "idle" /\ op'[t] = "none" /\ prev'[t] = HEAD /\ guards'[t] = {}
         /\ \A u \in Threads \ {t} : refs'[u] = refs[u] => 
              /\ pc'[u] = pc[u] /\ op'[u] = op[u] /\ target'[u] = target[u] /\ refs'[u] = refs[u]
              /\ prev'[u] = prev[u] /\ cur'[u] = cur[u] /\ nxt'[u] = nxt[u]
              /\ guards'[u] = guards[u] /\ absent'[u] = absent[u]
BY DEF Ranges, Return, Goto

LEMMA RestartWrites ==
  ASSUME Ranges, NEW t \in Threads, Restart(t), UNCHANGED <<call, refs>>
  PROVE  /\ pc'[t] = "walk" /\ op'[t] = op[t] /\ target'[t] = target[t] /\ absent'[t] = absent[t]
         /\ prev'[t] = HEAD /\ guards'[t] = {} /\ cur'[t] = Link(NULL)
         /\ OnlyBy(t)
BY DEF Ranges, Restart, OnlyBy, call

\* A call returns without having touched the list.
LEMMA ReturnKeeps ==
  ASSUME LInv, NEW t \in Threads, NEW from \in PCs \ (Owning \cup {"retire", "idle"}),
         Return(t, from), \A u \in Threads \ {t} : refs'[u] = refs[u],
         UNCHANGED <<link, fresh, retired, destroyed>>, Ranges'
  PROVE  LInv' /\ OnlyBy(t) /\ Progress(t)
<1>1. OnlyBy(t) /\ Knows(t)' /\ pc[t] = from /\ pc'[t] = "idle"
  BY ReturnWrites, IdleKnows DEF LInv, OnlyBy
<1>2. ~destroyed
  BY <1>1, StepArgs
<1>3. Progress(t)
  BY <1>1, <1>2, QuietProgress
<1> QED  BY <1>1, <1>3, ProgressKeeps

\* A step of a delete or a find that only changes where it stands.
LEMMA WalkKeeps ==
  ASSUME LInv, NEW t \in Threads, OnlyBy(t), UNCHANGED <<link, fresh, retired, destroyed>>,
         op[t] \in {"delete", "find"}, pc[t] \notin Owning \cup {"retire"},
         pc'[t] \notin Owning \cup {"retire"},
         op'[t] = op[t], target'[t] = target[t], absent'[t] = absent[t],
         Ranges', Args(t)',
         \A i \in guards'[t] : i \in guards[t] \/ i \in InList,
         pc'[t] \in Walking \cup Holding /\ prev'[t] # HEAD => prev'[t] \in guards'[t],
         pc'[t] \in Holding => cur'[t].ptr = target[t] /\ target[t] \in guards'[t],
         pc'[t] = "take_ref" => target[t] \in guards'[t],
         pc'[t] \in Walking /\ ~absent[t] =>
            \/ prev'[t] = prev[t] /\ pc[t] \in Walking
            \/ prev'[t] = HEAD
            \/ Ahead(link, prev'[t], target[t])
  PROVE  LInv' /\ Progress(t)
<1>1. Knows(t) /\ Ranges /\ Heap
  BY DEF LInv
<1>2. ~destroyed
  <2>1. pc[t] # "idle"  BY <1>1 DEF Knows, Args
  <2> QED  BY <2>1, StepArgs
<1>3. Progress(t) /\ InList' = InList
  BY <1>2, QuietProgress
<1>4. Stands(t)'
  <2>1. \A i \in guards'[t] : i \in Items /\ Listed(i)
    BY <1>1 DEF Knows, Stands, Ranges, Listed
  <2>2. \A i \in guards'[t] : Listed(i)'
    BY <2>1, <1>3, ListedKept
  <2> QED  BY <2>2 DEF Stands
<1>5. Owns(t)'
  BY DEF Owns, Putting
<1>6. Looks(t)'
  <2> SUFFICES ASSUME ~absent[t]
               PROVE  /\ target[t] \in InList
                      /\ pc'[t] \in Walking =>
                           /\ link[prev'[t]].ptr # NULL
                           /\ prev'[t] \in InList \cup {HEAD} => Ahead(link, prev'[t], target[t])
    BY <1>3 DEF Looks
  <2>1. /\ target[t] \in InList
        /\ pc[t] \in Walking =>
             /\ link[prev[t]].ptr # NULL
             /\ prev[t] \in InList \cup {HEAD} => Ahead(link, prev[t], target[t])
    BY <1>1 DEF Knows, Looks
  <2>2. Ahead(link, HEAD, target[t])
    BY <2>1, <1>1 DEF Heap, Chain
  <2>3. \A p : Ahead(link, p, target[t]) => link[p].ptr # NULL
    BY AheadNone
  <2> QED  BY <2>1, <2>2, <2>3
<1> QED  BY <1>3, <1>4, <1>5, <1>6, ProgressKeeps DEF Knows

-----------------------------------------------------------------------------
(* The steps, one by one *)

\* The insert of a call is under way until its item is in the list.
Puts(t) ==
    /\ Putting(t)' => Putting(t) /\ target'[t] = target[t]
    /\ Putting(t) => target[t] \in InList' \/ (Putting(t)' /\ target'[t] = target[t])

Good(t) == LInv' /\ OnlyBy(t) /\ Progress(t) /\ Puts(t)

\* An unmarked link that a call stands on is in the list.
LEMMA OnTheList ==
  ASSUME LInv, NEW t \in Threads
  PROVE  /\ pc[t] \in Walking \cup Holding /\ ~link[prev[t]].mark => prev[t] \in InList \cup {HEAD}
         /\ pc[t] \in Holding /\ ~link[cur[t].ptr].mark => cur[t].ptr \in InList
<1>1. Ranges /\ Stands(t)
  BY DEF LInv, Knows
<1>2. pc[t] \in Walking \cup Holding /\ prev[t] # HEAD => prev[t] \in Items /\ Listed(prev[t])
  BY <1>1 DEF Stands, Ranges
<1>3. pc[t] \in Holding => cur[t].ptr \in Items /\ Listed(cur[t].ptr)
  BY <1>1 DEF Stands, Ranges
<1> QED  BY <1>2, <1>3, ListedFacts

\* Who does not get the list's reference.
LEMMA StaysUnlisted ==
  ASSUME NEW t, NEW i, ~Listed(i), target'[t] = i, i \notin InList', i \notin retired',
         \A u \in Threads : pc'[u] = "retire" => pc[u] = "retire" /\ cur'[u] = cur[u]
  PROVE  ~Listed(target[t])'
<1>1. \A u \in Threads : pc'[u] = "retire" => cur'[u].ptr # i
  BY DEF Listed, Leaving
<1> QED  BY <1>1 DEF Listed, Leaving

LEMMA InsertReadGood ==
  ASSUME LInv, NEW t \in Threads, InsertRead(t), Ranges'
  PROVE  Good(t)
<1> DEFINE i == target[t]
<1>1. Ranges /\ Heap /\ Knows(t) /\ \A u \in Threads : Owns(u)
  BY DEF LInv, Knows
<1>2. /\ pc[t] = "ins_read" /\ op[t] = "insert" /\ i \in Items /\ ~destroyed /\ i # HEAD
  BY StepArgs, Constants DEF InsertRead, Goto, Inserts
<1>3. /\ pc'[t] = "ins_cas" /\ op'[t] = op[t] /\ target'[t] = i /\ absent'[t] = absent[t]
      /\ prev'[t] = prev[t] /\ guards'[t] = guards[t] /\ refs'[t] = refs[t] /\ cur'[t] = link[HEAD]
      /\ link'[i] = link[HEAD] /\ \A p \in Places : p # i => link'[p] = link[p]
      /\ UNCHANGED <<fresh, retired, freed, ref, refs, destroyed>> /\ HEAD \in Places
  BY <1>1, <1>2 DEF InsertRead, Goto, Ranges, LinkMaps, call, Places
<1>4. OnlyBy(t)
  BY <1>1 DEF InsertRead, Goto, OnlyBy, Ranges, call
<1>5. Putting(t) /\ Putting(t)'
  BY <1>2, <1>3 DEF Putting
<1>6. i \notin fresh /\ ~Listed(i) /\ i \notin InList
  BY <1>1, <1>5 DEF Knows, Owns, Listed
<1>7. InList \subseteq Items /\ \A p \in InList \cup {HEAD} : link'[p] = link[p]
  BY <1>1, <1>2, <1>3, <1>6 DEF Heap, Chain, Places
<1>8. /\ Chain(link', InList)
      /\ \A p \in InList \cup {HEAD} : \A j : Ahead(link, p, j) => Ahead(link', p, j)
  BY <1>1, <1>7, ChainKept DEF Heap
<1>9. InList' = InList
  BY <1>8, ChainIsReached, InListAfter
<1>10. ~link'[HEAD].mark
  BY <1>1, <1>7 DEF Heap
<1>11. Progress(t)
  <2>1. \A j \in Items : j # i => link'[j] = link[j]
    BY <1>3 DEF Places
  <2>2. \A j \in InList' : link'[j].mark => j \in InList /\ link[j].mark
    BY <1>7, <1>9
  <2>3. \A p \in InList \cup {HEAD} : \A j \in InList' :
            p \in InList' \cup {HEAD} /\ Ahead(link, p, j) => Ahead(link', p, j)
    BY <1>8
  <2> QED  BY <1>2, <1>3, <1>5, <1>8, <1>9, <1>10, <2>1, <2>2, <2>3 DEF Progress, Owning
<1>12. Args(t)'
  BY <1>1, <1>2, <1>3 DEF Knows, Args, Inserts, Holding, Owning
<1>13. Stands(t)'
  <2>1. \A j \in guards[t] : j \in Items /\ Listed(j)
    BY <1>1 DEF Knows, Stands, Ranges
  <2>2. \A j \in guards'[t] : Listed(j)'
    BY <2>1, <1>3, <1>4, <1>11, ListedKept
  <2> QED  BY <1>3, <2>2 DEF Stands, Walking, Holding, Owning
<1>14. Owns(t)'
  <2>1. ~Listed(target[t])'
    <3>1. i \notin InList' /\ i \notin retired'
      BY <1>3, <1>6, <1>9 DEF Listed
    <3>2. \A u \in Threads : pc'[u] = "retire" => pc[u] = "retire" /\ cur'[u] = cur[u]
      BY <1>3, <1>4 DEF OnlyBy
    <3> QED  BY <3>1, <3>2, <1>3, <1>6, StaysUnlisted
  <2>2. \A u \in Threads : Putting(u)' /\ target'[u] = i => t = u
    BY <1>1, <1>3, <1>4, <1>5 DEF Owns, OnlyBy, Putting
  <2>3. ~link'[i].mark
    BY <1>1, <1>3 DEF Heap
  <2> QED  BY <1>3, <1>6, <2>1, <2>2, <2>3 DEF Owns, Owning
<1>15. Looks(t)'
  BY <1>2, <1>3 DEF Looks
<1> QED
  BY <1>3, <1>4, <1>5, <1>11, <1>12, <1>13, <1>14, <1>15, ProgressKeeps DEF Good, Puts, Knows

LEMMA InsertCasGood ==
  ASSUME LInv, NEW t \in Threads, InsertCas(t), Ranges'
  PROVE  Good(t)
<1> DEFINE i == target[t]
<1>1. Ranges /\ Heap /\ Knows(t) /\ \A u \in Threads : Owns(u)
  BY DEF LInv, Knows
<1>2. /\ pc[t] = "ins_cas" /\ op[t] = "insert" /\ i \in Items /\ ~destroyed /\ i # HEAD
  BY StepArgs, Constants DEF InsertCas, Goto, Inserts
<1>3. /\ pc'[t] = "ins_compare" /\ op'[t] = op[t] /\ target'[t] = i /\ absent'[t] = absent[t]
      /\ prev'[t] = prev[t] /\ guards'[t] = guards[t] /\ refs'[t] = refs[t]
      /\ cur'[t] = link[HEAD] /\ nxt'[t] = cur[t]
      /\ UNCHANGED <<fresh, retired, freed, ref, refs, destroyed>> /\ HEAD \in Places
  BY <1>1, <1>2 DEF InsertCas, Goto, Ranges, LinkMaps, call, Places
<1>4. OnlyBy(t)
  BY <1>1 DEF InsertCas, Goto, OnlyBy, Ranges, call
<1>5. Putting(t) /\ i \notin fresh /\ ~Listed(i) /\ i \notin InList /\ ~link[i].mark
      /\ link[i] = cur[t]
  BY <1>1, <1>2 DEF Knows, Owns, Putting, Listed
<1>6. Args(t)'
  BY <1>1, <1>2, <1>3 DEF Knows, Args, Inserts, Holding, Owning
<1>7. Looks(t)'
  BY <1>2, <1>3 DEF Looks
<1>8. Progress(t) => Stands(t)'
  <2>1. \A j \in guards[t] : j \in Items /\ Listed(j)
    BY <1>1 DEF Knows, Stands, Ranges
  <2>2. Progress(t) => \A j \in guards'[t] : Listed(j)'
    BY <2>1, <1>3, <1>4, ListedKept
  <2> QED  BY <1>3, <2>2 DEF Stands, Walking, Holding, Owning
<1>9. CASE link[HEAD] = cur[t]
  <2>1. /\ link'[HEAD] = Link(i) /\ \A p \in Places : p # HEAD => link'[p] = link[p]
    BY <1>1, <1>3, <1>9 DEF InsertCas, Ranges, LinkMaps
  <2>2. InList \subseteq Items /\ HEAD \notin Items
    BY <1>1, Constants DEF Heap, Chain
  <2>3. link'[HEAD].ptr = i /\ ~link'[HEAD].mark
    BY <2>1, LinkFacts
  <2>4. link'[i].ptr = link[HEAD].ptr /\ link'[i] = link[i]
    BY <1>2, <1>5, <1>9, <2>1 DEF Places
  <2>5. \A q \in Items : link'[q] = link[q]
    BY <2>1, <2>2 DEF Places
  <2>6. \A q \in InList : link'[q].ptr = link[q].ptr
    BY <2>2, <2>5
  <2>7. /\ Chain(link', InList \cup {i})
        /\ \A p \in InList : \A j : Ahead(link, p, j) => Ahead(link', p, j)
    <3>1. Chain(link, InList) /\ i \in Items \ InList
      BY <1>1, <1>2, <1>5 DEF Heap
    <3> QED  BY <3>1, <2>3, <2>4, <2>6, ChainPush
  <2>8. InList' = InList \cup {i}
    BY <2>7, ChainIsReached, InListAfter
  <2>9. Progress(t)
    <3>1. \A j \in InList' : link'[j].mark => j \in InList /\ link[j].mark
      BY <1>5, <2>2, <2>4, <2>5, <2>8
    <3>2. \A p \in InList \cup {HEAD} : \A j \in InList' : Ahead(link, p, j) => Ahead(link', p, j)
      <4>1. \A j \in InList' : Ahead(link', HEAD, j)
        BY <2>7, <2>8 DEF Chain
      <4> QED  BY <4>1, <2>7
    <3> QED
      BY <1>2, <1>3, <1>5, <2>3, <2>5, <2>7, <2>8, <3>1, <3>2 DEF Progress, Owning
  <2>10. ~Putting(t)'
    BY <1>3, <1>9 DEF Putting
  <2>11. Owns(t)'
    BY <1>3, <2>10 DEF Owns, Owning
  <2> QED
    BY <1>4, <1>6, <1>7, <1>8, <2>8, <2>9, <2>10, <2>11, ProgressKeeps DEF Good, Puts, Knows
<1>10. CASE link[HEAD] # cur[t]
  <2>1. UNCHANGED link
    BY <1>10 DEF InsertCas
  <2>2. Progress(t) /\ InList' = InList
    BY <1>2, <1>3, <1>4, <2>1, QuietProgress DEF Owning
  <2>3. Putting(t)'
    BY <1>2, <1>3, <1>10 DEF Putting
  <2>4. Owns(t)'
    <3>1. ~Listed(target[t])'
      <4>1. i \notin InList' /\ i \notin retired'
        BY <1>3, <1>5, <2>2 DEF Listed
      <4>2. \A u \in Threads : pc'[u] = "retire" => pc[u] = "retire" /\ cur'[u] = cur[u]
        BY <1>3, <1>4 DEF OnlyBy
      <4> QED  BY <4>1, <4>2, <1>3, <1>5, StaysUnlisted
    <3>2. \A u \in Threads : Putting(u)' /\ target'[u] = i => t = u
      BY <1>1, <1>3, <1>4, <1>5 DEF Owns, OnlyBy, Putting
    <3> QED  BY <1>3, <1>5, <2>1, <3>1, <3>2 DEF Owns, Owning
  <2> QED
    BY <1>3, <1>4, <1>5, <1>6, <1>7, <1>8, <2>2, <2>3, <2>4, ProgressKeeps DEF Good, Puts, Knows
<1> QED  BY <1>9, <1>10

LEMMA InsertCompareGood ==
  ASSUME LInv, ~RereadsNext, NEW t \in Threads, InsertCompare(t), Ranges'
  PROVE  Good(t)
<1> DEFINE i == target[t]
<1>1. Ranges /\ Heap /\ Knows(t) /\ \A u \in Threads : Owns(u)
  BY DEF LInv, Knows
<1>2. /\ pc[t] = "ins_compare" /\ op[t] = "insert" /\ i \in Items /\ ~destroyed
  BY StepArgs DEF InsertCompare, Inserts
<1>3. UNCHANGED <<link, ref, fresh, retired, freed, refs, destroyed>>
  BY DEF InsertCompare, memory
<1>4. CASE cur[t] = nxt[t]
  <2>1. Return(t, "ins_compare") /\ ~Putting(t)
    BY <1>4 DEF InsertCompare, Putting
  <2>2. LInv' /\ OnlyBy(t) /\ Progress(t)
    BY <1>3, <2>1, ReturnKeeps DEF PCs, Owning
  <2>3. op'[t] = "none"
    BY <1>1, <2>1, ReturnWrites
  <2> QED  BY <2>1, <2>2, <2>3 DEF Good, Puts, Putting
<1>5. CASE cur[t] # nxt[t]
  <2>1. pc' = [pc EXCEPT ![t] = "ins_read"] /\ UNCHANGED <<call, walk>>
    BY <1>5 DEF InsertCompare, Goto
  <2>2. OnlyBy(t) /\ pc'[t] = "ins_read"
    BY <1>1, <1>3, <2>1 DEF OnlyBy, Ranges, call, walk
  <2>3. Progress(t) /\ InList' = InList
    BY <1>2, <1>3, <2>2, QuietProgress DEF Owning
  <2>4. Putting(t) /\ Putting(t)' /\ target'[t] = i
    BY <1>2, <1>5, <2>1, <2>2 DEF Putting, call
  <2>5. Args(t)'
    BY <1>1, <1>2, <1>3, <2>1, <2>2 DEF Knows, Args, Inserts, Holding, Owning, call, walk
  <2>6. Stands(t)'
    <3>1. \A j \in guards[t] : j \in Items /\ Listed(j)
      BY <1>1 DEF Knows, Stands, Ranges
    <3>2. \A j \in guards'[t] : Listed(j)'
      BY <3>1, <2>1, <2>2, <2>3, ListedKept DEF walk
    <3> QED  BY <2>2, <3>2 DEF Stands, Walking, Holding, Owning
  <2>7. Owns(t)'
    <3>0. i \notin fresh /\ ~Listed(i) /\ ~link[i].mark
      BY <1>1, <2>4 DEF Owns
    <3>1. ~Listed(target[t])'
      <4>1. i \notin InList' /\ i \notin retired'
        BY <1>3, <2>3, <3>0 DEF Listed
      <4>2. \A u \in Threads : pc'[u] = "retire" => pc[u] = "retire" /\ cur'[u] = cur[u]
        BY <2>2 DEF OnlyBy
      <4> QED  BY <4>1, <4>2, <2>4, <3>0, StaysUnlisted
    <3>2. \A u \in Threads : Putting(u)' /\ target'[u] = i => t = u
      BY <1>1, <2>1, <2>2, <2>4 DEF Owns, OnlyBy, Putting
    <3> QED  BY <1>3, <2>2, <2>4, <3>0, <3>1, <3>2 DEF Owns, Owning
  <2>8. Looks(t)'
    BY <1>2, <2>1 DEF Looks, call
  <2> QED
    BY <2>2, <2>3, <2>4, <2>5, <2>6, <2>7, <2>8, ProgressKeeps DEF Good, Puts, Knows
<1> QED  BY <1>4, <1>5

\* A delete or a find puts nothing.
LEMMA NoPuts ==
  ASSUME NEW t, op[t] # "insert", op'[t] # "insert"
  PROVE  Puts(t)
BY DEF Puts, Putting

LEMMA ReturnGood ==
  ASSUME LInv, NEW t \in Threads, WalkEnd(t) \/ AcquireFails(t) \/ TakeRef(t), Ranges'
  PROVE  Good(t)
<1>1. Ranges
  BY DEF LInv
<1>2. PICK from \in {"walk", "check", "take_ref"} : Return(t, from)
  BY DEF WalkEnd, AcquireFails, TakeRef
<1>3. /\ UNCHANGED <<link, fresh, retired, destroyed>> /\ from \in PCs \ (Owning \cup {"retire", "idle"})
      /\ \A u \in Threads \ {t} : refs'[u] = refs[u]
  BY <1>1 DEF WalkEnd, AcquireFails, TakeRef, memory, Ranges, PCs, Owning
<1>4. LInv' /\ OnlyBy(t) /\ Progress(t)
  BY <1>2, <1>3, ReturnKeeps
<1>5. pc[t] = from /\ op'[t] = "none"
  BY <1>1, <1>2, ReturnWrites
<1>6. op[t] # "insert"
  <2>1. Args(t)  BY DEF LInv, Knows
  <2> QED  BY <1>5, <2>1 DEF Args, Inserts
<1> QED  BY <1>4, <1>5, <1>6, NoPuts DEF Good

\* Restarting is always right.
LEMMA RestartGood ==
  ASSUME LInv, NEW t \in Threads, Restart(t), UNCHANGED <<link, fresh, retired, destroyed, refs, call>>,
         pc[t] \in {"check", "mark"}, Ranges'
  PROVE  Good(t)
<1>1. Ranges /\ Knows(t)
  BY DEF LInv
<1>2. op[t] \in {"delete", "find"}
  BY StepArgs DEF Walking, Holding
<1>3. /\ pc'[t] = "walk" /\ op'[t] = op[t] /\ target'[t] = target[t] /\ absent'[t] = absent[t]
      /\ prev'[t] = HEAD /\ guards'[t] = {} /\ cur'[t] = Link(NULL)
      /\ OnlyBy(t)
  BY <1>1, RestartWrites
<1>4. Args(t)'
  BY <1>1, <1>2, <1>3 DEF Knows, Args, Inserts, Holding, Owning
<1>5. LInv' /\ Progress(t)
  BY <1>2, <1>3, <1>4, WalkKeeps DEF Owning, Holding
<1> QED  BY <1>2, <1>3, <1>5, NoPuts DEF Good

LEMMA WalkGood ==
  ASSUME LInv, NEW t \in Threads, Ranges',
         \/ WalkRead(t) \/ CheckAgain(t) \/ CheckTagged(t) \/ CheckAdvance(t) \/ CheckMatch(t)
         \/ MarkRead(t)
  PROVE  Good(t)
<1>1. Ranges /\ Heap /\ Knows(t)
  BY DEF LInv
<1>2. /\ UNCHANGED <<link, fresh, retired, destroyed, refs, call>> /\ pc[t] \in {"walk", "check", "mark_read"}
  BY DEF WalkRead, CheckAgain, CheckTagged, CheckAdvance, CheckMatch, MarkRead, Goto, memory
<1>3. /\ op[t] \in {"delete", "find"} /\ op'[t] = op[t] /\ target'[t] = target[t]
      /\ absent'[t] = absent[t] /\ target[t] \in Items
      /\ pc[t] \notin Owning \cup {"retire"}
  BY <1>2, StepArgs DEF Walking, Holding, Owning, call
<1>4. prev[t] # HEAD => prev[t] \in guards[t]
  BY <1>1, <1>2 DEF Knows, Stands, Walking, Holding
<1>5. CASE WalkRead(t)
  <2>1. /\ pc'[t] = "check" /\ prev'[t] = prev[t] /\ guards'[t] = guards[t] /\ cur'[t] = link[prev[t]]
        /\ pc[t] = "walk"
    BY <1>1, <1>5 DEF WalkRead, Goto, Ranges
  <2>2. OnlyBy(t)
    BY <1>1, <1>5 DEF WalkRead, Goto, OnlyBy, Ranges, call
  <2>3. link[prev[t]].ptr = NULL => op[t] = "find" /\ link[prev[t]].mark
    BY <1>3, <1>5 DEF WalkRead, AtEnd
  <2>4. Args(t)'
    BY <1>1, <1>2, <1>3, <2>1, <2>3 DEF Knows, Args, Inserts, Holding, Owning
  <2>5. LInv' /\ Progress(t)
    BY <1>2, <1>3, <1>4, <2>1, <2>2, <2>4, WalkKeeps DEF Owning, Holding, Walking
  <2> QED  BY <1>3, <2>2, <2>5, NoPuts DEF Good
<1>6. CASE CheckAgain(t)
  BY <1>2, <1>6, RestartGood DEF CheckAgain
<1>7. CASE CheckTagged(t)
  <2>1. pc'[t] = "astray" /\ UNCHANGED walk /\ op[t] = "find"
    BY <1>1, <1>7 DEF CheckTagged, Goto, Ranges
  <2>2. OnlyBy(t) /\ guards'[t] = guards[t]
    BY <1>1, <1>7 DEF CheckTagged, Goto, OnlyBy, Ranges, call, walk
  <2>3. Args(t)'
    BY <1>1, <1>2, <1>3, <2>1, <2>2 DEF Knows, Args, Inserts, Holding, Owning
  <2>4. LInv' /\ Progress(t)
    BY <1>2, <1>3, <2>1, <2>2, <2>3, WalkKeeps DEF Owning, Holding, Walking
  <2> QED  BY <1>3, <2>2, <2>4, NoPuts DEF Good
<1>8. CASE CheckAdvance(t)
  <2> DEFINE c == cur[t].ptr
  <2>1. /\ pc'[t] = "walk" /\ prev'[t] = c /\ guards'[t] = {c} /\ cur'[t] = Link(NULL)
        /\ pc[t] = "check" /\ link[prev[t]] = Link(c) /\ c # target[t]
        /\ op[t] = "delete" \/ ~cur[t].mark
    BY <1>1, <1>8 DEF CheckAdvance, Goto, Ranges, StillThere
  <2>2. OnlyBy(t)
    BY <1>1, <1>8 DEF CheckAdvance, Goto, OnlyBy, Ranges, call
  <2>3. c # NULL
    BY <1>1, <2>1 DEF Knows, Args
  <2>4. link[prev[t]].ptr = c /\ ~link[prev[t]].mark
    BY <2>1, LinkFacts
  <2>5. prev[t] \in InList \cup {HEAD}
    BY <2>1, <2>4, OnTheList DEF Walking
  <2>6. c \in InList /\ c \in Items
    BY <1>1, <2>3, <2>4, <2>5 DEF Heap, Chain, Closed
  <2>7. ~absent[t] => Ahead(link, c, target[t])
    <3>1. ~absent[t] => Ahead(link, prev[t], target[t])
      BY <1>1, <1>3, <2>1, <2>5 DEF Knows, Looks, Walking
    <3> QED  BY <3>1, <2>1, <2>4, <2>6, AheadNext
  <2>8. Args(t)'
    BY <1>1, <1>2, <1>3, <2>1 DEF Knows, Args, Inserts, Holding, Owning
  <2>9. LInv' /\ Progress(t)
    BY <1>2, <1>3, <2>1, <2>2, <2>6, <2>7, <2>8, WalkKeeps DEF Owning, Holding, Walking
  <2> QED  BY <1>3, <2>2, <2>9, NoPuts DEF Good
<1>9. CASE CheckMatch(t)
  <2> DEFINE c == cur[t].ptr
  <2>1. /\ pc'[t] = (IF op[t] = "delete" THEN "mark_read" ELSE "take_ref")
        /\ prev'[t] = prev[t] /\ cur'[t] = Link(c)
        /\ guards'[t] = (IF op[t] = "delete" THEN guards[t] ELSE {}) \cup {c}
        /\ pc[t] = "check" /\ link[prev[t]] = Link(c) /\ c = target[t]
    BY <1>1, <1>9 DEF CheckMatch, Goto, Ranges, StillThere
  <2>2. OnlyBy(t)
    BY <1>1, <1>9 DEF CheckMatch, Goto, OnlyBy, Ranges, call
  <2>3. link[prev[t]].ptr = c /\ ~link[prev[t]].mark /\ cur'[t].ptr = c
    BY <2>1, LinkFacts
  <2>4. prev[t] \in InList \cup {HEAD}
    BY <2>1, <2>3, OnTheList DEF Walking
  <2>5. c \in InList
    BY <1>1, <1>3, <2>1, <2>3, <2>4, Constants DEF Heap, Chain, Closed
  <2>6. Args(t)'
    BY <1>1, <1>2, <1>3, <2>1 DEF Knows, Args, Inserts, Holding, Owning
  <2>7. \A i \in guards'[t] : i \in guards[t] \/ i \in InList
    BY <2>1, <2>5
  <2>8. pc'[t] \in Walking \cup Holding /\ prev'[t] # HEAD => prev'[t] \in guards'[t]
    BY <1>4, <2>1 DEF Walking, Holding, Owning
  <2>9. target[t] \in guards'[t] /\ cur'[t].ptr = target[t]
    BY <2>1, <2>3
  <2>10. pc'[t] \notin Walking \cup Owning \cup {"retire"}
    BY <2>1 DEF Walking, Owning
  <2>11. LInv' /\ Progress(t)
    BY <1>2, <1>3, <2>2, <2>6, <2>7, <2>8, <2>9, <2>10, WalkKeeps
  <2> QED  BY <1>3, <2>2, <2>11, NoPuts DEF Good
<1>10. CASE MarkRead(t)
  <2>1. /\ pc'[t] = "mark" /\ prev'[t] = prev[t] /\ guards'[t] = guards[t] /\ cur'[t] = cur[t]
        /\ pc[t] = "mark_read"
    BY <1>1, <1>10 DEF MarkRead, Goto, Ranges
  <2>2. OnlyBy(t)
    BY <1>1, <1>10 DEF MarkRead, Goto, OnlyBy, Ranges, call
  <2>3. Args(t)'
    BY <1>1, <1>2, <1>3, <2>1 DEF Knows, Args, Inserts, Holding, Owning
  <2>4. cur[t].ptr = target[t] /\ target[t] \in guards[t]
    BY <1>1, <2>1 DEF Knows, Stands, Holding
  <2>5. LInv' /\ Progress(t)
    BY <1>2, <1>3, <1>4, <2>1, <2>2, <2>3, <2>4, WalkKeeps DEF Owning, Holding, Walking
  <2> QED  BY <1>3, <2>2, <2>5, NoPuts DEF Good
<1> QED  BY <1>5, <1>6, <1>7, <1>8, <1>9, <1>10

\* The mark comes and goes without a change to what the links lead to.
LEMMA MarkProgress ==
  ASSUME LInv, NEW t \in Threads, OnlyBy(t), NEW i \in InList, NEW v, v.ptr = link[i].ptr,
         link' = [link EXCEPT ![i] = v], UNCHANGED <<fresh, retired, destroyed>>, ~destroyed,
         ~link[i].mark \/ (pc[t] \in Owning /\ i = cur[t].ptr),
         v.mark => pc'[t] \in Owning /\ cur'[t].ptr = i,
         pc[t] \in Owning => cur[t].ptr = i, pc[t] # "retire", pc'[t] # "retire"
  PROVE  Progress(t) /\ InList' = InList /\ link'[i] = v
<1>1. Ranges /\ Heap
  BY DEF LInv
<1>2. InList \subseteq Items /\ i \in Places /\ i # HEAD
  BY <1>1, Constants DEF Heap, Chain, Places
<1>3. link'[i] = v /\ \A p \in Places : p # i => link'[p] = link[p]
  BY <1>1, <1>2 DEF Ranges, LinkMaps
<1>4. \A p \in InList \cup {HEAD} : link'[p].ptr = link[p].ptr
  BY <1>2, <1>3 DEF Places
<1>5. /\ Chain(link', InList)
      /\ \A p \in InList \cup {HEAD} : \A j : Ahead(link, p, j) => Ahead(link', p, j)
  BY <1>1, <1>4, ChainKept DEF Heap
<1>6. InList' = InList
  BY <1>5, ChainIsReached, InListAfter
<1>7. ~link'[HEAD].mark
  BY <1>1, <1>2, <1>3 DEF Heap, Places
<1>8. \A j \in Items : j # i => link'[j] = link[j]
  BY <1>3 DEF Places
<1>9. \A j \in InList' : link'[j].mark =>
          \/ pc'[t] \in Owning /\ cur'[t].ptr = j
          \/ j \in InList /\ link[j].mark /\ ~(pc[t] \in Owning /\ cur[t].ptr = j)
  <2> SUFFICES ASSUME NEW j \in InList, link'[j].mark
               PROVE  \/ pc'[t] \in Owning /\ cur'[t].ptr = j
                      \/ link[j].mark /\ ~(pc[t] \in Owning /\ cur[t].ptr = j)
    BY <1>6
  <2>1. CASE j = i  BY <2>1, <1>3
  <2>2. CASE j # i  BY <2>2, <1>2, <1>8
  <2> QED  BY <2>1, <2>2
<1>10. \A j \in Items :
          \/ link'[j] = link[j] \/ j \in fresh \/ (Putting(t) /\ j = target[t])
          \/ j \in InList /\ ~link[j].mark
          \/ pc[t] \in Owning /\ j = cur[t].ptr
  <2> SUFFICES ASSUME NEW j \in Items, j = i
               PROVE  \/ j \in InList /\ ~link[j].mark
                      \/ pc[t] \in Owning /\ j = cur[t].ptr
    BY <1>8
  <2> QED  OBVIOUS
<1> QED  BY <1>3, <1>5, <1>6, <1>7, <1>9, <1>10 DEF Progress

LEMMA MarkGood ==
  ASSUME LInv, NEW t \in Threads, Mark(t), Ranges'
  PROVE  Good(t)
<1> DEFINE i == cur[t].ptr
<1>1. Ranges /\ Heap /\ Knows(t) /\ \A u \in Threads : Owns(u)
  BY DEF LInv, Knows
<1>2. /\ pc[t] = "mark" /\ op[t] = "delete" /\ i \in Items /\ target[t] \in Items /\ ~destroyed
      /\ UNCHANGED <<fresh, retired, refs, destroyed, call>>
  BY StepArgs DEF Mark, Holding
<1>3. CASE link[i] # Link(nxt[t].ptr)
  BY <1>2, <1>3, RestartGood DEF Mark
<1>4. CASE link[i] = Link(nxt[t].ptr)
  <2>1. /\ pc'[t] = "unlink" /\ UNCHANGED walk
        /\ link' = [link EXCEPT ![i] = Marked(nxt[t].ptr)]
    BY <1>1, <1>4 DEF Mark, Goto, Ranges
  <2>2. OnlyBy(t)
    BY <1>1, <1>2, <1>4 DEF Mark, Goto, OnlyBy, Ranges, call, walk
  <2>3. /\ op'[t] = op[t] /\ target'[t] = target[t] /\ absent'[t] = absent[t] /\ refs'[t] = refs[t]
        /\ prev'[t] = prev[t] /\ cur'[t] = cur[t] /\ nxt'[t] = nxt[t] /\ guards'[t] = guards[t]
    BY <1>2, <2>1 DEF call, walk
  <2>4. /\ link[i].ptr = nxt[t].ptr /\ ~link[i].mark
        /\ Marked(nxt[t].ptr).ptr = nxt[t].ptr /\ Marked(nxt[t].ptr).mark
    BY <1>4, LinkFacts
  <2>5. i \in InList
    BY <1>2, <2>4, OnTheList DEF Holding
  <2>6. Progress(t) /\ InList' = InList /\ link'[i] = Marked(nxt[t].ptr)
    <3>1. pc[t] \notin Owning /\ pc'[t] \in Owning /\ cur'[t].ptr = i /\ pc'[t] # "retire"
          /\ pc[t] # "retire"
      BY <1>2, <2>1, <2>3 DEF Owning
    <3>2. Marked(nxt[t].ptr).ptr = link[i].ptr /\ ~link[i].mark
      BY <2>4
    <3>3. UNCHANGED <<fresh, retired, destroyed>> /\ ~destroyed
      BY <1>2
    <3> DEFINE v == Marked(nxt[t].ptr)
    <3>4. /\ v.ptr = link[i].ptr /\ link' = [link EXCEPT ![i] = v]
          /\ ~link[i].mark \/ (pc[t] \in Owning /\ i = cur[t].ptr)
          /\ v.mark => pc'[t] \in Owning /\ cur'[t].ptr = i
          /\ pc[t] \in Owning => cur[t].ptr = i
          /\ pc[t] # "retire" /\ pc'[t] # "retire"
      BY <2>1, <3>1, <3>2
    <3> HIDE DEF i, v
    <3>5. Progress(t) /\ InList' = InList /\ link'[i] = v
      BY <2>2, <2>5, <3>3, <3>4, MarkProgress
    <3> QED  BY <3>5 DEF v
  <2>7. Args(t)'
    BY <1>1, <1>2, <2>1, <2>3 DEF Knows, Args, Inserts, Holding, Owning
  <2>8. Stands(t)'
    <3>1. \A j \in guards[t] : j \in Items /\ Listed(j)
      BY <1>1 DEF Knows, Stands, Ranges
    <3>2. \A j \in guards'[t] : Listed(j)'
      BY <2>2, <2>3, <2>6, <3>1, ListedKept
    <3> QED  BY <1>1, <1>2, <2>1, <2>3, <3>2 DEF Knows, Stands, Walking, Holding, Owning
  <2>9. Owns(t)'
    <3>1. \A u \in Threads : pc[u] \in Owning \cup {"retire"} => cur[u].ptr # i
      BY <1>1, <2>4, LinkFacts DEF Owns
    <3>2. \A u \in Threads \ {t} : pc'[u] = pc[u] /\ cur'[u] = cur[u]
      BY <2>2 DEF OnlyBy
    <3>3. \A u \in Threads : pc'[u] \in Owning \cup {"retire"} /\ cur'[u].ptr = i => t = u
      BY <3>1, <3>2
    <3>4. ~Putting(t)'
      BY <1>2, <2>3 DEF Putting
    <3> QED  BY <2>1, <2>3, <2>5, <2>6, <3>3, <3>4 DEF Owns, Owning
  <2>10. Looks(t)'
    BY <1>1, <1>2, <2>1, <2>3, <2>6 DEF Knows, Looks, Walking
  <2> QED
    BY <1>2, <2>2, <2>3, <2>6, <2>7, <2>8, <2>9, <2>10, ProgressKeeps, NoPuts DEF Good, Knows
<1> QED  BY <1>3, <1>4

LEMMA UnmarkGood ==
  ASSUME LInv, NEW t \in Threads, Unmark(t), Ranges'
  PROVE  Good(t)
<1> DEFINE i == cur[t].ptr
<1>1. Ranges /\ Heap /\ Knows(t)
  BY DEF LInv
<1>2. /\ pc[t] = "unmark" /\ op[t] = "delete" /\ i \in Items /\ target[t] \in Items /\ ~destroyed
      /\ UNCHANGED <<fresh, retired, refs, destroyed, call>> /\ Restart(t)
  BY StepArgs DEF Unmark, Holding, Owning
<1>3. /\ pc'[t] = "walk" /\ op'[t] = op[t] /\ target'[t] = target[t] /\ absent'[t] = absent[t]
      /\ prev'[t] = HEAD /\ guards'[t] = {} /\ cur'[t] = Link(NULL)
      /\ OnlyBy(t)
  BY <1>1, <1>2, RestartWrites
<1>4. i \in InList /\ link[i] = Marked(nxt[t].ptr)
  BY <1>1, <1>2 DEF Knows, Owns, Owning
<1>5. link' = [link EXCEPT ![i] = Link(nxt[t].ptr)]
  BY <1>4 DEF Unmark
<1>6. link[i].ptr = nxt[t].ptr /\ Link(nxt[t].ptr).ptr = nxt[t].ptr /\ ~Link(nxt[t].ptr).mark
  BY <1>4, LinkFacts
<1>7. Progress(t) /\ InList' = InList
  <2>1. pc[t] \in Owning /\ pc[t] # "retire" /\ pc'[t] # "retire"
    BY <1>2, <1>3 DEF Owning
  <2> QED  BY <1>2, <1>3, <1>4, <1>5, <1>6, <2>1, MarkProgress
<1>8. Args(t)'
  BY <1>1, <1>2, <1>3 DEF Knows, Args, Inserts, Holding, Owning
<1>9. Stands(t)'
  BY <1>3 DEF Stands, Holding, Owning
<1>10. Owns(t)'
  BY <1>2, <1>3 DEF Owns, Owning, Putting
<1>11. Looks(t)'
  <2>1. Heap'
    BY <1>3, <1>7, HeapKept
  <2>2. \A j \in InList : Ahead(link', HEAD, j)
    BY <1>7, <2>1 DEF Heap, Chain
  <2>3. \A j : Ahead(link', HEAD, j) => link'[HEAD].ptr # NULL
    BY AheadNone
  <2> QED  BY <1>1, <1>2, <1>3, <1>7, <2>2, <2>3 DEF Knows, Looks
<1> QED
  BY <1>2, <1>3, <1>7, <1>8, <1>9, <1>10, <1>11, ProgressKeeps, NoPuts DEF Good, Knows

LEMMA UnlinkGood ==
  ASSUME LInv, NEW t \in Threads, Unlink(t), Ranges'
  PROVE  Good(t)
<1> DEFINE i == cur[t].ptr
           p == prev[t]
<1>1. Ranges /\ Heap /\ Knows(t) /\ \A u \in Threads : Owns(u)
  BY DEF LInv, Knows
<1>2. /\ pc[t] = "unlink" /\ op[t] = "delete" /\ i \in Items /\ target[t] \in Items /\ ~destroyed
      /\ UNCHANGED <<fresh, retired, refs, destroyed, op, target, prev, cur, nxt>>
      /\ p \in Places /\ HEAD \in Places
  BY StepArgs DEF Unlink, Goto, Holding, Owning
<1>3. i \in InList /\ link[i] = Marked(nxt[t].ptr) /\ link[i].mark /\ link[i].ptr = nxt[t].ptr
  BY <1>1, <1>2, LinkFacts DEF Knows, Owns, Owning
<1>4. i = target[t]
  BY <1>1, <1>2 DEF Knows, Stands, Holding, Owning
<1>5. OnlyBy(t)
  BY <1>1 DEF Unlink, Goto, OnlyBy, Ranges
<1>6. CASE link[p] = Link(i)
  <2>1. /\ pc'[t] = "retire" /\ link' = [link EXCEPT ![p] = Link(nxt[t].ptr)]
        /\ guards'[t] = {} /\ \A u \in Threads : target[u] = i => absent'[u]
    BY <1>1, <1>6 DEF Unlink, Goto, Ranges
  <2>2. link[p].ptr = i /\ ~link[p].mark /\ Link(nxt[t].ptr).ptr = nxt[t].ptr /\ ~Link(nxt[t].ptr).mark
    BY <1>6, LinkFacts
  <2>3. p \in InList \cup {HEAD}
    BY <1>2, <2>2, OnTheList DEF Holding, Owning
  <2>4. p # i
    BY <1>3, <2>2
  <2>5. /\ link'[p].ptr = link[i].ptr /\ ~link'[p].mark
        /\ \A q \in Places : q # p => link'[q] = link[q]
    BY <1>1, <1>2, <1>3, <2>1, <2>2 DEF Ranges, LinkMaps
  <2>6. InList \subseteq Items
    BY <1>1 DEF Heap, Chain
  <2>7. /\ Chain(link', InList \ {i})
        /\ \A q \in (InList \ {i}) \cup {HEAD} : \A j :
               j # i /\ Ahead(link, q, j) => Ahead(link', q, j)
    <3>1. Chain(link, InList)  BY <1>1 DEF Heap
    <3>2. \A q \in InList \cup {HEAD} : q # p => link'[q].ptr = link[q].ptr
      BY <2>5, <2>6 DEF Places
    <3> HIDE DEF i, p
    <3> QED  BY <1>3, <2>2, <2>3, <2>4, <2>5, <3>1, <3>2, ChainCut
  <2>8. InList' = InList \ {i}
    BY <2>7, ChainIsReached, InListAfter
  <2>9. ~link'[HEAD].mark
    BY <1>1, <1>2, <2>5 DEF Heap
  <2>10. \A j \in Items : j # p => link'[j] = link[j]
    BY <2>5 DEF Places
  <2>11. Progress(t)
    <3>1. \A j \in InList' : link'[j].mark => j \in InList /\ link[j].mark /\ j # i
      BY <2>5, <2>6, <2>8, <2>10
    <3>2. \A q \in InList \cup {HEAD} : \A j \in InList' :
              q \in InList' \cup {HEAD} /\ Ahead(link, q, j) => Ahead(link', q, j)
      BY <2>7, <2>8
    <3>3. link'[i] = link[i] /\ cur'[t] = cur[t]
      BY <1>2, <2>4, <2>10
    <3>4. \A j \in Items : link'[j] = link[j] \/ (j \in InList /\ ~link[j].mark)
      <4> SUFFICES ASSUME NEW j \in Items, j = p  PROVE j \in InList /\ ~link[j].mark
        BY <2>10
      <4> QED  BY <2>2, <2>3, Constants
    <3> QED
      BY <1>2, <1>3, <2>1, <2>7, <2>8, <2>9, <3>1, <3>2, <3>3, <3>4 DEF Progress
  <2>12. /\ op'[t] = op[t] /\ target'[t] = target[t] /\ cur'[t] = cur[t] /\ refs'[t] = refs[t]
    BY <1>2
  <2>13. Args(t)'
    BY <1>1, <1>2, <2>1, <2>12 DEF Knows, Args, Inserts, Holding, Owning
  <2>14. Stands(t)'
    BY <2>1 DEF Stands, Walking, Holding, Owning
  <2>15. Owns(t)'
    <3>1. \A u \in Threads : pc[u] \in Owning \cup {"retire"} /\ cur[u].ptr = i => t = u
      BY <1>1, <1>2 DEF Owns, Owning
    <3>2. \A u \in Threads \ {t} : pc'[u] = pc[u] /\ cur'[u] = cur[u]
      BY <1>5 DEF OnlyBy
    <3>3. \A u \in Threads : pc'[u] \in Owning \cup {"retire"} /\ cur'[u].ptr = i => t = u
      BY <3>1, <3>2
    <3>4. ~Putting(t)'
      BY <1>2, <2>12 DEF Putting
    <3>5. i \notin InList' /\ i \notin retired' /\ i \notin fresh' /\ link'[i].mark
      BY <1>1, <1>2, <1>3, <2>4, <2>8, <2>10 DEF Heap
    <3> QED  BY <1>2, <2>1, <2>12, <3>3, <3>4, <3>5 DEF Owns, Owning
  <2>16. Looks(t)'
    BY <1>4, <2>1 DEF Looks
  <2> QED
    BY <1>2, <1>5, <2>11, <2>12, <2>13, <2>14, <2>15, <2>16, ProgressKeeps, NoPuts DEF Good, Knows
<1>7. CASE link[p] # Link(i)
  <2>1. pc'[t] = "unmark" /\ UNCHANGED <<link, guards, absent>>
    BY <1>1, <1>7 DEF Unlink, Goto, Ranges
  <2>2. /\ op'[t] = op[t] /\ target'[t] = target[t] /\ absent'[t] = absent[t] /\ refs'[t] = refs[t]
        /\ prev'[t] = prev[t] /\ cur'[t] = cur[t] /\ nxt'[t] = nxt[t] /\ guards'[t] = guards[t]
    BY <1>2, <2>1
  <2>3. InList' = InList
    BY <2>1, InListAfter
  <2>4. Progress(t)
    <3>1. Chain(link', InList') /\ ~link'[HEAD].mark
      BY <1>1, <2>1, <2>3 DEF Heap
    <3>2. pc'[t] \in Owning /\ cur'[t].ptr = i
      BY <2>1, <2>2 DEF Owning
    <3>3. \A j \in InList' : link'[j].mark =>
             \/ pc'[t] \in Owning /\ cur'[t].ptr = j
             \/ j \in InList /\ link[j].mark /\ ~(pc[t] \in Owning /\ cur[t].ptr = j)
      BY <2>1, <2>3, <3>2
    <3> QED  BY <1>2, <2>1, <2>3, <3>1, <3>3 DEF Progress
  <2>5. Args(t)'
    BY <1>1, <1>2, <2>1, <2>2 DEF Knows, Args, Inserts, Holding, Owning
  <2>6. Stands(t)'
    <3>1. \A j \in guards[t] : j \in Items /\ Listed(j)
      BY <1>1 DEF Knows, Stands, Ranges
    <3>2. \A j \in guards'[t] : Listed(j)'
      BY <1>5, <2>2, <2>4, <3>1, ListedKept
    <3> QED  BY <1>1, <1>2, <2>1, <2>2, <3>2 DEF Knows, Stands, Walking, Holding, Owning
  <2>7. Owns(t)'
    <3>1. \A u \in Threads : pc[u] \in Owning \cup {"retire"} /\ cur[u].ptr = i => t = u
      BY <1>1, <1>2 DEF Owns, Owning
    <3>2. \A u \in Threads \ {t} : pc'[u] = pc[u] /\ cur'[u] = cur[u]
      BY <1>5 DEF OnlyBy
    <3>3. \A u \in Threads : pc'[u] \in Owning \cup {"retire"} /\ cur'[u].ptr = i => t = u
      BY <3>1, <3>2
    <3>4. ~Putting(t)'
      BY <1>2, <2>2 DEF Putting
    <3> QED  BY <1>3, <2>1, <2>2, <2>3, <3>3, <3>4 DEF Owns, Owning
  <2>8. Looks(t)'
    BY <1>1, <1>2, <2>1, <2>2, <2>3 DEF Knows, Looks, Walking
  <2> QED
    BY <1>2, <1>5, <2>2, <2>4, <2>5, <2>6, <2>7, <2>8, ProgressKeeps, NoPuts DEF Good, Knows
<1> QED  BY <1>6, <1>7

LEMMA RetireGood ==
  ASSUME LInv, NEW t \in Threads, Retire(t), Ranges'
  PROVE  Good(t)
<1> DEFINE i == cur[t].ptr
<1>1. Ranges /\ Heap /\ Owns(t)
  BY DEF LInv, Knows
<1>2. Return(t, "retire") /\ UNCHANGED <<link, ref, fresh, freed, refs, destroyed>>
  BY DEF Retire
<1>3. OnlyBy(t) /\ pc[t] = "retire" /\ pc'[t] = "idle" /\ op'[t] = "none" /\ Knows(t)'
  BY <1>1, <1>2, ReturnWrites, IdleKnows DEF OnlyBy
<1>4. op[t] = "delete" /\ ~destroyed /\ i \in Items
  BY <1>3, StepArgs
<1>5. InList' = InList
  BY <1>2, InListAfter
<1>6. Progress(t)
  <2>1. Chain(link', InList') /\ ~link'[HEAD].mark
    BY <1>1, <1>2, <1>5 DEF Heap
  <2>2. retired' = retired \cup {i}
    BY DEF Retire
  <2> QED  BY <1>2, <1>3, <1>4, <1>5, <2>1, <2>2 DEF Progress, Owning
<1> QED  BY <1>3, <1>4, <1>6, ProgressKeeps, NoPuts DEF Good

LEMMA StepGood ==
  ASSUME LInv, ~RereadsNext, NEW t \in Threads, Step(t)
  PROVE  Good(t)
<1>1. Ranges'
  BY StepRanges
<1> QED
  BY <1>1, InsertReadGood, InsertCasGood, InsertCompareGood, ReturnGood, WalkGood, MarkGood,
     UnlinkGood, UnmarkGood, RetireGood DEF Step

-----------------------------------------------------------------------------
(* A call begins *)

LEMMA CallWrites ==
  ASSUME LInv, NEW t \in Threads, NEW what, NEW i, NEW at, Call(t, what, i, at),
         UNCHANGED <<walk, refs>>
  PROVE  /\ pc[t] = "idle" /\ op[t] = "none" /\ prev[t] = HEAD /\ guards[t] = {} /\ ~destroyed
         /\ pc'[t] = at /\ op'[t] = what /\ target'[t] = i /\ absent'[t] = (i \notin InList)
         /\ prev'[t] = HEAD /\ guards'[t] = {} /\ cur'[t] = cur[t] /\ refs'[t] = refs[t]
         /\ OnlyBy(t)
<1>1. Ranges /\ Args(t)
  BY DEF LInv, Knows
<1>2. pc[t] = "idle" /\ ~destroyed /\ UNCHANGED <<prev, cur, nxt, guards, refs>>
  BY DEF Call, Goto, walk
<1> QED  BY <1>1, <1>2 DEF Ranges, Args, Call, Goto, OnlyBy

LEMMA SearchBegins ==
  ASSUME LInv, NEW t \in Threads, NEW i \in Items, DeleteStart(t, i) \/ FindStart(t, i)
  PROVE  LInv' /\ OnlyBy(t) /\ Progress(t) /\ Puts(t)
<1>1. Ranges'
  BY BeginRanges
<1>2. Ranges /\ Heap
  BY DEF LInv
<1>3. PICK what \in {"delete", "find"} : Call(t, what, i, "walk") /\ (what = "find" => refs[t] = {})
  BY DEF DeleteStart, FindStart
<1>4. UNCHANGED <<memory, walk, refs, destroyed>>
  BY DEF DeleteStart, FindStart
<1>5. /\ pc[t] = "idle" /\ op[t] = "none" /\ prev[t] = HEAD /\ guards[t] = {} /\ ~destroyed
      /\ pc'[t] = "walk" /\ op'[t] = what /\ target'[t] = i /\ absent'[t] = (i \notin InList)
      /\ prev'[t] = HEAD /\ guards'[t] = {} /\ cur'[t] = cur[t] /\ refs'[t] = refs[t]
      /\ OnlyBy(t)
  BY <1>3, <1>4, CallWrites
<1>6. Progress(t) /\ InList' = InList
  BY <1>4, <1>5, QuietProgress DEF Owning, memory
<1>7. Args(t)'
  BY <1>3, <1>5 DEF Args, Inserts, Holding, Owning
<1>8. Stands(t)'
  BY <1>5 DEF Stands, Holding, Owning
<1>9. Owns(t)'
  BY <1>5 DEF Owns, Owning, Putting
<1>10. Looks(t)'
  <2>1. \A j \in InList : Ahead(link, HEAD, j) /\ link[HEAD].ptr # NULL
    BY <1>2, AheadNone DEF Heap, Chain
  <2> QED  BY <1>4, <1>5, <1>6, <2>1 DEF Looks, memory
<1> QED
  BY <1>1, <1>5, <1>6, <1>7, <1>8, <1>9, <1>10, ProgressKeeps, NoPuts DEF Knows

LEMMA InsertBegins ==
  ASSUME LInv, NEW t \in Threads, NEW i \in Items, InsertStart(t, i)
  PROVE  /\ LInv' /\ OnlyBy(t) /\ Progress(t) /\ op[t] = "none"
         /\ Putting(t)' /\ target'[t] = i
<1>1. Ranges'
  BY BeginRanges
<1>2. Ranges /\ Heap /\ \A u \in Threads : Owns(u)
  BY DEF LInv, Knows
<1>3. /\ Call(t, "insert", i, "ins_read") /\ i \in fresh /\ fresh' = fresh \ {i}
      /\ link' = [link EXCEPT ![i] = Link(NULL)] /\ UNCHANGED <<retired, freed, walk, refs, destroyed>>
  BY DEF InsertStart
<1>4. /\ pc[t] = "idle" /\ op[t] = "none" /\ prev[t] = HEAD /\ guards[t] = {} /\ ~destroyed
      /\ pc'[t] = "ins_read" /\ op'[t] = "insert" /\ target'[t] = i /\ absent'[t] = (i \notin InList)
      /\ prev'[t] = HEAD /\ guards'[t] = {} /\ cur'[t] = cur[t] /\ refs'[t] = refs[t]
      /\ OnlyBy(t)
  BY <1>3, CallWrites
<1>5. i # HEAD /\ i \in Places /\ HEAD \in Places
  BY Constants DEF Places
<1>6. link'[i] = Link(NULL) /\ \A p \in Places : p # i => link'[p] = link[p]
  BY <1>2, <1>3, <1>5 DEF Ranges, LinkMaps
<1>7. i \notin InList /\ i \notin retired /\ ~Listed(i)
  BY <1>2, <1>3 DEF Heap, Owns, Listed, Leaving
<1>8. InList \subseteq Items /\ \A p \in InList \cup {HEAD} : link'[p] = link[p]
  BY <1>2, <1>5, <1>6, <1>7 DEF Heap, Chain, Places
<1>9. /\ Chain(link', InList)
      /\ \A p \in InList \cup {HEAD} : \A j : Ahead(link, p, j) => Ahead(link', p, j)
  BY <1>2, <1>8, ChainKept DEF Heap
<1>10. InList' = InList
  BY <1>9, ChainIsReached, InListAfter
<1>11. ~link'[HEAD].mark
  BY <1>2, <1>8 DEF Heap
<1>12. Progress(t)
  <2>1. \A j \in Items : j # i => link'[j] = link[j]
    BY <1>6 DEF Places
  <2>2. \A j \in InList' : link'[j].mark => j \in InList /\ link[j].mark
    BY <1>8, <1>10
  <2>3. \A p \in InList \cup {HEAD} : \A j \in InList' :
            p \in InList' \cup {HEAD} /\ Ahead(link, p, j) => Ahead(link', p, j)
    BY <1>9
  <2> QED  BY <1>3, <1>4, <1>9, <1>10, <1>11, <2>1, <2>2, <2>3 DEF Progress, Owning
<1>13. Putting(t)'
  BY <1>4 DEF Putting
<1>14. Args(t)'
  BY <1>4 DEF Args, Inserts, Holding, Owning
<1>15. Stands(t)'
  BY <1>4 DEF Stands, Holding, Owning
<1>16. Owns(t)'
  <2>1. ~Listed(target[t])'
    <3>1. i \notin InList' /\ i \notin retired'
      BY <1>3, <1>7, <1>10
    <3>2. \A u \in Threads : pc'[u] = "retire" => pc[u] = "retire" /\ cur'[u] = cur[u]
      BY <1>4 DEF OnlyBy
    <3> QED  BY <3>1, <3>2, <1>4, <1>7, StaysUnlisted
  <2>2. \A u \in Threads : Putting(u)' /\ target'[u] = i => t = u
    <3>1. \A u \in Threads \ {t} : Putting(u)' => Putting(u) /\ target'[u] = target[u]
      BY <1>4 DEF OnlyBy, Putting
    <3> QED  BY <1>2, <1>3, <3>1 DEF Owns
  <2>3. ~link'[i].mark
    BY <1>6, LinkFacts
  <2> QED  BY <1>3, <1>4, <2>1, <2>2, <2>3 DEF Owns, Owning
<1>17. Looks(t)'
  BY <1>4 DEF Looks
<1> QED
  BY <1>1, <1>4, <1>12, <1>13, <1>14, <1>15, <1>16, <1>17, ProgressKeeps DEF Knows

-----------------------------------------------------------------------------
(* Steps of the reclaimer, the heap and the client *)

\* What was referenced is counted.
LEMMA CountFacts ==
  ASSUME CInv, NEW i \in Items
  PROVE  /\ IsFiniteSet(Users(i)) /\ Cardinality(Users(i)) \in Nat /\ ref[i] \in Nat
         /\ Cardinality(Users(i)) = 0 <=> Users(i) = {}
         /\ ref[i] = Cardinality(Users(i)) + (IF Counted(i) THEN 1 ELSE 0)
         /\ Counted(i) \/ Users(i) # {} <=> ref[i] # 0
         /\ ref[i] # 0 <=> i \notin fresh \cup freed
<1>1. Users(i) \subseteq Threads
  BY DEF Users
<1>2. IsFiniteSet(Users(i)) /\ Cardinality(Users(i)) \in Nat
  BY <1>1, ThreadsAreFinite, FS_Subset, FS_CardinalityType
<1>3. Cardinality(Users(i)) = 0 <=> Users(i) = {}
  BY <1>2, FS_EmptySet
<1>4. ref[i] = Cardinality(Users(i)) + (IF Counted(i) THEN 1 ELSE 0) /\ ref[i] \in Nat
  BY DEF CInv
<1>5. Counted(i) \/ Users(i) # {} <=> ref[i] # 0
  BY <1>2, <1>3, <1>4
<1> QED  BY <1>2, <1>3, <1>4, <1>5 DEF CInv

\* Nobody moves and no link is written.
LEMMA NobodyMoves ==
  ASSUME LInv, UNCHANGED <<link, pc, call, walk, destroyed>>, Ranges',
         \A u \in Threads : refs[u] = {} => refs'[u] = {},
         retired' \subseteq retired, \A i \in retired \ retired' : \A u \in Threads : i \notin guards[u],
         \A i \in fresh' \ fresh : i \in Items /\ ~Counted(i)
  PROVE  LInv' /\ InList' = InList /\ \A i \in Items : Counted(i)' =>  Counted(i)
<1>1. Ranges /\ Heap /\ \A u \in Threads : Knows(u)
  BY DEF LInv
<1>2. InList' = InList
  BY InListAfter
<1>3. UNCHANGED <<op, target, absent, prev, cur, nxt, guards>>
  BY DEF call, walk
<1>4. \A i : Leaving(i)' <=> Leaving(i)
  BY <1>3 DEF Leaving
<1>5. \A i : Listed(i)' => Listed(i)
  BY <1>2, <1>4 DEF Listed
<1>6. \A u : Putting(u)' <=> Putting(u)
  BY <1>3 DEF Putting
<1>7. \A i \in fresh' \ fresh :
          /\ i \notin InList \cup retired /\ ~Leaving(i)
          /\ \A u \in Threads : Putting(u) => target[u] # i
  BY DEF Counted, Listed
<1>8. Heap'
  <2>1. \A i \in retired' : i \notin InList' \cup fresh' /\ link'[i].mark
    BY <1>1, <1>2, <1>7 DEF Heap
  <2>2. \A i \in fresh' : i \notin InList'
    BY <1>1, <1>2, <1>7 DEF Heap
  <2> QED  BY <1>1, <1>2, <1>3, <2>1, <2>2 DEF Heap
<1>9. ASSUME NEW u \in Threads  PROVE Knows(u)'
  <2>1. Args(u)'
    BY <1>1, <1>3 DEF Knows, Args
  <2>2. Stands(u)'
    <3>1. \A i \in guards[u] : Listed(i)'
      BY <1>1, <1>2, <1>4 DEF Knows, Stands, Listed
    <3> QED  BY <1>1, <1>3, <3>1 DEF Knows, Stands
  <2>3. Owns(u)'
    <3>1. pc[u] = "retire" => cur[u].ptr \notin fresh'
      BY <1>1, <1>7 DEF Knows, Owns, Leaving
    <3>2. Putting(u) => target[u] \notin fresh'
      BY <1>1, <1>7 DEF Knows, Owns
    <3>3. Putting(u) => ~Listed(target[u])'
      <4> DEFINE i == target[u]
      <4>1. Putting(u) => i \notin InList' /\ i \notin retired' /\ ~Leaving(i)
        BY <1>1, <1>2 DEF Knows, Owns, Listed
      <4>2. \A v \in Threads : pc'[v] = pc[v] /\ cur'[v] = cur[v] /\ target'[u] = i
        BY <1>3
      <4> QED  BY <4>1, <4>2 DEF Listed, Leaving
    <3>4. pc[u] = "retire" => cur[u].ptr \in Items \ (InList' \cup retired' \cup fresh')
      BY <1>1, <1>2, <3>1 DEF Knows, Owns
    <3> QED  BY <1>1, <1>2, <1>3, <1>6, <3>2, <3>3, <3>4 DEF Knows, Owns
  <2>4. Looks(u)'
    BY <1>1, <1>2, <1>3 DEF Knows, Looks
  <2> QED  BY <2>1, <2>2, <2>3, <2>4 DEF Knows
<1>10. \A i \in Items : Counted(i)' => Counted(i)
  BY <1>3, <1>5, <1>6 DEF Counted
<1> QED  BY <1>2, <1>8, <1>9, <1>10 DEF LInv

LEMMA ReclaimKeeps ==
  ASSUME LInv, CInv, NEW i \in Items, ReclaimNode(i)
  PROVE  /\ LInv' /\ ~Counted(i)' /\ Counted(i) /\ \A j \in Items \ {i} : Counted(j)' <=> Counted(j)
         /\ UNCHANGED <<fresh, refs>>
<1>1. Ranges /\ Heap /\ \A u \in Threads : Owns(u)
  BY DEF LInv, Knows
<1>2. /\ i \in retired /\ retired' = retired \ {i} /\ UNCHANGED <<link, fresh, pc, call, walk, refs, destroyed>>
      /\ freed' = freed \cup {j \in {i} : ref[j] = 1} /\ \A u \in Threads : i \notin guards[u]
  BY DEF ReclaimNode, DropRef
<1>3. Ranges'
  BY <1>1, <1>2 DEF Ranges, call, walk
<1>4. LInv' /\ InList' = InList /\ \A j \in Items : Counted(j)' => Counted(j)
  BY <1>2, <1>3, NobodyMoves
<1>5. UNCHANGED <<op, target, cur, nxt>>
  BY <1>2 DEF call, walk
<1>6. Counted(i) /\ i \notin InList /\ ~Leaving(i) /\ \A u \in Threads : Putting(u) => target[u] # i
  BY <1>1, <1>2 DEF Counted, Listed, Leaving, Heap, Owns
<1>7. \A j : Leaving(j)' <=> Leaving(j)
  BY <1>2, <1>5 DEF Leaving
<1>8. \A u : Putting(u)' <=> Putting(u)
  BY <1>2, <1>5 DEF Putting
<1>9. ~Counted(i)'
  BY <1>2, <1>4, <1>5, <1>6, <1>7, <1>8 DEF Counted, Listed
<1>10. \A j \in Items \ {i} : Counted(j) => Counted(j)'
  BY <1>2, <1>4, <1>5, <1>7, <1>8 DEF Counted, Listed
<1> QED  BY <1>2, <1>4, <1>6, <1>9, <1>10

LEMMA ReleaseKeeps ==
  ASSUME LInv, CInv, NEW t \in Threads, NodeRelease(t)
  PROVE  LInv' /\ UNCHANGED fresh /\ \A j \in Items : Counted(j)' <=> Counted(j)
<1>1. Ranges
  BY DEF LInv
<1>2. /\ refs' = [refs EXCEPT ![t] = {}] /\ UNCHANGED <<link, fresh, retired, pc, call, walk, destroyed>>
      /\ freed' = freed \cup {j \in refs[t] : ref[j] = 1}
  BY DEF NodeRelease, DropRef
<1>3. Ranges'
  BY <1>1, <1>2 DEF Ranges, call, walk
<1>4. LInv' /\ InList' = InList
  BY <1>1, <1>2, <1>3, NobodyMoves DEF Ranges
<1>5. UNCHANGED <<op, target, cur, nxt>>
  BY <1>2 DEF call, walk
<1>6. \A j : Listed(j)' <=> Listed(j)
  BY <1>2, <1>4, <1>5 DEF Listed, Leaving
<1>7. \A u : Putting(u)' <=> Putting(u)
  BY <1>2, <1>5 DEF Putting
<1> QED  BY <1>2, <1>4, <1>5, <1>6, <1>7 DEF Counted

LEMMA AllocateKeeps ==
  ASSUME LInv, CInv, NEW i \in Items, Allocate(i)
  PROVE  LInv' /\ UNCHANGED <<ref, refs>> /\ \A j \in Items : Counted(j)' <=> Counted(j)
<1>1. Ranges
  BY DEF LInv
<1>2. /\ i \in freed /\ freed' = freed \ {i} /\ fresh' = fresh \cup {i}
      /\ UNCHANGED <<link, ref, retired, pc, call, walk, refs, destroyed>>
  BY DEF Allocate
<1>3. Ranges'
  BY <1>1, <1>2 DEF Ranges, call, walk
<1>4. ~Counted(i)
  BY <1>2, CountFacts
<1>5. LInv' /\ InList' = InList
  BY <1>2, <1>3, <1>4, NobodyMoves
<1>6. UNCHANGED <<op, target, cur, nxt>>
  BY <1>2 DEF call, walk
<1>7. \A j : Listed(j)' <=> Listed(j)
  BY <1>2, <1>5, <1>6 DEF Listed, Leaving
<1>8. \A u : Putting(u)' <=> Putting(u)
  BY <1>2, <1>6 DEF Putting
<1> QED  BY <1>2, <1>5, <1>6, <1>7, <1>8 DEF Counted

LEMMA DestroyKeeps ==
  ASSUME LInv, Destroy
  PROVE  /\ LInv' /\ UNCHANGED <<fresh, refs>> /\ InList \subseteq Items
         /\ \A j \in Items : Counted(j)' <=> Counted(j) /\ j \notin InList
         /\ \A j \in InList : Counted(j)
<1>1. Ranges /\ Heap /\ \A u \in Threads : Args(u)
  BY DEF LInv, Knows
<1>2. /\ \A u \in Threads : pc[u] = "idle" /\ op[u] = "none" /\ prev[u] = HEAD /\ guards[u] = {}
      /\ destroyed' /\ link' = [link EXCEPT ![HEAD] = Link(NULL)]
      /\ freed' = freed \cup {i \in InList : ref[i] = 1}
      /\ UNCHANGED <<fresh, retired, pc, call, walk, refs>>
  BY <1>1 DEF Destroy, DropRef, Args
<1>3. InList \subseteq Items /\ HEAD \in Places /\ HEAD \notin Items
  BY <1>1, Constants DEF Heap, Chain, Places
<1>4. UNCHANGED <<op, target, absent, prev, cur, nxt, guards>>
  BY <1>2 DEF call, walk
<1>5. Ranges'
  <2>1. link' \in LinkMaps
    BY <1>1, <1>2, LinkRanges DEF Ranges, LinkMaps
  <2>2. destroyed' \in BOOLEAN /\ freed' \subseteq Items
    BY <1>1, <1>2, <1>3 DEF Ranges, Destroy
  <2> QED  BY <1>1, <1>2, <1>4, <2>1, <2>2 DEF Ranges
<1>6. link'[HEAD] = Link(NULL) /\ link'[HEAD].ptr = NULL /\ ~link'[HEAD].mark
      /\ \A i \in Items : link'[i] = link[i]
  BY <1>1, <1>2, <1>3, LinkFacts DEF Ranges, LinkMaps, Places
<1>7. Chain(link', {}) /\ InList' = {}
  BY <1>6, ChainEmpty, ChainIsReached, InListAfter
<1>8. Heap'
  BY <1>1, <1>2, <1>6, <1>7 DEF Heap, Ranges
<1>9. \A u \in Threads : Knows(u)'
  BY <1>2, <1>4, IdleKnows
<1>10. \A u \in Threads : ~Putting(u) /\ ~Putting(u)' /\ pc[u] # "retire" /\ pc'[u] # "retire"
  BY <1>2, <1>4 DEF Putting
<1>11. \A j : Counted(j)' <=> j \in retired
  BY <1>2, <1>7, <1>10 DEF Counted, Listed, Leaving
<1>12. \A j : Counted(j) <=> j \in retired \/ j \in InList
  BY <1>10 DEF Counted, Listed, Leaving
<1>13. \A j \in retired : j \notin InList
  BY <1>1 DEF Heap
<1> QED  BY <1>2, <1>3, <1>5, <1>8, <1>9, <1>11, <1>12, <1>13 DEF LInv

-----------------------------------------------------------------------------
(* What the steps do to the reference counts *)

LEMMA CountedKept ==
  ASSUME LInv, NEW t \in Threads, OnlyBy(t), Progress(t), Puts(t), NEW i \in Items
  PROVE  Counted(i)' <=> Counted(i)
<1>1. Listed(i) => Listed(i)'
  BY ListedKept
<1>2. Listed(i)' => Listed(i) \/ (Putting(t) /\ i = target[t])
  BY ListedKept
<1>3. \A u \in Threads \ {t} : (Putting(u)' <=> Putting(u)) /\ target'[u] = target[u]
  BY DEF OnlyBy, Putting
<1>4. ASSUME NEW u \in Threads, Putting(u), target[u] = i  PROVE Counted(i)'
  <2>1. CASE u = t
    BY <1>4, <2>1 DEF Puts, Counted, Listed
  <2>2. CASE u # t
    BY <1>3, <1>4, <2>2 DEF Counted
  <2> QED  BY <2>1, <2>2
<1>5. ASSUME NEW u \in Threads, Putting(u)', target'[u] = i  PROVE Counted(i)
  <2>1. CASE u = t
    BY <1>5, <2>1 DEF Puts, Counted
  <2>2. CASE u # t
    BY <1>3, <1>5, <2>2 DEF Counted
  <2> QED  BY <2>1, <2>2
<1> QED  BY <1>1, <1>2, <1>4, <1>5 DEF Counted

\* Nothing happened to the counts.
LEMMA CountsSame ==
  ASSUME CInv, UNCHANGED <<ref, fresh, freed, refs>>, \A i \in Items : Counted(i)' <=> Counted(i)
  PROVE  CInv'
<1>1. \A i \in Items : Users(i)' = Users(i)
  BY DEF Users
<1> QED  BY <1>1 DEF CInv

\* An item is one more or one less for the list or for a find.
LEMMA CountMoves ==
  ASSUME CInv, NEW i \in Items, NEW t \in Threads
  PROVE  /\ t \notin Users(i) => Cardinality(Users(i) \cup {t}) = Cardinality(Users(i)) + 1
         /\ t \in Users(i) => Cardinality(Users(i) \ {t}) = Cardinality(Users(i)) - 1
BY CountFacts, FS_AddElement, FS_RemoveElement

LEMMA TakeRefCounts ==
  ASSUME LInv, CInv, NEW t \in Threads, TakeRef(t), Good(t)
  PROVE  CInv'
<1> DEFINE x == target[t]
<1>1. Ranges /\ Knows(t)
  BY DEF LInv
<1>2. pc[t] = "take_ref" /\ x \in Items /\ refs[t] = {} /\ Listed(x)
  <2>1. pc[t] = "take_ref"  BY DEF TakeRef, Return, Goto
  <2> QED  BY <1>1, <2>1, StepArgs DEF Knows, Args, Stands
<1>3. /\ ref' = [ref EXCEPT ![x] = ref[x] + 1] /\ refs' = [refs EXCEPT ![t] = {x}]
      /\ UNCHANGED <<fresh, freed>>
  BY DEF TakeRef
<1>4. \A i \in Items : Counted(i)' <=> Counted(i)
  BY CountedKept DEF Good
<1>5. \A i \in Items : Users(i)' = IF i = x THEN Users(i) \cup {t} ELSE Users(i)
  BY <1>1, <1>2, <1>3 DEF Users, Ranges
<1>6. t \notin Users(x) /\ Counted(x)
  BY <1>2 DEF Users, Counted
<1>7. /\ \A i \in Items : ref'[i] = IF i = x THEN ref[i] + 1 ELSE ref[i]
      /\ ref' \in [Items -> Nat]
  BY <1>2, <1>3 DEF CInv
<1>8. ASSUME NEW i \in Items
      PROVE  /\ ref'[i] = Cardinality(Users(i)') + (IF Counted(i)' THEN 1 ELSE 0)
             /\ ref'[i] = 0 <=> i \in fresh' \cup freed'
  <2>1. CASE i = x
    <3>1. Cardinality(Users(i)') = Cardinality(Users(i)) + 1
      BY <1>2, <1>5, <1>6, <2>1, CountMoves
    <3>2. ref'[i] = ref[i] + 1 /\ ref[i] # 0
      BY <1>6, <1>7, <2>1, CountFacts
    <3>3. ref[i] \in Nat /\ Cardinality(Users(i)) \in Nat /\ i \notin fresh \cup freed
          /\ ref[i] = Cardinality(Users(i)) + (IF Counted(i) THEN 1 ELSE 0)
      BY <3>2, CountFacts
    <3>4. ref'[i] # 0
      BY <3>2, <3>3
    <3> QED  BY <1>3, <1>4, <3>1, <3>2, <3>3, <3>4
  <2>2. CASE i # x
    BY <1>3, <1>4, <1>5, <1>7, <2>2 DEF CInv
  <2> QED  BY <2>1, <2>2
<1>9. \A i \in Items : ref'[i] = Cardinality(Users(i))' + (IF Counted(i)' THEN 1 ELSE 0)
  BY <1>8
<1> QED  BY <1>3, <1>7, <1>8, <1>9 DEF CInv

LEMMA StepCounts ==
  ASSUME LInv, CInv, NEW t \in Threads, Step(t), Good(t)
  PROVE  CInv'
<1>1. CASE TakeRef(t)
  BY <1>1, TakeRefCounts
<1>2. CASE ~TakeRef(t)
  <2>1. UNCHANGED <<ref, fresh, freed, refs>>
    BY <1>2 DEF Step, InsertRead, InsertCas, InsertCompare, WalkEnd, WalkRead, AcquireFails,
                CheckAgain, CheckTagged, CheckAdvance, CheckMatch, MarkRead, Mark, Unlink,
                Unmark, Retire, memory
  <2>2. \A i \in Items : Counted(i)' <=> Counted(i)
    BY CountedKept DEF Good
  <2> QED  BY <2>1, <2>2, CountsSame
<1> QED  BY <1>1, <1>2

LEMMA SearchCounts ==
  ASSUME LInv, CInv, NEW t \in Threads, NEW i \in Items, DeleteStart(t, i) \/ FindStart(t, i)
  PROVE  CInv'
<1>1. UNCHANGED <<ref, fresh, freed, refs>>
  BY DEF DeleteStart, FindStart, memory
<1>2. \A j \in Items : Counted(j)' <=> Counted(j)
  BY SearchBegins, CountedKept
<1> QED  BY <1>1, <1>2, CountsSame

LEMMA InsertCounts ==
  ASSUME LInv, CInv, NEW t \in Threads, NEW i \in Items, InsertStart(t, i)
  PROVE  CInv'
<1>1. /\ OnlyBy(t) /\ Progress(t) /\ op[t] = "none" /\ Putting(t)' /\ target'[t] = i
  BY InsertBegins
<1>2. /\ i \in fresh /\ fresh' = fresh \ {i} /\ ref' = [ref EXCEPT ![i] = 1] /\ UNCHANGED <<freed, refs>>
  BY DEF InsertStart
<1>3. \A j \in Items : Users(j)' = Users(j)
  BY <1>2 DEF Users
<1>4. Counted(i)'
  BY <1>1 DEF Counted
<1>5. ASSUME NEW j \in Items \ {i}  PROVE Counted(j)' <=> Counted(j)
  <2>1. ~Putting(t)  BY <1>1 DEF Putting
  <2>2. Listed(j)' <=> Listed(j)
    BY <1>1, <2>1, ListedKept
  <2>3. \A u \in Threads : Putting(u)' /\ target'[u] = j <=> Putting(u) /\ target[u] = j
    <3>1. \A u \in Threads \ {t} : (Putting(u)' <=> Putting(u)) /\ target'[u] = target[u]
      BY <1>1 DEF OnlyBy, Putting
    <3> QED  BY <1>1, <2>1, <3>1
  <2> QED  BY <2>2, <2>3 DEF Counted
<1>6. Cardinality(Users(i)) = 0 /\ ~Counted(i) /\ i \notin freed
  BY <1>2, CountFacts DEF CInv
<1>7. \A j \in Items : ref'[j] = (IF j = i THEN 1 ELSE ref[j]) /\ ref[j] \in Nat
  BY <1>2 DEF CInv
<1>8. ref' \in [Items -> Nat]
  BY <1>2 DEF CInv
<1>9. \A j \in Items : ref'[j] = Cardinality(Users(j))' + (IF Counted(j)' THEN 1 ELSE 0)
  BY <1>3, <1>4, <1>5, <1>6, <1>7 DEF CInv
<1>10. \A j \in Items : ref'[j] = 0 <=> j \in fresh' \cup freed'
  BY <1>2, <1>6, <1>7 DEF CInv
<1> QED  BY <1>2, <1>8, <1>9, <1>10 DEF CInv

\* References are dropped, by the list or by a find.
LEMMA DropCounts ==
  ASSUME CInv, NEW items, items \subseteq Items, DropRef(items), UNCHANGED fresh,
         \A i \in items : \/ /\ Counted(i) /\ ~Counted(i)' /\ Users(i)' = Users(i)
                          \/ /\ Counted(i)' <=> Counted(i)
                             /\ Users(i) # {}
                             /\ Cardinality(Users(i)') = Cardinality(Users(i)) - 1,
         \A i \in Items \ items : (Counted(i)' <=> Counted(i)) /\ Users(i)' = Users(i)
  PROVE  CInv'
<1>1. \A i \in Items : ref'[i] = IF i \in items THEN ref[i] - 1 ELSE ref[i]
  BY DEF DropRef
<1>2. freed' = freed \cup {i \in items : ref[i] = 1}
  BY DEF DropRef
<1>3. ASSUME NEW i \in Items
      PROVE  /\ ref'[i] \in Nat
             /\ ref'[i] = Cardinality(Users(i)') + (IF Counted(i)' THEN 1 ELSE 0)
             /\ ref'[i] = 0 <=> i \in fresh' \cup freed'
  <2>1. /\ Cardinality(Users(i)) \in Nat /\ ref[i] \in Nat
        /\ ref[i] = Cardinality(Users(i)) + (IF Counted(i) THEN 1 ELSE 0)
        /\ Counted(i) \/ Users(i) # {} <=> ref[i] # 0
        /\ ref[i] # 0 <=> i \notin fresh \cup freed
    BY CountFacts
  <2>2. CASE i \in items
    <3>1. ref'[i] = ref[i] - 1 /\ ref[i] # 0
      BY <1>1, <2>1, <2>2
    <3>2. ref'[i] \in Nat
      BY <2>1, <3>1
    <3>3. ref'[i] = Cardinality(Users(i)') + (IF Counted(i)' THEN 1 ELSE 0)
      BY <2>1, <2>2, <3>1
    <3>4. i \notin fresh \cup freed
      BY <2>1, <3>1
    <3>5. ref'[i] = 0 <=> ref[i] = 1
      BY <2>1, <3>1
    <3>6. i \in fresh' \cup freed' <=> ref[i] = 1
      BY <1>2, <2>2, <3>4
    <3> QED  BY <3>2, <3>3, <3>5, <3>6
  <2>3. CASE i \notin items
    BY <1>1, <1>2, <2>1, <2>3
  <2> QED  BY <2>2, <2>3
<1>4. \A i \in Items : ref'[i] = Cardinality(Users(i))' + (IF Counted(i)' THEN 1 ELSE 0)
  BY <1>3
<1>5. ref' \in [Items -> Nat]
  <2>1. ref' = [i \in Items |-> IF i \in items THEN ref[i] - 1 ELSE ref[i]]  BY DEF DropRef
  <2> QED  BY <1>1, <1>3, <2>1
<1>6. fresh' \cap freed' = {}
  <2>1. \A i \in items : ref[i] = 1 => i \notin fresh
    BY CountFacts
  <2> QED  BY <1>2, <2>1 DEF CInv
<1> QED  BY <1>3, <1>4, <1>5, <1>6 DEF CInv

LEMMA ReclaimCounts ==
  ASSUME LInv, CInv, NEW i \in Items, ReclaimNode(i)
  PROVE  CInv'
<1>1. /\ ~Counted(i)' /\ Counted(i) /\ \A j \in Items \ {i} : Counted(j)' <=> Counted(j)
      /\ UNCHANGED <<fresh, refs>>
  BY ReclaimKeeps
<1>2. DropRef({i})
  BY DEF ReclaimNode
<1>3. \A j \in Items : Users(j)' = Users(j)
  BY <1>1 DEF Users
<1>4. {i} \subseteq Items  OBVIOUS
<1>5. \A j \in {i} : Counted(j) /\ ~Counted(j)' /\ Users(j)' = Users(j)
  BY <1>1, <1>3
<1> QED  BY <1>1, <1>2, <1>3, <1>4, <1>5, DropCounts

LEMMA ReleaseCounts ==
  ASSUME LInv, CInv, NEW t \in Threads, NodeRelease(t)
  PROVE  CInv'
<1>1. UNCHANGED fresh /\ \A j \in Items : Counted(j)' <=> Counted(j)
  BY ReleaseKeeps
<1>2. DropRef(refs[t]) /\ refs' = [refs EXCEPT ![t] = {}]
  BY DEF NodeRelease
<1>3. refs \in [Threads -> SUBSET Items]
  BY DEF LInv, Ranges
<1>4. refs[t] \subseteq Items  BY <1>3
<1>5. \A j \in Items : Users(j)' = Users(j) \ {t}
  BY <1>2, <1>3 DEF Users
<1>6. \A j \in Items : j \in refs[t] <=> t \in Users(j)
  BY DEF Users
<1>7. ASSUME NEW j \in refs[t]
      PROVE  Users(j) # {} /\ Cardinality(Users(j)') = Cardinality(Users(j)) - 1
  <2>1. j \in Items /\ t \in Users(j)  BY <1>4, <1>6, <1>7
  <2> QED  BY <1>5, <2>1, CountMoves
<1>8. \A j \in Items \ refs[t] : Users(j)' = Users(j)
  BY <1>5, <1>6
<1> DEFINE items == refs[t]
<1>9. /\ items \subseteq Items /\ DropRef(items)
      /\ \A j \in items : Counted(j)' <=> Counted(j)
      /\ \A j \in items : Users(j) # {} /\ Cardinality(Users(j)') = Cardinality(Users(j)) - 1
      /\ \A j \in Items \ items : (Counted(j)' <=> Counted(j)) /\ Users(j)' = Users(j)
  BY <1>1, <1>2, <1>4, <1>7, <1>8
<1> HIDE DEF items
<1> QED  BY <1>1, <1>9, DropCounts

LEMMA DestroyCounts ==
  ASSUME LInv, CInv, Destroy
  PROVE  CInv'
<1>1. /\ UNCHANGED <<fresh, refs>> /\ InList \subseteq Items
      /\ \A j \in Items : Counted(j)' <=> Counted(j) /\ j \notin InList
      /\ \A j \in InList : Counted(j)
  BY DestroyKeeps
<1>2. DropRef(InList)
  BY DEF Destroy
<1>3. \A j \in Items : Users(j)' = Users(j)
  BY <1>1 DEF Users
<1> DEFINE items == InList
<1>4. /\ items \subseteq Items /\ DropRef(items)
      /\ \A j \in items : Counted(j) /\ ~Counted(j)' /\ Users(j)' = Users(j)
      /\ \A j \in Items \ items : (Counted(j)' <=> Counted(j)) /\ Users(j)' = Users(j)
  BY <1>1, <1>2, <1>3
<1> HIDE DEF items
<1> QED  BY <1>1, <1>4, DropCounts

LEMMA AllocateCounts ==
  ASSUME LInv, CInv, NEW i \in Items, Allocate(i)
  PROVE  CInv'
<1>1. UNCHANGED <<ref, refs>> /\ \A j \in Items : Counted(j)' <=> Counted(j)
  BY AllocateKeeps
<1>2. i \in freed /\ freed' = freed \ {i} /\ fresh' = fresh \cup {i}
  BY DEF Allocate
<1>3. \A j \in Items : Users(j)' = Users(j)
  BY <1>1 DEF Users
<1> QED  BY <1>1, <1>2, <1>3 DEF CInv

-----------------------------------------------------------------------------
(* The invariant *)

LEMMA InitIInv == Init => IInv
<1> SUFFICES ASSUME Init  PROVE IInv
  OBVIOUS
<1>1. /\ link = [i \in Places |-> Link(NULL)] /\ ref = [i \in Items |-> 0]
      /\ fresh = Items /\ retired = {} /\ freed = {} /\ destroyed = FALSE
  BY DEF Init, Places
<1>2. \A t \in Threads : /\ pc[t] = "idle" /\ op[t] = "none" /\ prev[t] = HEAD
                         /\ guards[t] = {} /\ refs[t] = {}
  BY DEF Init
<1>3. Ranges
  <2>1. link \in LinkMaps
    BY <1>1, LinkRanges DEF LinkMaps
  <2> QED  BY <1>1, <2>1, LinkRanges DEF Init, Ranges, PCs, Places
<1>4. link[HEAD].ptr = NULL /\ ~link[HEAD].mark
  BY <1>1, LinkFacts DEF Places
<1>5. Chain(link, {}) /\ InList = {}
  BY <1>4, ChainEmpty, ChainIsReached, InListAfter
<1>6. Heap
  BY <1>1, <1>4, <1>5 DEF Heap
<1>7. ASSUME NEW t \in Threads  PROVE Knows(t)
  <2>1. Args(t)  BY <1>2 DEF Args, Holding, Owning, Inserts
  <2>2. Stands(t)  BY <1>2 DEF Stands, Walking, Holding, Owning
  <2>3. Owns(t)  BY <1>2 DEF Owns, Putting, Owning
  <2>4. Looks(t)  BY <1>2 DEF Looks
  <2> QED  BY <2>1, <2>2, <2>3, <2>4 DEF Knows
<1>8. \A i \in Items : ~Counted(i) /\ Users(i) = {}
  BY <1>1, <1>2, <1>5 DEF Counted, Listed, Leaving, Putting, Users
<1>9. Cardinality({}) = 0
  BY FS_EmptySet
<1>10. CInv
  <2>1. \A i \in Items : ref[i] = Cardinality(Users(i)) + (IF Counted(i) THEN 1 ELSE 0)
    BY <1>1, <1>8, <1>9
  <2> QED  BY <1>1, <2>1 DEF CInv
<1> QED  BY <1>3, <1>6, <1>7, <1>10 DEF IInv, LInv

LEMMA StutterKeeps ==
  ASSUME IInv, UNCHANGED vars
  PROVE  IInv'
<1>1. UNCHANGED <<link, ref, fresh, retired, freed, pc, op, target, absent, prev, cur, nxt,
                  guards, refs, destroyed>>
  BY DEF vars, memory, call, walk
<1>2. InList' = InList
  BY <1>1, InListAfter
<1>3. \A i : Listed(i)' <=> Listed(i)
  BY <1>1, <1>2 DEF Listed, Leaving
<1>4. \A t : Putting(t)' <=> Putting(t)
  BY <1>1 DEF Putting
<1>5. \A i \in Items : Counted(i)' <=> Counted(i)
  BY <1>1, <1>3, <1>4 DEF Counted
<1>6. CInv'
  BY <1>1, <1>5, CountsSame DEF IInv
<1>7. Ranges'
  BY <1>1 DEF IInv, LInv, Ranges
<1>8. LInv'
  BY <1>1, <1>7, NobodyMoves DEF IInv, call, walk
<1> QED  BY <1>6, <1>8 DEF IInv

LEMMA NextIInv == ~RereadsNext => (IInv /\ [Next]_vars => IInv')
<1> SUFFICES ASSUME ~RereadsNext, IInv, [Next]_vars
             PROVE  IInv'
  OBVIOUS
<1>1. LInv /\ CInv
  BY DEF IInv
<1>2. ASSUME NEW t \in Threads, Step(t)  PROVE IInv'
  <2>1. Good(t)
    BY <1>1, <1>2, StepGood
  <2> QED  BY <1>1, <1>2, <2>1, StepCounts DEF IInv, Good
<1>3. ASSUME NEW t \in Threads, NodeRelease(t)  PROVE IInv'
  BY <1>1, <1>3, ReleaseKeeps, ReleaseCounts DEF IInv
<1>4. ASSUME NEW t \in Threads, NEW i \in Items, InsertStart(t, i)  PROVE IInv'
  BY <1>1, <1>4, InsertBegins, InsertCounts DEF IInv
<1>5. ASSUME NEW t \in Threads, NEW i \in Items, DeleteStart(t, i) \/ FindStart(t, i)
      PROVE  IInv'
  BY <1>1, <1>5, SearchBegins, SearchCounts DEF IInv
<1>6. ASSUME NEW i \in Items, ReclaimNode(i)  PROVE IInv'
  BY <1>1, <1>6, ReclaimKeeps, ReclaimCounts DEF IInv
<1>7. ASSUME NEW i \in Items, Allocate(i)  PROVE IInv'
  BY <1>1, <1>7, AllocateKeeps, AllocateCounts DEF IInv
<1>8. CASE Destroy
  BY <1>1, <1>8, DestroyKeeps, DestroyCounts DEF IInv
<1>9. CASE UNCHANGED vars
  BY <1>9, StutterKeeps
<1> QED
  BY <1>2, <1>3, <1>4, <1>5, <1>6, <1>7, <1>8, <1>9 DEF Next

LEMMA IInvHolds == ~RereadsNext => (Spec => []IInv)
<1> SUFFICES ASSUME ~RereadsNext  PROVE Spec => []IInv
  OBVIOUS
<1>1. IInv /\ [Next]_vars => IInv'
  BY NextIInv
<1> QED  BY <1>1, InitIInv, PTL DEF Spec

-----------------------------------------------------------------------------
(* Theorems *)

\* The threads that are about to put an item in, or to retire it.
LEMMA CountedIs ==
  \A i : Counted(i) <=> i \in InList \cup retired \/ Inserting(i) \cup Unlinking(i) # {}
BY DEF Counted, Listed, Leaving, Putting, Inserting, Unlinking

\* A set with no two members has one at most, and one if it is not empty.
LEMMA OneAtMost ==
  ASSUME NEW S, \A x, y \in S : x = y
  PROVE  Cardinality(S) <= 1 /\ (S # {} => Cardinality(S) = 1)
<1>1. CASE S = {}
  BY <1>1, FS_EmptySet
<1>2. CASE S # {}
  <2>1. PICK x \in S : TRUE
    BY <1>2
  <2>2. S = {x}
    BY <2>1
  <2>3. Cardinality(S) = 1
    BY <2>2, FS_Singleton
  <2> QED  BY <2>3
<1> QED  BY <1>1, <1>2

LEMMA IInvIntact == IInv => ListIntact
<1> SUFFICES ASSUME IInv  PROVE ListIntact
  OBVIOUS
<1>1. Ranges /\ Heap /\ CInv /\ \A t \in Threads : Owns(t)
  BY DEF IInv, LInv, Knows
<1>2. InList \subseteq Items
  BY <1>1 DEF Heap, Chain
<1>3. \A i \in Items : i \in InList \/ Unlinking(i) # {} => i \notin fresh \cup freed
  BY <1>1, CountFacts DEF Counted, Listed, Leaving, Unlinking
<1>4. InList \cap (fresh \cup retired \cup freed) = {}
  BY <1>1, <1>2, <1>3 DEF Heap
<1>5. ASSUME NEW i \in Items  PROVE Cardinality(Unlinking(i)) <= 1
  <2>1. \A t, u \in Unlinking(i) : t = u
    BY <1>1 DEF Unlinking, Owns
  <2> QED  BY <2>1, OneAtMost
<1>6. ASSUME NEW i \in InList, link[i].mark
      PROVE  Cardinality({t \in Threads : pc[t] \in {"unlink", "unmark"} /\ cur[t].ptr = i}) = 1
  <2> DEFINE S == {t \in Threads : pc[t] \in {"unlink", "unmark"} /\ cur[t].ptr = i}
  <2>1. S # {}
    BY <1>1, <1>6 DEF Heap, Owning
  <2>2. \A t, u \in S : t = u
    BY <1>1 DEF Owns, Owning
  <2> HIDE DEF S
  <2>3. Cardinality(S) = 1
    BY <2>1, <2>2, OneAtMost
  <2> QED  BY <2>3 DEF S
<1>7. \A i \in Items : Unlinking(i) # {} => i \notin InList \cup retired \cup freed
  BY <1>1, <1>3 DEF Unlinking, Owns
<1>8. ASSUME NEW i \in Items \ (InList \cup fresh \cup retired \cup freed)
      PROVE  Inserting(i) # {} \/ Unlinking(i) # {} \/ \E t \in Threads : i \in refs[t] \/ destroyed
  <2>1. Counted(i) \/ Users(i) # {}
    BY <1>1, <1>8, CountFacts
  <2> QED  BY <1>8, <2>1, CountedIs DEF Users
<1> QED  BY <1>4, <1>5, <1>6, <1>7, <1>8 DEF ListIntact

LEMMA IInvSafe == ~RereadsNext /\ IInv => MemorySafe
<1> SUFFICES ASSUME ~RereadsNext, IInv  PROVE MemorySafe
  OBVIOUS
<1>1. Ranges /\ CInv /\ \A t \in Threads : Args(t) /\ Stands(t)
  BY DEF IInv, LInv, Knows
<1>2. \A i \in Items : Counted(i) => i \notin freed \cup fresh
  BY <1>1, CountFacts
<1>3. HEAD \notin freed \cup fresh
  BY <1>1, Constants DEF Ranges
<1>4. ASSUME NEW t \in Threads
      PROVE  LET touched == CASE pc[t] \in {"walk", "check"} -> {prev[t]}
                              [] pc[t] \in {"mark_read", "mark", "unmark"} -> {cur[t].ptr}
                              [] pc[t] = "unlink" -> {prev[t], cur[t].ptr}
                              [] pc[t] \in {"ins_read", "ins_cas", "take_ref"} -> {target[t]}
                              [] pc[t] = "ins_compare" -> IF RereadsNext THEN {target[t]} ELSE {}
                              [] OTHER -> {}
             IN  touched \cap (freed \cup fresh) = {}
  <2>1. \A i \in guards[t] : i \notin freed \cup fresh
    BY <1>1, <1>2 DEF Ranges, Stands, Counted
  <2>2. pc[t] \in {"walk", "check", "unlink"} => prev[t] \notin freed \cup fresh
    BY <1>1, <1>3, <2>1 DEF Stands, Walking, Holding, Owning
  <2>3. pc[t] \in {"mark_read", "mark", "unlink", "unmark"} => cur[t].ptr \notin freed \cup fresh
    BY <1>1, <2>1 DEF Stands, Holding, Owning
  <2>4. pc[t] \in {"ins_read", "ins_cas"} => target[t] \notin freed \cup fresh
    BY <1>1, <1>2 DEF Args, Inserts, Putting, Counted
  <2>5. pc[t] = "take_ref" => target[t] \notin freed \cup fresh
    BY <1>1, <2>1 DEF Stands
  <2>6. CASE pc[t] \in {"walk", "check"}
    BY <2>2, <2>6
  <2>7. CASE pc[t] \in {"mark_read", "mark", "unmark"}
    BY <2>3, <2>7
  <2>8. CASE pc[t] = "unlink"
    BY <2>2, <2>3, <2>8
  <2>9. CASE pc[t] \in {"ins_read", "ins_cas", "take_ref"}
    BY <2>4, <2>5, <2>9
  <2>10. CASE pc[t] \notin {"walk", "check", "mark_read", "mark", "unmark", "unlink",
                            "ins_read", "ins_cas", "take_ref"}
    BY <2>10
  <2> QED  BY <2>6, <2>7, <2>8, <2>9, <2>10
<1>5. ASSUME NEW i \in Items \ fresh
      PROVE  LET users  == {t \in Threads : i \in refs[t]}
                 listed == \/ i \in InList \cup retired
                           \/ Inserting(i) \cup Unlinking(i) # {}
             IN  /\ ref[i] = Cardinality(users) + (IF listed THEN 1 ELSE 0)
                 /\ i \in freed <=> ref[i] = 0
  <2>1. ref[i] = Cardinality(Users(i)) + (IF Counted(i) THEN 1 ELSE 0)
    BY <1>1 DEF CInv
  <2>2. i \in freed <=> ref[i] = 0
    BY <1>1 DEF CInv
  <2>3. Counted(i) <=> i \in InList \cup retired \/ Inserting(i) \cup Unlinking(i) # {}
    BY CountedIs
  <2> QED  BY <2>1, <2>2, <2>3 DEF Users
<1> QED  BY <1>4, <1>5 DEF MemorySafe

LEMMA IInvJustified == IInv => NotFoundJustified
<1> SUFFICES ASSUME IInv, NEW t \in Threads, pc[t] = "walk", AtEnd(t)
             PROVE  absent[t]
  BY DEF NotFoundJustified
<1>1. Args(t) /\ Looks(t) /\ op[t] \in {"none", "insert", "delete", "find"} /\ absent[t] \in BOOLEAN
  BY DEF IInv, LInv, Knows, Ranges
<1>2. op[t] \in {"delete", "find"}
  BY <1>1 DEF Args, Inserts
<1>3. link[prev[t]].ptr = NULL
  BY DEF AtEnd
<1> QED  BY <1>1, <1>2, <1>3 DEF Looks, Walking

\* Every variable keeps to its range; no reference count drops below zero, whatever inserts,
\* deletes, finds and releases run (internal_node_destroy, clds_singly_linked_list_find).
THEOREM TypesAreCorrect == ~RereadsNext => (Spec => []TypeOK)
<1>1. IInv => TypeOK
  BY DEF IInv, LInv, CInv, Ranges, TypeOK, LinkMaps, LinkValues, Places
<1> QED  BY <1>1, IInvHolds, PTL

\* Inserts and deletes at neighbouring links drop no item, keep none and bring none back;
\* one delete succeeds for an item, and no delete leaves its mark in the list: an unmarked
\* link that leads to an item is the only one that does, and what a delete writes into it is
\* what its own mark has kept unchanged in the item's next
\* (clds_singly_linked_list_insert, internal_delete).
THEOREM ListStaysIntact == ~RereadsNext => (Spec => []ListIntact)
  BY IInvHolds, IInvIntact, PTL

\* No call reads or writes an item that the heap has back, and every item has as many
\* references as ref_count says, the list's own until the reclaim callback runs or destroy
\* drops it: what a call stands on was re-read from an unmarked link after it was protected,
\* so it was in the list at that moment (clds_singly_linked_list_delete,
\* clds_singly_linked_list_find, clds_singly_linked_list_node_release, reclaim_list_node).
THEOREM MemoryIsSafe == ~RereadsNext => (Spec => []MemorySafe)
<1> SUFFICES ASSUME ~RereadsNext  PROVE Spec => []MemorySafe
  OBVIOUS
<1>1. IInv => MemorySafe
  BY IInvSafe
<1> QED  BY <1>1, IInvHolds, PTL

\* A delete or a find that comes to the end of the list has a moment in its call at which
\* its item was not in the list: from an item of the list its target stays ahead while it is
\* there, and the link of an item that was unlinked still leads on
\* (internal_delete, clds_singly_linked_list_find).
THEOREM NotFoundIsJustified == ~RereadsNext => (Spec => []NotFoundJustified)
  BY IInvHolds, IInvJustified, PTL

-----------------------------------------------------------------------------
(* The list as a set *)

\* An insert puts in its own item; a delete takes out its own; destroy empties the list.
ChangesList ==
    InList' # InList =>
        \/ destroyed' /\ ~destroyed /\ InList' = {}
        \/ \E t \in Threads :
              \/ /\ op[t] = "insert" /\ Putting(t) /\ ~Putting(t)'
                 /\ target[t] \notin InList /\ InList' = InList \cup {target[t]}
              \/ /\ op[t] = "delete" /\ pc[t] = "unlink" /\ pc'[t] = "retire"
                 /\ target[t] \in InList /\ InList' = InList \ {target[t]}

\* An insert has put its item in when it returns, and does not put it in again; what a
\* delete is about to retire it has taken out.
CallTakesEffect(t) ==
    /\ op[t] = "insert" /\ op'[t] = "none" => ~Putting(t)
    /\ op[t] = "insert" /\ ~Putting(t) => ~Putting(t)'
    /\ pc[t] # "retire" /\ pc'[t] = "retire" =>
          target[t] \in InList /\ InList' = InList \ {target[t]}

\* A step of a call changes the list as the call is meant to.
LEMMA ProgressChanges ==
  ASSUME LInv, LInv', NEW t \in Threads, OnlyBy(t), Progress(t), Puts(t)
  PROVE  ChangesList /\ (pc'[t] = "retire" /\ pc[t] # "retire" =>
                            target[t] \in InList /\ InList' = InList \ {target[t]})
<1>1. Knows(t) /\ Owns(t)'
  BY DEF LInv, Knows
<1>2. \A i \in InList' \ InList : Putting(t) /\ i = target[t]
  BY DEF Progress
<1>3. \A i \in InList \ InList' : pc[t] = "unlink" /\ i = cur[t].ptr /\ pc'[t] = "retire"
                                  /\ cur'[t] = cur[t]
  BY DEF Progress
<1>4. pc[t] = "unlink" => op[t] = "delete" /\ cur[t].ptr = target[t] /\ ~Putting(t)
  BY <1>1 DEF Knows, Args, Stands, Holding, Owning, Putting
<1>5. ASSUME NEW i \in InList' \ InList
      PROVE  /\ op[t] = "insert" /\ Putting(t) /\ ~Putting(t)'
             /\ target[t] \notin InList /\ InList' = InList \cup {target[t]}
  <2>1. Putting(t) /\ i = target[t] /\ op[t] = "insert"
    BY <1>2, <1>5 DEF Putting
  <2>2. InList \subseteq InList'
    BY <1>3, <1>4, <2>1
  <2>3. InList' = InList \cup {target[t]}
    BY <1>2, <1>5, <2>1, <2>2
  <2>4. ~Putting(t)'
    <3>1. ASSUME Putting(t)'  PROVE FALSE
      <4>1. target'[t] = i
        BY <2>1, <3>1 DEF Puts
      <4>2. ~Listed(i)'
        BY <1>1, <3>1, <4>1 DEF Owns
      <4> QED  BY <1>5, <4>2 DEF Listed
    <3> QED  BY <3>1
  <2> QED  BY <1>5, <2>1, <2>3, <2>4
<1>6. ASSUME NEW i \in InList \ InList'
      PROVE  /\ op[t] = "delete" /\ pc[t] = "unlink" /\ pc'[t] = "retire"
             /\ target[t] \in InList /\ InList' = InList \ {target[t]}
  <2>1. pc[t] = "unlink" /\ pc'[t] = "retire" /\ i = target[t] /\ ~Putting(t) /\ op[t] = "delete"
    BY <1>3, <1>4, <1>6
  <2>2. InList' \subseteq InList
    BY <1>2, <2>1
  <2>3. InList' = InList \ {target[t]}
    BY <1>3, <1>4, <1>6, <2>1, <2>2
  <2> QED  BY <1>6, <2>1, <2>3
<1>7. ChangesList
  BY <1>5, <1>6 DEF ChangesList
<1>8. ASSUME pc'[t] = "retire", pc[t] # "retire"
      PROVE  target[t] \in InList /\ InList' = InList \ {target[t]}
  <2>1. cur'[t].ptr \in InList \ InList'
    BY <1>1, <1>8 DEF Progress, Owns
  <2> QED  BY <1>6, <2>1
<1> QED  BY <1>7, <1>8

\* An insert that returns has seen its compare-and-swap succeed.
LEMMA InsertIsIn ==
  ASSUME ~RereadsNext, NEW t \in Threads, Step(t), op \in [Threads -> {"none", "insert", "delete", "find"}],
         Args(t), op[t] = "insert", op'[t] = "none"
  PROVE  ~Putting(t)
<1>1. pc[t] \in Inserts
  BY DEF Args
<1>2. InsertRead(t) \/ InsertCas(t) \/ InsertCompare(t)
  BY <1>1 DEF Step, WalkEnd, WalkRead, AcquireFails, CheckAgain, CheckTagged, CheckAdvance,
              CheckMatch, MarkRead, Mark, Unlink, Unmark, Retire, TakeRef, Return, Goto, Inserts
<1>3. InsertCompare(t) /\ cur[t] = nxt[t] /\ pc[t] = "ins_compare"
  BY <1>2 DEF InsertRead, InsertCas, InsertCompare, call
<1> QED  BY <1>3 DEF Putting

\* What the calls of others are, and have come to, is left as it is.
LEMMA OthersTakeEffect ==
  ASSUME NEW t \in Threads, OnlyBy(t), NEW u \in Threads \ {t}
  PROVE  CallTakesEffect(u)
BY DEF OnlyBy, CallTakesEffect, Putting

LEMMA NothingTakesEffect ==
  ASSUME InList' = InList, UNCHANGED <<pc, op, cur, nxt>>
  PROVE  ChangesList /\ \A t \in Threads : CallTakesEffect(t)
BY DEF ChangesList, CallTakesEffect, Putting

LEMMA NextChanges ==
  ~RereadsNext =>
      (IInv /\ IInv' /\ [Next]_vars => ChangesList /\ \A t \in Threads : CallTakesEffect(t))
<1> SUFFICES ASSUME ~RereadsNext, IInv, IInv', [Next]_vars
             PROVE  ChangesList /\ \A t \in Threads : CallTakesEffect(t)
  OBVIOUS
<1>1. LInv /\ LInv' /\ CInv /\ Ranges /\ \A t \in Threads : Args(t)
  BY DEF IInv, LInv, Knows
<1>2. ASSUME NEW t \in Threads, Step(t)
      PROVE  ChangesList /\ \A u \in Threads : CallTakesEffect(u)
  <2>1. Good(t)
    BY <1>1, <1>2, StepGood
  <2>2. ChangesList /\ (pc'[t] = "retire" /\ pc[t] # "retire" =>
                           target[t] \in InList /\ InList' = InList \ {target[t]})
    BY <1>1, <2>1, ProgressChanges DEF Good
  <2>3. op[t] = "insert" /\ op'[t] = "none" => ~Putting(t)
    BY <1>1, <1>2, InsertIsIn DEF Ranges
  <2>4. Putting(t)' => Putting(t)
    BY <2>1 DEF Good, Puts
  <2>5. CallTakesEffect(t)
    BY <2>2, <2>3, <2>4 DEF CallTakesEffect
  <2>6. \A u \in Threads \ {t} : CallTakesEffect(u)
    BY <2>1, OthersTakeEffect DEF Good
  <2> QED  BY <2>2, <2>5, <2>6
<1>3. ASSUME NEW t \in Threads, NEW i \in Items,
             InsertStart(t, i) \/ DeleteStart(t, i) \/ FindStart(t, i)
      PROVE  ChangesList /\ \A u \in Threads : CallTakesEffect(u)
  <2>1. pc[t] = "idle" /\ op[t] = "none" /\ pc'[t] # "retire" /\ OnlyBy(t) /\ Progress(t)
    <3>1. pc[t] = "idle" /\ pc'[t] # "retire"
      BY <1>1, <1>3 DEF InsertStart, DeleteStart, FindStart, Call, Goto, Ranges
    <3>2. OnlyBy(t) /\ Progress(t)
      BY <1>1, <1>3, InsertBegins, SearchBegins
    <3> QED  BY <1>1, <3>1, <3>2 DEF Args
  <2>2. InList' = InList
    BY <2>1 DEF Progress, Putting
  <2>3. CallTakesEffect(t)
    BY <2>1 DEF CallTakesEffect
  <2>4. \A u \in Threads \ {t} : CallTakesEffect(u)
    BY <2>1, OthersTakeEffect
  <2> QED  BY <2>2, <2>3, <2>4 DEF ChangesList
<1>4. ASSUME UNCHANGED <<link, pc, call, walk>>
      PROVE  ChangesList /\ \A u \in Threads : CallTakesEffect(u)
  <2>1. InList' = InList
    BY <1>4, InListAfter
  <2> QED  BY <1>4, <2>1, NothingTakesEffect DEF call, walk
<1>5. CASE Destroy
  <2>1. destroyed' /\ ~destroyed /\ UNCHANGED <<pc, op, cur, nxt>>
    BY <1>5 DEF Destroy, call, walk
  <2>2. InList' = {}
    BY <1>1, <2>1 DEF LInv, Heap
  <2> QED  BY <1>1, <1>5, <2>1, <2>2 DEF ChangesList, CallTakesEffect, Putting
<1>6. ASSUME NEW t \in Threads, NodeRelease(t)
      PROVE  ChangesList /\ \A u \in Threads : CallTakesEffect(u)
  BY <1>4, <1>6 DEF NodeRelease
<1>7. ASSUME NEW i \in Items, ReclaimNode(i) \/ Allocate(i)
      PROVE  ChangesList /\ \A u \in Threads : CallTakesEffect(u)
  BY <1>4, <1>7 DEF ReclaimNode, Allocate
<1>8. CASE UNCHANGED vars
  BY <1>4, <1>8 DEF vars, memory
<1> QED
  BY <1>2, <1>3, <1>5, <1>6, <1>7, <1>8 DEF Next

\* The list is a set whose every operation takes effect at one instant: insert at its
\* compare-and-swap of the head, once, before it returns; a delete that succeeds where it
\* swings the link past the item it marked, and nowhere else does the list change, whatever
\* marks, failed exchanges and reused addresses there are
\* (clds_singly_linked_list_insert, internal_delete, clds_singly_linked_list_destroy).
THEOREM ListIsASet ==
  ~RereadsNext => (Spec => [][ChangesList /\ \A t \in Threads : CallTakesEffect(t)]_vars)
<1> SUFFICES ASSUME ~RereadsNext
             PROVE  Spec => [][ChangesList /\ \A t \in Threads : CallTakesEffect(t)]_vars
  OBVIOUS
<1>1. IInv /\ IInv' /\ [Next]_vars => ChangesList /\ \A t \in Threads : CallTakesEffect(t)
  BY NextChanges
<1> QED  BY <1>1, IInvHolds, PTL DEF Spec
=============================================================================
