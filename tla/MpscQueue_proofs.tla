------------------------- MODULE MpscQueue_proofs ---------------------------
(***************************************************************************)
(* The queue, for any number of producers and items.  An item is in one    *)
(* place, although the items come back: a compare-and-swap that succeeds   *)
(* on an address seen before the item left and came back does no harm.     *)
(* TypeOK is inductive as it stands; each action is shown to keep it by    *)
(* naming the set of items that the queue holds after it.  Then that the   *)
(* queue is a FIFO queue: Line puts what it holds into one sequence, and   *)
(* each action appends to it, takes its head, or leaves it.                *)
(***************************************************************************)
EXTENDS MpscQueue, FiniteSetTheorems, SequenceTheorems, WellFoundedInduction, TLAPS

Maybe == Items \cup {NULL}

\* TypeOK but for the items that the queue holds.
Types ==
    /\ enqueue_head \in Maybe /\ dequeue_head \in Maybe /\ next \in [Items -> Maybe]
    /\ free \subseteq Items
    /\ ppc \in [Producers -> {"idle", "read", "cas"}] /\ item \in [Producers -> Maybe]
    /\ \A p \in Producers : ppc[p] = "idle" <=> item[p] = NULL
    /\ \A p, q \in Producers : item[p] = item[q] /\ item[p] # NULL => p = q
    /\ \A p \in Producers : item[p] \notin free
    /\ cpc \in {"idle", "dequeue", "peek"} /\ cur \in Maybe /\ newHead \in Maybe
    /\ cpc # "idle" <=> (cur # NULL \/ newHead # NULL)
    /\ cpc # "idle" => dequeue_head = NULL
    /\ result \in Maybe \cup BOOLEAN

LEMMA TypeOKParts == TypeOK <=> Types /\ \E S \in SUBSET Items : Holds(S)
BY DEF TypeOK, Types, Maybe

\* The queue is empty at first.
LEMMA InitTypeOK == Init => TypeOK
<1> SUFFICES ASSUME Init  PROVE TypeOK
  OBVIOUS
<1> USE MpscQueueAssumption DEF Init
<1>1. Types  BY DEF Types, Maybe
<1>2. Holds({})  BY DEF Holds
<1> QED  BY <1>1, <1>2, TypeOKParts

\* The producers' steps.
LEMMA ProducersKeep ==
  ASSUME Types, NEW S \in SUBSET Items, Holds(S), NEW p \in Producers,
         ProducerStep(p) \/ \E i \in Items : EnqueueStart(p, i)
  PROVE  Types' /\ \E T \in SUBSET Items : Holds(T)'
<1> USE MpscQueueAssumption DEF Types, Maybe, producers, consumer
<1>1. CASE \E i \in Items : EnqueueStart(p, i)
  <2> PICK i \in Items : EnqueueStart(p, i)  BY <1>1
  <2>1. Types'  BY DEF EnqueueStart
  <2>2. Holds(S)'  BY DEF EnqueueStart, Holds
  <2> QED  BY <2>1, <2>2
<1>2. CASE EnqueueRead(p)
  <2>1. Types'  BY <1>2 DEF EnqueueRead
  <2>2. Holds(S)'  BY <1>2 DEF EnqueueRead, Holds
  <2> QED  BY <2>1, <2>2
<1>3. CASE EnqueueCas(p) /\ enqueue_head = next[item[p]]
  <2>1. Types'  BY <1>3 DEF EnqueueCas
  <2>2. PICK i \in Items : i = item[p]  BY <1>3 DEF EnqueueCas
  <2>3. Holds(S \cup {i})'  BY <1>3, <2>2 DEF EnqueueCas, Holds
  <2> QED  BY <2>1, <2>3
<1>4. CASE EnqueueCas(p) /\ enqueue_head # next[item[p]]
  <2>1. Types'  BY <1>4 DEF EnqueueCas
  <2>2. Holds(S)'  BY <1>4 DEF EnqueueCas, Holds
  <2> QED  BY <2>1, <2>2
<1> QED  BY <1>1, <1>2, <1>3, <1>4 DEF ProducerStep

\* The consumer's steps.
LEMMA ConsumerKeeps ==
  ASSUME Types, NEW S \in SUBSET Items, Holds(S),
         DequeueStep \/ PeekHead \/ Detach("peek") \/ IsEmpty
  PROVE  Types' /\ \E T \in SUBSET Items : Holds(T)'
<1> USE MpscQueueAssumption DEF Types, Maybe, producers, consumer
<1>1. CASE DequeueAdvance
  <2>1. PICK i \in S : i = dequeue_head  BY <1>1 DEF DequeueAdvance, Holds
  <2>2. Types'  BY <1>1, <2>1 DEF DequeueAdvance, Holds
  <2>3. Holds(S \ {i})'  BY <1>1, <2>1 DEF DequeueAdvance, Holds
  <2> QED  BY <2>2, <2>3
<1>2. CASE PeekHead
  <2>1. Types'  BY <1>2 DEF PeekHead
  <2>2. Holds(S)'  BY <1>2 DEF PeekHead, Holds
  <2> QED  BY <2>1, <2>2
<1>3. ASSUME NEW op \in {"dequeue", "peek"}, Detach(op)
      PROVE  Types' /\ Holds(S)'
  <2>1. Types'  BY <1>3 DEF Detach
  <2>2. Holds(S)'  BY <1>3 DEF Detach, Holds
  <2> QED  BY <2>1, <2>2
<1>4. CASE ReverseItem
  <2>1. Types'  BY <1>4 DEF ReverseItem
  <2>2. Holds(S)'  BY <1>4 DEF ReverseItem, Holds
  <2> QED  BY <2>1, <2>2
<1>5. CASE DequeuePublish
  <2>1. PICK i \in S : i = newHead  BY <1>5 DEF DequeuePublish, Holds
  <2>2. Types'  BY <1>5, <2>1 DEF DequeuePublish, Holds
  <2>3. Holds(S \ {i})'  BY <1>5, <2>1 DEF DequeuePublish, Holds
  <2> QED  BY <2>2, <2>3
<1>6. CASE PeekPublish
  <2>1. Types'  BY <1>6 DEF PeekPublish
  <2>2. Holds(S)'  BY <1>6 DEF PeekPublish, Holds
  <2> QED  BY <2>1, <2>2
<1>7. CASE IsEmpty
  <2>1. result' \in BOOLEAN  BY <1>7 DEF IsEmpty
  <2>2. Types'  BY <1>7, <2>1 DEF IsEmpty
  <2>3. Holds(S)'  BY <1>7 DEF IsEmpty, Holds
  <2> QED  BY <2>2, <2>3
<1> QED  BY <1>1, <1>2, <1>3, <1>4, <1>5, <1>6, <1>7 DEF DequeueStep

\* The invariant is kept by every step.
LEMMA NextTypeOK == TypeOK /\ [Next]_vars => TypeOK'
<1> SUFFICES ASSUME TypeOK, [Next]_vars  PROVE TypeOK'
  OBVIOUS
<1>1. PICK S \in SUBSET Items : Types /\ Holds(S)
  BY TypeOKParts
<1>2. CASE UNCHANGED vars
  BY <1>2 DEF vars, producers, consumer, TypeOK, Holds
<1>3. CASE Next
  <2>1. Types' /\ \E T \in SUBSET Items : Holds(T)'
    BY <1>1, <1>3, ProducersKeep, ConsumerKeeps DEF Next
  <2> QED  BY <2>1 DEF TypeOK, Types, Maybe
<1> QED  BY <1>2, <1>3

-----------------------------------------------------------------------------
(***************************************************************************)
(* The queue is one sequence q, and three cuts say who has which part of   *)
(* it: the consumer's list is q up to a, what it is reversing is from a to *)
(* b, linked backwards, what it has reversed from b to c, and the stack,   *)
(* linked backwards too, the rest.  A turn of the reversal moves a cut and *)
(* leaves q as it is.                                                      *)
(***************************************************************************)

\* The links from x lead through q[l + 1] .. q[m] and end there, or the other way round.
Ahead(q, l, m, x) ==
    /\ x = IF l = m THEN NULL ELSE q[l + 1]
    /\ \A k \in (l + 1)..m : next[q[k]] = IF k = m THEN NULL ELSE q[k + 1]
Back(q, l, m, x) ==
    /\ x = IF l = m THEN NULL ELSE q[m]
    /\ \A k \in (l + 1)..m : next[q[k]] = IF k = l + 1 THEN NULL ELSE q[k - 1]

\* The items of q are in it once, and with nobody else.
Own(n, q) ==
    /\ \A k, l \in 1..n : q[k] = q[l] => k = l
    /\ \A k \in 1..n : q[k] \notin free /\ \A p \in Producers : item[p] # q[k]

Cut(n, q, a, b, c) ==
    /\ a <= b /\ b <= c /\ c <= n
    /\ Own(n, q)
    /\ Ahead(q, 0, a, dequeue_head) /\ Back(q, a, b, cur)
    /\ Ahead(q, b, c, newHead) /\ Back(q, c, n, enqueue_head)

\* The queue is q.
Line(n, q) == \E a, b, c \in Nat : Cut(n, q, a, b, c)

-----------------------------------------------------------------------------
(* Queued is that sequence *)

\* Every set of naturals that is not empty has a least element.
LEMMA LeastNat ==
    ASSUME NEW T, T \subseteq Nat, T # {}
    PROVE  \E x \in T : \A y \in T : x <= y
<1> DEFINE R == OpToRel(<, Nat)
<1>1. \E x \in T : \A y \in T : ~ (<<y, x>> \in R)
  <2> HIDE DEF R
  <2> QED  BY NatLessThanWellFounded, WFMin DEF R
<1>2. PICK x \in T : \A y \in T : ~ (<<y, x>> \in R)
  BY <1>1
<1>3. ASSUME NEW y \in T  PROVE x <= y
  <2>1. ~ (<<y, x>> \in R)  BY <1>2
  <2> QED  BY <2>1 DEF OpToRel
<1> QED  BY <1>3

\* Where the links from x spell s, following them spells s and then NULL.
Hops(x, N, h) ==
    h = [k \in 1..N |-> IF k = 1 THEN x ELSE IF h[k - 1] = NULL THEN NULL ELSE next[h[k - 1]]]

LEMMA HopsSpell ==
    ASSUME NEW N \in Nat, NEW m \in 0..N, NEW s \in [1..m -> Items], NEW x,
           x = (IF m = 0 THEN NULL ELSE s[1]),
           \A k \in 1..m : next[s[k]] = IF k = m THEN NULL ELSE s[k + 1]
    PROVE  /\ \E h : Hops(x, N, h)
           /\ \A h : Hops(x, N, h) =>
                  h \in [1..N -> Items \cup {NULL}] /\ \A k \in 1..N : h[k] = IF k <= m THEN s[k] ELSE NULL
<1> USE MpscQueueAssumption
<1> DEFINE g == [k \in 1..N |-> IF k <= m THEN s[k] ELSE NULL]
<1>1. \A k \in 1..N : g[k] = IF k = 1 THEN x ELSE IF g[k - 1] = NULL THEN NULL ELSE next[g[k - 1]]
  <2> TAKE k \in 1..N
  <2>1. CASE k = 1  BY <2>1
  <2>2. CASE k # 1
    <3>1. k - 1 \in 1..N /\ g[k - 1] = IF k - 1 <= m THEN s[k - 1] ELSE NULL  BY <2>2
    <3>2. CASE k - 1 <= m
      <4>1. k - 1 \in 1..m /\ (k - 1) + 1 = k  BY <2>2, <3>2
      <4>2. next[s[k - 1]] = IF k - 1 = m THEN NULL ELSE s[k]  BY <4>1
      <4> QED  BY <2>2, <3>1, <3>2, <4>1, <4>2
    <3>3. CASE ~(k - 1 <= m)  BY <2>2, <3>1, <3>3
    <3> QED  BY <3>2, <3>3
  <2> QED  BY <2>1, <2>2
<1>2. Hops(x, N, g)  BY <1>1 DEF Hops
<1>3. ASSUME NEW h, Hops(x, N, h)
      PROVE  h \in [1..N -> Items \cup {NULL}] /\ \A k \in 1..N : h[k] = IF k <= m THEN s[k] ELSE NULL
  <2>1. /\ DOMAIN h = 1..N /\ h = [k \in DOMAIN h |-> h[k]]
        /\ \A k \in 1..N : h[k] = IF k = 1 THEN x
                                  ELSE IF h[k - 1] = NULL THEN NULL ELSE next[h[k - 1]]
    BY <1>3 DEF Hops
  <2> DEFINE Bad == {k \in 1..N : h[k] # g[k]}
  <2>2. Bad = {}
    <3>1. SUFFICES ASSUME Bad # {}  PROVE FALSE
      OBVIOUS
    <3>2. PICK k \in Bad : \A j \in Bad : k <= j
      <4> Bad \subseteq Nat  OBVIOUS
      <4> HIDE DEF Bad
      <4> QED  BY <3>1, LeastNat
    <3>3. k \in 1..N /\ h[k] # g[k]  OBVIOUS
    <3> HIDE DEF g
    <3>4. k # 1  BY <1>1, <2>1, <3>3
    <3>5. k - 1 \in 1..N /\ ~(k <= k - 1)  BY <3>3, <3>4
    <3>6. h[k - 1] = g[k - 1]  BY <3>2, <3>5
    <3> QED  BY <1>1, <2>1, <3>3, <3>4, <3>6
  <2>3. \A k \in 1..N : h[k] = IF k <= m THEN s[k] ELSE NULL  BY <2>2
  <2>4. \A k \in 1..N : h[k] \in Items \cup {NULL}  BY <2>3
  <2> QED  BY <2>1, <2>3, <2>4
<1> QED  BY <1>2, <1>3

\* Then Chain is s, if no item is in it twice: it has not more items than there are.
LEMMA ChainSpells ==
    ASSUME NEW m \in Nat, NEW s \in [1..m -> Items], NEW x,
           \A k, l \in 1..m : s[k] = s[l] => k = l,
           x = (IF m = 0 THEN NULL ELSE s[1]),
           \A k \in 1..m : next[s[k]] = IF k = m THEN NULL ELSE s[k + 1]
    PROVE  Chain(x) = s
<1> USE MpscQueueAssumption
<1> DEFINE N == Cardinality(Items) + 1
           h == CHOOSE f : Hops(x, N, f)
<1>1. N \in Nat /\ m <= N
  <2>1. s \in Injection(1..m, Items)  BY DEF Injection, IsInjective
  <2>2. Cardinality(1..m) = m  BY FS_Interval
  <2>3. Cardinality(1..m) <= Cardinality(Items) /\ Cardinality(Items) \in Nat
    BY <2>1, FS_Injection, FS_CardinalityType
  <2> QED  BY <2>2, <2>3
<1>2. Chain(x) = [k \in 1..Cardinality({j \in DOMAIN h : h[j] # NULL}) |-> h[k]]
  BY DEF Chain, Hops
<1> HIDE DEF N
<1>3. Hops(x, N, h)  BY <1>1, HopsSpell
<1> HIDE DEF h
<1>4. h \in [1..N -> Items \cup {NULL}] /\ \A k \in 1..N : h[k] = IF k <= m THEN s[k] ELSE NULL
  BY <1>1, <1>3, HopsSpell
<1>5. {j \in DOMAIN h : h[j] # NULL} = 1..m
  BY <1>1, <1>4
<1>6. Cardinality(1..m) = m  BY FS_Interval
<1>7. Chain(x) = [k \in 1..m |-> h[k]]  BY <1>2, <1>5, <1>6
<1>8. \A k \in 1..m : h[k] = s[k]  BY <1>1, <1>4
<1> QED  BY <1>7, <1>8

\* Of each part, in the order of the queue.
Part(q, l, m) == [k \in 1..(m - l) |-> q[l + k]]

LEMMA ChainAhead ==
    ASSUME NEW n \in Nat, NEW q \in [1..n -> Items], Own(n, q),
           NEW l \in Nat, NEW m \in Nat, l <= m, m <= n, NEW x, Ahead(q, l, m, x)
    PROVE  Chain(x) = Part(q, l, m)
<1> DEFINE s == Part(q, l, m)
<1>1. PICK r \in Nat : r = m - l
  OBVIOUS
<1>2. s \in [1..r -> Items] /\ \A k \in 1..r : s[k] = q[l + k]  BY <1>1 DEF Part
<1>3. \A k \in 1..r : l + k \in 1..n /\ l + k \in (l + 1)..m  BY <1>1
<1> HIDE DEF s
<1>4. \A j, k \in 1..r : s[j] = s[k] => j = k
  <2> TAKE j, k \in 1..r
  <2> HAVE s[j] = s[k]
  <2>1. q[l + j] = q[l + k]  BY <1>2
  <2>2. l + j = l + k  BY <1>3, <2>1 DEF Own
  <2> QED  BY <2>2
<1>5. x = (IF r = 0 THEN NULL ELSE s[1])  BY <1>1, <1>2 DEF Ahead
<1>6. \A k \in 1..r : next[s[k]] = IF k = r THEN NULL ELSE s[k + 1]
  <2> TAKE k \in 1..r
  <2>1. next[q[l + k]] = IF l + k = m THEN NULL ELSE q[(l + k) + 1]  BY <1>3 DEF Ahead
  <2>2. k # r => k + 1 \in 1..r /\ l + (k + 1) = (l + k) + 1  OBVIOUS
  <2>3. l + k = m <=> k = r  BY <1>1
  <2>4. k # r => s[k + 1] = q[(l + k) + 1]  BY <1>2, <2>2
  <2> QED  BY <1>2, <2>1, <2>3, <2>4
<1>7. Chain(x) = s
  <2>1. s \in [1..r -> Items]  BY <1>2
  <2> QED  BY <2>1, <1>4, <1>5, <1>6, ChainSpells
<1> QED  BY <1>7 DEF s

LEMMA ChainBack ==
    ASSUME NEW n \in Nat, NEW q \in [1..n -> Items], Own(n, q),
           NEW l \in Nat, NEW m \in Nat, l <= m, m <= n, NEW x, Back(q, l, m, x)
    PROVE  Reverse(Chain(x)) = Part(q, l, m)
<1>1. PICK r \in Nat : r = m - l
  OBVIOUS
<1> DEFINE s == [k \in 1..r |-> q[(m + 1) - k]]
<1>2. s \in [1..r -> Items] /\ \A k \in 1..r : s[k] = q[(m + 1) - k]  BY <1>1
<1>3. \A k \in 1..r : (m + 1) - k \in 1..n /\ (m + 1) - k \in (l + 1)..m  BY <1>1
<1> HIDE DEF s
<1>4. \A j, k \in 1..r : s[j] = s[k] => j = k
  <2> TAKE j, k \in 1..r
  <2> HAVE s[j] = s[k]
  <2>1. q[(m + 1) - j] = q[(m + 1) - k]  BY <1>2
  <2>2. (m + 1) - j = (m + 1) - k  BY <1>3, <2>1 DEF Own
  <2> QED  BY <2>2
<1>5. x = (IF r = 0 THEN NULL ELSE s[1])  BY <1>1, <1>2 DEF Back
<1>6. \A k \in 1..r : next[s[k]] = IF k = r THEN NULL ELSE s[k + 1]
  <2> TAKE k \in 1..r
  <2>1. next[q[(m + 1) - k]] = IF (m + 1) - k = l + 1 THEN NULL ELSE q[((m + 1) - k) - 1]
    BY <1>3 DEF Back
  <2>2. k # r => k + 1 \in 1..r /\ (m + 1) - (k + 1) = ((m + 1) - k) - 1  OBVIOUS
  <2>3. (m + 1) - k = l + 1 <=> k = r  BY <1>1
  <2>4. k # r => s[k + 1] = q[((m + 1) - k) - 1]  BY <1>2, <2>2
  <2> QED  BY <1>2, <2>1, <2>3, <2>4
<1>7. Chain(x) = s
  <2>1. s \in [1..r -> Items]  BY <1>2
  <2> QED  BY <2>1, <1>4, <1>5, <1>6, ChainSpells
<1>8. s \in Seq(Items) /\ Len(s) = r  BY <1>2
<1>9. \A k \in 1..r : s[(r - k) + 1] = q[l + k]
  <2> TAKE k \in 1..r
  <2>1. (r - k) + 1 \in 1..r /\ (m + 1) - ((r - k) + 1) = l + k  BY <1>1
  <2> QED  BY <1>2, <2>1
<1>10. Reverse(s) = [k \in 1..r |-> s[(r - k) + 1]]  BY <1>8 DEF Reverse
<1> QED  BY <1>1, <1>7, <1>9, <1>10 DEF Part

LEMMA PartsJoin ==
    ASSUME NEW n \in Nat, NEW q \in [1..n -> Items], NEW l \in Nat, NEW m \in Nat, l <= m, m <= n
    PROVE  Part(q, 0, l) \o Part(q, l, m) = Part(q, 0, m)
<1> DEFINE u == Part(q, 0, l)  v == Part(q, l, m)  w == Part(q, 0, m)
<1>1. u \in [1..l -> Items] /\ \A k \in 1..l : u[k] = q[k]
  <2>1. \A k \in 1..l : 0 + k = k /\ k \in 1..n  OBVIOUS
  <2> QED  BY <2>1 DEF Part
<1>2. PICK r \in Nat : r = m - l
  OBVIOUS
<1>3. v \in [1..r -> Items] /\ \A k \in 1..r : v[k] = q[l + k]
  <2>1. \A k \in 1..r : l + k \in 1..n  BY <1>2
  <2> QED  BY <1>2, <2>1 DEF Part
<1>4. w \in [1..m -> Items] /\ \A k \in 1..m : w[k] = q[k]
  <2>1. \A k \in 1..m : 0 + k = k /\ k \in 1..n  OBVIOUS
  <2> QED  BY <2>1 DEF Part
<1> HIDE DEF u, v, w
<1>5. u \in Seq(Items) /\ v \in Seq(Items) /\ Len(u) = l /\ Len(v) = r /\ l + r = m
  BY <1>1, <1>2, <1>3
<1>6. /\ u \o v \in Seq(Items) /\ Len(u \o v) = m
      /\ \A k \in 1..m : (u \o v)[k] = IF k <= l THEN u[k] ELSE v[k - l]
  BY <1>5, ConcatProperties
<1>7. \A k \in 1..m : (u \o v)[k] = w[k]
  <2> TAKE k \in 1..m
  <2>1. CASE k <= l  BY <1>1, <1>4, <1>6, <2>1
  <2>2. CASE ~(k <= l)
    <3>1. k - l \in 1..r /\ l + (k - l) = k  BY <1>2, <2>2
    <3> QED  BY <1>3, <1>4, <1>6, <2>2, <3>1
  <2> QED  BY <2>1, <2>2
<1>8. w \in Seq(Items) /\ Len(w) = m  BY <1>4
<1>9. u \o v = w  BY <1>6, <1>7, <1>8, SeqEqual
<1> QED  BY <1>9 DEF u, v, w

LEMMA LineIsQueued ==
    ASSUME NEW n \in Nat, NEW q \in [1..n -> Items], Line(n, q)
    PROVE  Queued = q
<1>1. PICK a, b, c \in Nat : Cut(n, q, a, b, c)
  BY DEF Line
<1>2. a <= b /\ b <= c /\ c <= n /\ Own(n, q)  BY <1>1 DEF Cut
<1>3. /\ Chain(dequeue_head) = Part(q, 0, a) /\ Reverse(Chain(cur)) = Part(q, a, b)
      /\ Chain(newHead) = Part(q, b, c) /\ Reverse(Chain(enqueue_head)) = Part(q, c, n)
  BY <1>1, <1>2, ChainAhead, ChainBack DEF Cut
<1>4. Part(q, 0, a) \o Part(q, a, b) = Part(q, 0, b)  BY <1>2, PartsJoin
<1>5. Part(q, 0, b) \o Part(q, b, c) = Part(q, 0, c)  BY <1>2, PartsJoin
<1>6. Part(q, 0, c) \o Part(q, c, n) = Part(q, 0, n)  BY <1>2, PartsJoin
<1>7. Part(q, 0, n) = q
  <2>1. \A k \in 1..n : 0 + k = k  OBVIOUS
  <2> QED  BY <2>1 DEF Part
<1> QED  BY <1>3, <1>4, <1>5, <1>6, <1>7 DEF Queued

LEMMA LineIsQueuedNext ==
    \A n \in Nat : \A q \in [1..n -> Items] : Line(n, q)' => Queued' = q
<1>1. \A n \in Nat : \A q \in [1..n -> Items] : Line(n, q) => Queued = q
  BY LineIsQueued
<1>2. (\A n \in Nat : \A q \in [1..n -> Items] : Line(n, q) => Queued = q)'
  BY <1>1, PTL
<1> QED  BY <1>2

-----------------------------------------------------------------------------
(* The steps *)

FInv == TypeOK /\ \E n \in Nat : \E q \in [1..n -> Items] : Line(n, q)

LEMMA InitFInv == Init => FInv
<1> SUFFICES ASSUME Init  PROVE FInv
  OBVIOUS
<1> DEFINE q == [k \in 1..0 |-> NULL]
<1>1. q \in [1..0 -> Items]  OBVIOUS
<1>2. Cut(0, q, 0, 0, 0)  BY DEF Init, Cut, Own, Ahead, Back
<1> HIDE DEF q
<1>3. Line(0, q)  BY <1>2 DEF Line
<1> QED  BY <1>1, <1>3, InitTypeOK DEF FInv

\* A producer puts its item behind the last, when its compare-and-swap succeeds.
LEMMA Pushes ==
  ASSUME TypeOK, NEW n \in Nat, NEW q \in [1..n -> Items], Line(n, q),
         NEW p \in Producers, EnqueueCas(p), enqueue_head = next[item[p]],
         NEW i \in Items, i = item[p],
         NEW r \in [1..(n + 1) -> Items], r[n + 1] = i, \A k \in 1..n : r[k] = q[k]
  PROVE  Line(n + 1, r)' /\ \A k \in 1..n : q[k] # i
<1>1. /\ ppc[p] = "cas" /\ enqueue_head' = i /\ item' = [item EXCEPT ![p] = NULL]
      /\ UNCHANGED <<dequeue_head, next, free, cur, newHead>>
      /\ i \notin free /\ \A u \in Producers : item[u] = i => u = p
      /\ item \in [Producers -> Items \cup {NULL}] /\ NULL \notin Items
  BY MpscQueueAssumption DEF EnqueueCas, TypeOK, consumer
<1>2. PICK a, b, c \in Nat : Cut(n, q, a, b, c)
  BY DEF Line
<1>3. \A k \in 1..n : q[k] # i  BY <1>2 DEF Cut, Own
<1>4. r[n + 1] = i /\ \A k \in 1..n : r[k] = q[k]
  OBVIOUS
<1>5. Own(n + 1, r)'
  <2>1. \A k, l \in 1..(n + 1) : r[k] = r[l] => k = l
    BY <1>2, <1>3, <1>4 DEF Cut, Own
  <2>2. ASSUME NEW k \in 1..(n + 1)
        PROVE  r[k] \notin free /\ \A u \in Producers : item'[u] # r[k]
    BY <1>1, <1>2, <1>4 DEF Cut, Own
  <2> QED  BY <1>1, <2>1, <2>2 DEF Own
<1>6. a <= b /\ b <= c /\ c <= n  BY <1>2 DEF Cut
<1>7. Ahead(r, 0, a, dequeue_head)'  BY <1>1, <1>2, <1>4, <1>6 DEF Cut, Ahead
<1>8. Back(r, a, b, cur)'  BY <1>1, <1>2, <1>4, <1>6 DEF Cut, Back
<1>9. Ahead(r, b, c, newHead)'  BY <1>1, <1>2, <1>4, <1>6 DEF Cut, Ahead
<1>10. Back(r, c, n + 1, enqueue_head)'
  <2>1. enqueue_head' = r[n + 1]  BY <1>1, <1>4
  <2>2. ASSUME NEW k \in (c + 1)..(n + 1)
        PROVE  next[r[k]] = IF k = c + 1 THEN NULL ELSE r[k - 1]
    <3>1. CASE k = n + 1
      <4>1. next[r[k]] = enqueue_head  BY <1>4, <3>1
      <4>2. enqueue_head = IF c = n THEN NULL ELSE q[n]  BY <1>2 DEF Cut, Back
      <4>3. c # n => n \in 1..n /\ k - 1 = n /\ r[n] = q[n]  BY <1>4, <1>6, <3>1
      <4> QED  BY <3>1, <4>1, <4>2, <4>3
    <3>2. CASE k # n + 1
      <4>1. k \in (c + 1)..n /\ k \in 1..n  BY <3>2
      <4>2. next[q[k]] = IF k = c + 1 THEN NULL ELSE q[k - 1]  BY <1>2, <4>1 DEF Cut, Back
      <4>3. k # c + 1 => k - 1 \in 1..n  BY <4>1
      <4> QED  BY <1>4, <4>1, <4>2, <4>3
    <3> QED  BY <3>1, <3>2
  <2> QED  BY <1>1, <1>6, <2>1, <2>2 DEF Back
<1>11. Cut(n + 1, r, a, b, c)'
  BY <1>5, <1>6, <1>7, <1>8, <1>9, <1>10 DEF Cut
<1>12. Line(n + 1, r)'
  BY <1>11 DEF Line
<1> QED  BY <1>3, <1>12

\* Its other steps leave the queue as it is.
LEMMA ProducersWait ==
  ASSUME TypeOK, NEW n \in Nat, NEW q \in [1..n -> Items], Line(n, q), NEW p \in Producers,
         \/ \E i \in Items : EnqueueStart(p, i)
         \/ EnqueueRead(p)
         \/ EnqueueCas(p) /\ enqueue_head # next[item[p]]
  PROVE  Line(n, q)' /\ result' = result
<1>1. PICK a, b, c \in Nat : Cut(n, q, a, b, c)
  BY DEF Line
<1>2. UNCHANGED <<enqueue_head, dequeue_head, cur, newHead, result>>
  BY DEF EnqueueStart, EnqueueRead, EnqueueCas, consumer
<1>3. \A k \in 1..n : next'[q[k]] = next[q[k]]
  <2>1. \A k \in 1..n : item[p] # q[k]  BY <1>1 DEF Cut, Own
  <2> QED  BY <2>1 DEF EnqueueStart, EnqueueRead, EnqueueCas, TypeOK
<1>4. Own(n, q)'
  <2>1. Own(n, q)  BY <1>1 DEF Cut
  <2>2. free' \subseteq free
    BY DEF EnqueueStart, EnqueueRead, EnqueueCas
  <2>3. \A u \in Producers, k \in 1..n : item'[u] # q[k]
    BY <2>1 DEF EnqueueStart, EnqueueRead, EnqueueCas, TypeOK, Own
  <2> QED  BY <2>1, <2>2, <2>3 DEF Own
<1>5. a <= b /\ b <= c /\ c <= n  BY <1>1 DEF Cut
<1>6. Ahead(q, 0, a, dequeue_head)'  BY <1>1, <1>2, <1>3, <1>5 DEF Cut, Ahead
<1>7. Back(q, a, b, cur)'  BY <1>1, <1>2, <1>3, <1>5 DEF Cut, Back
<1>8. Ahead(q, b, c, newHead)'  BY <1>1, <1>2, <1>3, <1>5 DEF Cut, Ahead
<1>9. Back(q, c, n, enqueue_head)'  BY <1>1, <1>2, <1>3, <1>5 DEF Cut, Back
<1>10. Cut(n, q, a, b, c)'  BY <1>4, <1>5, <1>6, <1>7, <1>8, <1>9 DEF Cut
<1> QED  BY <1>2, <1>10 DEF Line

\* The consumer takes the first item, of its own list or of what it has just reversed.
LEMMA Pops ==
  ASSUME TypeOK, NEW n \in Nat, NEW q \in [1..n -> Items], Line(n, q),
         DequeueAdvance \/ DequeuePublish,
         NEW r \in [1..(n - 1) -> Items], \A k \in 1..(n - 1) : r[k] = q[k + 1]
  PROVE  n # 0 /\ result' = q[1] /\ Line(n - 1, r)'
<1>1. PICK a, b, c \in Nat : Cut(n, q, a, b, c)
  BY DEF Line
<1>2. a <= b /\ b <= c /\ c <= n /\ Own(n, q)  BY <1>1 DEF Cut
<1>3. /\ UNCHANGED <<enqueue_head, next, cur, item>>
      /\ NULL \notin Items /\ \A p \in Producers : item[p] \in Items \cup {NULL}
  BY MpscQueueAssumption DEF TypeOK, DequeueAdvance, DequeuePublish, producers, consumer
<1>4. PICK x \in Nat, y \in Nat, z \in Nat :
          /\ x <= y /\ y <= z /\ z <= n /\ x # 0
          /\ Back(q, x, y, cur) /\ Back(q, z, n, enqueue_head) /\ Ahead(q, y, z, newHead')
          /\ dequeue_head' = (IF x = 1 THEN NULL ELSE q[2])
          /\ \A k \in 1..x : next[q[k]] = IF k = x THEN NULL ELSE q[k + 1]
          /\ result' = q[1] /\ free' = free \cup {q[1]}
  <2>1. CASE DequeueAdvance
    <3>1. /\ dequeue_head # NULL /\ dequeue_head' = next[dequeue_head] /\ newHead' = newHead
          /\ result' = dequeue_head /\ free' = free \cup {dequeue_head}
      BY <2>1 DEF DequeueAdvance, consumer
    <3>2. a # 0 /\ dequeue_head = q[1]  BY <1>1, <3>1 DEF Cut, Ahead
    <3>3. \A k \in 1..a : next[q[k]] = IF k = a THEN NULL ELSE q[k + 1]
      BY <1>1 DEF Cut, Ahead
    <3>4. next[q[1]] = IF a = 1 THEN NULL ELSE q[2]  BY <3>2, <3>3
    <3> QED  BY <1>1, <1>2, <3>1, <3>2, <3>3, <3>4 DEF Cut
  <2>2. CASE DequeuePublish
    <3>1. /\ cur = NULL /\ dequeue_head' = next[newHead] /\ newHead' = NULL
          /\ result' = newHead /\ free' = free \cup {newHead}
          /\ dequeue_head = NULL /\ newHead # NULL
      BY <2>2 DEF DequeuePublish, TypeOK
    <3>2. a = 0
      <4>1. a # 0 => q[1] # NULL  BY <1>2, <1>3
      <4> QED  BY <1>1, <3>1, <4>1 DEF Cut, Ahead
    <3>3. b = 0
      <4>1. b # 0 => q[b] # NULL  BY <1>2, <1>3
      <4> QED  BY <1>1, <3>1, <3>2, <4>1 DEF Cut, Back
    <3>4. c # 0 /\ newHead = q[1]  BY <1>1, <3>1, <3>3 DEF Cut, Ahead
    <3>5. \A k \in 1..c : next[q[k]] = IF k = c THEN NULL ELSE q[k + 1]
      BY <1>1, <3>3 DEF Cut, Ahead
    <3>6. next[q[1]] = IF c = 1 THEN NULL ELSE q[2]  BY <3>4, <3>5
    <3>7. Back(q, c, c, cur) /\ Ahead(q, c, c, newHead')  BY <3>1 DEF Ahead, Back
    <3>8. /\ c <= c /\ c <= n /\ c # 0 /\ Back(q, c, n, enqueue_head)
          /\ result' = q[1] /\ free' = free \cup {q[1]}
          /\ dequeue_head' = (IF c = 1 THEN NULL ELSE q[2])
      BY <1>1, <1>2, <3>1, <3>4, <3>6 DEF Cut
    <3> QED  BY <3>5, <3>7, <3>8
  <2> QED  BY <2>1, <2>2
<1>5. PICK m, e, f, g \in Nat : m = n - 1 /\ e = x - 1 /\ f = y - 1 /\ g = z - 1
  <2>1. x <= y /\ y <= z /\ z <= n /\ x # 0  BY <1>4
  <2>2. n - 1 \in Nat /\ x - 1 \in Nat /\ y - 1 \in Nat /\ z - 1 \in Nat  BY <2>1
  <2> QED  BY <2>2
<1>6. \A k \in 1..m : k + 1 \in 1..n /\ r[k] = q[k + 1]  BY <1>5
<1>7. Own(m, r)'
  <2>1. \A k, l \in 1..m : r[k] = r[l] => k = l
    <3> TAKE k, l \in 1..m
    <3> HAVE r[k] = r[l]
    <3>1. k + 1 = l + 1  BY <1>2, <1>6 DEF Own
    <3> QED  BY <3>1
  <2>2. ASSUME NEW k \in 1..m
        PROVE  r[k] \notin free' /\ \A u \in Producers : item'[u] # r[k]
    <3>1. 1 \in 1..n /\ k + 1 # 1  BY <1>5, <1>6
    <3>2. q[k + 1] # q[1]  BY <1>2, <1>6, <3>1 DEF Own
    <3> QED  BY <1>2, <1>3, <1>4, <1>6, <3>2 DEF Own
  <2> QED  BY <2>1, <2>2 DEF Own
<1>8. Ahead(r, 0, e, dequeue_head)'
  <2>1. dequeue_head' = (IF 0 = e THEN NULL ELSE r[0 + 1])
    <3>1. e # 0 => 1 \in 1..m  BY <1>4, <1>5
    <3> QED  BY <1>4, <1>5, <1>6, <3>1
  <2>2. ASSUME NEW k \in 1..e
        PROVE  next[r[k]] = IF k = e THEN NULL ELSE r[k + 1]
    <3>1. k + 1 \in 1..x /\ (k + 1 = x <=> k = e) /\ k \in 1..m  BY <1>4, <1>5
    <3>2. next[q[k + 1]] = IF k = e THEN NULL ELSE q[(k + 1) + 1]  BY <1>4, <3>1
    <3>3. k # e => k + 1 \in 1..m  BY <1>4, <1>5
    <3> QED  BY <1>6, <3>1, <3>2, <3>3
  <2>3. 0 + 1 = 1  OBVIOUS
  <2> QED  BY <1>3, <2>1, <2>2, <2>3 DEF Ahead
<1>9. ASSUME NEW v \in Nat, NEW w \in Nat, v <= w, w <= m, NEW h, Back(q, v + 1, w + 1, h)
      PROVE  /\ h = IF v = w THEN NULL ELSE r[w]
             /\ \A k \in (v + 1)..w : next[r[k]] = IF k = v + 1 THEN NULL ELSE r[k - 1]
  <2>1. h = IF v = w THEN NULL ELSE r[w]
    <3>1. h = IF v + 1 = w + 1 THEN NULL ELSE q[w + 1]  BY <1>9 DEF Back
    <3>2. v # w => w \in 1..m  BY <1>9
    <3> QED  BY <1>6, <3>1, <3>2
  <2>2. ASSUME NEW k \in (v + 1)..w
        PROVE  next[r[k]] = IF k = v + 1 THEN NULL ELSE r[k - 1]
    <3>1. k \in 1..m /\ k + 1 \in ((v + 1) + 1)..(w + 1) /\ (k + 1) - 1 = k  BY <1>9
    <3>2. next[q[k + 1]] = IF k + 1 = (v + 1) + 1 THEN NULL ELSE q[k]  BY <1>9, <3>1 DEF Back
    <3>3. k # v + 1 => k - 1 \in 1..m /\ r[k - 1] = q[k]
      <4>1. k # v + 1 => k - 1 \in 1..m /\ (k - 1) + 1 = k  BY <3>1
      <4> QED  BY <1>6, <4>1
    <3>4. r[k] = q[k + 1]  BY <1>6, <3>1
    <3>5. k + 1 = (v + 1) + 1 <=> k = v + 1  BY <3>1
    <3>6. next[r[k]] = IF k = v + 1 THEN NULL ELSE q[k]  BY <3>2, <3>4, <3>5
    <3> QED  BY <3>3, <3>6
  <2> QED  BY <2>1, <2>2
<1>10. Back(r, e, f, cur)'
  <2>1. e <= f /\ f <= m /\ e + 1 = x /\ f + 1 = y  BY <1>4, <1>5
  <2>2. Back(q, e + 1, f + 1, cur)  BY <1>4, <2>1
  <2>3. /\ cur = IF e = f THEN NULL ELSE r[f]
        /\ \A k \in (e + 1)..f : next[r[k]] = IF k = e + 1 THEN NULL ELSE r[k - 1]
    BY <1>9, <2>1, <2>2
  <2> QED  BY <1>3, <2>3 DEF Back
<1>11. Back(r, g, m, enqueue_head)'
  <2>1. g <= m /\ m <= m /\ g + 1 = z /\ m + 1 = n  BY <1>4, <1>5
  <2>2. Back(q, g + 1, m + 1, enqueue_head)  BY <1>4, <2>1
  <2>3. /\ enqueue_head = IF g = m THEN NULL ELSE r[m]
        /\ \A k \in (g + 1)..m : next[r[k]] = IF k = g + 1 THEN NULL ELSE r[k - 1]
    BY <1>9, <2>1, <2>2
  <2> QED  BY <1>3, <2>3 DEF Back
<1>12. Ahead(r, f, g, newHead)'
  <2>1. newHead' = IF f = g THEN NULL ELSE r[f + 1]
    <3>1. newHead' = IF y = z THEN NULL ELSE q[y + 1]  BY <1>4 DEF Ahead
    <3>2. f # g => f + 1 \in 1..m /\ f + 1 = y  BY <1>4, <1>5
    <3> QED  BY <1>5, <1>6, <3>1, <3>2
  <2>2. ASSUME NEW k \in (f + 1)..g
        PROVE  next[r[k]] = IF k = g THEN NULL ELSE r[k + 1]
    <3>0. x # 0 /\ x <= y /\ y <= z /\ z <= n  BY <1>4
    <3>1. k + 1 \in (y + 1)..z /\ (k + 1 = z <=> k = g) /\ k \in 1..m  BY <1>5, <3>0
    <3>2. next[q[k + 1]] = IF k = g THEN NULL ELSE q[(k + 1) + 1]  BY <1>4, <3>1 DEF Ahead
    <3>3. k # g => k + 1 \in 1..m  BY <1>4, <1>5
    <3> QED  BY <1>6, <3>1, <3>2, <3>3
  <2> QED  BY <1>3, <2>1, <2>2 DEF Ahead
<1>13. Cut(m, r, e, f, g)'
  <2>1. e <= f /\ f <= g /\ g <= m  BY <1>4, <1>5
  <2> QED  BY <1>7, <1>8, <1>10, <1>11, <1>12, <2>1 DEF Cut
<1>14. Line(m, r)'
  BY <1>13 DEF Line
<1> QED  BY <1>4, <1>5, <1>14

\* What the consumer does otherwise moves the cuts.
LEMMA CutsMove ==
  ASSUME TypeOK, NEW n \in Nat, NEW q \in [1..n -> Items], Line(n, q),
         \/ ReverseItem \/ PeekPublish \/ PeekHead \/ IsEmpty
         \/ \E what \in {"dequeue", "peek"} : Detach(what)
  PROVE  /\ Line(n, q)'
         /\ \/ result' = result
            \/ result' = (IF n = 0 THEN NULL ELSE q[1])
            \/ result' = (n = 0)
<1>1. PICK a, b, c \in Nat : Cut(n, q, a, b, c)
  BY DEF Line
<1>2. /\ a <= b /\ b <= c /\ c <= n /\ Own(n, q)
      /\ Ahead(q, 0, a, dequeue_head) /\ Back(q, a, b, cur)
      /\ Ahead(q, b, c, newHead) /\ Back(q, c, n, enqueue_head)
  BY <1>1 DEF Cut
<1>3. /\ NULL \notin Items /\ \A k \in 1..n : q[k] \in Items
      /\ next \in [Items -> Items \cup {NULL}]
  BY MpscQueueAssumption DEF TypeOK
<1>4. Own(n, q)'
  <2>1. UNCHANGED <<free, item>>
    BY DEF ReverseItem, PeekPublish, PeekHead, IsEmpty, Detach, producers
  <2> QED  BY <1>2, <2>1 DEF Own
<1>5. dequeue_head = NULL => a = 0
  <2>1. a # 0 => 1 \in 1..n  BY <1>2
  <2> QED  BY <1>2, <1>3, <2>1 DEF Ahead
<1>6. dequeue_head # NULL => n # 0 /\ dequeue_head = q[1]
  BY <1>2 DEF Ahead
<1>7. cur = NULL => a = b
  <2>1. a # b => b \in 1..n  BY <1>2
  <2> QED  BY <1>2, <1>3, <2>1 DEF Back
<1>8. newHead = NULL => b = c
  <2>1. b # c => b + 1 \in 1..n  BY <1>2
  <2> QED  BY <1>2, <1>3, <2>1 DEF Ahead
<1>9. enqueue_head = NULL => c = n
  <2>1. c # n => n \in 1..n  BY <1>2
  <2> QED  BY <1>2, <1>3, <2>1 DEF Back
<1>10. CASE PeekHead
  <2>1. result' = q[1] /\ n # 0 /\ UNCHANGED <<enqueue_head, dequeue_head, next, cur, newHead>>
    BY <1>6, <1>10 DEF PeekHead, consumer
  <2>2. Cut(n, q, a, b, c)'
    BY <1>1, <1>4, <2>1 DEF Cut, Ahead, Back
  <2> QED  BY <2>1, <2>2 DEF Line
<1>11. CASE IsEmpty
  <2>1. /\ cpc = "idle" /\ result' = (dequeue_head = NULL /\ enqueue_head = NULL)
        /\ UNCHANGED <<enqueue_head, dequeue_head, next, cur, newHead>>
    BY <1>11 DEF IsEmpty, consumer
  <2>2. Cut(n, q, a, b, c)'
    BY <1>1, <1>4, <2>1 DEF Cut, Ahead, Back
  <2>3. cur = NULL /\ newHead = NULL
    BY <2>1 DEF TypeOK
  <2>4. (dequeue_head = NULL /\ enqueue_head = NULL) <=> n = 0
    <3>1. n = 0 => dequeue_head = NULL /\ enqueue_head = NULL  BY <1>2 DEF Ahead, Back
    <3> QED  BY <1>5, <1>7, <1>8, <1>9, <2>3, <3>1
  <2>5. result' = (n = 0)  BY <2>1, <2>4
  <2> QED  BY <2>2, <2>5 DEF Line
<1>12. CASE PeekPublish
  <2>1. /\ cur = NULL /\ result' = newHead /\ dequeue_head' = newHead /\ newHead' = NULL
        /\ dequeue_head = NULL /\ newHead # NULL /\ UNCHANGED <<enqueue_head, next, cur>>
    BY <1>12 DEF PeekPublish, TypeOK
  <2>2. a = 0 /\ b = 0  BY <1>5, <1>7, <2>1
  <2>3. n # 0 /\ result' = q[1]  BY <1>2, <2>1, <2>2 DEF Ahead
  <2>4. Ahead(q, 0, c, dequeue_head)'  BY <1>2, <2>1, <2>2 DEF Ahead
  <2>5. Back(q, c, c, cur)' /\ Ahead(q, c, c, newHead)'  BY <2>1 DEF Ahead, Back
  <2>6. Back(q, c, n, enqueue_head)'  BY <1>2, <2>1 DEF Back
  <2>7. Cut(n, q, c, c, c)'  BY <1>2, <1>4, <2>4, <2>5, <2>6 DEF Cut
  <2> QED  BY <2>3, <2>7 DEF Line
<1>13. CASE \E what \in {"dequeue", "peek"} : Detach(what)
  <2>1. /\ cpc = "idle" /\ dequeue_head = NULL /\ enqueue_head' = NULL
        /\ UNCHANGED <<dequeue_head, next, newHead>>
        /\ IF enqueue_head = NULL THEN result' = NULL /\ cur' = cur
           ELSE cur' = enqueue_head /\ result' = result
    BY <1>13 DEF Detach
  <2>2. a = 0 /\ b = 0 /\ c = 0 /\ cur = NULL /\ newHead = NULL
    BY <1>5, <1>7, <1>8, <2>1 DEF TypeOK
  <2>3. CASE enqueue_head = NULL
    <3>1. n = 0  BY <1>9, <2>2, <2>3
    <3>2. Cut(n, q, 0, 0, 0)'
      BY <1>4, <2>1, <2>2, <2>3, <3>1 DEF Cut, Ahead, Back
    <3> QED  BY <2>1, <2>3, <3>1, <3>2 DEF Line
  <2>4. CASE enqueue_head # NULL
    <3>1. Back(q, 0, n, cur)'  BY <1>2, <2>1, <2>2, <2>4 DEF Back
    <3>2. Ahead(q, 0, 0, dequeue_head)'  BY <2>1 DEF Ahead
    <3>3. Ahead(q, n, n, newHead)' /\ Back(q, n, n, enqueue_head)'  BY <2>1, <2>2 DEF Ahead, Back
    <3>4. Cut(n, q, 0, n, n)'  BY <1>4, <3>1, <3>2, <3>3 DEF Cut
    <3> QED  BY <2>1, <2>4, <3>4 DEF Line
  <2> QED  BY <2>3, <2>4
<1>14. CASE ReverseItem
  <2>1. /\ cur # NULL /\ next' = [next EXCEPT ![cur] = newHead] /\ newHead' = cur
        /\ cur' = next[cur] /\ UNCHANGED <<enqueue_head, dequeue_head, result>>
    BY <1>14 DEF ReverseItem
  <2>2. a # b /\ cur = q[b] /\ b \in 1..n  BY <1>2, <2>1 DEF Back
  <2>3. \A k \in 1..n : next'[q[k]] = IF k = b THEN newHead ELSE next[q[k]]
    BY <1>2, <1>3, <2>1, <2>2 DEF Own
  <2>4. PICK d \in Nat : d = b - 1  BY <2>2
  <2>5. a <= d /\ d <= c /\ d + 1 = b /\ d # c  BY <1>2, <2>2, <2>4
  <2>6. Ahead(q, 0, a, dequeue_head)'
    <3>1. \A k \in 1..a : k \in 1..n /\ k # b  BY <1>2, <2>2
    <3> QED  BY <1>2, <2>1, <2>3, <3>1 DEF Ahead
  <2>7. Back(q, c, n, enqueue_head)'
    <3>1. \A k \in (c + 1)..n : k \in 1..n /\ k # b  BY <1>2, <2>2
    <3> QED  BY <1>2, <2>1, <2>3, <3>1 DEF Back
  <2>8. Back(q, a, d, cur)'
    <3>1. cur' = IF b = a + 1 THEN NULL ELSE q[b - 1]
      <4>1. b \in (a + 1)..b  BY <1>2, <2>2
      <4> QED  BY <1>2, <2>1, <2>2, <4>1 DEF Back
    <3>2. \A k \in (a + 1)..d : k \in 1..n /\ k # b /\ k \in (a + 1)..b  BY <1>2, <2>4
    <3>3. b = a + 1 <=> a = d  BY <2>4
    <3> QED  BY <1>2, <2>3, <2>4, <3>1, <3>2, <3>3 DEF Back
  <2>9. Ahead(q, d, c, newHead)'
    <3>1. newHead' = q[d + 1]  BY <2>1, <2>2, <2>5
    <3>2. ASSUME NEW k \in (d + 1)..c
          PROVE  next'[q[k]] = IF k = c THEN NULL ELSE q[k + 1]
      <4>1. k \in 1..n  BY <1>2, <2>5
      <4>2. CASE k = b
        <5>1. next'[q[k]] = newHead  BY <2>3, <4>1, <4>2
        <5> QED  BY <1>2, <4>2, <5>1 DEF Ahead
      <4>3. CASE k # b
        <5>1. k \in (b + 1)..c  BY <2>5, <4>3
        <5> QED  BY <1>2, <2>3, <4>1, <4>3, <5>1 DEF Ahead
      <4> QED  BY <4>2, <4>3
    <3> QED  BY <2>5, <3>1, <3>2 DEF Ahead
  <2>10. Cut(n, q, a, d, c)'
    BY <1>2, <1>4, <2>5, <2>6, <2>7, <2>8, <2>9 DEF Cut
  <2> QED  BY <2>1, <2>10 DEF Line
<1> QED  BY <1>10, <1>11, <1>12, <1>13, <1>14

\* Every step keeps the invariant, and is a step of the abstract queue, or none.
LEMMA FifoStep ==
  ASSUME FInv, [Next]_vars
  PROVE  FInv' /\ [Fifo!Next]_<<Queued, result>>
<1>0. PICK n \in Nat : \E q \in [1..n -> Items] : Line(n, q)
  BY DEF FInv
<1>1. PICK q \in [1..n -> Items] : Line(n, q)
  BY <1>0
<1>2. TypeOK /\ TypeOK'
  BY NextTypeOK DEF FInv
<1>3. Queued = q
  BY <1>1, LineIsQueued
<1>4. q \in Seq(Items) /\ Len(q) = n /\ DOMAIN q = 1..n /\ (n = 0 <=> q = <<>>)
      /\ (n # 0 => Head(q) = q[1])
  OBVIOUS
<1>5. ASSUME Line(n, q)'  PROVE FInv' /\ Queued' = q
  <2>1. Queued' = q  BY <1>5, LineIsQueuedNext
  <2> QED  BY <1>2, <1>5, <2>1 DEF FInv
<1>6. CASE UNCHANGED vars
  <2>1. UNCHANGED <<enqueue_head, dequeue_head, next, free, item, cur, newHead, result>>
    BY <1>6 DEF vars, producers, consumer
  <2>2. PICK a, b, c \in Nat : Cut(n, q, a, b, c)
    BY <1>1 DEF Line
  <2>3. Cut(n, q, a, b, c)'
    BY <2>1, <2>2 DEF Cut, Own, Ahead, Back
  <2>4. Line(n, q)'
    BY <2>3 DEF Line
  <2> QED  BY <1>3, <1>5, <2>1, <2>4
<1>7. ASSUME NEW p \in Producers, EnqueueCas(p), enqueue_head = next[item[p]]
      PROVE  FInv' /\ Fifo!Next
  <2>1. PICK i \in Items : i = item[p]
    BY <1>2, <1>7 DEF EnqueueCas, TypeOK
  <2>2. PICK r : r = Append(q, i)
    OBVIOUS
  <2>3. /\ r \in [1..(n + 1) -> Items]
        /\ r[n + 1] = i /\ \A k \in 1..n : r[k] = q[k]
    <3>1. /\ r \in Seq(Items) /\ Len(r) = n + 1
          /\ r[n + 1] = i /\ \A k \in 1..n : r[k] = q[k]
      BY <1>4, <2>2, AppendProperties
    <3> QED  BY <3>1, LenProperties
  <2>4. Line(n + 1, r)' /\ \A k \in 1..n : q[k] # i
    BY <1>1, <1>2, <1>7, <2>1, <2>3, Pushes
  <2>5. Queued' = r
    BY <2>3, <2>4, LineIsQueuedNext
  <2>6. Fifo!Enqueue(i)
    BY <1>3, <1>4, <1>7, <2>1, <2>2, <2>4, <2>5 DEF Fifo!Enqueue, Fifo!Contents, EnqueueCas
  <2>7. Fifo!Next
    BY <2>1, <2>6 DEF Fifo!Next
  <2> QED  BY <1>2, <2>3, <2>4, <2>7 DEF FInv
<1>8. ASSUME NEW p \in Producers,
             \/ \E i \in Items : EnqueueStart(p, i)
             \/ EnqueueRead(p)
             \/ EnqueueCas(p) /\ enqueue_head # next[item[p]]
      PROVE  FInv' /\ UNCHANGED <<Queued, result>>
  <2>1. Line(n, q)' /\ result' = result
    BY <1>1, <1>2, <1>8, ProducersWait
  <2> QED  BY <1>3, <1>5, <2>1
<1>9. CASE DequeueAdvance \/ DequeuePublish
  <2>1. PICK r : r = [k \in 1..(n - 1) |-> q[k + 1]]
    OBVIOUS
  <2>2. r \in [1..(n - 1) -> Items] /\ \A k \in 1..(n - 1) : r[k] = q[k + 1]
    BY <2>1
  <2>3. n # 0 /\ result' = q[1] /\ Line(n - 1, r)'
    BY <1>1, <1>2, <1>9, <2>2, Pops
  <2>4. n - 1 \in Nat /\ Queued' = r
    BY <2>2, <2>3, LineIsQueuedNext
  <2>5. r = Tail(q)
    <3>1. /\ Tail(q) \in Seq(Items) /\ Len(Tail(q)) = n - 1
          /\ \A k \in 1..(n - 1) : Tail(q)[k] = q[k + 1]
      BY <1>4, <2>3, HeadTailProperties
    <3>2. r \in Seq(Items) /\ Len(r) = n - 1
      BY <2>2, <2>4
    <3> QED  BY <2>2, <3>1, <3>2, SeqEqual
  <2>6. Fifo!Dequeue
    BY <1>3, <1>4, <2>3, <2>4, <2>5 DEF Fifo!Dequeue
  <2> QED  BY <1>2, <2>2, <2>3, <2>4, <2>6 DEF FInv, Fifo!Next
<1>10. CASE \/ ReverseItem \/ PeekPublish \/ PeekHead \/ IsEmpty
            \/ \E what \in {"dequeue", "peek"} : Detach(what)
  <2>1. /\ Line(n, q)'
        /\ \/ result' = result
           \/ result' = (IF n = 0 THEN NULL ELSE q[1])
           \/ result' = (n = 0)
    BY <1>1, <1>2, <1>10, CutsMove
  <2>2. FInv' /\ Queued' = Queued
    BY <1>3, <1>5, <2>1
  <2>3. CASE result' = result
    BY <2>2, <2>3
  <2>4. CASE result' = (IF n = 0 THEN NULL ELSE q[1])
    <3>1. Fifo!Peek  BY <1>3, <1>4, <2>2, <2>4 DEF Fifo!Peek
    <3> QED  BY <2>2, <3>1 DEF Fifo!Next
  <2>5. CASE result' = (n = 0)
    <3>1. (n = 0) = (Queued = <<>>)  BY <1>3, <1>4
    <3>2. Fifo!IsEmpty  BY <2>2, <2>5, <3>1 DEF Fifo!IsEmpty
    <3> QED  BY <2>2, <3>2 DEF Fifo!Next
  <2> QED  BY <2>1, <2>3, <2>4, <2>5
<1>11. Next => \/ \E p \in Producers :
                     \/ EnqueueCas(p) /\ enqueue_head = next[item[p]]
                     \/ \E i \in Items : EnqueueStart(p, i)
                     \/ EnqueueRead(p)
                     \/ EnqueueCas(p) /\ enqueue_head # next[item[p]]
               \/ DequeueAdvance \/ DequeuePublish
               \/ ReverseItem \/ PeekPublish \/ PeekHead \/ IsEmpty
               \/ \E what \in {"dequeue", "peek"} : Detach(what)
  BY DEF Next, ProducerStep, DequeueStep
<1> QED  BY <1>6, <1>7, <1>8, <1>9, <1>10, <1>11

-----------------------------------------------------------------------------
(* Theorems *)

\* Every variable has its type, and an item that clients may enqueue again at once
\* is never in two places of the queue, nor in it while a client or an enqueue
\* has it: the compare-and-swap of mpsc_lock_free_queue_enqueue suffices.
THEOREM ItemsHaveOnePlace == Spec => []TypeOK
<1> QED
  BY InitTypeOK, NextTypeOK, PTL DEF Spec

\* The queue is a FIFO queue: every operation takes effect at one instant, whatever the
\* producers do while the stack is reversed (mpsc_lock_free_queue_enqueue, _dequeue,
\* _peek and _is_empty).
THEOREM QueueIsFifo == Spec => ImplementsFifo
<1>1. Init => Fifo!Init
  <2> SUFFICES ASSUME Init  PROVE Fifo!Init
    OBVIOUS
  <2> DEFINE q == [k \in 1..0 |-> NULL]
  <2>1. q \in [1..0 -> Items] /\ q = <<>>  OBVIOUS
  <2>2. Cut(0, q, 0, 0, 0)  BY DEF Init, Cut, Own, Ahead, Back
  <2> HIDE DEF q
  <2>3. Line(0, q)  BY <2>2 DEF Line
  <2>4. Queued = q  BY <2>1, <2>3, LineIsQueued
  <2> QED  BY <2>1, <2>4 DEF Fifo!Init, Init
<1>2. FInv /\ [Next]_vars => FInv' /\ [Fifo!Next]_<<Queued, result>>
  BY FifoStep
<1> QED
  BY <1>1, <1>2, InitFInv, PTL DEF Spec, ImplementsFifo, Fifo!Spec
=============================================================================
