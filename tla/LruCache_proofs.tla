--------------------------- MODULE LruCache_proofs --------------------------
(***************************************************************************)
(* What holds of LruCache for any number of threads, keys and nodes, any   *)
(* sizes and any capacity: the list holds what the table holds, the sizes  *)
(* add up, nobody leaves a cache that is too full, nobody is registered    *)
(* twice, and the cache is a Lru.                                          *)
(***************************************************************************)
EXTENDS LruCache, FiniteSetTheorems, SequenceTheorems, WellFoundedInduction, TLAPS

-----------------------------------------------------------------------------
(* Sequences without repetition: what taking an element out and putting one at *)
(* the end does to them.                                                       *)

LEMMA FirstOfOne ==
    ASSUME NEW S, NEW s \in Seq(S), IsInjective(s), NEW i \in 1..Len(s)
    PROVE  RemoveFirst(s, s[i]) = RemoveAt(s, i)
<1>1. {j \in 1..Len(s) : s[j] = s[i]} = {i}  BY DEF IsInjective
<1>2. Min({i}) = i  BY DEF Min
<1>3. SelectInSeq(s, LAMBDA v : v = s[i]) = i  BY <1>1, <1>2 DEF SelectInSeq
<1> QED  BY <1>3 DEF RemoveFirst

LEMMA RemoveAtElements ==
    ASSUME NEW S, NEW s \in Seq(S), NEW i \in 1..Len(s)
    PROVE  /\ RemoveAt(s, i) \in Seq(S) /\ Len(RemoveAt(s, i)) = Len(s) - 1
           /\ \A j \in 1..(i - 1) : RemoveAt(s, i)[j] = s[j]
           /\ \A j \in i..(Len(s) - 1) : RemoveAt(s, i)[j] = s[j + 1]
<1> DEFINE a == SubSeq(s, 1, i - 1)  b == SubSeq(s, i + 1, Len(s))
<1>1. \A j \in 1..Len(s) : s[j] \in S  BY ElementOfSeq
<1>2. a \in Seq(S) /\ Len(a) = i - 1 /\ \A j \in 1..(i - 1) : a[j] = s[j]
  BY SubSeqProperties
<1>3. b \in Seq(S) /\ Len(b) = Len(s) - i /\ \A j \in 1..(Len(s) - i) : b[j] = s[i + j]
  BY SubSeqProperties
<1>4. RemoveAt(s, i) = a \o b  BY DEF RemoveAt
<1> HIDE DEF a, b
<1>5. /\ a \o b \in Seq(S) /\ Len(a \o b) = Len(s) - 1
      /\ \A j \in 1..(Len(s) - 1) : (a \o b)[j] = IF j <= i - 1 THEN a[j] ELSE b[j - (i - 1)]
  BY <1>2, <1>3, ConcatProperties
<1>6. \A j \in 1..(i - 1) : (a \o b)[j] = s[j]  BY <1>2, <1>5
<1>7. \A j \in i..(Len(s) - 1) : (a \o b)[j] = s[j + 1]
  <2>1. SUFFICES ASSUME NEW j \in i..(Len(s) - 1)  PROVE (a \o b)[j] = s[j + 1]
    OBVIOUS
  <2>2. (a \o b)[j] = b[j - (i - 1)] /\ j - (i - 1) \in 1..(Len(s) - i)  BY <1>5
  <2>3. b[j - (i - 1)] = s[i + (j - (i - 1))]  BY <1>3, <2>2
  <2>4. i + (j - (i - 1)) = j + 1  OBVIOUS
  <2> QED  BY <2>2, <2>3, <2>4
<1> QED  BY <1>4, <1>5, <1>6, <1>7

LEMMA TakenOut ==
    ASSUME NEW S, NEW s \in Seq(S), IsInjective(s), NEW e
    PROVE  /\ RemoveFirst(s, e) \in Seq(S) /\ IsInjective(RemoveFirst(s, e))
           /\ ToSet(RemoveFirst(s, e)) = ToSet(s) \ {e}
<1>1. CASE \E i \in 1..Len(s) : s[i] = e
  <2>1. PICK i \in 1..Len(s) : s[i] = e  BY <1>1
  <2> DEFINE r == RemoveAt(s, i)
  <2>2. RemoveFirst(s, e) = r  BY <2>1, FirstOfOne
  <2>3. /\ r \in Seq(S) /\ Len(r) = Len(s) - 1
        /\ \A j \in 1..(i - 1) : r[j] = s[j]
        /\ \A j \in i..(Len(s) - 1) : r[j] = s[j + 1]
    BY RemoveAtElements
  <2> HIDE DEF r
  <2>4. IsInjective(r)
    <3> DEFINE at(j) == IF j < i THEN j ELSE j + 1
    <3>1. SUFFICES ASSUME NEW j \in 1..Len(r), NEW k \in 1..Len(r), r[j] = r[k]
                   PROVE  j = k
      BY <2>3 DEF IsInjective
    <3>2. r[j] = s[at(j)] /\ at(j) \in 1..Len(s)  BY <2>3
    <3>3. r[k] = s[at(k)] /\ at(k) \in 1..Len(s)  BY <2>3
    <3>4. at(j) = at(k)
      <4>1. \A m, n \in 1..Len(s) : s[m] = s[n] => m = n
        BY LenProperties DEF IsInjective
      <4> HIDE DEF at
      <4> QED  BY <4>1, <3>1, <3>2, <3>3
    <3> QED  BY <3>4
  <2>5. ToSet(r) \subseteq ToSet(s) \ {e}
    BY <2>1, <2>3 DEF ToSet, IsInjective
  <2>6. ToSet(s) \ {e} \subseteq ToSet(r)
    <3>1. SUFFICES ASSUME NEW j \in 1..Len(s), s[j] # e  PROVE s[j] \in ToSet(r)
      BY DEF ToSet
    <3>2. j # i  BY <2>1, <3>1
    <3>3. CASE j < i  BY <3>3, <2>3 DEF ToSet
    <3>4. CASE j > i
      <4>1. r[j - 1] = s[j] /\ j - 1 \in 1..Len(r)  BY <3>4, <2>3
      <4> QED  BY <4>1, <2>3 DEF ToSet
    <3> QED  BY <3>2, <3>3, <3>4
  <2> QED  BY <2>2, <2>3, <2>4, <2>5, <2>6
<1>2. CASE ~ \E i \in 1..Len(s) : s[i] = e
  <2>1. RemoveFirst(s, e) = s  BY <1>2 DEF RemoveFirst
  <2> QED  BY <1>2, <2>1 DEF ToSet
<1> QED  BY <1>1, <1>2

LEMMA PutLast ==
    ASSUME NEW S, NEW s \in Seq(S), IsInjective(s), NEW e \in S, e \notin ToSet(s)
    PROVE  /\ Append(s, e) \in Seq(S) /\ IsInjective(Append(s, e))
           /\ ToSet(Append(s, e)) = ToSet(s) \cup {e}
<1>1. /\ Append(s, e) \in Seq(S) /\ Len(Append(s, e)) = Len(s) + 1
      /\ \A i \in 1..Len(s) : Append(s, e)[i] = s[i]
      /\ Append(s, e)[Len(s) + 1] = e
  OBVIOUS
<1>2. IsInjective(Append(s, e))  BY <1>1 DEF IsInjective, ToSet
<1>3. ToSet(Append(s, e)) = ToSet(s) \cup {e}  BY <1>1 DEF ToSet
<1> QED  BY <1>1, <1>2, <1>3

-----------------------------------------------------------------------------
(* Sums.  SumFunctionOnSet takes the elements of a set one after the other, in *)
(* an order of its own; the lemmas below say that the order does not matter.   *)

\* Every set of naturals that is not empty has a least element.
LEMMA LeastNat ==
    ASSUME NEW T, T \subseteq Nat, T # {}
    PROVE  \E x \in T : \A y \in T : x <= y
<1> DEFINE R == OpToRel(<, Nat)
<1>1. \E x \in T : \A y \in T : ~ (<<y, x>> \in R)
  <2> HIDE DEF R
  <2> QED  BY NatLessThanWellFounded, WFMin DEF R
<1>2. PICK x \in T : \A y \in T : ~ (<<y, x>> \in R)
  BY <1>1
<1>3. ASSUME NEW y \in T  PROVE x <= y
  <2>1. ~ (<<y, x>> \in R)  BY <1>2
  <2> QED  BY <2>1 DEF OpToRel
<1> QED  BY <1>3

\* Of a family of finite sets that is not empty, one has the fewest elements.
LEMMA Smallest ==
    ASSUME NEW F, F # {}, \A S \in F : IsFiniteSet(S)
    PROVE  \E S \in F : \A T \in F : Cardinality(S) <= Cardinality(T)
<1> DEFINE C == {Cardinality(S) : S \in F}
<1>1. C \subseteq Nat /\ C # {}  BY FS_CardinalityType
<1>2. PICK x \in C : \A y \in C : x <= y
  <2> HIDE DEF C
  <2> QED  BY <1>1, LeastNat
<1> QED  BY <1>2

\* The element that is taken first, and what the sums over the subsets of S are.
First(S) == CHOOSE x \in S : TRUE
Sums(f, S, h) ==
    h = [s \in SUBSET S |-> IF s = {} THEN 0 ELSE f[First(s)] + h[s \ {First(s)}]]

LEMMA SumIs == \A f, S : SumFunctionOnSet(f, S) = (CHOOSE h : Sums(f, S, h))[S]
  BY DEF SumFunctionOnSet, FoldFunctionOnSet, MapThenFoldSet, Sums, First

LEMMA OneLess ==
    ASSUME NEW S, IsFiniteSet(S), NEW x \in S
    PROVE  IsFiniteSet(S \ {x}) /\ ~(Cardinality(S) <= Cardinality(S \ {x}))
<1>1. IsFiniteSet(S \ {x}) /\ Cardinality(S \ {x}) = Cardinality(S) - 1
  BY FS_RemoveElement
<1>2. Cardinality(S) \in Nat  BY FS_CardinalityType
<1> QED  BY <1>1, <1>2

\* They agree wherever they are defined.
LEMMA SumsAgree ==
    ASSUME NEW f, NEW S, NEW T, NEW g, NEW h, Sums(f, S, g), Sums(f, T, h),
           NEW u, u \subseteq S, u \subseteq T, IsFiniteSet(u)
    PROVE  g[u] = h[u]
<1> DEFINE Bad == {s \in SUBSET u : g[s] # h[s]}
<1>1. SUFFICES ASSUME Bad # {}  PROVE FALSE
  OBVIOUS
<1>2. PICK s \in Bad : \A r \in Bad : Cardinality(s) <= Cardinality(r)
  <2>1. \A r \in Bad : IsFiniteSet(r)  BY FS_Subset
  <2> HIDE DEF Bad
  <2> QED  BY <1>1, <2>1, Smallest
<1>3. s \subseteq u /\ g[s] # h[s] /\ IsFiniteSet(s)  BY FS_Subset
<1>4. /\ g[s] = IF s = {} THEN 0 ELSE f[First(s)] + g[s \ {First(s)}]
      /\ h[s] = IF s = {} THEN 0 ELSE f[First(s)] + h[s \ {First(s)}]
  BY <1>3 DEF Sums
<1>5. s # {}  BY <1>3, <1>4
<1>6. First(s) \in s  BY <1>5 DEF First
<1>7. ~(Cardinality(s) <= Cardinality(s \ {First(s)}))  BY <1>3, <1>6, OneLess
<1>8. s \ {First(s)} \notin Bad  BY <1>2, <1>7
<1>9. g[s \ {First(s)}] = h[s \ {First(s)}]  BY <1>3, <1>8
<1> QED  BY <1>3, <1>4, <1>5, <1>9

LEMMA SumsExist ==
    ASSUME NEW f, NEW S, IsFiniteSet(S)
    PROVE  \E h : Sums(f, S, h)
<1> DEFINE Bad == {s \in SUBSET S : ~\E h : Sums(f, s, h)}
<1>1. SUFFICES ASSUME Bad # {}  PROVE FALSE
  OBVIOUS
<1>2. PICK s \in Bad : \A r \in Bad : Cardinality(s) <= Cardinality(r)
  <2>1. \A r \in Bad : IsFiniteSet(r)  BY FS_Subset
  <2> HIDE DEF Bad
  <2> QED  BY <1>1, <2>1, Smallest
<1>3. s \subseteq S /\ ~(\E h : Sums(f, s, h)) /\ IsFiniteSet(s)  BY FS_Subset
<1> DEFINE sum(r) == (CHOOSE h : Sums(f, r, h))[r]
           g == [r \in SUBSET s |-> IF r = {} THEN 0 ELSE f[First(r)] + sum(r \ {First(r)})]
\* Smaller sets have their sums.
<1>4. ASSUME NEW r, r \subseteq s, r # s
      PROVE  Sums(f, r, CHOOSE h : Sums(f, r, h))
  <2>1. IsFiniteSet(r) /\ ~(Cardinality(s) <= Cardinality(r))
    BY <1>3, <1>4, FS_Subset, FS_CardinalityType
  <2>2. r \notin Bad  BY <1>2, <2>1
  <2> QED  BY <1>3, <1>4, <2>2
<1>5. ASSUME NEW r \in SUBSET s, r # s, r # {}
      PROVE  sum(r) = f[First(r)] + sum(r \ {First(r)})
  <2> DEFINE q == r \ {First(r)}
             hr == CHOOSE h : Sums(f, r, h)
             hq == CHOOSE h : Sums(f, q, h)
  <2>1. First(r) \in r  BY <1>5 DEF First
  <2>2. q \subseteq s /\ q # s /\ q \subseteq r  BY <1>5, <2>1
  <2>3. Sums(f, r, hr) /\ Sums(f, q, hq) /\ IsFiniteSet(q)
    BY <1>3, <1>4, <1>5, <2>2, FS_Subset
  <2> HIDE DEF hr, hq
  <2>4. hr[r] = f[First(r)] + hr[q]  BY <1>5, <2>3 DEF Sums
  <2>5. hr[q] = hq[q]  BY <2>2, <2>3, SumsAgree
  <2> QED  BY <2>4, <2>5 DEF hr, hq
<1>6. ASSUME NEW r \in SUBSET s, r # {}
      PROVE  g[r \ {First(r)}] = sum(r \ {First(r)})
  <2> DEFINE q == r \ {First(r)}
  <2>1. First(r) \in r  BY <1>6 DEF First
  <2>2. q \in SUBSET s /\ q # s  BY <2>1
  <2>3. CASE q # {}
    <3>1. g[q] = f[First(q)] + sum(q \ {First(q)})  BY <2>2, <2>3
    <3> QED  BY <1>5, <2>2, <2>3, <3>1
  <2>4. CASE q = {}
    <3> DEFINE h0 == CHOOSE h : Sums(f, q, h)
    <3>1. Sums(f, q, h0)  BY <1>4, <2>2
    <3> HIDE DEF h0
    <3>2. h0[q] = 0  BY <2>4, <3>1 DEF Sums
    <3>3. g[q] = 0  BY <2>2, <2>4
    <3> QED  BY <3>2, <3>3 DEF h0
  <2> QED  BY <2>3, <2>4
<1>7. ASSUME NEW r \in SUBSET s
      PROVE  g[r] = IF r = {} THEN 0 ELSE f[First(r)] + g[r \ {First(r)}]
  <2>1. CASE r = {}  BY <2>1
  <2>2. CASE r # {}
    <3>1. g[r] = f[First(r)] + sum(r \ {First(r)})  BY <2>2
    <3> HIDE DEF g, sum
    <3> QED  BY <1>6, <2>2, <3>1
  <2> QED  BY <2>1, <2>2
<1> HIDE DEF g
<1>8. g = [r \in SUBSET s |-> g[r]]  BY DEF g
<1>9. Sums(f, s, g)  BY <1>7, <1>8 DEF Sums
<1> QED  BY <1>3, <1>9

LEMMA SumEmpty == \A f : SumFunctionOnSet(f, {}) = 0
<1> SUFFICES ASSUME NEW f  PROVE SumFunctionOnSet(f, {}) = 0
  OBVIOUS
<1> DEFINE h == CHOOSE g : Sums(f, {}, g)
<1>1. Sums(f, {}, h)  BY SumsExist, FS_EmptySet
<1> HIDE DEF h
<1>2. h[{}] = 0  BY <1>1 DEF Sums
<1> QED  BY <1>2, SumIs DEF h

LEMMA SumFirst ==
    ASSUME NEW f, NEW S, IsFiniteSet(S), S # {}
    PROVE  /\ First(S) \in S
           /\ SumFunctionOnSet(f, S) = f[First(S)] + SumFunctionOnSet(f, S \ {First(S)})
<1> DEFINE q == S \ {First(S)}
           h == CHOOSE g : Sums(f, S, g)
           hq == CHOOSE g : Sums(f, q, g)
<1>1. First(S) \in S  BY DEF First
<1>2. IsFiniteSet(q)  BY FS_Subset
<1>3. Sums(f, S, h) /\ Sums(f, q, hq)  BY <1>2, SumsExist
<1>4. SumFunctionOnSet(f, S) = h[S] /\ SumFunctionOnSet(f, q) = hq[q]  BY SumIs
<1> HIDE DEF h, hq
<1>5. h[S] = f[First(S)] + h[q]  BY <1>3 DEF Sums
<1>6. h[q] = hq[q]  BY <1>2, <1>3, SumsAgree
<1> QED  BY <1>1, <1>4, <1>5, <1>6

LEMMA SumNat ==
    ASSUME NEW f, NEW S, IsFiniteSet(S), \A x \in S : f[x] \in Nat
    PROVE  SumFunctionOnSet(f, S) \in Nat
<1> DEFINE Bad == {s \in SUBSET S : SumFunctionOnSet(f, s) \notin Nat}
<1>1. SUFFICES ASSUME Bad # {}  PROVE FALSE
  OBVIOUS
<1>2. PICK s \in Bad : \A r \in Bad : Cardinality(s) <= Cardinality(r)
  <2>1. \A r \in Bad : IsFiniteSet(r)  BY FS_Subset
  <2> HIDE DEF Bad
  <2> QED  BY <1>1, <2>1, Smallest
<1>3. s \subseteq S /\ SumFunctionOnSet(f, s) \notin Nat /\ IsFiniteSet(s)  BY FS_Subset
<1>4. s # {}  BY <1>3, SumEmpty
<1>5. /\ First(s) \in s
      /\ SumFunctionOnSet(f, s) = f[First(s)] + SumFunctionOnSet(f, s \ {First(s)})
  BY <1>3, <1>4, SumFirst
<1>6. s \ {First(s)} \notin Bad  BY <1>2, <1>3, <1>5, OneLess
<1>7. SumFunctionOnSet(f, s \ {First(s)}) \in Nat  BY <1>3, <1>6
<1> QED  BY <1>3, <1>5, <1>7

LEMMA SumZero ==
    ASSUME NEW f, NEW S, IsFiniteSet(S), \A x \in S : f[x] = 0
    PROVE  SumFunctionOnSet(f, S) = 0
<1> DEFINE Bad == {s \in SUBSET S : SumFunctionOnSet(f, s) # 0}
<1>1. SUFFICES ASSUME Bad # {}  PROVE FALSE
  OBVIOUS
<1>2. PICK s \in Bad : \A r \in Bad : Cardinality(s) <= Cardinality(r)
  <2>1. \A r \in Bad : IsFiniteSet(r)  BY FS_Subset
  <2> HIDE DEF Bad
  <2> QED  BY <1>1, <2>1, Smallest
<1>3. s \subseteq S /\ SumFunctionOnSet(f, s) # 0 /\ IsFiniteSet(s)  BY FS_Subset
<1>4. s # {}  BY <1>3, SumEmpty
<1>5. /\ First(s) \in s
      /\ SumFunctionOnSet(f, s) = f[First(s)] + SumFunctionOnSet(f, s \ {First(s)})
  BY <1>3, <1>4, SumFirst
<1>6. s \ {First(s)} \notin Bad  BY <1>2, <1>3, <1>5, OneLess
<1>7. SumFunctionOnSet(f, s \ {First(s)}) = 0  BY <1>3, <1>6
<1>8. f[First(s)] = 0  BY <1>3, <1>5
<1> QED  BY <1>3, <1>5, <1>7, <1>8

\* Any element may be taken first.
LEMMA SumTakes ==
    ASSUME NEW f, NEW S, IsFiniteSet(S), \A x \in S : f[x] \in Nat, NEW x \in S
    PROVE  SumFunctionOnSet(f, S) = f[x] + SumFunctionOnSet(f, S \ {x})
<1> DEFINE Takes(s, y) == SumFunctionOnSet(f, s) = f[y] + SumFunctionOnSet(f, s \ {y})
           Bad == {s \in SUBSET S : \E y \in s : ~Takes(s, y)}
<1>1. SUFFICES ASSUME Bad # {}  PROVE FALSE
  OBVIOUS
<1>2. PICK s \in Bad : \A r \in Bad : Cardinality(s) <= Cardinality(r)
  <2>1. \A r \in Bad : IsFiniteSet(r)  BY FS_Subset
  <2> HIDE DEF Bad
  <2> QED  BY <1>1, <2>1, Smallest
<1>3. s \subseteq S /\ IsFiniteSet(s)  BY FS_Subset
<1>4. PICK y \in s : ~Takes(s, y)  OBVIOUS
<1> DEFINE z == First(s)  sum(r) == SumFunctionOnSet(f, r)
<1>5. z \in s /\ sum(s) = f[z] + sum(s \ {z})  BY <1>3, SumFirst
<1>6. z # y  BY <1>4, <1>5
<1>7. s \ {z} \notin Bad /\ s \ {y} \notin Bad  BY <1>2, <1>3, <1>5, OneLess
<1>8. sum(s \ {z}) = f[y] + sum((s \ {z}) \ {y})  BY <1>3, <1>6, <1>7
<1>9. sum(s \ {y}) = f[z] + sum((s \ {y}) \ {z})  BY <1>3, <1>5, <1>6, <1>7
<1>10. (s \ {z}) \ {y} = (s \ {y}) \ {z}  OBVIOUS
<1>11. IsFiniteSet((s \ {z}) \ {y}) /\ (s \ {z}) \ {y} \subseteq S  BY <1>3, FS_Subset
<1>12. sum((s \ {z}) \ {y}) \in Nat /\ f[y] \in Nat /\ f[z] \in Nat
  BY <1>3, <1>5, <1>11, SumNat
<1>13. sum(s) # f[y] + sum(s \ {y})  BY <1>4
<1> HIDE DEF sum, z
<1> QED  BY <1>5, <1>8, <1>9, <1>10, <1>12, <1>13

LEMMA SumSame ==
    ASSUME NEW f, NEW g, NEW S, IsFiniteSet(S), \A x \in S : f[x] = g[x]
    PROVE  SumFunctionOnSet(f, S) = SumFunctionOnSet(g, S)
<1> DEFINE Bad == {s \in SUBSET S : SumFunctionOnSet(f, s) # SumFunctionOnSet(g, s)}
<1>1. SUFFICES ASSUME Bad # {}  PROVE FALSE
  OBVIOUS
<1>2. PICK s \in Bad : \A r \in Bad : Cardinality(s) <= Cardinality(r)
  <2>1. \A r \in Bad : IsFiniteSet(r)  BY FS_Subset
  <2> HIDE DEF Bad
  <2> QED  BY <1>1, <2>1, Smallest
<1>3. s \subseteq S /\ SumFunctionOnSet(f, s) # SumFunctionOnSet(g, s) /\ IsFiniteSet(s)
  BY FS_Subset
<1>4. s # {}  BY <1>3, SumEmpty
<1>5. /\ First(s) \in s
      /\ SumFunctionOnSet(f, s) = f[First(s)] + SumFunctionOnSet(f, s \ {First(s)})
      /\ SumFunctionOnSet(g, s) = g[First(s)] + SumFunctionOnSet(g, s \ {First(s)})
  BY <1>3, <1>4, SumFirst
<1>6. s \ {First(s)} \notin Bad  BY <1>2, <1>3, <1>5, OneLess
<1>7. SumFunctionOnSet(f, s \ {First(s)}) = SumFunctionOnSet(g, s \ {First(s)})
  BY <1>3, <1>6
<1>8. f[First(s)] = g[First(s)]  BY <1>3, <1>5
<1> QED  BY <1>3, <1>5, <1>7, <1>8

\* What a set's sum is when one element has another value, came or went.
LEMMA SumChanges ==
    ASSUME NEW f, NEW g, NEW S, NEW T, IsFiniteSet(S), IsFiniteSet(T), NEW x,
           S \ {x} = T \ {x}, \A y \in S \ {x} : f[y] = g[y],
           \A y \in S : f[y] \in Nat, \A y \in T : g[y] \in Nat
    PROVE  SumFunctionOnSet(g, T) = SumFunctionOnSet(f, S)
                                        - (IF x \in S THEN f[x] ELSE 0)
                                        + (IF x \in T THEN g[x] ELSE 0)
<1> DEFINE sum(h, r) == SumFunctionOnSet(h, r)
           R == S \ {x}
           a == IF x \in S THEN f[x] ELSE 0
           b == IF x \in T THEN g[x] ELSE 0
<1>1. IsFiniteSet(R)  BY FS_Subset
<1>2. sum(f, R) = sum(g, R)  BY <1>1, SumSame
<1>3. sum(f, R) \in Nat  BY <1>1, SumNat
<1>4. sum(f, S) = a + sum(f, R)
  <2>1. CASE x \in S  BY <2>1, SumTakes
  <2>2. CASE x \notin S
    <3>1. R = S /\ a = 0  BY <2>2
    <3> HIDE DEF sum, R, a
    <3> QED  BY <1>3, <3>1
  <2> QED  BY <2>1, <2>2
<1>5. sum(g, T) = b + sum(g, R)
  <2>1. CASE x \in T
    <3>1. sum(g, T) = g[x] + sum(g, T \ {x})  BY <2>1, SumTakes
    <3> QED  BY <2>1, <3>1
  <2>2. CASE x \notin T
    <3>1. R = T /\ b = 0  BY <2>2
    <3> HIDE DEF sum, R, b
    <3> QED  BY <1>2, <1>3, <3>1
  <2> QED  BY <2>1, <2>2
<1>6. a \in Nat /\ b \in Nat  OBVIOUS
<1> HIDE DEF sum, R, a, b
<1>7. sum(g, T) = sum(f, S) - a + b  BY <1>2, <1>3, <1>4, <1>5, <1>6
<1> QED  BY <1>7 DEF sum, a, b

-----------------------------------------------------------------------------
(* The inductive invariant *)

PCs == {"idle", "thread", "slot", "lock", "evict"}

Types ==
    /\ list \in Seq(Nodes) /\ table \in [Keys -> Nodes \cup {NULL}]
    /\ node \in [Nodes -> [key : Keys \cup {NULL}, size : Nat]]
    /\ current_size \in Int /\ gaveUp \in BOOLEAN
    /\ pc \in [Threads -> PCs]
    /\ key \in [Threads -> Keys \cup {NULL}] /\ size \in [Threads -> Nat]
    /\ \A t \in Threads : pc[t] # "idle" => key[t] \in Keys

HelperTypes ==
    /\ slot \subseteq Threads /\ registered \in [Threads -> Int]
    /\ result \subseteq {t \in Threads : pc[t] = "slot"}

IInv == Types /\ HelperTypes /\ ListMatchesTable /\ WithinCapacity /\ HandlesAccounted

LEMMA InitIInv == Init => IInv
<1> SUFFICES ASSUME Init  PROVE IInv
  OBVIOUS
<1> USE LruCacheAssumption DEF Init
<1>1. Types
  <2>1. list \in Seq(Nodes) /\ table \in [Keys -> Nodes \cup {NULL}]  OBVIOUS
  <2>2. node \in [Nodes -> [key : Keys \cup {NULL}, size : Nat]]  BY DEF Unset
  <2>3. pc \in [Threads -> PCs] /\ \A t \in Threads : pc[t] = "idle"  BY DEF PCs
  <2>4. key \in [Threads -> Keys \cup {NULL}] /\ size \in [Threads -> Nat]  OBVIOUS
  <2>5. current_size \in Int  OBVIOUS
  <2>6. gaveUp \in BOOLEAN  OBVIOUS
  <2> HIDE DEF Init
  <2> QED  BY <2>1, <2>2, <2>3, <2>4, <2>5, <2>6 DEF Types
<1>2. HelperTypes  BY DEF HelperTypes, Helper!Init
<1>3. ListMatchesTable  BY DEF ListMatchesTable, IsInjective, ToSet
<1>4. WithinCapacity  BY DEF WithinCapacity
<1>5. HandlesAccounted  BY DEF HandlesAccounted, Helper!Init
<1> QED  BY <1>1, <1>2, <1>3, <1>4, <1>5 DEF IInv

\* A step changes the list and the table in one of five ways, or not at all.
LEMMA CacheSteps ==
    ASSUME [Next]_vars
    PROVE  \/ UNCHANGED <<list, table, node>>
           \/ Destroy
           \/ \E t \in Threads : Put(t) \/ EvictLeastUsed(t) \/ Get(t) \/ EvictKey(t)
<1>1. CASE UNCHANGED vars  BY <1>1 DEF vars, cache
<1>2. CASE Destroy  BY <1>2
<1>3. ASSUME NEW t \in Threads, PutStart(t) \/ GetStart(t) \/ EvictStart(t) \/ ThreadEnds(t)
      PROVE  UNCHANGED <<list, table, node>>
  BY <1>3 DEF PutStart, GetStart, EvictStart, ThreadEnds, Call, cache
<1>4. ASSUME NEW t \in Threads, ThreadKnown(t) \/ ThreadNew(t) \/ ThreadStored(t) \/ NoThread(t)
      PROVE  UNCHANGED <<list, table, node>>
  BY <1>4 DEF ThreadKnown, ThreadNew, ThreadStored, NoThread, cache
<1>5. ASSUME NEW t \in Threads,
             \/ PutFails(t) \/ InBounds(t) \/ EvictFails(t) \/ GetNothing(t) \/ EvictNothing(t)
      PROVE  UNCHANGED <<list, table, node>>
  BY <1>5 DEF PutFails, InBounds, EvictFails, GetNothing, EvictNothing, cache
<1> QED  BY <1>1, <1>2, <1>3, <1>4, <1>5 DEF Next, Step

-----------------------------------------------------------------------------
(* Each part is kept by every step *)

LEMMA HelperTypesKept ==
    ASSUME IInv, [Next]_vars  PROVE HelperTypes'
<1> USE DEF IInv, HelperTypes, Types
<1>1. CASE UNCHANGED vars  BY <1>1 DEF vars, helper
<1>2. CASE Destroy  BY <1>2 DEF Destroy, Helper!Destroy
<1>3. ASSUME NEW t \in Threads, PutStart(t) \/ GetStart(t) \/ EvictStart(t)
      PROVE  HelperTypes'
  BY <1>3 DEF PutStart, GetStart, EvictStart, Call, Goto, helper
<1>4. ASSUME NEW t \in Threads, ThreadEnds(t)  PROVE HelperTypes'
  BY <1>4 DEF ThreadEnds, Helper!ThreadEnds, Helper!Unregister
<1>5. ASSUME NEW t \in Threads, ThreadKnown(t)  PROVE HelperTypes'
  BY <1>5 DEF ThreadKnown, Goto, Helper!HasHandle, Helper!vars
<1>6. ASSUME NEW t \in Threads, ThreadNew(t)  PROVE HelperTypes'
  BY <1>6 DEF ThreadNew, Goto, Helper!Register
<1>7. ASSUME NEW t \in Threads, ThreadStored(t)  PROVE HelperTypes'
  BY <1>7 DEF ThreadStored, Goto, Helper!SetSlot
<1>8. ASSUME NEW t \in Threads, NoThread(t)  PROVE HelperTypes'
  BY <1>8 DEF NoThread, Return, Goto, Helper!RegisterFails, Helper!SetSlotFails,
              Helper!Unregister, Helper!vars
<1>9. ASSUME NEW t \in Threads,
             \/ PutFails(t) \/ Put(t) \/ InBounds(t) \/ EvictLeastUsed(t) \/ EvictFails(t)
             \/ GetNothing(t) \/ Get(t) \/ EvictNothing(t) \/ EvictKey(t)
      PROVE  HelperTypes'
  <2>1. UNCHANGED helper
    BY <1>9 DEF PutFails, Put, Store, InBounds, EvictLeastUsed, EvictFails,
                GetNothing, Get, EvictNothing, EvictKey
  <2>2. UNCHANGED pc \/ (pc[t] # "slot" /\ \E l : pc' = [pc EXCEPT ![t] = l])
    BY <1>9 DEF PutFails, Put, Store, InBounds, EvictLeastUsed, EvictFails,
                GetNothing, Get, EvictNothing, EvictKey, Return, Goto
  <2> QED  BY <2>1, <2>2 DEF helper
<1> QED  BY <1>1, <1>2, <1>3, <1>4, <1>5, <1>6, <1>7, <1>8, <1>9 DEF Next, Step

LEMMA HandlesKept ==
    ASSUME IInv, [Next]_vars  PROVE HandlesAccounted'
<1> USE DEF IInv, HelperTypes, HandlesAccounted
<1>1. CASE UNCHANGED helper  BY <1>1 DEF helper
<1>2. CASE Destroy  BY <1>2 DEF Destroy, Helper!Destroy
<1>3. ASSUME NEW t \in Threads, ThreadEnds(t)  PROVE HandlesAccounted'
  BY <1>3 DEF ThreadEnds, Helper!ThreadEnds, Helper!Unregister
<1>4. ASSUME NEW t \in Threads, ThreadNew(t)  PROVE HandlesAccounted'
  <2>1. t \notin slot \cup result  BY <1>4 DEF ThreadNew, Goto, Helper!Register
  <2> QED  BY <1>4, <2>1 DEF ThreadNew, Helper!Register
<1>5. ASSUME NEW t \in Threads, ThreadStored(t)  PROVE HandlesAccounted'
  BY <1>5 DEF ThreadStored, Helper!SetSlot
<1>6. ASSUME NEW t \in Threads, NoThread(t)  PROVE HandlesAccounted'
  BY <1>6 DEF NoThread, Helper!RegisterFails, Helper!SetSlotFails,
              Helper!Unregister, Helper!vars
<1>7. ASSUME NEW t \in Threads,
             \/ PutStart(t) \/ GetStart(t) \/ EvictStart(t) \/ ThreadKnown(t)
             \/ PutFails(t) \/ Put(t) \/ InBounds(t) \/ EvictLeastUsed(t) \/ EvictFails(t)
             \/ GetNothing(t) \/ Get(t) \/ EvictNothing(t) \/ EvictKey(t)
      PROVE  UNCHANGED helper
  BY <1>7 DEF PutStart, GetStart, EvictStart, Call, ThreadKnown, Helper!HasHandle, Helper!vars,
              helper, PutFails, Put, Store, InBounds, EvictLeastUsed, EvictFails,
              GetNothing, Get, EvictNothing, EvictKey
<1>8. CASE UNCHANGED vars  BY <1>1, <1>8 DEF vars
<1> QED  BY <1>1, <1>2, <1>3, <1>4, <1>5, <1>6, <1>7, <1>8 DEF Next, Step

LEMMA TypesKept ==
    ASSUME IInv, [Next]_vars  PROVE Types'
<1> USE LruCacheAssumption DEF IInv, Types
<1>1. CASE UNCHANGED vars  BY <1>1 DEF vars, cache, call
<1>2. CASE Destroy
  <2>1. UNCHANGED <<pc, key, size>>  BY <1>2 DEF Destroy, call
  <2>2. list' \in Seq(Nodes) /\ table' \in [Keys -> Nodes \cup {NULL}] /\ current_size' \in Int
    BY <1>2 DEF Destroy
  <2>3. node' \in [Nodes -> [key : Keys \cup {NULL}, size : Nat]]
    BY <1>2 DEF Destroy, Unset
  <2>4. gaveUp' \in BOOLEAN  BY <1>2 DEF Destroy
  <2> QED  BY <2>1, <2>2, <2>3, <2>4
<1>3. ASSUME NEW t \in Threads, PutStart(t) \/ GetStart(t) \/ EvictStart(t)
      PROVE  Types'
  <2>1. UNCHANGED cache  BY <1>3 DEF PutStart, GetStart, EvictStart, Call
  <2>2. PICK k \in Keys, s \in Nat :
          /\ pc' = [pc EXCEPT ![t] = "thread"]
          /\ key' = [key EXCEPT ![t] = k] /\ size' = [size EXCEPT ![t] = s]
    BY <1>3 DEF PutStart, GetStart, EvictStart, Call, Goto
  <2> QED  BY <2>1, <2>2 DEF cache, PCs
<1>4. ASSUME NEW t \in Threads, ThreadEnds(t)  PROVE Types'
  BY <1>4 DEF ThreadEnds, cache, call
<1>5. ASSUME NEW t \in Threads, UNCHANGED cache, UNCHANGED call,
             \E l \in PCs : pc[t] # "idle" /\ pc' = [pc EXCEPT ![t] = l]
      PROVE  Types'
  BY <1>5 DEF cache, call
<1>6. ASSUME NEW t \in Threads, ThreadKnown(t) \/ ThreadNew(t) \/ ThreadStored(t)
      PROVE  Types'
  BY <1>5, <1>6 DEF ThreadKnown, ThreadNew, ThreadStored, Goto, PCs
<1>7. ASSUME NEW t \in Threads, NEW l, Return(t, l)
      PROVE  /\ pc' \in [Threads -> PCs] /\ key' \in [Threads -> Keys \cup {NULL}]
             /\ size' \in [Threads -> Nat]
             /\ \A u \in Threads : pc'[u] # "idle" => key'[u] \in Keys
  BY <1>7 DEF Return, Goto, PCs
<1>8. ASSUME NEW t \in Threads,
             NoThread(t) \/ PutFails(t) \/ InBounds(t) \/ GetNothing(t) \/ EvictNothing(t)
      PROVE  Types'
  <2>1. UNCHANGED cache /\ \E l : Return(t, l)
    BY <1>8 DEF NoThread, PutFails, InBounds, GetNothing, EvictNothing
  <2> QED  BY <1>7, <2>1 DEF cache
<1>9. ASSUME NEW t \in Threads, EvictFails(t)  PROVE Types'
  <2>1. UNCHANGED <<list, table, node, current_size>> /\ Return(t, "evict")
    BY <1>9 DEF EvictFails
  <2>2. gaveUp' \in BOOLEAN  BY <1>9 DEF EvictFails
  <2> QED  BY <1>7, <2>1, <2>2
<1>10. ASSUME NEW n \in Nodes, TakeOut(n)
       PROVE  /\ list' \in Seq(Nodes) /\ table' \in [Keys -> Nodes \cup {NULL}]
              /\ node' \in [Nodes -> [key : Keys \cup {NULL}, size : Nat]]
              /\ current_size' \in Int /\ gaveUp' \in BOOLEAN
  <2>1. list' \in Seq(Nodes)  BY <1>10, TakenOut DEF TakeOut, ListMatchesTable
  <2>2. table' \in [Keys -> Nodes \cup {NULL}]  BY <1>10 DEF TakeOut
  <2>3. node' \in [Nodes -> [key : Keys \cup {NULL}, size : Nat]]
    BY <1>10 DEF TakeOut, Unset
  <2>4. current_size' \in Int  BY <1>10 DEF TakeOut, Resize
  <2>5. gaveUp' \in BOOLEAN  BY <1>10 DEF TakeOut, Resize
  <2> QED  BY <2>1, <2>2, <2>3, <2>4, <2>5
<1>11. ASSUME NEW t \in Threads, EvictLeastUsed(t)  PROVE Types'
  <2>1. Head(list) \in Nodes  BY <1>11 DEF EvictLeastUsed, Exceeds
  <2>2. TakeOut(Head(list)) /\ UNCHANGED <<pc, key, size>>
    BY <1>11 DEF EvictLeastUsed, call
  <2> QED  BY <1>10, <2>1, <2>2
<1>12. ASSUME NEW t \in Threads, EvictKey(t)  PROVE Types'
  <2>1. table[key[t]] \in Nodes /\ TakeOut(table[key[t]]) /\ Return(t, "lock")
    <3>1. pc[t] = "lock" /\ TakeOut(table[key[t]]) /\ Return(t, "lock") /\ table[key[t]] # NULL
      BY <1>12 DEF EvictKey, Return, Goto
    <3> QED  BY <3>1
  <2> QED  BY <1>7, <1>10, <2>1
<1>13. ASSUME NEW t \in Threads, Get(t)  PROVE Types'
  <2>1. /\ pc[t] = "lock" /\ Return(t, "lock") /\ table[key[t]] # NULL
        /\ UNCHANGED <<table, node, current_size, gaveUp>>
    BY <1>13 DEF Get, Return, Goto
  <2>2. table[key[t]] \in Nodes  BY <2>1
  <2>3. list' \in Seq(Nodes)
    <3>1. RemoveFirst(list, table[key[t]]) \in Seq(Nodes)  BY TakenOut DEF ListMatchesTable
    <3> QED  BY <1>13, <2>2, <3>1 DEF Get
  <2> QED  BY <1>7, <2>1, <2>3
<1>14. ASSUME NEW t \in Threads, Put(t)  PROVE Types'
  <2>1. PICK n \in Nodes \ Used :
          /\ pc[t] = "lock" /\ pc' = [pc EXCEPT ![t] = "evict"]
          /\ node' = [m \in Nodes |-> CASE m = n -> [key |-> key[t], size |-> size[t]]
                                         [] m = table[key[t]] -> Unset
                                         [] OTHER -> node[m]]
          /\ table' = [table EXCEPT ![key[t]] = n]
          /\ list' = Append(RemoveFirst(list, table[key[t]]), n)
          /\ Resize(current_size - SizeOf(key[t]) + size[t])
          /\ UNCHANGED <<key, size>>
    BY <1>14 DEF Put, Store, Goto, call
  <2>2. key[t] \in Keys  BY <2>1
  <2>3. list' \in Seq(Nodes)
    <3>1. RemoveFirst(list, table[key[t]]) \in Seq(Nodes)  BY TakenOut DEF ListMatchesTable
    <3> QED  BY <2>1, <3>1
  <2>4. table' \in [Keys -> Nodes \cup {NULL}]  BY <2>1, <2>2
  <2>5. node' \in [Nodes -> [key : Keys \cup {NULL}, size : Nat]]
    <3>1. SUFFICES ASSUME NEW m \in Nodes
                   PROVE  node'[m] \in [key : Keys \cup {NULL}, size : Nat]
      BY <2>1
    <3>2. node'[m] \in {[key |-> key[t], size |-> size[t]], Unset, node[m]}  BY <2>1
    <3> QED  BY <2>2, <3>2 DEF Unset
  <2>6. SizeOf(key[t]) \in Nat  BY <2>2 DEF SizeOf
  <2>7. current_size' \in Int  BY <2>1, <2>6 DEF Resize
  <2>8. gaveUp' \in BOOLEAN  BY <2>1 DEF Resize
  <2>9. pc' \in [Threads -> PCs] /\ \A u \in Threads : pc'[u] # "idle" => key'[u] \in Keys
    BY <2>1 DEF PCs
  <2> QED  BY <2>1, <2>3, <2>4, <2>5, <2>7, <2>8, <2>9
<1> QED  BY <1>1, <1>2, <1>3, <1>4, <1>6, <1>8, <1>9, <1>11, <1>12, <1>13, <1>14 DEF Next, Step

LEMMA SizeKept ==
    ASSUME IInv, [Next]_vars  PROVE WithinCapacity'
<1> USE LruCacheAssumption DEF IInv, Types, WithinCapacity
<1>1. CASE UNCHANGED vars  BY <1>1 DEF vars, cache
<1>2. CASE Destroy  BY <1>2 DEF Destroy
<1>3. ASSUME NEW t \in Threads, pc[t] # "evict", \E l : pc' = [pc EXCEPT ![t] = l],
             UNCHANGED <<current_size, gaveUp>>
      PROVE  WithinCapacity'
  BY <1>3
<1>4. ASSUME NEW t \in Threads, PutStart(t) \/ GetStart(t) \/ EvictStart(t)
      PROVE  WithinCapacity'
  BY <1>3, <1>4 DEF PutStart, GetStart, EvictStart, Call, Goto, cache
<1>5. ASSUME NEW t \in Threads, ThreadEnds(t)  PROVE WithinCapacity'
  BY <1>5 DEF ThreadEnds, cache
<1>6. ASSUME NEW t \in Threads, ThreadKnown(t) \/ ThreadNew(t) \/ ThreadStored(t)
      PROVE  WithinCapacity'
  BY <1>3, <1>6 DEF ThreadKnown, ThreadNew, ThreadStored, Goto, cache
<1>7. ASSUME NEW t \in Threads,
             NoThread(t) \/ PutFails(t) \/ GetNothing(t) \/ Get(t) \/ EvictNothing(t)
      PROVE  WithinCapacity'
  BY <1>3, <1>7 DEF NoThread, PutFails, GetNothing, Get, EvictNothing, Return, Goto, cache
<1>8. ASSUME NEW t \in Threads, InBounds(t)  PROVE WithinCapacity'
  BY <1>8 DEF InBounds, cache
<1>9. ASSUME NEW t \in Threads, EvictFails(t)  PROVE WithinCapacity'
  BY <1>9 DEF EvictFails
<1>10. ASSUME NEW t \in Threads, Put(t)  PROVE WithinCapacity'
  BY <1>10 DEF Put, Store, Goto, PCs
<1>11. ASSUME NEW t \in Threads, EvictLeastUsed(t)  PROVE WithinCapacity'
  BY <1>11 DEF EvictLeastUsed, Exceeds
<1>12. ASSUME NEW t \in Threads, EvictKey(t)  PROVE WithinCapacity'
  <2>1. /\ pc[t] = "lock" /\ \E l : pc' = [pc EXCEPT ![t] = l]
        /\ TakeOut(table[key[t]]) /\ table[key[t]] # NULL
    BY <1>12 DEF EvictKey, Return, Goto
  <2>2. node[table[key[t]]].size \in Nat  BY <2>1
  <2>3. current_size' <= current_size /\ current_size' \in Int
    BY <2>1, <2>2 DEF TakeOut, Resize
  <2>4. gaveUp /\ current_size' > Capacity => gaveUp'  BY <2>1 DEF TakeOut, Resize
  <2>5. SUFFICES ASSUME current_size' > Capacity
                 PROVE  gaveUp' \/ \E u \in Threads : pc'[u] = "evict"
    OBVIOUS
  <2>6. current_size > Capacity  BY <2>3, <2>5
  <2>7. CASE gaveUp  BY <2>4, <2>5, <2>7
  <2>8. ASSUME NEW u \in Threads, pc[u] = "evict"  PROVE pc'[u] = "evict"
    BY <2>1, <2>8
  <2> QED  BY <2>6, <2>7, <2>8
<1> QED  BY <1>1, <1>2, <1>4, <1>5, <1>6, <1>7, <1>8, <1>9, <1>10, <1>11, <1>12 DEF Next, Step

LEMMA ListKept ==
    ASSUME IInv, [Next]_vars  PROVE ListMatchesTable'
<1> USE LruCacheAssumption DEF IInv, Types
<1> DEFINE Stored == {table[k] : k \in Keys} \ {NULL}
<1>1. \A k, l \in Keys : table[k] = table[l] /\ table[k] # NULL => k = l
  BY DEF ListMatchesTable
<1>2. CASE UNCHANGED <<list, table, node>>  BY <1>2 DEF ListMatchesTable
<1>3. CASE Destroy  BY <1>3 DEF Destroy, ListMatchesTable, IsInjective, ToSet
\* A node of the table goes out of both.
<1>4. ASSUME NEW k \in Keys, table[k] # NULL, TakeOut(table[k])  PROVE ListMatchesTable'
  <2>1. node[table[k]].key = k  BY <1>4 DEF ListMatchesTable
  <2>2. table' = [table EXCEPT ![k] = NULL] /\ list' = RemoveFirst(list, table[k])
        /\ node' = [node EXCEPT ![table[k]] = Unset]
    BY <1>4, <2>1 DEF TakeOut
  <2>3. IsInjective(list') /\ ToSet(list') = Stored \ {table[k]}
    BY <2>2, TakenOut DEF ListMatchesTable
  <2>4. {table'[l] : l \in Keys} \ {NULL} = Stored \ {table[k]}  BY <1>1, <1>4, <2>2
  <2>5. \A l \in Keys : table'[l] # NULL => node'[table'[l]].key = l
    BY <1>1, <1>4, <2>2 DEF ListMatchesTable
  <2> QED  BY <2>3, <2>4, <2>5 DEF ListMatchesTable
<1>5. ASSUME NEW t \in Threads, EvictLeastUsed(t)  PROVE ListMatchesTable'
  <2>1. Head(list) \in ToSet(list) /\ TakeOut(Head(list))
    BY <1>5 DEF EvictLeastUsed, Exceeds, ToSet
  <2>2. PICK k \in Keys : table[k] = Head(list) /\ table[k] # NULL
    BY <2>1 DEF ListMatchesTable
  <2> QED  BY <1>4, <2>1, <2>2
<1>6. ASSUME NEW t \in Threads, EvictKey(t)  PROVE ListMatchesTable'
  <2>1. key[t] \in Keys  BY <1>6 DEF EvictKey, Return, Goto
  <2> QED  BY <1>4, <1>6, <2>1 DEF EvictKey
\* A node of the table moves to the tail.
<1>7. ASSUME NEW t \in Threads, Get(t)  PROVE ListMatchesTable'
  <2> DEFINE n == table[key[t]]
  <2>1. n # NULL /\ key[t] \in Keys /\ UNCHANGED <<table, node>>
    BY <1>7 DEF Get, Return, Goto
  <2>2. n \in Nodes /\ n \in ToSet(list)  BY <2>1 DEF ListMatchesTable
  <2>3. CASE list' = list  BY <2>1, <2>3 DEF ListMatchesTable
  <2>4. CASE list' = Append(RemoveFirst(list, n), n)
    <3>1. /\ RemoveFirst(list, n) \in Seq(Nodes) /\ IsInjective(RemoveFirst(list, n))
          /\ ToSet(RemoveFirst(list, n)) = ToSet(list) \ {n}
      BY TakenOut DEF ListMatchesTable
    <3>2. n \notin ToSet(RemoveFirst(list, n))  BY <3>1
    <3>3. /\ IsInjective(Append(RemoveFirst(list, n), n))
          /\ ToSet(Append(RemoveFirst(list, n), n)) = ToSet(RemoveFirst(list, n)) \cup {n}
      BY <2>2, <3>1, <3>2, PutLast
    <3>4. (ToSet(list) \ {n}) \cup {n} = ToSet(list)  BY <2>2
    <3>5. IsInjective(list') /\ ToSet(list') = ToSet(list)
      BY <2>4, <3>1, <3>3, <3>4
    <3> QED  BY <2>1, <3>5 DEF ListMatchesTable
  <2> QED  BY <1>7, <2>3, <2>4 DEF Get
\* A node that is nowhere takes the place of the key's old one in the table, and the tail.
<1>8. ASSUME NEW t \in Threads, Put(t)  PROVE ListMatchesTable'
  <2> DEFINE k == key[t]  old == table[k]
  <2>1. PICK n \in Nodes \ Used :
          /\ pc[t] = "lock"
          /\ node' = [m \in Nodes |-> CASE m = n -> [key |-> k, size |-> size[t]]
                                         [] m = old -> Unset
                                         [] OTHER -> node[m]]
          /\ table' = [table EXCEPT ![k] = n]
          /\ list' = Append(RemoveFirst(list, old), n)
    BY <1>8 DEF Put, Store, Goto
  <2>2. k \in Keys  BY <2>1
  <2>3. n \notin ToSet(list) /\ \A l \in Keys : table[l] # n  BY DEF Used
  <2>4. /\ RemoveFirst(list, old) \in Seq(Nodes) /\ IsInjective(RemoveFirst(list, old))
        /\ ToSet(RemoveFirst(list, old)) = ToSet(list) \ {old}
    BY TakenOut DEF ListMatchesTable
  <2>5. IsInjective(list') /\ ToSet(list') = (Stored \ {old}) \cup {n}
    BY <2>1, <2>3, <2>4, PutLast DEF ListMatchesTable
  <2>6. {table'[l] : l \in Keys} \ {NULL} = (Stored \ {old}) \cup {n}
    BY <1>1, <2>1, <2>2
  <2>7. \A l \in Keys : table'[l] # NULL => node'[table'[l]].key = l
    <3>1. SUFFICES ASSUME NEW l \in Keys, table'[l] # NULL  PROVE node'[table'[l]].key = l
      OBVIOUS
    <3>2. CASE l = k
      <4>1. table'[l] = n  BY <2>1, <2>2, <3>2
      <4>2. n \in Nodes  OBVIOUS
      <4>3. node'[n] = [key |-> k, size |-> size[t]]  BY <2>1, <2>2, <2>3, <4>2
      <4>4. [key |-> k, size |-> size[t]].key = k  OBVIOUS
      <4> QED  BY <3>2, <4>1, <4>3, <4>4
    <3>3. CASE l # k
      <4>1. table'[l] = table[l] /\ table[l] \in Nodes /\ table[l] # n /\ table[l] # old
        BY <1>1, <2>1, <2>2, <2>3, <3>1, <3>3
      <4>2. node'[table[l]] = node[table[l]]  BY <2>1, <4>1
      <4> QED  BY <3>1, <4>1, <4>2 DEF ListMatchesTable
    <3> QED  BY <3>2, <3>3
  <2> QED  BY <2>5, <2>6, <2>7 DEF ListMatchesTable
<1> QED  BY <1>2, <1>3, <1>5, <1>6, <1>7, <1>8, CacheSteps

LEMMA NextIInv == IInv /\ [Next]_vars => IInv'
  BY TypesKept, HelperTypesKept, ListKept, SizeKept, HandlesKept DEF IInv

-----------------------------------------------------------------------------
(* The sizes *)

\* What the threads hold, and what a node may weigh.
Calls ==
    /\ op \in [Threads -> {"none", "put", "get", "evict"}]
    /\ registered \in [Threads -> Nat] /\ live \in BOOLEAN
    /\ \A t \in Threads :
         /\ pc[t] = "idle" <=> op[t] = "none"
         /\ op[t] = "put" => size[t] \in Sizes /\ size[t] <= Capacity
         /\ op[t] # "put" => size[t] = 0
         /\ pc[t] = "evict" => op[t] = "put"
         /\ pc[t] # "idle" => live
NodeSizes == \A n \in Nodes : node[n].size \in {0} \cup Sizes /\ node[n].size <= Capacity

Weights == [k \in Keys |-> SizeOf(k)]
Counted ==
    /\ current_size = SumFunctionOnSet([n \in Nodes |-> node[n].size], ToSet(list))
    /\ current_size <= IntMax
Weighed == current_size = SumFunctionOnSet(Weights, Keys)

JInv == IInv /\ Calls /\ NodeSizes /\ Counted /\ Weighed

LEMMA FiniteElements ==
    ASSUME NEW S, NEW s \in Seq(S)  PROVE IsFiniteSet(ToSet(s))
<1>1. s \in Surjection(1..Len(s), ToSet(s))  BY DEF ToSet, Surjection
<1>2. IsFiniteSet(1..Len(s))  BY FS_Interval
<1> QED  BY <1>1, <1>2, FS_Surjection

LEMMA InitJInv == Init => JInv
<1> SUFFICES ASSUME Init  PROVE JInv
  OBVIOUS
<1> USE LruCacheAssumption
<1>1. IInv  BY InitIInv
<1>2. Calls  BY DEF Calls, Init, Helper!Init
<1>3. NodeSizes  BY DEF NodeSizes, Init, Unset
<1>4. Counted
  <2>1. ToSet(list) = {} /\ current_size = 0  BY DEF Init, ToSet
  <2> QED  BY <2>1, SumEmpty DEF Counted
<1>5. Weighed
  <2>1. \A k \in Keys : Weights[k] = 0  BY DEF Weights, SizeOf, Init
  <2>2. SumFunctionOnSet(Weights, Keys) = 0  BY <2>1, KeysAreFinite, SumZero
  <2> QED  BY <2>2 DEF Weighed, Init
<1> QED  BY <1>1, <1>2, <1>3, <1>4, <1>5 DEF JInv

LEMMA CallsKept ==
    ASSUME JInv, [Next]_vars  PROVE Calls'
<1> USE LruCacheAssumption DEF JInv, Calls
<1>1. CASE UNCHANGED vars  BY <1>1 DEF vars, helper, call
<1>2. CASE Destroy  BY <1>2 DEF Destroy, Helper!Destroy, call
<1>3. ASSUME NEW t \in Threads, PutStart(t) \/ GetStart(t) \/ EvictStart(t)
      PROVE  Calls'
  <2>1. PICK w \in {"put", "get", "evict"}, s \in Nat :
          /\ live /\ pc[t] = "idle" /\ pc' = [pc EXCEPT ![t] = "thread"]
          /\ op' = [op EXCEPT ![t] = w] /\ size' = [size EXCEPT ![t] = s]
          /\ IF w = "put" THEN s \in Sizes /\ s <= Capacity ELSE s = 0
          /\ UNCHANGED <<registered, live>>
    BY <1>3 DEF PutStart, GetStart, EvictStart, Call, Goto, helper
  <2> QED  BY <2>1 DEF IInv, Types
<1>4. ASSUME NEW t \in Threads, NEW l, Return(t, l)
      PROVE  /\ op' \in [Threads -> {"none", "put", "get", "evict"}]
             /\ \A u \in Threads :
                   /\ pc'[u] = "idle" <=> op'[u] = "none"
                   /\ op'[u] = "put" => size'[u] \in Sizes /\ size'[u] <= Capacity
                   /\ op'[u] # "put" => size'[u] = 0
                   /\ pc'[u] = "evict" => op'[u] = "put"
                   /\ pc'[u] # "idle" => live
  BY <1>4 DEF Return, Goto, IInv, Types
<1>5. ASSUME NEW t \in Threads,
             \/ PutFails(t) \/ InBounds(t) \/ EvictFails(t)
             \/ GetNothing(t) \/ Get(t) \/ EvictNothing(t) \/ EvictKey(t)
      PROVE  Calls'
  <2>1. UNCHANGED <<registered, live>> /\ \E l : Return(t, l)
    BY <1>5 DEF PutFails, InBounds, EvictFails, GetNothing, Get, EvictNothing, EvictKey, helper
  <2> QED  BY <1>4, <2>1
<1>6. ASSUME NEW t \in Threads, Put(t) \/ EvictLeastUsed(t)  PROVE Calls'
  <2>1. /\ UNCHANGED <<registered, live, op, size>>
        /\ \/ UNCHANGED pc
           \/ op[t] = "put" /\ pc[t] = "lock" /\ pc' = [pc EXCEPT ![t] = "evict"]
    BY <1>6 DEF Put, Store, EvictLeastUsed, helper, call, Goto
  <2> QED  BY <2>1 DEF IInv, Types
\* A thread in get_thread runs while the helper is there, and is registered once if it
\* holds a handle.
<1>7. ASSUME NEW t \in Threads, pc[t] # "idle"
      PROVE  live /\ (t \in result => registered[t] = 1)
  BY <1>7 DEF IInv, HandlesAccounted
<1>8. ASSUME NEW t \in Threads, ThreadKnown(t) \/ ThreadNew(t) \/ ThreadStored(t)
      PROVE  Calls'
  <2>1. /\ UNCHANGED <<op, size, live>> /\ pc[t] # "idle"
        /\ \E l \in {"slot", "lock"} : pc' = [pc EXCEPT ![t] = l]
        /\ UNCHANGED registered \/ registered' = [registered EXCEPT ![t] = @ + 1]
    BY <1>8 DEF ThreadKnown, ThreadNew, ThreadStored, Goto, call,
                Helper!HasHandle, Helper!Register, Helper!SetSlot, Helper!vars
  <2>2. registered' \in [Threads -> Nat]  BY <2>1
  <2> QED  BY <2>1, <2>2 DEF IInv, Types
<1>9. ASSUME NEW t \in Threads, NoThread(t)  PROVE Calls'
  <2>1. /\ UNCHANGED live /\ \E l : Return(t, l)
        /\ \/ UNCHANGED registered
           \/ pc[t] # "idle" /\ t \in result /\ registered' = [registered EXCEPT ![t] = @ - 1]
    BY <1>9 DEF NoThread, Return, Goto, Helper!RegisterFails, Helper!SetSlotFails,
                Helper!Unregister, Helper!vars
  <2>2. registered' \in [Threads -> Nat]  BY <1>7, <2>1
  <2> QED  BY <1>4, <2>1, <2>2
<1>10. ASSUME NEW t \in Threads, ThreadEnds(t)  PROVE Calls'
  <2>1. /\ live /\ t \in slot /\ UNCHANGED <<live, pc, op, size>>
        /\ registered' = [registered EXCEPT ![t] = @ - 1]
    BY <1>10 DEF ThreadEnds, Helper!ThreadEnds, Helper!Unregister, call
  <2>2. registered[t] = 1  BY <2>1 DEF IInv, HandlesAccounted
  <2>3. registered' \in [Threads -> Nat]  BY <2>1, <2>2
  <2> QED  BY <2>1, <2>3
<1> QED  BY <1>1, <1>2, <1>3, <1>5, <1>6, <1>8, <1>9, <1>10 DEF Next, Step

\* What the steps that change the sizes do, in terms of keys and nodes.
LEMMA StoredFacts ==
    ASSUME JInv, NEW k \in Keys, table[k] # NULL
    PROVE  table[k] \in Nodes /\ table[k] \in ToSet(list) /\ node[table[k]].key = k
  BY DEF JInv, IInv, Types, ListMatchesTable

LEMMA PutFacts ==
    ASSUME JInv, NEW t \in Threads, Put(t)
    PROVE  \E n \in Nodes \ Used :
             /\ op[t] = "put" /\ key[t] \in Keys /\ size[t] \in Sizes /\ size[t] <= Capacity
             /\ node' = [m \in Nodes |-> CASE m = n -> [key |-> key[t], size |-> size[t]]
                                            [] m = table[key[t]] -> Unset
                                            [] OTHER -> node[m]]
             /\ table' = [table EXCEPT ![key[t]] = n]
             /\ list' = Append(RemoveFirst(list, table[key[t]]), n)
             /\ ToSet(list') = (ToSet(list) \ {table[key[t]]}) \cup {n}
             /\ current_size' = current_size - SizeOf(key[t]) + size[t]
             /\ IntMax - size[t] >= current_size
<1> USE LruCacheAssumption DEF JInv, IInv
<1>1. PICK n \in Nodes \ Used :
          /\ op[t] = "put" /\ pc[t] = "lock"
          /\ node' = [m \in Nodes |-> CASE m = n -> [key |-> key[t], size |-> size[t]]
                                         [] m = table[key[t]] -> Unset
                                         [] OTHER -> node[m]]
          /\ table' = [table EXCEPT ![key[t]] = n]
          /\ list' = Append(RemoveFirst(list, table[key[t]]), n)
          /\ current_size' = current_size - SizeOf(key[t]) + size[t]
          /\ IntMax - size[t] >= current_size
  BY DEF Put, Store, Goto, Resize, Fits
<1>2. key[t] \in Keys /\ size[t] \in Sizes /\ size[t] <= Capacity  BY <1>1 DEF Types, Calls
<1>3. n \notin ToSet(list)  BY DEF Used
<1>4. /\ RemoveFirst(list, table[key[t]]) \in Seq(Nodes)
      /\ IsInjective(RemoveFirst(list, table[key[t]]))
      /\ ToSet(RemoveFirst(list, table[key[t]])) = ToSet(list) \ {table[key[t]]}
  BY TakenOut DEF ListMatchesTable, Types
<1>5. ToSet(list') = (ToSet(list) \ {table[key[t]]}) \cup {n}
  BY <1>1, <1>3, <1>4, PutLast
<1> QED  BY <1>1, <1>2, <1>5

LEMMA TakeOutFacts ==
    ASSUME JInv, NEW k \in Keys, table[k] # NULL, TakeOut(table[k])
    PROVE  /\ node' = [node EXCEPT ![table[k]] = Unset]
           /\ table' = [table EXCEPT ![k] = NULL]
           /\ list' = RemoveFirst(list, table[k])
           /\ ToSet(list') = ToSet(list) \ {table[k]}
           /\ current_size' = current_size - SizeOf(k)
<1>1. node[table[k]].key = k  BY StoredFacts
<1>2. ToSet(RemoveFirst(list, table[k])) = ToSet(list) \ {table[k]}
  BY TakenOut DEF JInv, IInv, ListMatchesTable, Types
<1> QED  BY <1>1, <1>2 DEF TakeOut, SizeOf, Resize

\* A step changes the list, the table and the sizes in one of four ways, or not at all.
LEMMA SizeSteps ==
    ASSUME JInv, [Next]_vars
    PROVE  \/ UNCHANGED <<table, node, current_size>> /\ ToSet(list') = ToSet(list)
           \/ Destroy
           \/ \E t \in Threads : Put(t)
           \/ \E k \in Keys : table[k] # NULL /\ TakeOut(table[k])
<1> USE DEF JInv, IInv
<1>1. CASE UNCHANGED vars  BY <1>1 DEF vars, cache
<1>2. CASE Destroy  BY <1>2
<1>3. ASSUME NEW t \in Threads, PutStart(t) \/ GetStart(t) \/ EvictStart(t) \/ ThreadEnds(t)
      PROVE  UNCHANGED cache
  BY <1>3 DEF PutStart, GetStart, EvictStart, ThreadEnds, Call
<1>4. ASSUME NEW t \in Threads, ThreadKnown(t) \/ ThreadNew(t) \/ ThreadStored(t) \/ NoThread(t)
      PROVE  UNCHANGED cache
  BY <1>4 DEF ThreadKnown, ThreadNew, ThreadStored, NoThread
<1>5. ASSUME NEW t \in Threads,
             \/ PutFails(t) \/ InBounds(t) \/ EvictFails(t) \/ GetNothing(t) \/ EvictNothing(t)
      PROVE  UNCHANGED <<list, table, node, current_size>>
  BY <1>5 DEF PutFails, InBounds, EvictFails, GetNothing, EvictNothing, cache
<1>6. ASSUME NEW t \in Threads, Get(t)
      PROVE  UNCHANGED <<table, node, current_size>> /\ ToSet(list') = ToSet(list)
  <2> DEFINE n == table[key[t]]
  <2>1. /\ n # NULL /\ pc[t] = "lock" /\ UNCHANGED <<table, node, current_size>>
        /\ list' = list \/ list' = Append(RemoveFirst(list, n), n)
    BY <1>6 DEF Get, Return, Goto
  <2>2. key[t] \in Keys  BY <2>1 DEF Types
  <2>3. n \in Nodes /\ n \in ToSet(list)  BY <2>1, <2>2, StoredFacts
  <2>4. /\ RemoveFirst(list, n) \in Seq(Nodes) /\ IsInjective(RemoveFirst(list, n))
        /\ ToSet(RemoveFirst(list, n)) = ToSet(list) \ {n}
    BY TakenOut DEF ListMatchesTable, Types
  <2>5. ToSet(Append(RemoveFirst(list, n), n)) = (ToSet(list) \ {n}) \cup {n}
    BY <2>3, <2>4, PutLast
  <2>6. (ToSet(list) \ {n}) \cup {n} = ToSet(list)  BY <2>3
  <2> QED  BY <2>1, <2>5, <2>6
<1>7. ASSUME NEW t \in Threads, EvictLeastUsed(t)
      PROVE  \E k \in Keys : table[k] # NULL /\ TakeOut(table[k])
  <2>1. Head(list) \in ToSet(list) /\ TakeOut(Head(list))
    BY <1>7 DEF EvictLeastUsed, Exceeds, ToSet, Types
  <2>2. PICK k \in Keys : table[k] = Head(list) /\ table[k] # NULL
    BY <2>1 DEF ListMatchesTable
  <2> QED  BY <2>1, <2>2
<1>8. ASSUME NEW t \in Threads, EvictKey(t)
      PROVE  \E k \in Keys : table[k] # NULL /\ TakeOut(table[k])
  <2>1. key[t] \in Keys  BY <1>8 DEF EvictKey, Return, Goto, Types
  <2> QED  BY <1>8, <2>1 DEF EvictKey
<1> QED  BY <1>1, <1>2, <1>3, <1>4, <1>5, <1>6, <1>7, <1>8 DEF Next, Step, cache

LEMMA NodeSizesKept ==
    ASSUME JInv, [Next]_vars  PROVE NodeSizes'
<1> USE LruCacheAssumption DEF NodeSizes, JInv, Unset
<1>1. CASE UNCHANGED node  BY <1>1
<1>2. CASE Destroy  BY <1>2 DEF Destroy
<1>3. ASSUME NEW t \in Threads, Put(t)  PROVE NodeSizes'
  <2>1. PICK n \in Nodes \ Used :
          /\ size[t] \in Sizes /\ size[t] <= Capacity
          /\ node' = [m \in Nodes |-> CASE m = n -> [key |-> key[t], size |-> size[t]]
                                         [] m = table[key[t]] -> Unset
                                         [] OTHER -> node[m]]
    BY <1>3, PutFacts
  <2>2. SUFFICES ASSUME NEW m \in Nodes
                 PROVE  node'[m].size \in {0} \cup Sizes /\ node'[m].size <= Capacity
    OBVIOUS
  <2>3. node'[m] \in {[key |-> key[t], size |-> size[t]], Unset, node[m]}  BY <2>1
  <2> QED  BY <2>1, <2>3
<1>4. ASSUME NEW k \in Keys, table[k] # NULL, TakeOut(table[k])  PROVE NodeSizes'
  <2>1. node' = [node EXCEPT ![table[k]] = Unset]  BY <1>4, TakeOutFacts
  <2>2. SUFFICES ASSUME NEW m \in Nodes
                 PROVE  node'[m].size \in {0} \cup Sizes /\ node'[m].size <= Capacity
    OBVIOUS
  <2>3. node'[m] \in {Unset, node[m]}  BY <2>1 DEF IInv, Types
  <2> QED  BY <2>3
<1> QED  BY <1>1, <1>2, <1>3, <1>4, SizeSteps

LEMMA CountedKept ==
    ASSUME JInv, [Next]_vars  PROVE Counted'
<1> DEFINE w == [n \in Nodes |-> node[n].size]
           s == ToSet(list)
<1>1. \A n \in Nodes : w[n] \in Nat  BY DEF JInv, IInv, Types
<1>2. \A n \in Nodes : w'[n] \in Nat
  <2>1. Types'  BY TypesKept DEF JInv
  <2> QED  BY <2>1 DEF Types
<1>3. s \subseteq Nodes /\ IsFiniteSet(s)
  <2>1. list \in Seq(Nodes)  BY DEF JInv, IInv, Types
  <2>2. IsFiniteSet(s)  BY <2>1, FiniteElements
  <2>3. s \subseteq Nodes  BY <2>1 DEF ToSet
  <2> QED  BY <2>2, <2>3
<1>4. CASE UNCHANGED <<table, node, current_size>> /\ ToSet(list') = ToSet(list)
  BY <1>4 DEF JInv, Counted
<1>5. CASE Destroy
  <2>1. ToSet(list') = {} /\ current_size' = 0  BY <1>5 DEF Destroy, ToSet
  <2> QED  BY <2>1, SumEmpty, LruCacheAssumption DEF Counted
\* The key's old node goes, if it has one, and then the new one comes.
<1>6. ASSUME NEW t \in Threads, Put(t)  PROVE Counted'
  <2> DEFINE k == key[t]  old == table[k]
  <2>1. PICK n \in Nodes \ Used :
          /\ k \in Keys /\ size[t] \in Nat
          /\ node' = [m \in Nodes |-> CASE m = n -> [key |-> k, size |-> size[t]]
                                         [] m = old -> Unset
                                         [] OTHER -> node[m]]
          /\ ToSet(list') = (ToSet(list) \ {old}) \cup {n}
          /\ current_size' = current_size - SizeOf(k) + size[t]
          /\ IntMax - size[t] >= current_size
    BY <1>6, PutFacts, LruCacheAssumption
  <2>2. n \notin s /\ n \in Nodes  BY DEF Used
  <2>3. /\ old = NULL => old \notin s /\ SizeOf(k) = 0
        /\ old # NULL => old \in s /\ SizeOf(k) = w[old]
    <3>1. CASE old = NULL
      <4>1. old \notin s  BY <1>3, <3>1, LruCacheAssumption
      <4>2. SizeOf(k) = 0  BY <3>1 DEF SizeOf
      <4> QED  BY <3>1, <4>1, <4>2
    <3>2. CASE old # NULL
      <4>1. old \in Nodes /\ old \in s  BY <2>1, <3>2, StoredFacts
      <4>2. SizeOf(k) = node[old].size  BY <3>2 DEF SizeOf
      <4> QED  BY <3>2, <4>1, <4>2
    <3> QED  BY <3>1, <3>2
  <2>4. w'[n] = size[t]
    <3>1. n # old  BY <2>2, <2>3, LruCacheAssumption
    <3>2. node'[n] = [key |-> k, size |-> size[t]]
      <4>1. n \in Nodes  BY <2>2
      <4> QED  BY <2>1, <3>1, <4>1
    <3> QED  BY <2>2, <3>2
  <2>5. \A m \in s \ {old} : w'[m] = w[m]
    <3>1. SUFFICES ASSUME NEW m \in s \ {old}  PROVE node'[m].size = node[m].size
      BY <1>3
    <3>2. m \in Nodes /\ m # n /\ m # old  BY <1>3, <2>2
    <3>3. node'[m] = node[m]  BY <2>1, <3>2
    <3> QED  BY <3>3
  <2> DEFINE x == w'  u == s'
  <2>6. /\ u = (s \ {old}) \cup {n} /\ \A m \in Nodes : x[m] \in Nat
        /\ x[n] = size[t] /\ \A m \in s \ {old} : x[m] = w[m]
    BY <1>2, <2>1, <2>4, <2>5
  <2> HIDE DEF w, s, x, u, k, old
  <2>7. IsFiniteSet(s \ {old}) /\ IsFiniteSet(u)
    BY <1>3, <2>6, FS_Subset, FS_AddElement
  <2>8. SumFunctionOnSet(w, s \ {old}) = SumFunctionOnSet(w, s) - SizeOf(k)
    <3>1. SumFunctionOnSet(w, s \ {old}) = SumFunctionOnSet(w, s)
                                               - (IF old \in s THEN w[old] ELSE 0) + 0
      <4>1. (s \ {old}) \ {old} = s \ {old}  OBVIOUS
      <4>2. old \notin s \ {old}  OBVIOUS
      <4> QED  BY <1>1, <1>3, <2>7, <4>1, <4>2, SumChanges
    <3>2. SizeOf(k) = IF old \in s THEN w[old] ELSE 0  BY <2>3
    <3>3. SumFunctionOnSet(w, s) \in Nat  BY <1>1, <1>3, SumNat
    <3>4. SizeOf(k) \in Nat  BY <1>1, <1>3, <3>2
    <3> QED  BY <3>1, <3>2, <3>3, <3>4
  <2>9. SumFunctionOnSet(x, u) = SumFunctionOnSet(w, s \ {old}) + size[t]
    <3>1. SumFunctionOnSet(x, u) = SumFunctionOnSet(w, s \ {old}) - 0 + x[n]
      <4>1. (s \ {old}) \ {n} = u \ {n} /\ n \notin s \ {old} /\ n \in u  BY <2>2, <2>6
      <4>2. \A m \in (s \ {old}) \ {n} : w[m] = x[m]  BY <2>6
      <4>3. /\ \A m \in s \ {old} : w[m] \in Nat
            /\ \A m \in u : x[m] \in Nat
        BY <1>1, <1>3, <2>2, <2>6
      <4> QED  BY <2>7, <4>1, <4>2, <4>3, SumChanges
    <3>2. SumFunctionOnSet(w, s \ {old}) \in Nat  BY <1>1, <1>3, <2>7, SumNat
    <3> QED  BY <2>1, <2>6, <3>1, <3>2
  <2>10. current_size = SumFunctionOnSet(w, s)  BY DEF JInv, Counted, w, s
  <2>11. SumFunctionOnSet(w, s) \in Nat /\ SizeOf(k) \in Nat
    BY <1>1, <1>3, <2>3, SumNat
  <2>12. SumFunctionOnSet(x, u) = current_size'
    <3>1. SumFunctionOnSet(x, u) = current_size - SizeOf(k) + size[t]
      BY <2>8, <2>9, <2>10
    <3> QED  BY <2>1, <3>1
  <2>13. current_size' <= IntMax
    BY <2>1, <2>10, <2>11, LruCacheAssumption
  <2> QED  BY <2>12, <2>13 DEF Counted, x, u, w, s
<1>7. ASSUME NEW k \in Keys, table[k] # NULL, TakeOut(table[k])  PROVE Counted'
  <2> DEFINE old == table[k]
  <2>1. /\ node' = [node EXCEPT ![old] = Unset] /\ ToSet(list') = s \ {old}
        /\ current_size' = current_size - SizeOf(k)
    BY <1>7, TakeOutFacts
  <2>2. old \in s /\ old \in Nodes /\ SizeOf(k) = w[old]  BY <1>7, StoredFacts DEF SizeOf
  <2>3. \A m \in s \ {old} : w'[m] = w[m]
    BY <1>3, <2>1 DEF JInv, IInv, Types
  <2> DEFINE x == w'  u == s'
  <2>4. u = s \ {old} /\ \A m \in Nodes : x[m] \in Nat  BY <1>2, <2>1
  <2>5. \A m \in s \ {old} : w[m] = x[m]  BY <2>3
  <2> HIDE DEF w, s, x, u, old
  <2>6. IsFiniteSet(u)  BY <1>3, <2>4, FS_Subset
  <2>7. SumFunctionOnSet(x, u) = SumFunctionOnSet(w, s) - w[old] + 0
    <3>1. s \ {old} = u \ {old} /\ old \notin u /\ old \in s  BY <2>2, <2>4
    <3>2. (\A m \in s : w[m] \in Nat) /\ (\A m \in u : x[m] \in Nat)
      BY <1>1, <1>3, <2>4
    <3> QED  BY <1>3, <2>5, <2>6, <3>1, <3>2, SumChanges
  <2>8. current_size = SumFunctionOnSet(w, s)  BY DEF JInv, Counted, w, s
  <2>9. SumFunctionOnSet(w, s) \in Nat /\ w[old] \in Nat  BY <1>1, <1>3, <2>2, SumNat
  <2>10. SumFunctionOnSet(x, u) = current_size' /\ current_size' <= current_size
    BY <2>1, <2>2, <2>7, <2>8, <2>9
  <2>11. current_size' <= IntMax
    <3>1. current_size <= IntMax /\ current_size \in Int /\ current_size' \in Int
      BY <2>1, <2>2, <2>8, <2>9 DEF JInv, Counted
    <3> QED  BY <2>10, <3>1, LruCacheAssumption
  <2> QED  BY <2>10, <2>11 DEF Counted, x, u, w, s
<1> QED  BY <1>4, <1>5, <1>6, <1>7, SizeSteps

\* What every key's value weighs after such a step.

LEMMA KeysApart ==
    ASSUME JInv, NEW k \in Keys, NEW l \in Keys, l # k, table[l] # NULL
    PROVE  table[l] \in Nodes /\ table[l] # table[k]
  BY StoredFacts

LEMMA WeightsAfterPut ==
    ASSUME JInv, NEW t \in Threads, Put(t), NEW k \in Keys, k = key[t]
    PROVE  Weights' = [Weights EXCEPT ![k] = size[t]]
<1>1. PICK n \in Nodes \ Used :
          /\ node' = [m \in Nodes |-> CASE m = n -> [key |-> k, size |-> size[t]]
                                         [] m = table[k] -> Unset
                                         [] OTHER -> node[m]]
          /\ table' = [table EXCEPT ![k] = n]
  BY PutFacts
<1>2. n # NULL /\ n \in Nodes /\ \A l \in Keys : table[l] # n  BY LruCacheAssumption DEF Used
<1>3. SizeOf(k)' = size[t]
  <2>1. table'[k] = n  BY <1>1 DEF JInv, IInv, Types
  <2>2. node'[n].size = size[t]
    <3>1. n # table[k]  BY <1>2
    <3>2. node'[n] = [key |-> k, size |-> size[t]]
      <4>1. n \in Nodes  BY <1>2
      <4> QED  BY <1>1, <3>1, <4>1
    <3> QED  BY <3>2
  <2> QED  BY <1>2, <2>1, <2>2 DEF SizeOf
<1>4. ASSUME NEW l \in Keys, l # k  PROVE SizeOf(l)' = SizeOf(l)
  <2>1. table'[l] = table[l]  BY <1>1, <1>4 DEF JInv, IInv, Types
  <2>2. CASE table[l] = NULL  BY <2>1, <2>2 DEF SizeOf
  <2>3. CASE table[l] # NULL
    <3>1. table[l] \in Nodes /\ table[l] # table[k] /\ table[l] # n
      BY <1>2, <1>4, <2>3, KeysApart
    <3>2. node'[table[l]] = node[table[l]]  BY <1>1, <3>1
    <3> QED  BY <2>1, <3>2 DEF SizeOf
  <2> QED  BY <2>2, <2>3
<1> QED  BY <1>3, <1>4 DEF Weights

LEMMA WeightsAfterTakeOut ==
    ASSUME JInv, NEW k \in Keys, table[k] # NULL, TakeOut(table[k])
    PROVE  Weights' = [Weights EXCEPT ![k] = 0]
<1>1. node' = [node EXCEPT ![table[k]] = Unset] /\ table' = [table EXCEPT ![k] = NULL]
  BY TakeOutFacts
<1>2. SizeOf(k)' = 0  BY <1>1 DEF SizeOf, JInv, IInv, Types
<1>3. ASSUME NEW l \in Keys, l # k  PROVE SizeOf(l)' = SizeOf(l)
  <2>1. table'[l] = table[l]  BY <1>1, <1>3 DEF JInv, IInv, Types
  <2>2. CASE table[l] = NULL  BY <2>1, <2>2 DEF SizeOf
  <2>3. CASE table[l] # NULL
    <3>1. table[l] \in Nodes /\ table[l] # table[k]  BY <1>3, <2>3, KeysApart
    <3>2. node'[table[l]] = node[table[l]]  BY <1>1, <3>1 DEF JInv, IInv, Types
    <3> QED  BY <2>1, <3>2 DEF SizeOf
  <2> QED  BY <2>2, <2>3
<1> QED  BY <1>2, <1>3 DEF Weights

LEMMA WeighedKept ==
    ASSUME JInv, [Next]_vars  PROVE Weighed'
<1>1. Weights = [k \in Keys |-> Weights[k]] /\ \A k \in Keys : Weights[k] = SizeOf(k)
  BY DEF Weights
<1>2. \A k \in Keys : Weights[k] \in Nat  BY StoredFacts DEF JInv, IInv, Types, SizeOf, Weights
<1>3. current_size = SumFunctionOnSet(Weights, Keys) /\ current_size \in Int
  BY DEF JInv, IInv, Types, Weighed
\* The size of one key changes.
<1>4. ASSUME NEW k \in Keys, NEW b \in Nat, Weights' = [Weights EXCEPT ![k] = b],
             current_size' = current_size - SizeOf(k) + b
      PROVE  Weighed'
  <2> DEFINE x == Weights'
  <2>1. x[k] = b /\ \A l \in Keys \ {k} : x[l] = Weights[l]  BY <1>1, <1>4
  <2> HIDE DEF x
  <2>2. \A l \in Keys : x[l] \in Nat
    <3>1. SUFFICES ASSUME NEW l \in Keys  PROVE x[l] \in Nat
      OBVIOUS
    <3> QED  BY <1>2, <2>1
  <2>3. SumFunctionOnSet(x, Keys) = SumFunctionOnSet(Weights, Keys) - Weights[k] + x[k]
    BY <1>2, <2>1, <2>2, KeysAreFinite, SumChanges
  <2>4. current_size' = SumFunctionOnSet(x, Keys)  BY <1>1, <1>3, <1>4, <2>1, <2>3
  <2> QED  BY <2>4 DEF x, Weighed
<1>5. CASE UNCHANGED <<table, node, current_size>>
  BY <1>5 DEF JInv, Weighed, Weights, SizeOf
<1>6. CASE Destroy
  <2>1. current_size' = 0 /\ \A k \in Keys : SizeOf(k)' = 0  BY <1>6 DEF Destroy, SizeOf
  <2> DEFINE x == Weights'
  <2>2. \A k \in Keys : x[k] = 0  BY <2>1 DEF Weights
  <2> HIDE DEF x
  <2>3. SumFunctionOnSet(x, Keys) = 0  BY <2>2, KeysAreFinite, SumZero
  <2> QED  BY <2>1, <2>3 DEF x, Weighed
<1>7. ASSUME NEW t \in Threads, Put(t)  PROVE Weighed'
  <2>1. SUFFICES ASSUME NEW k \in Keys, k = key[t]  PROVE Weighed'
    BY <1>7, PutFacts
  <2>2. size[t] \in Nat /\ current_size' = current_size - SizeOf(k) + size[t]
    BY <1>7, <2>1, PutFacts, LruCacheAssumption
  <2>3. Weights' = [Weights EXCEPT ![k] = size[t]]  BY <1>7, <2>1, WeightsAfterPut
  <2> QED  BY <1>4, <2>2, <2>3
<1>8. ASSUME NEW k \in Keys, table[k] # NULL, TakeOut(table[k])  PROVE Weighed'
  <2>1. current_size' = current_size - SizeOf(k)  BY <1>8, TakeOutFacts
  <2>2. Weights' = [Weights EXCEPT ![k] = 0]  BY <1>8, WeightsAfterTakeOut
  <2>3. current_size' = current_size - SizeOf(k) + 0  BY <1>1, <1>2, <1>3, <2>1
  <2> QED  BY <1>4, <2>2, <2>3
<1> QED  BY <1>5, <1>6, <1>7, <1>8, SizeSteps

LEMMA NextJInv == JInv /\ [Next]_vars => JInv'
<1> SUFFICES ASSUME JInv, [Next]_vars  PROVE JInv'
  OBVIOUS
<1>1. IInv'  BY NextIInv DEF JInv
<1> QED  BY <1>1, CallsKept, NodeSizesKept, CountedKept, WeighedKept DEF JInv

-----------------------------------------------------------------------------
(* The refinement.  Lru has its own copies of the operators of the library. *)

LEMMA SameRemove == \A s, e : Cached!RemoveFirst(s, e) = RemoveFirst(s, e)
  BY DEF Cached!RemoveFirst, RemoveFirst, Cached!RemoveAt, RemoveAt,
         Cached!SelectInSeq, SelectInSeq, Cached!Min, Min

LEMMA SameElements == \A s : Cached!ToSet(s) = ToSet(s)
  BY DEF Cached!ToSet, ToSet

LEMMA SameSum == \A f, S : Cached!SumFunctionOnSet(f, S) = SumFunctionOnSet(f, S)
  BY DEF Cached!SumFunctionOnSet, SumFunctionOnSet, Cached!FoldFunctionOnSet,
         FoldFunctionOnSet, Cached!MapThenFoldSet, MapThenFoldSet

\* The keys of a sequence of nodes.
Keyed(s, nd) == [i \in DOMAIN s |-> nd[s[i]].key]

LEMMA KeyedIs ==
    ASSUME NEW s \in Seq(Nodes), NEW nd, \A n \in ToSet(s) : nd[n].key \in Keys
    PROVE  /\ Keyed(s, nd) \in Seq(Keys) /\ Len(Keyed(s, nd)) = Len(s)
           /\ \A i \in 1..Len(s) : Keyed(s, nd)[i] = nd[s[i]].key
<1>1. DOMAIN s = 1..Len(s) /\ Len(s) \in Nat  OBVIOUS
<1>2. \A i \in 1..Len(s) : nd[s[i]].key \in Keys  BY <1>1 DEF ToSet
<1>3. Keyed(s, nd) \in Seq(Keys) /\ DOMAIN Keyed(s, nd) = 1..Len(s)
      /\ \A i \in 1..Len(s) : Keyed(s, nd)[i] = nd[s[i]].key
  BY <1>1, <1>2 DEF Keyed
<1> QED  BY <1>1, <1>3

LEMMA KeyedRemove ==
    ASSUME NEW s \in Seq(Nodes), NEW nd, \A n \in ToSet(s) : nd[n].key \in Keys,
           \A m, n \in ToSet(s) : nd[m].key = nd[n].key => m = n,
           IsInjective(s), NEW n \in ToSet(s)
    PROVE  Keyed(RemoveFirst(s, n), nd) = RemoveFirst(Keyed(s, nd), nd[n].key)
<1> DEFINE o == Keyed(s, nd)
<1>1. o \in Seq(Keys) /\ Len(o) = Len(s) /\ \A i \in 1..Len(s) : o[i] = nd[s[i]].key
  BY KeyedIs
<1>2. PICK i \in 1..Len(s) : s[i] = n  BY DEF ToSet
<1> HIDE DEF o
<1>3. \A j, k \in 1..Len(s) : s[j] = s[k] => j = k  BY DEF IsInjective
<1>4. IsInjective(o)  BY <1>1, <1>3 DEF IsInjective, ToSet
<1> DEFINE r == RemoveAt(s, i)  q == RemoveAt(o, i)
<1>5. RemoveFirst(s, n) = r /\ RemoveFirst(o, nd[n].key) = q
  BY <1>1, <1>2, <1>4, FirstOfOne
<1>6. /\ r \in Seq(Nodes) /\ Len(r) = Len(s) - 1
      /\ \A j \in 1..(i - 1) : r[j] = s[j]
      /\ \A j \in i..(Len(s) - 1) : r[j] = s[j + 1]
  BY RemoveAtElements
<1>7. /\ q \in Seq(Keys) /\ Len(q) = Len(s) - 1
      /\ \A j \in 1..(i - 1) : q[j] = o[j]
      /\ \A j \in i..(Len(s) - 1) : q[j] = o[j + 1]
  BY <1>1, RemoveAtElements
<1>8. \A m \in ToSet(r) : nd[m].key \in Keys
  <2>1. ToSet(r) \subseteq ToSet(s)  BY <1>5, TakenOut
  <2> QED  BY <2>1
<1> HIDE DEF r, q
<1>9. Keyed(r, nd) \in Seq(Keys) /\ Len(Keyed(r, nd)) = Len(r)
      /\ \A j \in 1..Len(r) : Keyed(r, nd)[j] = nd[r[j]].key
  BY <1>6, <1>8, KeyedIs
<1>10. ASSUME NEW j \in 1..Len(q)  PROVE Keyed(r, nd)[j] = q[j]
  <2>1. j \in 1..Len(r) /\ Keyed(r, nd)[j] = nd[r[j]].key  BY <1>6, <1>7, <1>9
  <2>2. CASE j < i
    <3>1. j \in 1..(i - 1) /\ j \in 1..Len(s)  BY <1>7, <2>2
    <3>2. r[j] = s[j] /\ q[j] = o[j]  BY <1>6, <1>7, <3>1
    <3> QED  BY <1>1, <2>1, <3>1, <3>2
  <2>3. CASE j >= i
    <3>1. j \in i..(Len(s) - 1) /\ j + 1 \in 1..Len(s)  BY <1>7, <2>3
    <3>2. r[j] = s[j + 1] /\ q[j] = o[j + 1]  BY <1>6, <1>7, <3>1
    <3> QED  BY <1>1, <2>1, <3>1, <3>2
  <2> QED  BY <2>2, <2>3
<1>11. Keyed(r, nd) = q  BY <1>6, <1>7, <1>9, <1>10, SeqEqual
<1> QED  BY <1>5, <1>11 DEF o

LEMMA KeyedAppend ==
    ASSUME NEW s \in Seq(Nodes), NEW nd, \A m \in ToSet(s) : nd[m].key \in Keys,
           NEW n \in Nodes, nd[n].key \in Keys
    PROVE  Keyed(Append(s, n), nd) = Append(Keyed(s, nd), nd[n].key)
<1> DEFINE a == Append(s, n)  b == Append(Keyed(s, nd), nd[n].key)
<1>1. Keyed(s, nd) \in Seq(Keys) /\ Len(Keyed(s, nd)) = Len(s)
      /\ \A i \in 1..Len(s) : Keyed(s, nd)[i] = nd[s[i]].key
  BY KeyedIs
<1>2. a \in Seq(Nodes) /\ Len(a) = Len(s) + 1 /\ a[Len(s) + 1] = n
      /\ \A i \in 1..Len(s) : a[i] = s[i]
  OBVIOUS
<1>3. b \in Seq(Keys) /\ Len(b) = Len(s) + 1 /\ b[Len(s) + 1] = nd[n].key
      /\ \A i \in 1..Len(s) : b[i] = Keyed(s, nd)[i]
  BY <1>1
<1>4. \A m \in ToSet(a) : nd[m].key \in Keys  BY <1>2 DEF ToSet
<1> HIDE DEF a, b
<1>5. Keyed(a, nd) \in Seq(Keys) /\ Len(Keyed(a, nd)) = Len(a)
      /\ \A i \in 1..Len(a) : Keyed(a, nd)[i] = nd[a[i]].key
  BY <1>2, <1>4, KeyedIs
<1>6. ASSUME NEW i \in 1..Len(a)  PROVE Keyed(a, nd)[i] = b[i]
  <2>1. Keyed(a, nd)[i] = nd[a[i]].key  BY <1>5
  <2>2. CASE i = Len(s) + 1  BY <1>2, <1>3, <2>1, <2>2
  <2>3. CASE i # Len(s) + 1
    <3>1. i \in 1..Len(s)  BY <1>2, <2>3
    <3> QED  BY <1>1, <1>2, <1>3, <2>1, <3>1
  <2> QED  BY <2>2, <2>3
<1>7. Keyed(a, nd) = b  BY <1>2, <1>3, <1>5, <1>6, SeqEqual
<1> QED  BY <1>7 DEF a, b

LEMMA KeyedSame ==
    ASSUME NEW s \in Seq(Nodes), NEW nd, NEW me, \A n \in ToSet(s) : nd[n] = me[n]
    PROVE  Keyed(s, nd) = Keyed(s, me)
  BY DEF Keyed, ToSet

\* What the abstract cache sees.
Order == [i \in DOMAIN list |-> node[list[i]].key]
Asked == {[op |-> op[t], key |-> key[t], size |-> size[t]] :
                                          t \in {u \in Threads : op[u] # "none"}}

LEMMA ListedNodes ==
    ASSUME JInv
    PROVE  /\ list \in Seq(Nodes) /\ IsInjective(list) /\ Order = Keyed(list, node)
           /\ \A n \in ToSet(list) : n \in Nodes /\ node[n].key \in Keys /\ table[node[n].key] = n
<1>1. list \in Seq(Nodes) /\ IsInjective(list)  BY DEF JInv, IInv, Types, ListMatchesTable
<1>2. ASSUME NEW n \in ToSet(list)
      PROVE  n \in Nodes /\ node[n].key \in Keys /\ table[node[n].key] = n
  <2>1. PICK k \in Keys : n = table[k] /\ n # NULL  BY <1>2 DEF JInv, IInv, ListMatchesTable
  <2> QED  BY <2>1, StoredFacts
<1> QED  BY <1>1, <1>2 DEF Order, Keyed

\* Taking a key's node out of the list takes the key out of the order.
LEMMA OrderWithout ==
    ASSUME JInv, NEW k \in Keys
    PROVE  Keyed(RemoveFirst(list, table[k]), node) = RemoveFirst(Order, k)
<1>1. /\ list \in Seq(Nodes) /\ IsInjective(list) /\ Order = Keyed(list, node)
      /\ \A n \in ToSet(list) : n \in Nodes /\ node[n].key \in Keys /\ table[node[n].key] = n
  BY ListedNodes
<1>2. CASE table[k] # NULL
  <2>1. table[k] \in ToSet(list) /\ node[table[k]].key = k  BY <1>2, StoredFacts
  <2>2. \A m, n \in ToSet(list) : node[m].key = node[n].key => m = n  BY <1>1
  <2> QED  BY <1>1, <2>1, <2>2, KeyedRemove
<1>3. CASE table[k] = NULL
  <2>1. ~ \E i \in 1..Len(list) : list[i] = NULL
    BY <1>1, LruCacheAssumption
  <2>2. RemoveFirst(list, table[k]) = list  BY <1>3, <2>1 DEF RemoveFirst
  <2>3. Len(Order) = Len(list) /\ \A i \in 1..Len(list) : Order[i] = node[list[i]].key
    BY <1>1, KeyedIs
  <2>4. \A i \in 1..Len(list) : list[i] \in ToSet(list)  BY <1>1 DEF ToSet
  <2>5. \A i \in 1..Len(list) : Order[i] # k
    <3>1. SUFFICES ASSUME NEW i \in 1..Len(list), Order[i] = k  PROVE FALSE
      OBVIOUS
    <3>2. table[k] = list[i] /\ list[i] \in Nodes  BY <1>1, <2>3, <2>4, <3>1
    <3> QED  BY <1>3, <3>2, LruCacheAssumption
  <2>6. RemoveFirst(Order, k) = Order  BY <2>3, <2>5 DEF RemoveFirst
  <2> QED  BY <1>1, <2>2, <2>6
<1> QED  BY <1>2, <1>3

LEMMA OrderAfterTakeOut ==
    ASSUME JInv, NEW k \in Keys, table[k] # NULL, TakeOut(table[k])
    PROVE  Order' = RemoveFirst(Order, k) /\ k \in ToSet(Order)
<1>1. node' = [node EXCEPT ![table[k]] = Unset] /\ list' = RemoveFirst(list, table[k])
      /\ ToSet(list') = ToSet(list) \ {table[k]}
  BY TakeOutFacts
<1>2. Order' = Keyed(list', node')  BY DEF Order, Keyed
<1>3. list' \in Seq(Nodes)  BY <1>1, ListedNodes, TakenOut
<1>4. \A n \in ToSet(list') : node'[n] = node[n]
  BY <1>1, ListedNodes DEF JInv, IInv, Types
<1>5. Keyed(list', node') = Keyed(list', node)  BY <1>3, <1>4, KeyedSame
<1>6. Keyed(list', node) = RemoveFirst(Order, k)  BY <1>1, OrderWithout
<1>7. k \in ToSet(Order)
  <2>1. PICK i \in 1..Len(list) : list[i] = table[k]  BY StoredFacts, ListedNodes DEF ToSet
  <2>2. i \in DOMAIN Order /\ Order[i] = k  BY <2>1, StoredFacts, ListedNodes DEF Order
  <2> QED  BY <2>2 DEF ToSet
<1> QED  BY <1>2, <1>5, <1>6, <1>7

LEMMA OrderAfterPut ==
    ASSUME JInv, NEW t \in Threads, Put(t), NEW k \in Keys, k = key[t]
    PROVE  Order' = Append(RemoveFirst(Order, k), k)
<1>1. PICK n \in Nodes \ Used :
          /\ node' = [m \in Nodes |-> CASE m = n -> [key |-> k, size |-> size[t]]
                                         [] m = table[k] -> Unset
                                         [] OTHER -> node[m]]
          /\ list' = Append(RemoveFirst(list, table[k]), n)
  BY PutFacts
<1> DEFINE r == RemoveFirst(list, table[k])
<1>2. n # NULL /\ n \in Nodes /\ n \notin ToSet(list) /\ n # table[k]
  BY LruCacheAssumption DEF Used
<1>3. r \in Seq(Nodes) /\ ToSet(r) = ToSet(list) \ {table[k]}  BY ListedNodes, TakenOut
<1>4. node'[n].key = k
  <2>1. node'[n] = [key |-> k, size |-> size[t]]  BY <1>1, <1>2
  <2> QED  BY <2>1
<1>5. ASSUME NEW m \in ToSet(r)  PROVE node'[m] = node[m] /\ node[m].key \in Keys
  <2>1. m \in Nodes /\ m # n /\ m # table[k] /\ node[m].key \in Keys
    BY <1>2, <1>3, <1>5, ListedNodes
  <2> QED  BY <1>1, <2>1
<1>6. list' = Append(r, n)  BY <1>1
<1>7. Keyed(r, node) = RemoveFirst(Order, k)  BY OrderWithout
<1> HIDE DEF r
<1> DEFINE nn == node'
<1>8. nn[n].key = k /\ \A m \in ToSet(r) : nn[m] = node[m] /\ nn[m].key \in Keys
  BY <1>4, <1>5
<1>9. Order' = Keyed(Append(r, n), nn)  BY <1>6 DEF Order, Keyed
<1> HIDE DEF nn
<1>10. Keyed(Append(r, n), nn) = Append(Keyed(r, nn), k)  BY <1>2, <1>3, <1>8, KeyedAppend
<1>11. Keyed(r, nn) = Keyed(r, node)  BY <1>3, <1>8, KeyedSame
<1> QED  BY <1>7, <1>9, <1>10, <1>11

LEMMA OrderAfterGet ==
    ASSUME JInv, NEW k \in Keys, table[k] # NULL, UNCHANGED node,
           list' = Append(RemoveFirst(list, table[k]), table[k])
    PROVE  Order' = Append(RemoveFirst(Order, k), k)
<1> DEFINE r == RemoveFirst(list, table[k])
<1>1. r \in Seq(Nodes) /\ ToSet(r) = ToSet(list) \ {table[k]}  BY ListedNodes, TakenOut
<1>2. table[k] \in Nodes /\ node[table[k]].key = k  BY StoredFacts
<1>3. \A m \in ToSet(r) : node[m].key \in Keys  BY <1>1, ListedNodes
<1>4. Keyed(r, node) = RemoveFirst(Order, k)  BY OrderWithout
<1>5. Order' = Keyed(Append(r, table[k]), node)  BY DEF Order, Keyed
<1> HIDE DEF r
<1>6. Keyed(Append(r, table[k]), node) = Append(Keyed(r, node), k)
  BY <1>1, <1>2, <1>3, KeyedAppend
<1> QED  BY <1>4, <1>5, <1>6

\* The key whose node is at the head is the first, and without it the rest is left.
LEMMA FirstInOrder ==
    ASSUME JInv, list # <<>>, NEW k \in Keys, table[k] = Head(list)
    PROVE  Head(Order) = k /\ RemoveFirst(Order, k) = Tail(Order)
<1>1. /\ list \in Seq(Nodes) /\ IsInjective(list) /\ Order = Keyed(list, node)
      /\ \A n \in ToSet(list) : n \in Nodes /\ node[n].key \in Keys /\ table[node[n].key] = n
  BY ListedNodes
<1>2. Order \in Seq(Keys) /\ Len(Order) = Len(list)
      /\ \A i \in 1..Len(list) : Order[i] = node[list[i]].key
  BY <1>1, KeyedIs
<1>3. 1 \in 1..Len(list) /\ Head(list) = list[1]  BY <1>1
<1>4. node[table[k]].key = k
  <2>1. table[k] # NULL  BY <1>1, <1>3, LruCacheAssumption
  <2> QED  BY <2>1, StoredFacts
<1>5. Order[1] = k  BY <1>2, <1>3, <1>4
<1>6. IsInjective(Order)
  <2>1. \A i \in 1..Len(list) : list[i] \in ToSet(list)  BY <1>1 DEF ToSet
  <2>2. \A i, j \in 1..Len(list) : list[i] = list[j] => i = j  BY <1>1 DEF IsInjective
  <2>3. \A i, j \in 1..Len(list) : Order[i] = Order[j] => i = j  BY <1>1, <1>2, <2>1, <2>2
  <2> QED  BY <1>2, <2>3 DEF IsInjective
<1> DEFINE o == Order  q == RemoveAt(o, 1)
<1>7. RemoveFirst(o, k) = q  BY <1>2, <1>3, <1>5, <1>6, FirstOfOne
<1>8. /\ q \in Seq(Keys) /\ Len(q) = Len(o) - 1
      /\ \A j \in 1..(Len(o) - 1) : q[j] = o[j + 1]
  BY <1>2, <1>3, RemoveAtElements
<1> HIDE DEF o, q
<1>9. o \in Seq(Keys) /\ o # <<>> /\ o[1] = k  BY <1>2, <1>3, <1>5 DEF o
<1>10. /\ Tail(o) \in Seq(Keys) /\ Len(Tail(o)) = Len(o) - 1
       /\ \A i \in 1..Len(Tail(o)) : Tail(o)[i] = o[i + 1]
  BY <1>9, HeadTailProperties
<1>11. q = Tail(o)  BY <1>8, <1>10, SeqEqual
<1> QED  BY <1>7, <1>9, <1>11 DEF o

\* A node that is alone fits: while the capacity is exceeded there are two.
LEMMA TwoAtLeast ==
    ASSUME JInv, current_size > Capacity, list # <<>>
    PROVE  Len(Order) > 1
<1>1. list \in Seq(Nodes) /\ Len(Order) = Len(list)
  <2>1. list \in Seq(Nodes) /\ Order = Keyed(list, node) /\ \A n \in ToSet(list) : node[n].key \in Keys
    BY ListedNodes
  <2> QED  BY <2>1, KeyedIs
<1>2. SUFFICES ASSUME Len(list) = 1  PROVE FALSE
  BY <1>1
<1> DEFINE n == list[1]  w == [m \in Nodes |-> node[m].size]
<1>3. n \in Nodes /\ ToSet(list) = {n}  BY <1>1, <1>2 DEF ToSet
<1>4. \A m \in Nodes : w[m] \in Nat  BY DEF JInv, IInv, Types
<1>5. w[n] <= Capacity  BY <1>3 DEF JInv, NodeSizes
<1>6. current_size = SumFunctionOnSet(w, {n})  BY <1>3 DEF JInv, Counted
<1> HIDE DEF w, n
<1>7. SumFunctionOnSet(w, {n}) = w[n] + SumFunctionOnSet(w, {n} \ {n})
  BY <1>3, <1>4, FS_Singleton, SumTakes
<1>8. SumFunctionOnSet(w, {n} \ {n}) = 0
  <2>1. {n} \ {n} = {}  OBVIOUS
  <2> QED  BY <2>1, SumEmpty
<1>9. current_size = w[n] /\ w[n] \in Nat  BY <1>3, <1>4, <1>6, <1>7, <1>8
<1> QED  BY <1>5, <1>9, LruCacheAssumption

LEMMA AskedIsCalls == JInv => Asked \subseteq Cached!Calls
<1> SUFFICES ASSUME JInv, NEW t \in Threads, op[t] # "none"
             PROVE  [op |-> op[t], key |-> key[t], size |-> size[t]] \in Cached!Calls
  BY DEF Asked
<1>1. key[t] \in Keys /\ op[t] \in {"none", "put", "get", "evict"}
  BY DEF JInv, IInv, Types, Calls
<1>2. CASE op[t] = "put"
  <2>1. size[t] \in Sizes /\ size[t] <= Capacity  BY <1>2 DEF JInv, Calls
  <2>2. size[t] \in Nat /\ size[t] # 0 /\ Capacity \in Nat  BY <2>1, LruCacheAssumption
  <2>3. size[t] \in 1..Capacity  BY <2>1, <2>2
  <2> QED  BY <1>1, <1>2, <2>3 DEF Cached!Calls
<1>3. CASE op[t] # "put"
  <2>1. size[t] = 0  BY <1>3 DEF JInv, Calls
  <2> QED  BY <1>1, <1>3, <2>1 DEF Cached!Calls
<1> QED  BY <1>2, <1>3

LEMMA AskedFor ==
    ASSUME NEW t \in Threads, op[t] # "none"
    PROVE  [op |-> op[t], key |-> key[t], size |-> size[t]] \in Asked
  BY DEF Asked

\* Every step of the cache is one of Lru, or changes neither the order nor a weight.
LEMMA LruStep ==
    ASSUME JInv, [Next]_vars  PROVE Cached!Next
<1> USE DEF Order, Weights, Asked
<1>1. Cached!CallOrReturn
  <2>1. JInv'  BY NextJInv
  <2>2. (JInv => Asked \subseteq Cached!Calls)'  BY AskedIsCalls, PTL
  <2>3. Asked' \subseteq Cached!Calls  BY <2>1, <2>2 DEF Cached!Calls
  <2> QED  BY <2>3 DEF Cached!CallOrReturn
<1> USE DEF Cached!Next
<1>2. ASSUME UNCHANGED <<list, table, node>>  PROVE Cached!Next
  <2>1. Order' = Order /\ Weights' = Weights  BY <1>2 DEF SizeOf
  <2> QED  BY <1>1, <2>1
<1>3. CASE Destroy
  <2>1. /\ \A t \in Threads : op[t] = "none"
        /\ list' = <<>> /\ table' = [k \in Keys |-> NULL]
    BY <1>3 DEF Destroy, JInv, Calls
  <2>2. Asked = {}  BY <2>1
  <2>3. Order' = <<>> /\ Weights' = [k \in Keys |-> 0]  BY <2>1 DEF SizeOf
  <2> QED  BY <1>1, <2>2, <2>3 DEF Cached!Destroy
<1>4. ASSUME NEW t \in Threads, Put(t)  PROVE Cached!Next
  <2>1. SUFFICES ASSUME NEW k \in Keys, k = key[t]  PROVE Cached!Next
    BY <1>4, PutFacts
  <2>2. PICK s \in 1..Capacity : s = size[t]  BY <1>4, PutFacts, LruCacheAssumption
  <2>3. op[t] = "put"  BY <1>4, PutFacts
  <2>4. [op |-> "put", key |-> k, size |-> s] \in Asked  BY <2>1, <2>2, <2>3, AskedFor
  <2>5. Order' = Append(RemoveFirst(Order, k), k)  BY <1>4, <2>1, OrderAfterPut
  <2>6. Weights' = [Weights EXCEPT ![k] = s]  BY <1>4, <2>1, <2>2, WeightsAfterPut
  <2>7. Cached!Put(k, s)  BY <2>4, <2>5, <2>6, SameRemove DEF Cached!Put
  <2> QED  BY <1>1, <2>7
<1>5. ASSUME NEW t \in Threads, EvictKey(t)  PROVE Cached!Next
  <2>1. key[t] \in Keys  BY <1>5 DEF EvictKey, Return, Goto, JInv, IInv, Types
  <2>2. PICK k \in Keys : k = key[t]  BY <2>1
  <2>3. op[t] = "evict" /\ table[k] # NULL /\ TakeOut(table[k])  BY <1>5, <2>2 DEF EvictKey
  <2>4. size[t] = 0  BY <2>3 DEF JInv, Calls
  <2>5. [op |-> "evict", key |-> k, size |-> 0] \in Asked  BY <2>2, <2>3, <2>4, AskedFor
  <2>6. Order' = RemoveFirst(Order, k) /\ k \in ToSet(Order)  BY <2>3, OrderAfterTakeOut
  <2>7. Weights' = [Weights EXCEPT ![k] = 0]  BY <2>3, WeightsAfterTakeOut
  <2>8. Cached!Evict(k)
    BY <2>5, <2>6, <2>7, SameRemove, SameElements DEF Cached!Evict
  <2> QED  BY <1>1, <2>8
<1>6. ASSUME NEW t \in Threads, Get(t)  PROVE Cached!Next
  <2>1. key[t] \in Keys  BY <1>6 DEF Get, Return, Goto, JInv, IInv, Types
  <2>2. PICK k \in Keys : k = key[t]  BY <2>1
  <2>3. /\ op[t] = "get" /\ table[k] # NULL /\ UNCHANGED <<table, node>>
        /\ list' = list \/ list' = Append(RemoveFirst(list, table[k]), table[k])
    BY <1>6, <2>2 DEF Get
  <2>4. size[t] = 0  BY <2>3 DEF JInv, Calls
  <2>5. [op |-> "get", key |-> k, size |-> 0] \in Asked  BY <2>2, <2>3, <2>4, AskedFor
  <2>6. CASE list' = list  BY <1>2, <2>3, <2>6
  <2>7. CASE list' = Append(RemoveFirst(list, table[k]), table[k])
    <3>1. Order' = Append(RemoveFirst(Order, k), k)  BY <2>3, <2>7, OrderAfterGet
    <3>2. k \in ToSet(Order)
      <4>1. PICK i \in 1..Len(list) : list[i] = table[k]
        BY <2>3, StoredFacts, ListedNodes DEF ToSet
      <4>2. i \in DOMAIN Order /\ Order[i] = k  BY <2>3, <4>1, StoredFacts, ListedNodes
      <4> QED  BY <4>2 DEF ToSet
    <3>3. Weights' = Weights  BY <2>3 DEF SizeOf
    <3>4. Cached!Get(k)
      BY <2>5, <3>1, <3>2, <3>3, SameRemove, SameElements DEF Cached!Get
    <3> QED  BY <1>1, <3>4
  <2> QED  BY <2>3, <2>6, <2>7
<1>7. ASSUME NEW t \in Threads, EvictLeastUsed(t)  PROVE Cached!Next
  <2>1. /\ pc[t] = "evict" /\ current_size > Capacity /\ list # <<>> /\ TakeOut(Head(list))
    BY <1>7 DEF EvictLeastUsed, Exceeds
  <2>2. Head(list) \in ToSet(list)  BY <2>1, ListedNodes DEF ToSet
  <2>3. PICK k \in Keys : table[k] = Head(list) /\ table[k] # NULL
    BY <2>2 DEF JInv, IInv, ListMatchesTable
  <2>4. Head(Order) = k /\ RemoveFirst(Order, k) = Tail(Order)  BY <2>1, <2>3, FirstInOrder
  <2>5. Order' = Tail(Order)  BY <2>1, <2>3, <2>4, OrderAfterTakeOut
  <2>6. Weights' = [Weights EXCEPT ![Head(Order)] = 0]
    BY <2>1, <2>3, <2>4, WeightsAfterTakeOut
  <2>7. Len(Order) > 1  BY <2>1, TwoAtLeast
  <2>8. Cached!Total > Capacity
    <3>1. Cached!Total = SumFunctionOnSet(Weights, Keys)
      BY SameSum DEF Cached!Total, Cached!SumFunction
    <3> QED  BY <2>1, <3>1 DEF JInv, Weighed
  <2>9. \E c \in Asked : c.op = "put"
    <3>1. op[t] = "put"  BY <2>1 DEF JInv, Calls
    <3> QED  BY <3>1, AskedFor
  <2>10. Cached!MakeRoom  BY <2>5, <2>6, <2>7, <2>8, <2>9 DEF Cached!MakeRoom
  <2> QED  BY <1>1, <2>10
<1> QED  BY <1>2, <1>3, <1>4, <1>5, <1>6, <1>7, CacheSteps DEF JInv

LEMMA LruInit == Init => Cached!Init
<1> SUFFICES ASSUME Init  PROVE Cached!Init
  OBVIOUS
<1>1. Asked = {}  BY DEF Init, Asked
<1>2. Order = <<>>  BY DEF Init, Order
<1>3. Weights = [k \in Keys |-> 0]  BY DEF Init, Weights, SizeOf
<1> QED  BY <1>1, <1>2, <1>3 DEF Asked, Order, Weights, Cached!Init

-----------------------------------------------------------------------------
(* Theorems *)

\* For any number of threads that put, get and evict, the cache is above its capacity
\* only while one of them is still evicting or since the table failed an eviction
\* (lru_cache_put and evict_internal, which looks at the size anew before it returns).
THEOREM SizeIsSeenTo == Spec => []WithinCapacity
<1>1. IInv => WithinCapacity  BY DEF IInv
<1> QED  BY InitIInv, NextIInv, <1>1, PTL DEF Spec

\* For any number of threads that come and go, each is registered with the hazard
\* pointers once while its slot has a handle, and not at all otherwise, whatever fails
\* in clds_hazard_pointers_thread_helper_get_thread.
THEOREM RegisteredOnce == Spec => []HandlesAccounted
<1>1. IInv => HandlesAccounted  BY DEF IInv
<1> QED  BY InitIInv, NextIInv, <1>1, PTL DEF Spec

\* For any sizes and any capacity, the list of lru_cache.c has every node of its table
\* once and no other, so that evict_internal never finds a key the table does not have.
THEOREM ListIsTable == Spec => []ListMatchesTable
<1>1. IInv => ListMatchesTable  BY DEF IInv
<1> QED  BY InitIInv, NextIInv, <1>1, PTL DEF Spec

\* For any number of threads and keys, and any sizes and capacity: the sum of the sizes
\* stays between 0 and INT64_MAX, whatever is put, replaced and evicted, and a thread
\* that waits for srw_lock knows what it runs (lru_cache_put's check of the sum, and
\* the subtractions of evict_internal and lru_cache_evict, which never go below 0).
THEOREM TypesAreCorrect == Spec => []TypeOK
<1>1. JInv => TypeOK
  <2> SUFFICES ASSUME JInv  PROVE TypeOK
    OBVIOUS
  <2> USE LruCacheAssumption DEF JInv, IInv, Types
  <2>1. node \in [Nodes -> [key : Keys \cup {NULL}, size : {0} \cup Sizes]]
    BY DEF NodeSizes
  <2>2. current_size \in 0..IntMax
    <3> DEFINE w == [n \in Nodes |-> node[n].size]
    <3>1. IsFiniteSet(ToSet(list)) /\ \A n \in ToSet(list) : w[n] \in Nat
      BY FiniteElements, ListedNodes
    <3>2. current_size = SumFunctionOnSet(w, ToSet(list)) /\ current_size <= IntMax
      BY DEF Counted
    <3> HIDE DEF w
    <3>3. current_size \in Nat  BY <3>1, <3>2, SumNat
    <3> QED  BY <3>2, <3>3
  <2>3. slot \subseteq Threads /\ result \subseteq Threads  BY DEF HelperTypes
  <2>4. op \in [Threads -> {"none", "put", "get", "evict"}]
        /\ registered \in [Threads -> Nat] /\ {live, gaveUp} \subseteq BOOLEAN
        /\ \A t \in Threads : pc[t] = "idle" <=> op[t] = "none"
    BY DEF Calls
  <2>5. size \in [Threads -> {0} \cup Sizes]
    <3>1. \A t \in Threads : size[t] \in {0} \cup Sizes  BY DEF Calls
    <3> QED  BY <3>1
  <2> QED  BY <2>1, <2>2, <2>3, <2>4, <2>5 DEF TypeOK, PCs
<1> QED  BY InitJInv, NextJInv, <1>1, PTL DEF Spec

\* For any number of threads, current_size is the sum of the sizes of the nodes in the
\* list, which are the nodes of the table: put takes the size of the value that it
\* replaces off, and nothing is counted twice or not at all (lru_cache.c).
THEOREM SizeIsExact == Spec => []SizeExact
<1>1. JInv => SizeExact  BY DEF JInv, IInv, Counted, SizeExact
<1> QED  BY InitJInv, NextJInv, <1>1, PTL DEF Spec

\* For any number of threads, the cache is a Lru: every put, get and evict takes effect
\* at one instant under srw_lock, and an eviction takes the value that was used longest
\* ago, while the capacity is exceeded, and never the only one there is.
THEOREM CacheIsLru == Spec => ImplementsLru
<1>1. JInv /\ [Next]_vars => [Cached!Next]_<<Asked, Order, Weights>>
  BY LruStep
<1> QED
  BY InitJInv, NextJInv, LruInit, <1>1, PTL DEF Spec, ImplementsLru, Cached!Spec, Asked, Order, Weights
=============================================================================
