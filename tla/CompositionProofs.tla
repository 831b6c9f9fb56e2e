------------------------- MODULE CompositionProofs -------------------------
(***************************************************************************)
(* Proofs about Composition, for every stack of layers: what Aggregate     *)
(* returns, that BoundsHold is never false, and when a bound is reached.   *)
(***************************************************************************)
EXTENDS Composition, FiniteSetTheorems, WellFoundedInduction, TLAPS

\* Stands for induction: of the numbers at which something fails, the least.
LEMMA LeastNumber ==
  ASSUME NEW S \in SUBSET Nat, S # {}
  PROVE  \E i \in S : \A j \in S : i <= j
<1>1. PICK i \in S : \A j \in S : ~ (<<j, i>> \in OpToRel(<, Nat))
  BY NatLessThanWellFounded, WFMin
<1>2. \A j \in S : ~(j < i)
  BY <1>1 DEF OpToRel
<1>3. QED
  BY <1>2

LEMMA PileType ==
  ASSUME NEW p \in Pile
  PROVE  /\ Len(p) \in Nat /\ DOMAIN p = 1..Len(p)
         /\ \A k \in 1..Len(p) : p[k] \in Seq(Nat)
BY DEF Pile, AngleMort

LEMMA LayerIsFinite ==
  ASSUME NEW layer \in Seq(Nat)
  PROVE  /\ Range(layer) \subseteq Nat /\ IsFiniteSet(Range(layer))
         /\ Cardinality(Range(layer)) \in Nat
<1>1. Len(layer) \in Nat /\ DOMAIN layer = 1..Len(layer) /\ layer \in [1..Len(layer) -> Nat]
  OBVIOUS
<1>2. IsFiniteSet(1..Len(layer))
  BY <1>1, FS_Interval
<1>3. layer \in Surjection(1..Len(layer), Range(layer))
  BY <1>1 DEF Surjection, Range
<1>4. IsFiniteSet(Range(layer))
  BY <1>2, <1>3, FS_Surjection
<1>5. QED
  BY <1>1, <1>4, FS_CardinalityType DEF Range

-----------------------------------------------------------------------------
(* The single pass.                                                        *)

\* There are values for the locals up to every layer.
LEMMA PassExists ==
  ASSUME NEW p \in Pile
  PROVE  \E f : f = [k \in 0..Len(p) |-> IF k = 0 THEN Start ELSE Round(f[k - 1], p[k])]
<1> DEFINE Upto(n, f) == f = [k \in 0..n |-> IF k = 0 THEN Start ELSE Round(f[k - 1], p[k])]
           S == {n \in 0..Len(p) : ~ \E f : Upto(n, f)}
<1>0. Len(p) \in Nat
  BY PileType
<1>1. SUFFICES ASSUME S # {} PROVE FALSE
  BY <1>0
<1>2. S \in SUBSET Nat
  BY <1>0
<1>3. PICK n \in S : \A j \in S : n <= j
  <2> HIDE DEF S
  <2>1. QED
    BY <1>1, <1>2, LeastNumber
<1>4. CASE n = 0
  <2> DEFINE f == [k \in 0..0 |-> Start]
  <2>1. f = [k \in 0..0 |-> IF k = 0 THEN Start ELSE Round(f[k - 1], p[k])]
    OBVIOUS
  <2>2. QED
    BY <1>3, <1>4, <2>1
<1>5. CASE n # 0
  <2>1. n \in 1..Len(p) /\ n - 1 \in 0..Len(p) /\ n - 1 < n
    BY <1>0, <1>3, <1>5
  <2>2. n - 1 \notin S
    BY <1>0, <1>3, <2>1
  <2>3. PICK f : Upto(n - 1, f)
    BY <2>1, <2>2
  <2> DEFINE g == [k \in 0..n |-> IF k = n THEN Round(f[n - 1], p[n]) ELSE f[k]]
  <2>4. ASSUME NEW k \in 0..n
        PROVE  g[k] = IF k = 0 THEN Start ELSE Round(g[k - 1], p[k])
    <3>1. CASE k = n
      <4>1. k # 0 /\ k - 1 \in 0..n /\ k - 1 # n /\ g[k - 1] = f[n - 1]
        BY <1>0, <2>1, <3>1
      <4>2. QED
        BY <3>1, <4>1
    <3>2. CASE k # n /\ k # 0
      <4>1. k \in 0..(n - 1) /\ k - 1 \in 0..n /\ k - 1 # n
        BY <1>0, <2>1, <3>2
      <4>2. f[k] = Round(f[k - 1], p[k])
        BY <2>3, <3>2, <4>1
      <4>3. g[k] = f[k] /\ g[k - 1] = f[k - 1]
        BY <3>2, <4>1
      <4>4. QED
        BY <3>2, <4>2, <4>3
    <3>3. CASE k # n /\ k = 0
      <4>1. k \in 0..(n - 1)
        BY <1>0, <2>1, <3>3
      <4>2. f[k] = Start
        BY <2>3, <3>3, <4>1
      <4>3. QED
        BY <3>3, <4>2
    <3>4. QED
      BY <3>1, <3>2, <3>3
  <2>5. g = [k \in 0..n |-> g[k]]
    OBVIOUS
  <2> HIDE DEF g
  <2>6. Upto(n, g)
    BY <2>4, <2>5
  <2>7. QED
    BY <1>3, <2>6
<1>6. QED
  BY <1>4, <1>5

\* The pass does what its loop does.
LEMMA PassUnfolds ==
  ASSUME NEW p \in Pile
  PROVE  /\ Pass(p)[0] = Start
         /\ \A k \in 1..Len(p) : Pass(p)[k] = Round(Pass(p)[k - 1], p[k])
<1> DEFINE f == Pass(p)
<1>1. f = [k \in 0..Len(p) |-> IF k = 0 THEN Start ELSE Round(f[k - 1], p[k])]
  BY PassExists DEF Pass
<1>2. Len(p) \in Nat
  BY PileType
<1> HIDE DEF f
<1>3. f[0] = Start
  BY <1>1, <1>2
<1>4. ASSUME NEW k \in 1..Len(p) PROVE f[k] = Round(f[k - 1], p[k])
  <2>1. k \in 0..Len(p) /\ k # 0
    BY <1>2
  <2>2. QED
    BY <1>1, <2>1
<1>5. QED
  BY <1>3, <1>4 DEF f
Of(p, i) == Range(p[i])

\* The first k layers share no blind spot.
Disjoint(p, k) == \A i, j \in 1..k : i # j => Of(p, i) \cap Of(p, j) = {}

UpTo(p, k) == UNION {Of(p, i) : i \in 1..k}

\* The invariant of the loop: global holds what the first k layers hold, maxLen
\* is the size of the largest of them, and sumLen is reached by no union but a
\* disjoint one.
LoopInv(p, k) ==
  LET now == Pass(p)[k] IN
  /\ now.global = UpTo(p, k) /\ IsFiniteSet(now.global)
  /\ now.maxLen \in Nat /\ now.sumLen \in Nat
  /\ \A i \in 1..k : Cardinality(Of(p, i)) <= now.maxLen
  /\ now.maxLen = 0 \/ \E i \in 1..k : now.maxLen = Cardinality(Of(p, i))
  /\ Cardinality(now.global) <= now.sumLen
  /\ (Cardinality(now.global) = now.sumLen) <=> Disjoint(p, k)

LEMMA LoopStarts == ASSUME NEW p \in Pile PROVE LoopInv(p, 0)
<1>1. Pass(p)[0] = Start
  BY PassUnfolds
<1>2. IsFiniteSet({}) /\ Cardinality({}) = 0
  BY FS_EmptySet
<1>3. 1..0 = {}
  OBVIOUS
<1>4. UpTo(p, 0) = {} /\ Disjoint(p, 0)
  BY <1>3 DEF UpTo, Disjoint
<1>5. Start.global = {} /\ Start.maxLen = 0 /\ Start.sumLen = 0
  BY DEF Start
<1>6. QED
  BY <1>1, <1>2, <1>3, <1>4, <1>5 DEF LoopInv

LEMMA LoopGoesOn ==
  ASSUME NEW p \in Pile, NEW k \in 1..Len(p), LoopInv(p, k - 1)
  PROVE  LoopInv(p, k)
<1> DEFINE was  == Pass(p)[k - 1]
           now  == Pass(p)[k]
           L    == Of(p, k)
           G    == was.global
           d    == Cardinality(L)
           both == Cardinality(G \cap L)
<1>0. Len(p) \in Nat /\ k \in Nat /\ k - 1 \in Nat /\ k > 0
  BY PileType
<1>1. IsFiniteSet(L) /\ d \in Nat
  BY PileType, LayerIsFinite DEF Of
<1>2. now = Round(was, p[k])
  BY PassUnfolds
<1>3. /\ now.global = G \cup L /\ now.sumLen = was.sumLen + d
      /\ now.maxLen = IF d > was.maxLen THEN d ELSE was.maxLen
  BY <1>2 DEF Round, Of
<1>4. /\ G = UpTo(p, k - 1) /\ IsFiniteSet(G)
      /\ was.maxLen \in Nat /\ was.sumLen \in Nat
      /\ \A i \in 1..(k - 1) : Cardinality(Of(p, i)) <= was.maxLen
      /\ was.maxLen = 0 \/ \E i \in 1..(k - 1) : was.maxLen = Cardinality(Of(p, i))
      /\ Cardinality(G) <= was.sumLen
      /\ (Cardinality(G) = was.sumLen) <=> Disjoint(p, k - 1)
  BY DEF LoopInv
<1>5. \A i : i \in 1..k <=> (i \in 1..(k - 1) \/ i = k)
  BY <1>0
<1>6. now.global = UpTo(p, k)
  <2>1. UpTo(p, k) = UpTo(p, k - 1) \cup L
    BY <1>5, Zenon DEF UpTo
  <2>2. QED
    BY <1>3, <1>4, <2>1
<1>7. /\ IsFiniteSet(G \cup L)
      /\ Cardinality(G \cup L) = Cardinality(G) + d - both
  BY <1>1, <1>4, FS_Union
<1>8. IsFiniteSet(G \cap L) /\ both \in Nat /\ Cardinality(G) \in Nat
      /\ (both = 0 <=> G \cap L = {})
  BY <1>1, <1>4, FS_Intersection, FS_CardinalityType, FS_EmptySet
<1>9. Disjoint(p, k) <=> (Disjoint(p, k - 1) /\ G \cap L = {})
  <2>1. ASSUME Disjoint(p, k) PROVE Disjoint(p, k - 1)
    BY <1>5, <2>1 DEF Disjoint
  <2>2. ASSUME Disjoint(p, k), NEW a \in G \cap L PROVE FALSE
    <3>1. PICK i \in 1..(k - 1) : a \in Of(p, i)
      BY <1>4, <2>2 DEF UpTo
    <3>2. i \in 1..k /\ k \in 1..k /\ i # k
      BY <1>0
    <3>3. QED
      BY <2>2, <3>1, <3>2 DEF Disjoint
  <2>3. ASSUME Disjoint(p, k - 1), G \cap L = {}, NEW i \in 1..k, NEW j \in 1..k, i # j
        PROVE  Of(p, i) \cap Of(p, j) = {}
    <3>1. \A m \in 1..(k - 1) : Of(p, m) \subseteq G
      BY <1>4 DEF UpTo
    <3>2. CASE i \in 1..(k - 1) /\ j \in 1..(k - 1)
      BY <2>3, <3>2 DEF Disjoint
    <3>3. CASE i = k /\ j \in 1..(k - 1)
      BY <2>3, <3>1, <3>3
    <3>4. CASE i \in 1..(k - 1) /\ j = k
      BY <2>3, <3>1, <3>4
    <3>5. QED
      BY <1>5, <2>3, <3>2, <3>3, <3>4
  <2>4. QED
    BY <2>1, <2>2, <2>3 DEF Disjoint
<1> HIDE DEF was, now, L, G, d, both
<1>10. /\ Cardinality(now.global) <= now.sumLen
       /\ (Cardinality(now.global) = now.sumLen)
            <=> (Cardinality(G) = was.sumLen /\ both = 0)
  BY <1>1, <1>3, <1>4, <1>7, <1>8
<1>11. now.maxLen \in Nat /\ now.sumLen \in Nat
  BY <1>1, <1>3, <1>4
<1>12. was.maxLen <= now.maxLen /\ d <= now.maxLen
  BY <1>1, <1>3, <1>4
<1>13. ASSUME NEW i \in 1..k PROVE Cardinality(Of(p, i)) <= now.maxLen
  <2>1. CASE i = k
    BY <1>12, <2>1 DEF d, L
  <2>2. CASE i # k
    <3>1. i \in 1..(k - 1) /\ IsFiniteSet(Of(p, i)) /\ Cardinality(Of(p, i)) \in Nat
      BY <1>0, <2>2, PileType, LayerIsFinite DEF Of
    <3>2. QED
      BY <1>4, <1>11, <1>12, <3>1
  <2>3. QED
    BY <2>1, <2>2
<1>14. now.maxLen = 0 \/ \E i \in 1..k : now.maxLen = Cardinality(Of(p, i))
  <2>1. k \in 1..k
    BY <1>0
  <2>2. QED
    BY <1>3, <1>4, <1>5, <2>1 DEF d, L
<1>15. IsFiniteSet(now.global)
  BY <1>3, <1>7
<1>16. (Cardinality(now.global) = now.sumLen) <=> Disjoint(p, k)
  BY <1>4, <1>8, <1>9, <1>10
<1>17. QED
  BY <1>6, <1>10, <1>11, <1>13, <1>14, <1>15, <1>16, Zenon DEF LoopInv, now

LEMMA LoopInvariant ==
  ASSUME NEW p \in Pile
  PROVE  \A k \in 0..Len(p) : LoopInv(p, k)
<1> DEFINE S == {k \in 0..Len(p) : ~LoopInv(p, k)}
<1>0. Len(p) \in Nat
  BY PileType
<1>1. SUFFICES ASSUME S # {} PROVE FALSE
  OBVIOUS
<1>2. S \in SUBSET Nat
  BY <1>0
<1>3. PICK n \in S : \A j \in S : n <= j
  <2> HIDE DEF S
  <2>1. QED
    BY <1>1, <1>2, LeastNumber
<1>4. n # 0
  BY <1>3, LoopStarts
<1>5. n \in 1..Len(p) /\ n - 1 \in 0..Len(p) /\ n - 1 < n
  BY <1>0, <1>3, <1>4
<1>6. n - 1 \notin S
  BY <1>0, <1>3, <1>5
<1>7. LoopInv(p, n - 1)
  BY <1>5, <1>6
<1>8. QED
  BY <1>3, <1>5, <1>7, LoopGoesOn

\* What the pass ends with.
LEMMA PassEnds ==
  ASSUME NEW p \in Pile
  PROVE  LET end == Pass(p)[Len(p)] IN
         /\ LoopInv(p, Len(p)) /\ end.global = Seen(p)
<1>1. Len(p) \in 0..Len(p) /\ DOMAIN p = 1..Len(p)
  BY PileType
<1>2. LoopInv(p, Len(p))
  BY <1>1, LoopInvariant
<1>3. UpTo(p, Len(p)) = Seen(p)
  BY <1>1 DEF UpTo, Seen, Of
<1>4. QED
  BY <1>2, <1>3 DEF LoopInv

-----------------------------------------------------------------------------
(* Theorems.                                                               *)

\* BoundsHold answers true for every stack: "both bounds are proved
\* algebraically" (i5_composition.go:79), whatever its layers share or repeat.
THEOREM BoundsAlwaysHold == \A p \in Pile : BoundsHold(p)
<1>1. SUFFICES ASSUME NEW p \in Pile PROVE BoundsHold(p)
  OBVIOUS
<1> DEFINE end == Pass(p)[Len(p)]
<1>2. /\ IsFiniteSet(end.global) /\ end.global = UpTo(p, Len(p))
      /\ end.maxLen \in Nat
      /\ end.maxLen = 0 \/ \E i \in 1..Len(p) : end.maxLen = Cardinality(Of(p, i))
      /\ Cardinality(end.global) <= end.sumLen
  BY PassEnds DEF LoopInv
<1> HIDE DEF end
<1>3. \A i \in 1..Len(p) : Cardinality(Of(p, i)) <= Cardinality(end.global)
  BY <1>2, FS_Subset DEF UpTo
<1>4. Cardinality(end.global) \in Nat
  BY <1>2, FS_CardinalityType
<1>5. Cardinality(end.global) >= end.maxLen
  BY <1>2, <1>3, <1>4
<1>6. QED
  BY <1>2, <1>5 DEF BoundsHold, end
\* "equality iff disjoint" (i5_composition.go:22): the blind spots are as many
\* as the layers count together exactly when no two layers share one.
THEOREM SumReachedIffDisjoint ==
  \A p \in Pile :
    (Cardinality(Seen(p)) = Pass(p)[Len(p)].sumLen)
      <=> \A i, j \in DOMAIN p : i # j => Range(p[i]) \cap Range(p[j]) = {}
<1>1. SUFFICES ASSUME NEW p \in Pile
               PROVE  (Cardinality(Seen(p)) = Pass(p)[Len(p)].sumLen)
                        <=> \A i, j \in DOMAIN p : i # j => Range(p[i]) \cap Range(p[j]) = {}
  OBVIOUS
<1>2. (Cardinality(Seen(p)) = Pass(p)[Len(p)].sumLen) <=> Disjoint(p, Len(p))
  BY PassEnds DEF LoopInv
<1>3. DOMAIN p = 1..Len(p)
  BY PileType
<1>4. QED
  BY <1>2, <1>3, Zenon DEF Disjoint, Of

-----------------------------------------------------------------------------
(* What Aggregate returns.                                                 *)

LEMMA SeenIsFinite ==
  ASSUME NEW p \in Pile
  PROVE  /\ Seen(p) \in SUBSET Nat /\ IsFiniteSet(Seen(p))
         /\ Cardinality(Seen(p)) \in Nat
<1>1. IsFiniteSet(Seen(p))
  BY PassEnds DEF LoopInv
<1>2. Seen(p) \subseteq Nat
  BY PileType, LayerIsFinite DEF Seen
<1>3. QED
  BY <1>1, <1>2, FS_CardinalityType

\* The position of x in the sorted slice.
Place(S, x) == Cardinality({y \in S : y <= x})

LEMMA PlacesGrow ==
  ASSUME NEW S \in SUBSET Nat, IsFiniteSet(S)
  PROVE  /\ \A x \in S : Place(S, x) \in 1..Cardinality(S)
         /\ \A x, y \in S : x < y => Place(S, x) < Place(S, y)
<1> DEFINE B(x) == {y \in S : y <= x}
<1>0. \A x : IsFiniteSet(B(x)) /\ Cardinality(B(x)) \in Nat /\ Cardinality(B(x)) <= Cardinality(S)
  <2>1. \A x : B(x) \in SUBSET S
    OBVIOUS
  <2> HIDE DEF B
  <2>2. SUFFICES ASSUME NEW x
                 PROVE  /\ IsFiniteSet(B(x)) /\ Cardinality(B(x)) \in Nat
                        /\ Cardinality(B(x)) <= Cardinality(S)
    OBVIOUS
  <2>3. B(x) \in SUBSET S
    BY <2>1
  <2>4. IsFiniteSet(B(x)) /\ Cardinality(B(x)) <= Cardinality(S)
    BY <2>3, FS_Subset
  <2>5. QED
    BY <2>4, FS_CardinalityType
<1>1. Cardinality(S) \in Nat
  BY FS_CardinalityType
<1>2. ASSUME NEW x \in S PROVE Cardinality(B(x)) \in 1..Cardinality(S)
  <2>1. x \in B(x)
    OBVIOUS
  <2> HIDE DEF B
  <2>2. Cardinality(B(x)) # 0
    BY <1>0, <2>1, FS_EmptySet
  <2>3. QED
    BY <1>0, <1>1, <2>2
<1>3. ASSUME NEW x \in S, NEW y \in S, x < y
      PROVE  Cardinality(B(x)) < Cardinality(B(y))
  <2>1. B(x) \in SUBSET B(y) /\ y \in B(y) /\ y \notin B(x)
    <3>1. x \in Int /\ y \in Int /\ y <= y /\ ~(y <= x)
      BY <1>3
    <3>2. ASSUME NEW z \in S, z <= x PROVE z <= y
      <4>1. z \in Int
        OBVIOUS
      <4>2. QED
        BY <1>3, <3>1, <3>2, <4>1
    <3>3. QED
      BY <3>1, <3>2
  <2> HIDE DEF B
  <2>2. /\ Cardinality(B(x)) <= Cardinality(B(y))
        /\ Cardinality(B(y)) = Cardinality(B(x)) => B(y) = B(x)
    BY <1>0, <2>1, FS_Subset
  <2>3. QED
    BY <1>0, <2>1, <2>2
<1>4. QED
  BY <1>2, <1>3 DEF Place

\* Every finite set of identifiers can be listed in increasing order.
LEMMA SortedListing ==
  ASSUME NEW S \in SUBSET Nat, IsFiniteSet(S)
  PROVE  \E out \in Bijection(1..Cardinality(S), S) :
           \A i, j \in 1..Cardinality(S) : i < j => out[i] < out[j]
<1> DEFINE n == Cardinality(S)
           place == [x \in S |-> Place(S, x)]
<1>1. n \in Nat /\ IsFiniteSet(1..n) /\ Cardinality(1..n) = n
  BY FS_CardinalityType, FS_Interval
<1>2. /\ \A x \in S : Place(S, x) \in 1..n
      /\ \A x, y \in S : x < y => Place(S, x) < Place(S, y)
  BY PlacesGrow
<1> HIDE DEF n
<1>3. place \in [S -> 1..n]
  BY <1>2
<1>4. \A x, y \in S : place[x] = place[y] => x = y
  <2>1. SUFFICES ASSUME NEW x \in S, NEW y \in S, place[x] = place[y], x # y PROVE FALSE
    OBVIOUS
  <2>2. x < y \/ y < x
    BY <2>1
  <2>3. place[x] \in Int /\ place[y] \in Int
    BY <1>3
  <2>4. QED
    BY <1>2, <2>1, <2>2, <2>3
<1>5. place \in Injection(S, 1..n)
  BY <1>3, <1>4 DEF Injection, IsInjective
<1>6. place \in Surjection(S, 1..n)
  <2>1. Cardinality(S) = Cardinality(1..n)
    BY <1>1 DEF n
  <2> HIDE DEF place
  <2>2. QED
    BY <1>1, <1>5, <2>1, FS_Injection
<1>7. \A i \in 1..n : \E x \in S : place[x] = i
  BY <1>6 DEF Surjection
<1> DEFINE out == [i \in 1..n |-> CHOOSE x \in S : place[x] = i]
<1>8. \A i \in 1..n : out[i] \in S /\ place[out[i]] = i
  BY <1>7
<1>9. \A x \in S : out[place[x]] = x
  <2>1. SUFFICES ASSUME NEW x \in S PROVE out[place[x]] = x
    OBVIOUS
  <2>2. place[x] \in 1..n
    BY <1>3
  <2> HIDE DEF place, out
  <2>3. out[place[x]] \in S /\ place[out[place[x]]] = place[x]
    BY <1>8, <2>2
  <2>4. QED
    BY <1>4, <2>3
<1>10. \A i, j \in 1..n : i < j => out[i] < out[j]
  <2> SUFFICES ASSUME NEW i \in 1..n, NEW j \in 1..n, i < j
               PROVE  out[i] < out[j]
    BY Zenon
  <2>1. SUFFICES ASSUME ~(out[i] < out[j]) PROVE FALSE
    OBVIOUS
  <2>2. out[i] \in S /\ out[j] \in S /\ place[out[i]] = i /\ place[out[j]] = j
    BY <1>8, Zenon
  <2>3. \A x, y \in S : x < y => place[x] < place[y]
    BY <1>2
  <2> HIDE DEF place, out
  <2>4. out[i] = out[j] \/ out[j] < out[i]
    <3> DEFINE a == out[i]
               b == out[j]
    <3>1. a \in Nat /\ b \in Nat /\ ~(a < b)
      BY <2>1, <2>2
    <3> HIDE DEF a, b
    <3>2. a = b \/ b < a
      BY <3>1
    <3>3. QED
      BY <3>2 DEF a, b
  <2>5. i = j \/ j < i
    BY <2>2, <2>3, <2>4
  <2>6. QED
    BY <1>1, <2>5
<1>11. out \in Bijection(1..n, S)
  <2>1. out \in [1..n -> S]
    BY <1>8
  <2>2. \A i, j \in 1..n : out[i] = out[j] => i = j
    <3> HIDE DEF out
    <3>1. QED
      BY <1>8
  <2>3. \A x \in S : \E i \in 1..n : out[i] = x
    <3> HIDE DEF out
    <3>1. QED
      BY <1>3, <1>9
  <2>4. QED
    BY <2>1, <2>2, <2>3 DEF Bijection, Injection, Surjection, IsInjective
<1>12. QED
  BY <1>10, <1>11 DEF n
\* An increasing listing has every identifier at its place.
LEMMA ListedPlace ==
  ASSUME NEW S \in SUBSET Nat, NEW n \in Nat, NEW out \in Bijection(1..n, S),
         \A i, j \in 1..n : i < j => out[i] < out[j],
         NEW i \in 1..n
  PROVE  Place(S, out[i]) = i
<1> DEFINE B == {y \in S : y <= out[i]}
           h == [j \in 1..i |-> out[j]]
<1>1. /\ \A j \in 1..n : out[j] \in S
      /\ \A j, m \in 1..n : out[j] = out[m] => j = m
      /\ \A x \in S : \E j \in 1..n : out[j] = x
  BY DEF Bijection, Injection, Surjection, IsInjective
<1>2. i \in Nat /\ 1..i \subseteq 1..n
  OBVIOUS
<1>3. ASSUME NEW j \in 1..n PROVE out[j] <= out[i] <=> j <= i
  <2>1. out[i] \in Nat /\ out[j] \in Nat
    BY <1>1
  <2>2. CASE j = i
    BY <2>1, <2>2
  <2>3. CASE j < i
    <3>1. out[j] < out[i]
      BY <2>3
    <3>2. QED
      BY <2>1, <2>3, <3>1
  <2>4. CASE i < j
    <3>1. out[i] < out[j]
      BY <2>4
    <3>2. QED
      BY <2>1, <2>4, <3>1
  <2>5. QED
    BY <2>2, <2>3, <2>4
<1>4. h \in [1..i -> B]
  <2>1. SUFFICES ASSUME NEW j \in 1..i PROVE out[j] \in B
    OBVIOUS
  <2>2. j \in 1..n /\ j <= i
    BY <1>2
  <2>3. QED
    BY <1>1, <1>3, <2>2
<1>5. \A j, m \in 1..i : h[j] = h[m] => j = m
  BY <1>1, <1>2
<1>6. ASSUME NEW x \in B PROVE \E j \in 1..i : h[j] = x
  <2>1. PICK j \in 1..n : out[j] = x
    BY <1>1
  <2>2. j \in 1..i
    BY <1>3, <2>1
  <2>3. QED
    BY <2>1, <2>2
<1> HIDE DEF B, h
<1>7. h \in Bijection(1..i, B)
  BY <1>4, <1>5, <1>6 DEF Bijection, Injection, Surjection, IsInjective
<1>8. Cardinality(B) = i
  BY <1>2, <1>7, FS_CountingElements DEF ExistsBijection
<1>9. QED
  BY <1>8 DEF B, Place

\* Whatever the order of the map, what is sorted is the whole set, once each.
LEMMA AggregateListing ==
  ASSUME NEW p \in Pile, NEW out \in Aggregates(p)
  PROVE  LET n == Cardinality(Seen(p)) IN
         /\ out \in Bijection(1..n, Seen(p))
         /\ \A i, j \in 1..n : i < j => out[i] < out[j]
<1> DEFINE S == Seen(p)
           n == Cardinality(S)
<1>1. S \in SUBSET Nat /\ IsFiniteSet(S) /\ n \in Nat
  BY SeenIsFinite
<1>2. out \in [1..n -> S] /\ Sorted(out)
  BY DEF Aggregates
<1>3. PICK s \in IterationOrders(S) : Permuted(s, out)
  BY DEF Aggregates
<1> HIDE DEF S, n
<1>4. s \in [1..n -> S] /\ Range(s) = S
  BY <1>3 DEF IterationOrders, n
<1>5. PICK f \in Bijection(1..n, 1..n) : out = [i \in 1..n |-> s[f[i]]]
  BY <1>3, <1>4 DEF Permuted
<1>6. f \in [1..n -> 1..n] /\ \A j \in 1..n : \E i \in 1..n : f[i] = j
  BY DEF Bijection, Surjection
<1>7. \A x \in S : \E i \in 1..n : out[i] = x
  <2>1. SUFFICES ASSUME NEW x \in S PROVE \E i \in 1..n : out[i] = x
    OBVIOUS
  <2>2. PICK j \in 1..n : s[j] = x
    BY <1>4 DEF Range
  <2>3. PICK i \in 1..n : f[i] = j
    BY <1>6
  <2>4. QED
    BY <1>5, <2>2, <2>3
<1>8. out \in Surjection(1..n, S)
  BY <1>2, <1>7 DEF Surjection
<1>9. out \in Injection(1..n, S)
  <2>1. IsFiniteSet(1..n) /\ Cardinality(1..n) = n
    BY <1>1, FS_Interval
  <2>2. Cardinality(1..n) = Cardinality(S)
    BY <2>1 DEF n
  <2>3. QED
    BY <1>8, <2>1, <2>2, FS_SurjSameCardinalityImpliesInj
<1>10. ASSUME NEW i \in 1..n, NEW j \in 1..n, i < j PROVE out[i] < out[j]
  <2>1. out[i] \in Nat /\ out[j] \in Nat
    BY <1>1, <1>2
  <2>2. out[i] <= out[j]
    BY <1>2, <1>10 DEF Sorted
  <2>3. out[i] # out[j]
    <3>1. i # j
      BY <1>10
    <3>2. QED
      BY <1>9, <3>1, Zenon DEF Injection, IsInjective
  <2>4. QED
    BY <2>1, <2>2, <2>3
<1>11. QED
  BY <1>8, <1>9, <1>10 DEF S, n, Bijection

\* There is a result: the increasing listing is a permutation of any order.
LEMMA AggregateExists == ASSUME NEW p \in Pile PROVE Aggregates(p) # {}
<1> DEFINE S == Seen(p)
           n == Cardinality(S)
<1>1. S \in SUBSET Nat /\ IsFiniteSet(S) /\ n \in Nat
  BY SeenIsFinite
<1>2. PICK out \in Bijection(1..n, S) : \A i, j \in 1..n : i < j => out[i] < out[j]
  BY <1>1, SortedListing
<1> HIDE DEF S
<1>3. /\ out \in [1..n -> S] /\ \A x \in S : \E i \in 1..n : out[i] = x
  BY <1>2 DEF Bijection, Surjection
<1>4. Range(out) = S /\ DOMAIN out = 1..n
  BY <1>3 DEF Range
<1>5. out \in IterationOrders(S)
  BY <1>3, <1>4 DEF IterationOrders
<1>6. Permuted(out, out)
  <2> DEFINE id == [i \in 1..n |-> i]
  <2>1. id \in Bijection(1..n, 1..n)
    BY DEF Bijection, Injection, Surjection, IsInjective
  <2>2. out = [i \in 1..n |-> out[id[i]]]
    BY <1>3
  <2> HIDE DEF id
  <2>3. QED
    BY <1>4, <2>1, <2>2 DEF Permuted
<1>7. Sorted(out)
  <2>1. SUFFICES ASSUME NEW i \in 1..n, NEW j \in 1..n, i < j PROVE out[i] <= out[j]
    BY <1>4 DEF Sorted
  <2>2. out[i] \in Nat /\ out[j] \in Nat /\ out[i] < out[j]
    BY <1>1, <1>2, <1>3, <2>1
  <2>3. QED
    BY <2>2
<1>8. QED
  BY <1>3, <1>5, <1>6, <1>7 DEF S, Aggregates

LEMMA PlaceTells ==
  ASSUME NEW S \in SUBSET Nat, IsFiniteSet(S), NEW x \in S, NEW y \in S,
         Place(S, x) = Place(S, y)
  PROVE  x = y
<1>1. Place(S, x) \in Int /\ Place(S, y) \in Int
  BY PlacesGrow, FS_CardinalityType
<1>2. (x < y => Place(S, x) < Place(S, y)) /\ (y < x => Place(S, y) < Place(S, x))
  BY PlacesGrow
<1>3. ~(x < y) /\ ~(y < x)
  BY <1>1, <1>2
<1>4. x \in Int /\ y \in Int
  OBVIOUS
<1>5. QED
  BY <1>3, <1>4

\* "Output is deterministically ordered (lex-sorted, deduplicated)"
\* (i5_composition.go:18): the order in which range gives the keys of the map
\* does not show, so Aggregate returns one slice.
THEOREM AggregateIsDeterministic ==
  \A p \in Pile : \E out \in Seq(Nat) :
    /\ Aggregates(p) = {out}
    /\ Range(out) = Seen(p) /\ Len(out) = Cardinality(Seen(p))
    /\ \A i, j \in 1..Len(out) : i < j => out[i] < out[j]
<1>1. SUFFICES ASSUME NEW p \in Pile
               PROVE  \E out \in Seq(Nat) :
                        /\ Aggregates(p) = {out}
                        /\ Range(out) = Seen(p) /\ Len(out) = Cardinality(Seen(p))
                        /\ \A i, j \in 1..Len(out) : i < j => out[i] < out[j]
  OBVIOUS
<1> DEFINE S == Seen(p)
           n == Cardinality(S)
<1>2. S \in SUBSET Nat /\ IsFiniteSet(S) /\ n \in Nat
  BY SeenIsFinite
<1>3. PICK out \in Aggregates(p) : TRUE
  BY AggregateExists
<1>4. /\ out \in Bijection(1..n, S)
      /\ \A i, j \in 1..n : i < j => out[i] < out[j]
  BY <1>3, AggregateListing
<1> HIDE DEF S, n
<1>5. out \in [1..n -> S]
  BY <1>4 DEF Bijection, Surjection
<1>6. ASSUME NEW other \in Aggregates(p) PROVE other = out
  <2>1. /\ other \in Bijection(1..n, S)
        /\ \A i, j \in 1..n : i < j => other[i] < other[j]
    BY AggregateListing DEF S, n
  <2>2. other \in [1..n -> S]
    BY <2>1 DEF Bijection, Surjection
  <2>3. ASSUME NEW i \in 1..n PROVE other[i] = out[i]
    <3>1. Place(S, other[i]) = i
      BY <1>2, <2>1, ListedPlace
    <3>2. Place(S, out[i]) = i
      BY <1>2, <1>4, ListedPlace
    <3>3. other[i] \in S /\ out[i] \in S
      BY <1>5, <2>2
    <3>4. Place(S, other[i]) = Place(S, out[i])
      BY <3>1, <3>2
    <3>5. QED
      BY <1>2, <3>3, <3>4, PlaceTells
  <2>4. /\ out = [i \in 1..n |-> out[i]] /\ other = [i \in 1..n |-> other[i]]
        /\ [i \in 1..n |-> other[i]] = [i \in 1..n |-> out[i]]
    BY <1>5, <2>2, <2>3, Zenon
  <2>5. QED
    BY <2>4
<1>7. Aggregates(p) = {out}
  BY <1>3, <1>6
<1>8. out \in Seq(Nat) /\ Len(out) = n /\ DOMAIN out = 1..n
  <2>1. out \in [1..n -> Nat]
    BY <1>2, <1>5
  <2>2. QED
    BY <1>2, <2>1
<1>9. Range(out) = S
  <2>1. \A x \in S : \E i \in 1..n : out[i] = x
    BY <1>4 DEF Bijection, Surjection
  <2>2. QED
    BY <1>5, <1>8, <2>1 DEF Range
<1>10. QED
  BY <1>4, <1>7, <1>8, <1>9 DEF S, n

\* Piling on a layer, at the top, never takes a blind spot away, and adds at
\* most its own: what the docs have TestM_Monotonicity guard
\* (docs/theory/05-invariants.md:184).
THEOREM BlindSpotsOnlyGrow ==
  \A p \in Pile, layer \in AngleMort :
    /\ Seen(p) \subseteq Seen(Append(p, layer))
    /\ Cardinality(Seen(p)) <= Cardinality(Seen(Append(p, layer)))
    /\ Cardinality(Seen(Append(p, layer)))
         <= Cardinality(Seen(p)) + Cardinality(Range(layer))
<1>1. SUFFICES ASSUME NEW p \in Pile, NEW layer \in AngleMort
               PROVE  /\ Seen(p) \subseteq Seen(Append(p, layer))
                      /\ Cardinality(Seen(p)) <= Cardinality(Seen(Append(p, layer)))
                      /\ Cardinality(Seen(Append(p, layer)))
                           <= Cardinality(Seen(p)) + Cardinality(Range(layer))
  OBVIOUS
<1> DEFINE q == Append(p, layer)
           A == Seen(p)
           L == Range(layer)
<1>2. Len(p) \in Nat /\ DOMAIN p = 1..Len(p)
  BY PileType
<1>3. /\ q \in Pile /\ DOMAIN q = 1..(Len(p) + 1)
      /\ \A k \in 1..Len(p) : q[k] = p[k]
      /\ q[Len(p) + 1] = layer
  BY <1>2 DEF Pile
<1>4. Seen(q) = A \cup L
  <2>1. \A k : k \in DOMAIN q <=> (k \in DOMAIN p \/ k = Len(p) + 1)
    BY <1>2, <1>3
  <2> HIDE DEF q
  <2>2. QED
    BY <1>2, <1>3, <2>1 DEF Seen
<1>5. IsFiniteSet(A) /\ IsFiniteSet(L) /\ Cardinality(A) \in Nat /\ Cardinality(L) \in Nat
  BY SeenIsFinite, LayerIsFinite DEF AngleMort
<1> HIDE DEF q, A, L
<1>6. /\ IsFiniteSet(A \cup L)
      /\ Cardinality(A \cup L) = Cardinality(A) + Cardinality(L) - Cardinality(A \cap L)
  BY <1>5, FS_Union
<1>7. Cardinality(A \cap L) \in Nat /\ Cardinality(A \cap L) <= Cardinality(L)
  <2>1. IsFiniteSet(A \cap L) /\ Cardinality(A \cap L) <= Cardinality(L)
    BY <1>5, FS_Intersection
  <2>2. QED
    BY <2>1, FS_CardinalityType
<1>8. /\ Cardinality(A) <= Cardinality(A \cup L)
      /\ Cardinality(A \cup L) <= Cardinality(A) + Cardinality(L)
  BY <1>5, <1>6, <1>7
<1>9. A \subseteq A \cup L
  OBVIOUS
<1>10. QED
  BY <1>4, <1>8, <1>9 DEF q, A, L

\* The order of the layers does not count.
THEOREM LayerOrderDoesNotCount ==
  ASSUME NEW p \in Pile, NEW q \in Pile,
         NEW f \in Bijection(DOMAIN q, DOMAIN p), \A k \in DOMAIN q : q[k] = p[f[k]]
  PROVE  Aggregates(q) = Aggregates(p)
<1>1. f \in [DOMAIN q -> DOMAIN p] /\ \A i \in DOMAIN p : \E k \in DOMAIN q : f[k] = i
  BY DEF Bijection, Surjection
<1>2. ASSUME NEW a PROVE a \in Seen(q) <=> a \in Seen(p)
  BY <1>1 DEF Seen
<1>3. Seen(q) = Seen(p)
  BY <1>2
<1>4. QED
  BY <1>3 DEF Aggregates
=============================================================================
