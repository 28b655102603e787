----------------------------- MODULE LruProofs ------------------------------
(***************************************************************************)
(* Lemmas that the proofs about both engines behind a cache rest on: the   *)
(* cache stays consistent and within its bound, and how a sum over a       *)
(* finite set changes.  Where an argument is by induction it goes by way   *)
(* of a smallest counterexample (WFMin), which is a fact about sets.       *)
(***************************************************************************)
EXTENDS Lru, FiniteSetTheorems, WellFoundedInduction, SequenceTheorems, TLAPS

(* A set of numbers that is not empty has a least element.                 *)
LEMMA LeastNatural ==
    ASSUME NEW T \in SUBSET Nat, T # {}
    PROVE  \E x \in T : \A y \in T : x <= y
<1> DEFINE R == OpToRel(<, Nat)
<1>1. IsWellFoundedOn(R, Nat)
  BY NatLessThanWellFounded
<1>2. \A x, y \in Nat : x < y => <<x, y>> \in R
  BY DEF OpToRel
<1> HIDE DEF R
<1>3. PICK x \in T : \A y \in T : ~ (<<y, x>> \in R)
  BY <1>1, WFMin
<1>4. \A y \in T : x <= y
  <2> TAKE y \in T
  <2>1. x \in Nat /\ y \in Nat /\ ~ (y < x)
    BY <1>2, <1>3
  <2> QED BY <2>1
<1> QED BY <1>4

-----------------------------------------------------------------------------
(* Sums.  The pairs that count what w has at the members of S.             *)
Units(w, S) == UNION {{x} \X (1..w[x]) : x \in S}

LEMMA UnitsOne ==
    ASSUME NEW x, NEW k \in Nat
    PROVE  IsFiniteSet({x} \X (1..k)) /\ Cardinality({x} \X (1..k)) = k
<1>1. IsFiniteSet({x}) /\ Cardinality({x}) = 1
  BY FS_Singleton
<1>2. IsFiniteSet(1..k) /\ Cardinality(1..k) = k
  <2>1. IsFiniteSet(1..k) /\ Cardinality(1..k) = IF 1 > k THEN 0 ELSE k - 1 + 1
    BY FS_Interval
  <2> QED BY <2>1
<1>3. IsFiniteSet({x} \X (1..k)) /\ Cardinality({x} \X (1..k)) = Cardinality({x}) * Cardinality(1..k)
  BY <1>1, <1>2, FS_Product
<1> QED BY <1>1, <1>2, <1>3

LEMMA UnitsFinite ==
    ASSUME NEW S, IsFiniteSet(S), NEW w \in [S -> Nat]
    PROVE  IsFiniteSet(Units(w, S)) /\ Cardinality(Units(w, S)) \in Nat
<1> DEFINE F == {{x} \X (1..w[x]) : x \in S}
<1>1. IsFiniteSet(F)
  <2> DEFINE f == [x \in S |-> {x} \X (1..w[x])]
  <2>1. f \in Surjection(S, F)
    BY DEF Surjection
  <2> QED BY <2>1, FS_Surjection DEF ExistsSurjection
<1>2. \A T \in F : IsFiniteSet(T)
  <2> SUFFICES ASSUME NEW x \in S PROVE IsFiniteSet({x} \X (1..w[x]))
    OBVIOUS
  <2> QED BY UnitsOne
<1>4. Units(w, S) = UNION F
  BY DEF Units
<1> HIDE DEF F
<1>3. IsFiniteSet(UNION F)
  BY <1>1, <1>2, FS_UNION
<1> QED BY <1>3, <1>4, FS_CardinalityType

(* One member of S taken out.                                              *)
LEMMA UnitsSplit ==
    ASSUME NEW S, IsFiniteSet(S), NEW w \in [S -> Nat], NEW x \in S
    PROVE  Cardinality(Units(w, S)) = w[x] + Cardinality(Units(w, S \ {x}))
<1> DEFINE A == {x} \X (1..w[x])
           B == Units(w, S \ {x})
<1>1. IsFiniteSet(A) /\ Cardinality(A) = w[x]
  BY UnitsOne
<1>2. IsFiniteSet(S \ {x})
  BY FS_RemoveElement
<1>3. IsFiniteSet(B) /\ Cardinality(B) \in Nat
  <2> DEFINE v == [y \in S \ {x} |-> w[y]]
  <2>1. Units(v, S \ {x}) = B
    BY DEF Units
  <2> QED BY <1>2, <2>1, UnitsFinite
<1>4. Units(w, S) = A \cup B /\ A \cap B = {}
  BY DEF Units
<1> HIDE DEF A, B
<1>5. Cardinality(A \cup B) = Cardinality(A) + Cardinality(B) - Cardinality({})
  BY <1>1, <1>3, <1>4, FS_Union
<1>6. Cardinality(Units(w, S)) = w[x] + Cardinality(B)
  BY <1>1, <1>3, <1>4, <1>5, FS_EmptySet
<1> QED BY <1>6 DEF B

(* The recursion that a sum is computed by has one solution.               *)
LEMMA SumIsCount ==
    ASSUME NEW S, IsFiniteSet(S), NEW w \in [S -> Nat]
    PROVE  SumFunction(w) = Cardinality(Units(w, S))
<1> DEFINE Some(s) == CHOOSE x \in s : TRUE
           Step(g, s) == IF s = {} THEN 0 ELSE w[Some(s)] + g[s \ {Some(s)}]
           count == [s \in SUBSET S |-> Cardinality(Units(w, s))]
           Solves(g) == g = [s \in SUBSET S |-> Step(g, s)]
           sum == CHOOSE g : Solves(g)
<1>1. SumFunction(w) = sum[S]
  BY DEF SumFunction, SumFunctionOnSet, FoldFunctionOnSet, MapThenFoldSet
<1>2. \A s \in SUBSET S : s # {} => Some(s) \in s
  OBVIOUS
<1>3. ASSUME NEW s \in SUBSET S PROVE count[s] = Step(count, s)
  <2>1. IsFiniteSet(s) /\ [x \in s |-> w[x]] \in [s -> Nat]
    BY FS_Subset
  <2>2. CASE s = {}
    <3>1. Units(w, {}) = {}
      BY DEF Units
    <3> QED BY <2>2, <3>1, FS_EmptySet
  <2>3. CASE s # {}
    <3> DEFINE x == Some(s)
    <3>1. x \in s
      BY <1>2, <2>3
    <3> HIDE DEF x
    <3> DEFINE v == [y \in s |-> w[y]]
    <3>2. Units(v, s) = Units(w, s) /\ Units(v, s \ {x}) = Units(w, s \ {x}) /\ v[x] = w[x]
      BY <3>1 DEF Units
    <3>3. Cardinality(Units(v, s)) = v[x] + Cardinality(Units(v, s \ {x}))
      BY <2>1, <3>1, UnitsSplit
    <3>4. count[s] = w[x] + count[s \ {x}]
      BY <3>2, <3>3
    <3> QED BY <2>3, <3>4 DEF x
  <2> QED BY <2>2, <2>3
<1> HIDE DEF Some
<1>4. Solves(count)
  <2>1. count = [s \in SUBSET S |-> count[s]]
    OBVIOUS
  <2> HIDE DEF count
  <2> QED BY <1>3, <2>1
<1>5. Solves(sum)
  BY <1>4
<1> HIDE DEF sum
<1>6. \A s \in SUBSET S : sum[s] = Step(sum, s)
  BY <1>5
<1> DEFINE Bad == {s \in SUBSET S : sum[s] # count[s]}
<1> HIDE DEF count
<1>7. Bad = {}
  <2> SUFFICES ASSUME Bad # {} PROVE FALSE
    OBVIOUS
  <2> DEFINE R == StrictSubsetOrdering(S)
  <2>1. IsWellFoundedOn(R, SUBSET S)
    BY FS_StrictSubsetOrderingWellFounded, FS_FiniteSubsetsOfFinite
  <2>2. \A s, t \in SUBSET S : s \subseteq t /\ s # t => <<s, t>> \in R
    BY DEF StrictSubsetOrdering
  <2> HIDE DEF R
  <2>3. PICK t \in Bad : \A s \in Bad : ~ (<<s, t>> \in R)
    <3>1. Bad \subseteq SUBSET S
      OBVIOUS
    <3> HIDE DEF Bad
    <3> QED BY <2>1, <3>1, WFMin
  <2>4. t # {}
    BY <1>3, <1>6, <2>3
  <2>5. Some(t) \in t /\ t \ {Some(t)} \in SUBSET S /\ t \ {Some(t)} # t
    BY <1>2, <2>3, <2>4
  <2>6. sum[t \ {Some(t)}] = count[t \ {Some(t)}]
    BY <2>2, <2>3, <2>5
  <2>7. Step(sum, t) = Step(count, t)
    BY <2>4, <2>6
  <2> QED BY <1>3, <1>6, <2>3, <2>7
<1>8. S \in SUBSET S
  OBVIOUS
<1> QED BY <1>1, <1>7, <1>8 DEF count

(* A sum of zeros, and a sum when one of its terms changes.                *)
LEMMA SumOfZeros ==
    ASSUME NEW S, IsFiniteSet(S)
    PROVE  SumFunction([x \in S |-> 0]) = 0
<1>1. Units([x \in S |-> 0], S) = {}
  BY DEF Units
<1>2. SumFunction([x \in S |-> 0]) = Cardinality(Units([x \in S |-> 0], S))
  BY SumIsCount
<1> QED BY <1>1, <1>2, FS_EmptySet

LEMMA SumIsNatural ==
    ASSUME NEW S, IsFiniteSet(S), NEW w \in [S -> Nat]
    PROVE  SumFunction(w) \in Nat
BY SumIsCount, UnitsFinite

LEMMA SumUpdate ==
    ASSUME NEW S, IsFiniteSet(S), NEW w \in [S -> Nat], NEW v \in [S -> Nat], NEW x \in S,
           \A y \in S \ {x} : v[y] = w[y]
    PROVE  /\ SumFunction(v) \in Nat /\ SumFunction(w) \in Nat
           /\ SumFunction(v) + w[x] = SumFunction(w) + v[x]
<1>1. Units(v, S \ {x}) = Units(w, S \ {x})
  BY DEF Units
<1>2. /\ Cardinality(Units(w, S)) = w[x] + Cardinality(Units(w, S \ {x}))
      /\ Cardinality(Units(v, S)) = v[x] + Cardinality(Units(v, S \ {x}))
  BY UnitsSplit
<1>3. SumFunction(v) = Cardinality(Units(v, S)) /\ SumFunction(w) = Cardinality(Units(w, S))
  BY SumIsCount
<1>4. Cardinality(Units(v, S)) \in Nat /\ Cardinality(Units(w, S)) \in Nat
  BY UnitsFinite
<1>5. Cardinality(Units(w, S \ {x})) \in Nat
  <2>1. IsFiniteSet(S \ {x})
    BY FS_RemoveElement
  <2> DEFINE u == [y \in S \ {x} |-> w[y]]
  <2>2. Units(u, S \ {x}) = Units(w, S \ {x})
    BY DEF Units
  <2> QED BY <2>1, <2>2, UnitsFinite
<1> QED BY <1>1, <1>2, <1>3, <1>4, <1>5

-----------------------------------------------------------------------------
(* The queue.  No code is in it twice.                                     *)
Distinct(q) == \A i, j \in 1..Len(q) : q[i] = q[j] => i = j

LEMMA DistinctIsCount ==
    ASSUME NEW q \in Seq(Codes)
    PROVE  Distinct(q) <=> Len(q) = Cardinality(ToSet(q))
<1>1. Len(q) \in Nat /\ q \in [1..Len(q) -> ToSet(q)] /\ ToSet(q) \subseteq Codes
  BY DEF ToSet
<1>2. IsFiniteSet(1..Len(q)) /\ Cardinality(1..Len(q)) = Len(q)
  <2>1. IsFiniteSet(1..Len(q)) /\ Cardinality(1..Len(q)) = IF 1 > Len(q) THEN 0 ELSE Len(q) - 1 + 1
    BY <1>1, FS_Interval
  <2> QED BY <1>1, <2>1
<1>3. q \in Surjection(1..Len(q), ToSet(q))
  BY <1>1 DEF Surjection, ToSet
<1>4. IsFiniteSet(ToSet(q))
  BY <1>2, <1>3, FS_Surjection DEF ExistsSurjection
<1>5. ASSUME Distinct(q) PROVE Len(q) = Cardinality(ToSet(q))
  <2>1. q \in Bijection(1..Len(q), ToSet(q))
    BY <1>1, <1>3, <1>5 DEF Distinct, Bijection, Injection, IsInjective
  <2> QED BY <1>2, <2>1, FS_Bijection DEF ExistsBijection
<1>6. ASSUME Len(q) = Cardinality(ToSet(q)) PROVE Distinct(q)
  <2>1. q \in Injection(1..Len(q), ToSet(q))
    BY <1>2, <1>3, <1>4, <1>6, FS_SurjSameCardinalityImpliesInj
  <2> QED BY <2>1 DEF Distinct, Injection, IsInjective
<1> QED BY <1>5, <1>6

(* Queue q without its p-th code; all of it when p is behind its end.      *)
Skipping(q, p) ==
    [j \in 1..(IF p <= Len(q) THEN Len(q) - 1 ELSE Len(q)) |-> q[IF j < p THEN j ELSE j + 1]]

(* The recursion of Retained has one solution, and c is at p if anywhere.  *)
LEMMA RetainedSkips ==
    ASSUME NEW q \in Seq(Codes), NEW c, NEW p \in 1..(Len(q) + 1),
           p <= Len(q) => q[p] = c, \A k \in 1..Len(q) : k # p => q[k] # c
    PROVE  Retained(q, c) = Skipping(q, p) /\ Skipping(q, p) \in Seq(Codes)
<1> DEFINE n == Len(q)
           Step(g, k) == IF k = 0 THEN <<>>
                         ELSE IF q[k] = c THEN g[k - 1] ELSE Append(g[k - 1], q[k])
           skip == [k \in 0..n |-> [j \in 1..(IF p <= k THEN k - 1 ELSE k) |->
                                      q[IF j < p THEN j ELSE j + 1]]]
           Solves(g) == g = [k \in 0..n |-> Step(g, k)]
           kept == CHOOSE g : Solves(g)
<1>0. n \in Nat /\ p \in Nat /\ p >= 1 /\ q \in [1..n -> Codes]
  OBVIOUS
<1>1. Retained(q, c) = kept[n]
  BY DEF Retained
<1>2. ASSUME NEW k \in 0..n PROVE skip[k] = Step(skip, k) /\ skip[k] \in Seq(Codes)
  <2>0. k \in Nat /\ k <= n /\ (k # 0 => k - 1 \in 0..n)
    BY <1>0
  <2>1. skip[k] \in Seq(Codes)
    <3> DEFINE m == IF p <= k THEN k - 1 ELSE k
    <3>1. m \in Nat /\ \A j \in 1..m : (IF j < p THEN j ELSE j + 1) \in 1..n
      BY <1>0, <2>0
    <3> HIDE DEF m
    <3>2. [j \in 1..m |-> q[IF j < p THEN j ELSE j + 1]] \in [1..m -> Codes]
      BY <1>0, <3>1
    <3> QED BY <3>1, <3>2, IsASeq DEF m
  <2>2. CASE k = 0
    <3>1. skip[k] = [j \in 1..0 |-> q[IF j < p THEN j ELSE j + 1]]
      BY <1>0, <2>2
    <3> QED BY <2>1, <2>2, <3>1
  <2>3. CASE k # 0 /\ q[k] = c
    <3>1. k = p
      BY <1>0, <2>0, <2>3
    <3> QED BY <1>0, <2>0, <2>1, <2>3, <3>1
  <2>4. CASE k # 0 /\ q[k] # c
    <3>1. k # p /\ k - 1 \in 0..n /\ k \in 1..n
      BY <1>0, <2>0, <2>4
    <3> DEFINE m == IF p <= k THEN k - 1 ELSE k
               l == IF p <= k - 1 THEN k - 2 ELSE k - 1
    <3>2. l \in Nat /\ m = l + 1 /\ q[k] = q[IF m < p THEN m ELSE m + 1]
      BY <1>0, <2>0, <2>4, <3>1
    <3>3. skip[k - 1] = [j \in 1..l |-> q[IF j < p THEN j ELSE j + 1]]
      BY <3>1
    <3>4. skip[k] = [j \in 1..m |-> q[IF j < p THEN j ELSE j + 1]]
      OBVIOUS
    <3> HIDE DEF m, l, skip
    <3>5. Append(skip[k - 1], q[k]) = skip[k]
      BY <3>2, <3>3, <3>4
    <3> QED BY <2>1, <2>4, <3>5
  <2> QED BY <2>2, <2>3, <2>4
<1>3. skip[n] = Skipping(q, p)
  BY <1>0 DEF Skipping
<1>4. Solves(skip)
  <2>1. skip = [k \in 0..n |-> skip[k]]
    OBVIOUS
  <2> HIDE DEF skip
  <2> QED BY <1>2, <2>1
<1>5. Solves(kept)
  BY <1>4
<1> HIDE DEF kept, skip
<1>6. \A k \in 0..n : kept[k] = Step(kept, k)
  BY <1>5
<1> DEFINE Bad == {k \in 0..n : kept[k] # skip[k]}
<1>7. Bad = {}
  <2> SUFFICES ASSUME Bad # {} PROVE FALSE
    OBVIOUS
  <2>1. Bad \in SUBSET Nat
    BY <1>0
  <2>2. PICK k \in Bad : \A j \in Bad : k <= j
    <3> HIDE DEF Bad
    <3> QED BY <2>1, LeastNatural
  <2>3. k # 0
    BY <1>2, <1>6, <2>2
  <2>4. k - 1 \in 0..n /\ k - 1 \notin Bad
    BY <1>0, <2>2, <2>3
  <2>5. Step(kept, k) = Step(skip, k)
    BY <2>3, <2>4
  <2> QED BY <1>2, <1>6, <2>2, <2>5
<1>8. n \in 0..n
  BY <1>0
<1> QED BY <1>1, <1>2, <1>3, <1>7, <1>8

-----------------------------------------------------------------------------
(* A shard as the engines keep it.                                         *)
CacheOK(s) == s \in Shards /\ Consistent(s) /\ Len(s.order) <= CacheSize

(* The same in terms of positions.                                         *)
Listed(s) ==
    /\ Distinct(s.order)
    /\ \A d \in Codes : s.map[d] # None <=> \E k \in 1..Len(s.order) : s.order[k] = d

LEMMA ListedIsConsistent ==
    ASSUME NEW s \in Shards
    PROVE  Consistent(s) <=> Listed(s)
<1>1. s.order \in Seq(Codes)
  BY DEF Shards
<1>2. Distinct(s.order) <=> Len(s.order) = Cardinality(ToSet(s.order))
  BY <1>1, DistinctIsCount
<1>3. ToSet(s.order) = {c \in Codes : s.map[c] # None}
        <=> \A d \in Codes : s.map[d] # None <=> \E k \in 1..Len(s.order) : s.order[k] = d
  BY <1>1 DEF ToSet
<1> QED BY <1>2, <1>3 DEF Consistent, Listed

LEMMA NoCacheOK == CacheOK(NoCache)
<1>1. NoCache \in Shards /\ NoCache.order = <<>> /\ \A d \in Codes : NoCache.map[d] = None
  BY DEF NoCache, Shards
<1>2. Listed(NoCache)
  BY <1>1 DEF Listed, Distinct
<1> QED BY <1>1, <1>2, ListedIsConsistent, LruAssumption DEF CacheOK

(* remove, also of a code that is not cached.                              *)
LEMMA WithoutOK ==
    ASSUME NEW s, CacheOK(s), NEW c \in Codes
    PROVE  /\ CacheOK(Without(s, c))
           /\ Without(s, c).map = [s.map EXCEPT ![c] = None]
<1> DEFINE q == s.order
           t == Without(s, c)
<1>1. /\ q \in Seq(Codes) /\ s.map \in [Codes -> Entries \cup {None}]
      /\ Listed(s) /\ Len(q) <= CacheSize /\ Len(q) \in Nat
  BY ListedIsConsistent DEF CacheOK, Shards
<1>2. PICK p \in 1..(Len(q) + 1) : /\ p <= Len(q) => q[p] = c
                                   /\ \A k \in 1..Len(q) : k # p => q[k] # c
  <2>d. Len(q) \in Nat /\ \A i, j \in 1..Len(q) : q[i] = q[j] => i = j
    BY <1>1 DEF Listed, Distinct
  <2> HIDE DEF q
  <2>1. CASE \E k \in 1..Len(q) : q[k] = c
    <3>1. PICK p \in 1..Len(q) : q[p] = c
      BY <2>1
    <3>2. p \in 1..(Len(q) + 1) /\ \A k \in 1..Len(q) : k # p => q[k] # c
      BY <2>d, <3>1
    <3> QED BY <3>1, <3>2
  <2>2. CASE ~ \E k \in 1..Len(q) : q[k] = c
    <3>1. Len(q) + 1 \in 1..(Len(q) + 1) /\ ~(Len(q) + 1 <= Len(q))
      BY <2>d
    <3> QED BY <2>2, <3>1
  <2> QED BY <2>1, <2>2
<1>3. t.order = Skipping(q, p) /\ Skipping(q, p) \in Seq(Codes)
  BY <1>1, <1>2, RetainedSkips DEF Without
<1>4. t.map = [s.map EXCEPT ![c] = None] /\ t.map \in [Codes -> Entries \cup {None}]
  BY <1>1 DEF Without
<1>5. t \in Shards
  BY <1>3, <1>4 DEF Without, Shards
<1> DEFINE m == IF p <= Len(q) THEN Len(q) - 1 ELSE Len(q)
<1>6. m \in Nat /\ m <= Len(q) /\ \A j \in 1..m : (IF j < p THEN j ELSE j + 1) \in 1..Len(q) \ {p}
  BY <1>1, <1>2
<1>7. Len(t.order) = m /\ \A j \in 1..m : t.order[j] = q[IF j < p THEN j ELSE j + 1]
  BY <1>3, <1>6 DEF Skipping
<1> HIDE DEF t
<1>8. Distinct(t.order)
  <2> SUFFICES ASSUME NEW i \in 1..m, NEW j \in 1..m, t.order[i] = t.order[j] PROVE i = j
    BY <1>7 DEF Distinct
  <2>1. (IF i < p THEN i ELSE i + 1) = (IF j < p THEN j ELSE j + 1)
    <3>1. \A a, b \in 1..Len(q) : q[a] = q[b] => a = b
      BY <1>1 DEF Listed, Distinct
    <3> DEFINE a == IF i < p THEN i ELSE i + 1
               b == IF j < p THEN j ELSE j + 1
    <3>2. a \in 1..Len(q) /\ b \in 1..Len(q) /\ q[a] = q[b]
      BY <1>6, <1>7
    <3> HIDE DEF a, b, q
    <3>3. a = b
      BY <3>1, <3>2
    <3> QED BY <3>3 DEF a, b
  <2> QED BY <1>2, <1>6, <2>1
<1>9. ASSUME NEW d \in Codes
      PROVE  t.map[d] # None <=> \E k \in 1..m : t.order[k] = d
  <2>1. CASE d = c
    <3>1. t.map[d] = None
      BY <1>1, <1>4, <2>1
    <3>2. \A k \in 1..m : t.order[k] # c
      BY <1>2, <1>6, <1>7
    <3> QED BY <2>1, <3>1, <3>2
  <2>2. CASE d # c
    <3>1. t.map[d] = s.map[d]
      BY <1>1, <1>4, <2>2
    <3>2. ASSUME NEW k \in 1..Len(q), q[k] = d PROVE \E j \in 1..m : t.order[j] = d
      <4>1. k # p
        BY <1>2, <2>2, <3>2
      <4> DEFINE j == IF k < p THEN k ELSE k - 1
      <4>2. j \in 1..m /\ (IF j < p THEN j ELSE j + 1) = k
        BY <1>1, <1>2, <4>1
      <4> HIDE DEF j, m
      <4> QED BY <1>7, <3>2, <4>2
    <3>3. ASSUME NEW k \in 1..m, t.order[k] = d PROVE \E j \in 1..Len(q) : q[j] = d
      BY <1>6, <1>7, <3>3
    <3> QED BY <1>1, <3>1, <3>2, <3>3 DEF Listed
  <2> QED BY <2>1, <2>2
<1>10. Listed(t)
  BY <1>7, <1>8, <1>9 DEF Listed
<1>11. Len(t.order) <= CacheSize
  BY <1>1, <1>6, <1>7, LruAssumption
<1>12. CacheOK(t)
  BY <1>5, <1>10, <1>11, ListedIsConsistent DEF CacheOK
<1> QED BY <1>4, <1>12 DEF t

(* get.                                                                    *)
LEMMA LookedOK ==
    ASSUME NEW s, CacheOK(s), NEW c \in Codes, NEW now \in Nat
    PROVE  /\ CacheOK(Looked(s, c, now))
           /\ \A d \in Codes : Looked(s, c, now).map[d] \in {s.map[d], None}
<1>1. s.map \in [Codes -> Entries \cup {None}]
  BY DEF CacheOK, Shards
<1>2. CASE s.map[c] # None /\ ~ Fresh(s.map[c], now)
  <2>1. Looked(s, c, now) = Without(s, c)
    BY <1>2 DEF Looked
  <2>2. CacheOK(Without(s, c)) /\ Without(s, c).map = [s.map EXCEPT ![c] = None]
    BY WithoutOK
  <2> QED BY <1>1, <2>1, <2>2
<1>3. CASE ~ (s.map[c] # None /\ ~ Fresh(s.map[c], now))
  BY <1>3 DEF Looked
<1> QED BY <1>2, <1>3

(* put: within the bound, the entry is there, and others at most leave.    *)
LEMMA WithOK ==
    ASSUME NEW s, CacheOK(s), NEW c \in Codes, NEW x \in Entries, None \notin Entries
    PROVE  /\ CacheOK(With(s, c, x))
           /\ With(s, c, x).map[c] = x
           /\ \A d \in Codes \ {c} : With(s, c, x).map[d] \in {s.map[d], None}
<1> DEFINE q == s.order
           t == With(s, c, x)
<1>1. /\ q \in Seq(Codes) /\ s.map \in [Codes -> Entries \cup {None}]
      /\ Listed(s) /\ Len(q) <= CacheSize /\ Len(q) \in Nat
      /\ CacheSize \in Nat /\ CacheSize > 0
  BY ListedIsConsistent, LruAssumption DEF CacheOK, Shards
<1>2. CASE s.map[c] # None
  <2>1. t = [s EXCEPT !.map[c] = x]
    BY <1>2 DEF With
  <2>2. t \in Shards /\ t.order = q /\ t.map = [s.map EXCEPT ![c] = x]
    BY <1>1, <2>1 DEF CacheOK, Shards
  <2>3. \A d \in Codes : t.map[d] # None <=> s.map[d] # None
    BY <1>1, <1>2, <2>2
  <2>4. Listed(t)
    BY <1>1, <2>2, <2>3 DEF Listed
  <2>5. CacheOK(t)
    BY <1>1, <2>2, <2>4, ListedIsConsistent DEF CacheOK
  <2> HIDE DEF t
  <2> QED BY <1>1, <2>2, <2>5 DEF t
<1>3. CASE s.map[c] = None
  <2> DEFINE n == Popped(q)
             out == {q[k] : k \in 1..n}
             rest == SubSeq(q, n + 1, Len(q))
  <2>1. /\ n \in 0..Len(q) /\ Len(q) - n < CacheSize /\ Len(q) - n \in Nat
    <3>1. n = IF Len(q) = CacheSize THEN 1 ELSE 0
      BY <1>1 DEF Popped
    <3>2. Len(q) \in Nat /\ Len(q) <= CacheSize /\ CacheSize \in Nat /\ CacheSize > 0
      BY <1>1
    <3> HIDE DEF n, q
    <3>3. CASE Len(q) = CacheSize
      BY <3>1, <3>2, <3>3
    <3>4. CASE Len(q) # CacheSize
      BY <3>1, <3>2, <3>4
    <3> QED BY <3>3, <3>4
  <2>2. /\ t.order = Append(rest, c)
        /\ t.map = [d \in Codes |-> IF d = c THEN x ELSE IF d \in out THEN None ELSE s.map[d]]
        /\ t = [map |-> t.map, order |-> t.order]
    BY <1>3 DEF With
  <2> HIDE DEF t, n
  <2>3. /\ rest \in Seq(Codes) /\ Len(rest) = Len(q) - n
        /\ \A k \in 1..(Len(q) - n) : rest[k] = q[k + n]
    <3>1. n + 1 \in 1..(Len(q) + 1) /\ Len(q) \in n..Len(q)
      BY <1>1, <2>1
    <3>2. /\ rest \in Seq(Codes)
          /\ Len(rest) = IF n + 1 <= Len(q) THEN Len(q) - (n + 1) + 1 ELSE 0
          /\ \A k \in 1..(Len(q) - (n + 1) + 1) : rest[k] = q[(n + 1) + k - 1]
      <4>1. n + 1 \in Int /\ Len(q) \in Int /\ \A k \in (n + 1)..Len(q) : q[k] \in Codes
        BY <1>1, <2>1
      <4> HIDE DEF q
      <4> QED BY <4>1, SubSeqProperties
    <3> HIDE DEF rest
    <3> QED BY <1>1, <2>1, <3>2
  <2> HIDE DEF rest
  <2>4. /\ t.order \in Seq(Codes) /\ Len(t.order) = Len(q) - n + 1
        /\ t.order[Len(q) - n + 1] = c
        /\ \A k \in 1..(Len(q) - n) : t.order[k] = q[k + n]
    BY <2>1, <2>2, <2>3
  <2>5. t.map \in [Codes -> Entries \cup {None}]
    BY <1>1, <2>2
  <2>6. t \in Shards
    BY <2>2, <2>4, <2>5 DEF Shards
  <2>7. \A k \in 1..Len(q) : q[k] # c
    BY <1>1, <1>3 DEF Listed
  <2>s. \A k \in 1..(Len(q) - n) : k + n \in 1..Len(q)
    BY <1>1, <2>1
  <2>8. Distinct(t.order)
    <3> SUFFICES ASSUME NEW i \in 1..(Len(q) - n + 1), NEW j \in 1..(Len(q) - n + 1),
                        t.order[i] = t.order[j]
                 PROVE  i = j
      BY <2>4 DEF Distinct
    <3> HIDE DEF q
    <3>1. CASE i \in 1..(Len(q) - n) /\ j \in 1..(Len(q) - n)
      <4>1. i + n \in 1..Len(q) /\ j + n \in 1..Len(q) /\ q[i + n] = q[j + n]
        BY <2>4, <2>s, <3>1
      <4>2. i + n = j + n
        BY <1>1, <4>1 DEF q, Listed, Distinct
      <4> QED BY <2>1, <4>2
    <3>2. CASE i = Len(q) - n + 1 /\ j \in 1..(Len(q) - n)
      <4>1. j + n \in 1..Len(q) /\ q[j + n] = c
        BY <2>4, <2>s, <3>2
      <4> QED BY <2>7, <4>1
    <3>3. CASE j = Len(q) - n + 1 /\ i \in 1..(Len(q) - n)
      <4>1. i + n \in 1..Len(q) /\ q[i + n] = c
        BY <2>4, <2>s, <3>3
      <4> QED BY <2>7, <4>1
    <3>4. CASE i = Len(q) - n + 1 /\ j = Len(q) - n + 1
      BY <3>4
    <3>5. /\ i \in 1..(Len(q) - n) \/ i = Len(q) - n + 1
          /\ j \in 1..(Len(q) - n) \/ j = Len(q) - n + 1
      BY <2>1
    <3> QED BY <3>1, <3>2, <3>3, <3>4, <3>5
  <2>9. ASSUME NEW d \in Codes
        PROVE  t.map[d] # None <=> \E k \in 1..(Len(q) - n + 1) : t.order[k] = d
    <3>1. CASE d = c
      <4>1. t.map[d] # None
        BY <2>2, <3>1
      <4>2. Len(q) - n + 1 \in 1..(Len(q) - n + 1)
        BY <2>1
      <4> QED BY <2>4, <3>1, <4>1, <4>2
    <3>2. CASE d # c
      <4>1. ASSUME NEW k \in 1..Len(q), q[k] = d, d \notin out
            PROVE  \E j \in 1..(Len(q) - n + 1) : t.order[j] = d
        <5>1. k - n \in 1..(Len(q) - n) /\ (k - n) + n = k
          BY <1>1, <2>1, <4>1
        <5>2. t.order[k - n] = d
          BY <2>4, <4>1, <5>1
        <5>3. k - n \in 1..(Len(q) - n + 1)
          BY <2>1, <5>1
        <5> QED BY <5>2, <5>3
      <4>2. ASSUME NEW k \in 1..(Len(q) - n + 1), t.order[k] = d
            PROVE  d \notin out /\ \E j \in 1..Len(q) : q[j] = d
        <5>1. k \in 1..(Len(q) - n)
          BY <2>1, <2>4, <3>2, <4>2
        <5>2. k + n \in 1..Len(q) /\ q[k + n] = d
          <6>1. k + n \in 1..Len(q)
            BY <1>1, <2>1, <5>1
          <6>2. t.order[k] = q[k + n]
            BY <2>4, <5>1
          <6> QED BY <4>2, <6>1, <6>2
        <5>3. ASSUME NEW j \in 1..n, q[j] = d PROVE FALSE
          <6>1. j \in 1..Len(q) /\ j = k + n
            BY <1>1, <2>1, <5>2, <5>3 DEF Listed, Distinct
          <6> QED BY <2>1, <5>1, <5>3, <6>1
        <5> QED BY <5>2, <5>3
      <4>3. t.map[d] # None <=> d \notin out /\ s.map[d] # None
        BY <2>2, <3>2
      <4>4. s.map[d] # None <=> \E k \in 1..Len(q) : q[k] = d
        BY <1>1 DEF Listed
      <4> HIDE DEF out
      <4> QED BY <4>1, <4>2, <4>3, <4>4
    <3> QED BY <3>1, <3>2
  <2>10. Listed(t)
    BY <2>4, <2>8, <2>9 DEF Listed
  <2>11. Len(t.order) <= CacheSize
    BY <1>1, <2>1, <2>4
  <2>12. CacheOK(t)
    BY <2>6, <2>10, <2>11, ListedIsConsistent DEF CacheOK
  <2> HIDE DEF out
  <2>13. t.map[c] = x /\ \A d \in Codes \ {c} : t.map[d] \in {s.map[d], None}
    BY <2>2
  <2> QED BY <2>12, <2>13 DEF t
<1> QED BY <1>2, <1>3
=============================================================================
