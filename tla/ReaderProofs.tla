---------------------------- MODULE ReaderProofs ----------------------------
(***************************************************************************)
(* What the sums of RunHistory say for every size of a file: no run is     *)
(* counted twice, and the reader reports the runs of the days it is asked  *)
(* for and no others.                                                      *)
(*                                                                         *)
(* A sum is compared with another by moving each of its values to a place  *)
(* of the other (SumMoved): a bucket to its day, a day to its bucket.  The *)
(* first two sections make that a lemma about MapThenSumSet.               *)
(***************************************************************************)
EXTENDS RunHistoryProofs, WellFoundedInduction

-----------------------------------------------------------------------------
(* Induction over the subsets of a finite set. *)

\* Among subsets of a finite set there is one without any of them inside.
LEMMA SmallestSubset ==
  ASSUME NEW S, IsFiniteSet(S), NEW Bad, Bad \subseteq SUBSET S, Bad # {}
  PROVE  \E s \in Bad : \A r \in SUBSET s : r # s => r \notin Bad
<1>1. IsWellFoundedOn(StrictSubsetOrdering(S), SUBSET S)
  BY FS_StrictSubsetOrderingWellFounded, FS_FiniteSubsetsOfFinite
<1>2. PICK s \in Bad : \A r \in Bad : ~ (<<r, s>> \in StrictSubsetOrdering(S))
  BY <1>1, WFMin
<1>3. ASSUME NEW r \in SUBSET s, r # s, r \in Bad
      PROVE  FALSE
  <2>1. r \in SUBSET S /\ s \in SUBSET S
    OBVIOUS
  <2>2. <<r, s>> \in (SUBSET S) \X (SUBSET S)
    BY <2>1
  <2>3. <<r, s>> \in StrictSubsetOrdering(S)
    BY <2>2, <1>3 DEF StrictSubsetOrdering
  <2> QED
    BY <1>2, <1>3, <2>3
<1> QED
  BY <1>3

\* What holds of the empty set, and of a set with one more element when it
\* holds of the set without it, holds of every finite set.
LEMMA SubsetInduction ==
  ASSUME NEW S, IsFiniteSet(S), NEW Good, {} \in Good,
         \A s \in SUBSET S : \A x \in S \ s : s \in Good => s \cup {x} \in Good
  PROVE  \A s \in SUBSET S : s \in Good
<1> DEFINE Bad == (SUBSET S) \ Good
<1> SUFFICES ASSUME Bad # {} PROVE FALSE
  OBVIOUS
<1>1. PICK s \in Bad : \A r \in SUBSET s : r # s => r \notin Bad
  <2>1. Bad \subseteq SUBSET S
    OBVIOUS
  <2> HIDE DEF Bad
  <2> QED
    BY <2>1, SmallestSubset
<1>2. s \in SUBSET S /\ s \notin Good
  BY <1>1
<1>3. PICK x : x \in s
  <2>1. s # {}
    BY <1>2, Zenon
  <2> QED
    BY <2>1
<1>4. s \ {x} \in Good
  BY <1>1, <1>3
<1>5. s = (s \ {x}) \cup {x}
  BY <1>3
<1>6. s \in Good
  <2>1. s \ {x} \in SUBSET S /\ x \in S \ (s \ {x})
    BY <1>3
  <2>2. (s \ {x}) \cup {x} \in Good
    BY <1>4, <2>1
  <2> QED
    BY <1>5, <2>2
<1> QED
  BY <1>2, <1>6

-----------------------------------------------------------------------------
(* Sums: MapThenSumSet adds up the values in an order that CHOOSE makes.   *)

Sum(g, X) == MapThenSumSet(LAMBDA x : g[x], X)

Some1(s) == CHOOSE x \in s : TRUE

\* The equations of the recursive function in MapThenFoldSet.
AddsUp(g, X, h) ==
  h = [s \in SUBSET X |-> IF s = {} THEN 0 ELSE g[Some1(s)] + h[s \ {Some1(s)}]]

LEMMA SumUnfolds ==
  ASSUME NEW g, NEW X
  PROVE  Sum(g, X) = (CHOOSE h : AddsUp(g, X, h))[X]
  BY DEF Sum, MapThenSumSet, MapThenFoldSet, AddsUp, Some1

\* A smallest of a set of numbers.
LEMMA SmallestNumber ==
  ASSUME NEW N, N \subseteq Nat, N # {}
  PROVE  \E n \in N : \A m \in N : n <= m
<1>1. PICK n \in N : \A m \in N : ~ (<<m, n>> \in OpToRel(<, Nat))
  BY NatLessThanWellFounded, WFMin
<1>2. ASSUME NEW m \in N
      PROVE  n <= m
  <2>1. m \in Nat /\ n \in Nat
    OBVIOUS
  <2>2. ~ (m < n)
    BY <1>1, <2>1 DEF OpToRel
  <2> QED
    BY <2>1, <2>2
<1> QED
  BY <1>2

\* What h says of a set, if it is one of at most n elements.
AddsUpTo(g, S, h, n) ==
  \A s \in SUBSET S : Cardinality(s) <= n =>
    h[s] = IF s = {} THEN 0 ELSE g[Some1(s)] + h[s \ {Some1(s)}]

LEMMA OneLess ==
  ASSUME NEW S, IsFiniteSet(S), NEW s \in SUBSET S
  PROVE  /\ IsFiniteSet(s) /\ Cardinality(s) \in Nat
         /\ Cardinality(s) = 0 <=> s = {}
         /\ s # {} => /\ Some1(s) \in s
                      /\ s \ {Some1(s)} \in SUBSET S
                      /\ Cardinality(s \ {Some1(s)}) = Cardinality(s) - 1
<1>1. IsFiniteSet(s)
  BY FS_Subset
<1>2. Cardinality(s) \in Nat /\ (Cardinality(s) = 0 <=> s = {})
  BY <1>1, FS_CardinalityType, FS_EmptySet
<1>3. ASSUME s # {}
      PROVE  Some1(s) \in s
  BY <1>3 DEF Some1
<1>4. ASSUME s # {}
      PROVE  Cardinality(s \ {Some1(s)}) = Cardinality(s) - 1
  <2>1. PICK x : x = Some1(s)
    OBVIOUS
  <2> QED
    BY <1>1, <1>3, <1>4, <2>1, FS_RemoveElement
<1> QED
  BY <1>1, <1>2, <1>3, <1>4

\* There is a function that adds up all subsets.
LEMMA SumsExist ==
  ASSUME NEW S, IsFiniteSet(S), NEW g \in [S -> Nat]
  PROVE  \E h \in [SUBSET S -> Nat] : AddsUp(g, S, h)
<1> DEFINE Upto(n) == \E h \in [SUBSET S -> Nat] : AddsUpTo(g, S, h, n)
           N == {n \in Nat : ~ Upto(n)}
<1>1. Upto(0)
  <2> DEFINE h == [s \in SUBSET S |-> 0]
  <2>1. h \in [SUBSET S -> Nat]
    OBVIOUS
  <2>2. ASSUME NEW s \in SUBSET S, Cardinality(s) <= 0
        PROVE  s = {}
    <3>1. Cardinality(s) \in Nat /\ (Cardinality(s) = 0 <=> s = {})
      BY OneLess
    <3> QED
      BY <2>2, <3>1
  <2>3. AddsUpTo(g, S, h, 0)
    BY <2>2 DEF AddsUpTo
  <2> QED
    BY <2>1, <2>3
<1>2. ASSUME NEW n \in Nat, Upto(n)
      PROVE  Upto(n + 1)
  <2>1. PICK h \in [SUBSET S -> Nat] : AddsUpTo(g, S, h, n)
    BY <1>2
  <2> DEFINE k == [s \in SUBSET S |->
                     IF Cardinality(s) <= n THEN h[s] ELSE
                     IF s = {} THEN 0 ELSE g[Some1(s)] + h[s \ {Some1(s)}]]
  <2>2. k \in [SUBSET S -> Nat]
    <3>1. ASSUME NEW s \in SUBSET S, s # {}
          PROVE  g[Some1(s)] + h[s \ {Some1(s)}] \in Nat
      <4>1. Some1(s) \in S /\ s \ {Some1(s)} \in SUBSET S
        BY <3>1, OneLess
      <4> QED
        BY <4>1
    <3> QED
      BY <3>1
  <2>3. ASSUME NEW s \in SUBSET S, Cardinality(s) <= n + 1
        PROVE  k[s] = IF s = {} THEN 0 ELSE g[Some1(s)] + k[s \ {Some1(s)}]
    <3>1. CASE s = {}
      BY <2>1, <3>1 DEF AddsUpTo
    <3>2. CASE s # {}
      <4>1. /\ Cardinality(s) \in Nat
            /\ s \ {Some1(s)} \in SUBSET S
            /\ Cardinality(s \ {Some1(s)}) = Cardinality(s) - 1
        BY <3>2, OneLess
      <4>2. k[s \ {Some1(s)}] = h[s \ {Some1(s)}]
        BY <2>3, <4>1
      <4>3. CASE Cardinality(s) <= n
        BY <2>1, <3>2, <4>2, <4>3 DEF AddsUpTo
      <4>4. CASE ~ (Cardinality(s) <= n)
        BY <3>2, <4>2, <4>4
      <4> QED
        BY <4>3, <4>4
    <3> QED
      BY <3>1, <3>2
  <2> HIDE DEF k
  <2>4. AddsUpTo(g, S, k, n + 1)
    BY <2>3 DEF AddsUpTo
  <2> QED
    BY <2>2, <2>4
<1>3. N = {}
  <2> SUFFICES ASSUME N # {} PROVE FALSE
    OBVIOUS
  <2>1. N \subseteq Nat
    OBVIOUS
  <2> HIDE DEF N
  <2>2. PICK n \in N : \A m \in N : n <= m
    BY <2>1, SmallestNumber
  <2> USE DEF N
  <2>3. n # 0
    BY <1>1
  <2>4. n - 1 \in Nat /\ n - 1 \notin N
    <3>1. n \in Nat
      OBVIOUS
    <3> HIDE DEF N
    <3> QED
      BY <2>2, <2>3, <3>1
  <2>5. Upto(n - 1)
    BY <2>4
  <2>6. Upto((n - 1) + 1)
    BY <1>2, <2>4, <2>5
  <2>7. (n - 1) + 1 = n
    OBVIOUS
  <2> QED
    BY <2>6, <2>7
<1>4. Cardinality(S) \in Nat
  BY FS_CardinalityType
<1>5. PICK h \in [SUBSET S -> Nat] : AddsUpTo(g, S, h, Cardinality(S))
  BY <1>3, <1>4
<1>6. ASSUME NEW s \in SUBSET S
      PROVE  Cardinality(s) <= Cardinality(S)
  BY FS_Subset
<1>7. ASSUME NEW s \in SUBSET S
      PROVE  h[s] = IF s = {} THEN 0 ELSE g[Some1(s)] + h[s \ {Some1(s)}]
  BY <1>5, <1>6 DEF AddsUpTo
<1> QED
  BY <1>5, <1>7 DEF AddsUp

\* There is only one.
LEMMA SumsAgree ==
  ASSUME NEW X, IsFiniteSet(X), NEW g, NEW h, NEW k, AddsUp(g, X, h), AddsUp(g, X, k)
  PROVE  h = k
<1> DEFINE Bad == {s \in SUBSET X : h[s] # k[s]}
<1>1. Bad = {}
  <2> SUFFICES ASSUME Bad # {} PROVE FALSE
    OBVIOUS
  <2>1. PICK s \in Bad : \A r \in SUBSET s : r # s => r \notin Bad
    <3>1. Bad \subseteq SUBSET X
      OBVIOUS
    <3> HIDE DEF Bad
    <3> QED
      BY <3>1, SmallestSubset
  <2>2. s # {}
    BY DEF AddsUp
  <2>3. Some1(s) \in s
    BY <2>2 DEF Some1
  <2>4. h[s \ {Some1(s)}] = k[s \ {Some1(s)}]
    BY <2>1, <2>3
  <2>5. /\ h[s] = g[Some1(s)] + h[s \ {Some1(s)}]
        /\ k[s] = g[Some1(s)] + k[s \ {Some1(s)}]
    BY <2>2 DEF AddsUp
  <2> QED
    BY <2>4, <2>5
<1> QED
  BY <1>1 DEF AddsUp

\* The sums of the subsets of S, by any function that adds them up.
LEMMA SumOfSubset ==
  ASSUME NEW S, IsFiniteSet(S), NEW g, NEW h, AddsUp(g, S, h), NEW X \in SUBSET S
  PROVE  Sum(g, X) = h[X]
<1> DEFINE k == [s \in SUBSET X |-> h[s]]
<1>1. AddsUp(g, X, k)
  <2>1. ASSUME NEW s \in SUBSET X
        PROVE  k[s] = IF s = {} THEN 0 ELSE g[Some1(s)] + k[s \ {Some1(s)}]
    BY DEF AddsUp
  <2> QED
    BY <2>1 DEF AddsUp
<1>2. IsFiniteSet(X)
  BY FS_Subset
<1> HIDE DEF k
<1>3. (CHOOSE f : AddsUp(g, X, f)) = k
  BY <1>1, <1>2, SumsAgree
<1> QED
  BY <1>3, SumUnfolds DEF k

\* The first element makes no difference.
LEMMA SumEmpty ==
  ASSUME NEW g
  PROVE  Sum(g, {}) = 0
<1> DEFINE h == [s \in SUBSET {} |-> 0]
<1>1. AddsUp(g, {}, h)
  BY DEF AddsUp
<1>2. IsFiniteSet({})
  BY FS_EmptySet
<1> HIDE DEF h
<1>3. Sum(g, {}) = h[{}]
  BY <1>1, <1>2, SumOfSubset
<1> QED
  BY <1>3 DEF h

LEMMA SumType ==
  ASSUME NEW S, IsFiniteSet(S), NEW g \in [S -> Nat], NEW X \in SUBSET S
  PROVE  Sum(g, X) \in Nat
<1>1. PICK h \in [SUBSET S -> Nat] : AddsUp(g, S, h)
  BY SumsExist
<1>2. Sum(g, X) = h[X]
  BY <1>1, SumOfSubset
<1> QED
  BY <1>2

LEMMA SumAdds ==
  ASSUME NEW S, IsFiniteSet(S), NEW g \in [S -> Nat], NEW X \in SUBSET S, NEW x \in S \ X
  PROVE  Sum(g, X \cup {x}) = g[x] + Sum(g, X)
<1>1. PICK h \in [SUBSET S -> Nat] : AddsUp(g, S, h)
  BY SumsExist
<1>2. \A s \in SUBSET S : Sum(g, s) = h[s]
  BY <1>1, SumOfSubset
<1>3. \A s \in SUBSET S : s # {} => h[s] = g[Some1(s)] + h[s \ {Some1(s)}]
  BY <1>1 DEF AddsUp
<1> DEFINE Adds(s) == \A y \in S \ s : h[s \cup {y}] = g[y] + h[s]
           Bad == {s \in SUBSET S : ~ Adds(s)}
<1>4. Bad = {}
  <2> SUFFICES ASSUME Bad # {} PROVE FALSE
    OBVIOUS
  <2>1. PICK s \in Bad : \A r \in SUBSET s : r # s => r \notin Bad
    <3>1. Bad \subseteq SUBSET S
      OBVIOUS
    <3> HIDE DEF Bad
    <3> QED
      BY <3>1, SmallestSubset
  <2>2. s \in SUBSET S /\ ~ Adds(s)
    BY <2>1
  <2>3. PICK y \in S \ s : h[s \cup {y}] # g[y] + h[s]
    BY <2>2
  <2>4. \A r \in SUBSET s : r # s => Adds(r)
    BY <2>1, <2>2
  <2> DEFINE t == s \cup {y}
  <2>5. PICK z : z = Some1(t)
    OBVIOUS
  <2>6. z \in t /\ t \in SUBSET S /\ h[t] = g[z] + h[t \ {z}]
    <3>1. t # {} /\ t \in SUBSET S
      BY <2>2
    <3>2. z \in t
      BY <2>5, <3>1 DEF Some1
    <3> QED
      BY <1>3, <2>5, <3>1, <3>2
  <2>7. CASE z = y
    <3>1. t \ {z} = s
      BY <2>3, <2>7
    <3> QED
      BY <2>3, <2>6, <2>7, <3>1
  <2>8. CASE z # y
    <3>1. z \in s
      BY <2>6, <2>8
    <3>2. PICK r : r = s \ {z}
      OBVIOUS
    <3>3. r \in SUBSET s /\ r # s /\ y \in S \ r /\ z \in S \ r /\ r \in SUBSET S
      BY <2>2, <2>3, <3>1, <3>2
    <3>4. Adds(r)
      BY <2>4, <3>3
    <3>5. t \ {z} = r \cup {y} /\ s = r \cup {z}
      BY <2>3, <2>8, <3>1, <3>2
    <3>6. h[r \cup {y}] = g[y] + h[r] /\ h[r \cup {z}] = g[z] + h[r]
      BY <3>3, <3>4
    <3>7. g[y] \in Nat /\ g[z] \in Nat /\ h[r] \in Nat
      BY <3>3
    <3>8. h[t] = g[z] + (g[y] + h[r]) /\ h[s] = g[z] + h[r]
      BY <2>6, <3>5, <3>6
    <3>9. h[t] # g[y] + h[s]
      BY <2>3
    <3> HIDE DEF t
    <3> QED
      BY <3>7, <3>8, <3>9
  <2> QED
    BY <2>7, <2>8
<1>5. h[X \cup {x}] = g[x] + h[X]
  <2>1. Adds(X)
    BY <1>4
  <2> QED
    BY <2>1
<1>6. X \cup {x} \in SUBSET S
  OBVIOUS
<1> QED
  BY <1>2, <1>5, <1>6

-----------------------------------------------------------------------------
(* What the proofs use of sums.                                            *)

\* Values that are equal have equal sums.
LEMMA SumSame ==
  ASSUME NEW X, IsFiniteSet(X), NEW g \in [X -> Nat], NEW k, \A x \in X : g[x] = k[x]
  PROVE  Sum(k, X) = Sum(g, X)
<1>1. PICK h \in [SUBSET X -> Nat] : AddsUp(g, X, h)
  BY SumsExist
<1>2. ASSUME NEW s \in SUBSET X, s # {}
      PROVE  g[Some1(s)] = k[Some1(s)]
  BY <1>2 DEF Some1
<1>3. AddsUp(k, X, h)
  BY <1>1, <1>2 DEF AddsUp
<1> QED
  BY <1>1, <1>3, SumOfSubset

\* m takes different elements of X to different elements of Y.
Embeds(m, X, Y) ==
  /\ m \in [X -> Y]
  /\ \A x, y \in X : m[x] = m[y] => x = y

Image(m, s) == {m[x] : x \in s}

\* Values that are at most those of other elements have a sum that is at most
\* theirs.
LEMMA SumImageAtMost ==
  ASSUME NEW X, IsFiniteSet(X), NEW Y, IsFiniteSet(Y),
         NEW g \in [X -> Nat], NEW k \in [Y -> Nat], NEW m, Embeds(m, X, Y),
         \A x \in X : g[x] <= k[m[x]]
  PROVE  Sum(g, X) <= Sum(k, Image(m, X))
<1> DEFINE Good == {s \in SUBSET X : Sum(g, s) <= Sum(k, Image(m, s))}
<1>1. {} \in Good
  <2>1. Image(m, {}) = {}
    BY DEF Image
  <2> QED
    BY <2>1, SumEmpty
<1>2. ASSUME NEW s \in SUBSET X, NEW x \in X \ s, s \in Good
      PROVE  s \cup {x} \in Good
  <2>1. PICK i : i = Image(m, s)
    OBVIOUS
  <2>2. i \in SUBSET Y /\ m[x] \in Y \ i /\ Image(m, s \cup {x}) = i \cup {m[x]}
    BY <2>1 DEF Image, Embeds
  <2>3. Sum(g, s \cup {x}) = g[x] + Sum(g, s)
    BY SumAdds
  <2>4. Sum(k, i \cup {m[x]}) = k[m[x]] + Sum(k, i)
    <3>1. PICK y : y = m[x]
      OBVIOUS
    <3> QED
      BY <2>2, <3>1, SumAdds
  <2>5. Sum(g, s) \in Nat /\ Sum(k, i) \in Nat
    BY <2>2, SumType
  <2>6. g[x] \in Nat /\ k[m[x]] \in Nat /\ g[x] <= k[m[x]]
    BY <2>2
  <2>7. Sum(g, s) <= Sum(k, i)
    BY <1>2, <2>1
  <2>8. Sum(g, s \cup {x}) <= Sum(k, Image(m, s \cup {x}))
    <3>1. \A a, b, c, d \in Nat : a <= b /\ c <= d => a + c <= b + d
      OBVIOUS
    <3>2. g[x] + Sum(g, s) <= k[m[x]] + Sum(k, i)
      BY <2>5, <2>6, <2>7, <3>1
    <3> QED
      BY <2>2, <2>3, <2>4, <3>2
  <2>9. s \cup {x} \in SUBSET X
    OBVIOUS
  <2> QED
    BY <2>8, <2>9
<1> HIDE DEF Good
<1>3. \A s \in SUBSET X : s \in Good
  BY <1>1, <1>2, SubsetInduction
<1> QED
  BY <1>3 DEF Good

\* Values that are equal to those of the other elements have their sum.
LEMMA SumOfImage ==
  ASSUME NEW X, IsFiniteSet(X), NEW Y, IsFiniteSet(Y),
         NEW g \in [X -> Nat], NEW k \in [Y -> Nat], NEW m, Embeds(m, X, Y),
         \A x \in X : g[x] = k[m[x]]
  PROVE  Sum(g, X) = Sum(k, Image(m, X))
<1> DEFINE Good == {s \in SUBSET X : Sum(g, s) = Sum(k, Image(m, s))}
<1>1. {} \in Good
  <2>1. Image(m, {}) = {}
    BY DEF Image
  <2> QED
    BY <2>1, SumEmpty
<1>2. ASSUME NEW s \in SUBSET X, NEW x \in X \ s, s \in Good
      PROVE  s \cup {x} \in Good
  <2>1. PICK i : i = Image(m, s)
    OBVIOUS
  <2>2. i \in SUBSET Y /\ m[x] \in Y \ i /\ Image(m, s \cup {x}) = i \cup {m[x]}
    BY <2>1 DEF Image, Embeds
  <2>3. Sum(g, s \cup {x}) = g[x] + Sum(g, s)
    BY SumAdds
  <2>4. Sum(k, i \cup {m[x]}) = k[m[x]] + Sum(k, i)
    <3>1. PICK y : y = m[x]
      OBVIOUS
    <3> QED
      BY <2>2, <3>1, SumAdds
  <2>5. Sum(g, s) = Sum(k, i)
    BY <1>2, <2>1
  <2>6. Sum(g, s \cup {x}) = Sum(k, Image(m, s \cup {x}))
    BY <2>2, <2>3, <2>4, <2>5
  <2>7. s \cup {x} \in SUBSET X
    OBVIOUS
  <2> QED
    BY <2>6, <2>7
<1> HIDE DEF Good
<1>3. \A s \in SUBSET X : s \in Good
  BY <1>1, <1>2, SubsetInduction
<1> QED
  BY <1>3 DEF Good

\* A subset has at most the sum of the set, and the same if there is nothing
\* outside of it.
LEMMA SumOfPart ==
  ASSUME NEW X, IsFiniteSet(X), NEW g \in [X -> Nat], NEW Y \in SUBSET X
  PROVE  /\ Sum(g, Y) <= Sum(g, X)
         /\ (\A x \in X \ Y : g[x] = 0) => Sum(g, Y) = Sum(g, X)
<1> DEFINE Good == {s \in SUBSET (X \ Y) :
                      /\ Sum(g, Y) <= Sum(g, Y \cup s)
                      /\ (\A x \in X \ Y : g[x] = 0) => Sum(g, Y) = Sum(g, Y \cup s)}
<1>1. {} \in Good
  <2>1. Y \cup {} = Y
    OBVIOUS
  <2>2. Sum(g, Y) \in Nat
    BY SumType
  <2> QED
    BY <2>1, <2>2
<1>2. ASSUME NEW s \in SUBSET (X \ Y), NEW x \in (X \ Y) \ s, s \in Good
      PROVE  s \cup {x} \in Good
  <2>1. PICK t : t = Y \cup s
    OBVIOUS
  <2>2. t \in SUBSET X /\ x \in X \ t /\ Y \cup (s \cup {x}) = t \cup {x}
    BY <2>1
  <2>3. Sum(g, t \cup {x}) = g[x] + Sum(g, t)
    BY <2>2, SumAdds
  <2>4. Sum(g, Y) \in Nat /\ Sum(g, t) \in Nat /\ g[x] \in Nat
    BY <2>2, SumType
  <2>5. /\ Sum(g, Y) <= Sum(g, t)
        /\ (\A z \in X \ Y : g[z] = 0) => Sum(g, Y) = Sum(g, t)
    BY <1>2, <2>1
  <2>6. Sum(g, Y) <= g[x] + Sum(g, t)
    BY <2>4, <2>5
  <2>7. (\A z \in X \ Y : g[z] = 0) => Sum(g, Y) = g[x] + Sum(g, t)
    <3> SUFFICES ASSUME \A z \in X \ Y : g[z] = 0
                 PROVE  Sum(g, Y) = g[x] + Sum(g, t)
      OBVIOUS
    <3>1. g[x] = 0
      OBVIOUS
    <3>2. Sum(g, Y) = Sum(g, t)
      BY <2>5
    <3> QED
      BY <2>4, <3>1, <3>2
  <2>8. s \cup {x} \in SUBSET (X \ Y)
    OBVIOUS
  <2> QED
    BY <2>2, <2>3, <2>6, <2>7, <2>8
<1> HIDE DEF Good
<1>3. IsFiniteSet(X \ Y)
  BY FS_Difference
<1>4. \A s \in SUBSET (X \ Y) : s \in Good
  BY <1>1, <1>2, <1>3, SubsetInduction
<1>5. X \ Y \in Good
  BY <1>4
<1>6. Y \cup (X \ Y) = X
  OBVIOUS
<1> QED
  BY <1>5, <1>6 DEF Good

\* The sum of two values is that of their sums.
LEMMA SumOfSums ==
  ASSUME NEW X, IsFiniteSet(X), NEW g \in [X -> Nat], NEW k \in [X -> Nat]
  PROVE  Sum([x \in X |-> g[x] + k[x]], X) = Sum(g, X) + Sum(k, X)
<1>1. PICK f : f = [x \in X |-> g[x] + k[x]]
  OBVIOUS
<1>2. f \in [X -> Nat]
  BY <1>1
<1> DEFINE Good == {s \in SUBSET X : Sum(f, s) = Sum(g, s) + Sum(k, s)}
<1>3. {} \in Good
  BY SumEmpty
<1>4. ASSUME NEW s \in SUBSET X, NEW x \in X \ s, s \in Good
      PROVE  s \cup {x} \in Good
  <2>1. /\ Sum(f, s \cup {x}) = f[x] + Sum(f, s)
        /\ Sum(g, s \cup {x}) = g[x] + Sum(g, s)
        /\ Sum(k, s \cup {x}) = k[x] + Sum(k, s)
    BY <1>2, SumAdds
  <2>2. /\ Sum(g, s) \in Nat /\ Sum(k, s) \in Nat /\ g[x] \in Nat /\ k[x] \in Nat
        /\ f[x] = g[x] + k[x]
    BY <1>1, SumType
  <2>3. Sum(f, s) = Sum(g, s) + Sum(k, s)
    BY <1>4
  <2>4. Sum(f, s \cup {x}) = Sum(g, s \cup {x}) + Sum(k, s \cup {x})
    BY <2>1, <2>2, <2>3
  <2> QED
    BY <2>4
<1> HIDE DEF Good
<1>5. \A s \in SUBSET X : s \in Good
  BY <1>3, <1>4, SubsetInduction
<1> QED
  BY <1>1, <1>5 DEF Good

\* One value that is larger by one makes the sum larger by one at most.
LEMMA SumOfOneMore ==
  ASSUME NEW X, IsFiniteSet(X), NEW g \in [X -> Nat], NEW k \in [X -> Nat], NEW z,
         \A x \in X : x # z => k[x] <= g[x],
         z \in X => k[z] <= g[z] + 1
  PROVE  Sum(k, X) <= Sum(g, X) + 1
<1> DEFINE e == [x \in X |-> IF x = z THEN 1 ELSE 0]
<1>1. e \in [X -> Nat] /\ \A x \in X : e[x] = IF x = z THEN 1 ELSE 0
  OBVIOUS
<1>2. PICK f : f = [x \in X |-> g[x] + e[x]]
  OBVIOUS
<1> HIDE DEF e
<1>3. f \in [X -> Nat] /\ \A x \in X : k[x] <= f[x]
  BY <1>1, <1>2
<1>4. Sum(k, X) <= Sum(f, X)
  <2> DEFINE m == [x \in X |-> x]
  <2>1. Embeds(m, X, X) /\ (\A x \in X : k[x] <= f[m[x]]) /\ Image(m, X) = X
    BY <1>3 DEF Embeds, Image
  <2> HIDE DEF m
  <2> QED
    BY <1>3, <2>1, SumImageAtMost
<1>5. Sum(f, X) = Sum(g, X) + Sum(e, X)
  BY <1>1, <1>2, SumOfSums
<1>6. Sum(e, X) <= 1
  <2>1. CASE z \in X
    <3>1. Sum(e, {} \cup {z}) = e[z] + Sum(e, {})
      <4>1. {} \in SUBSET X /\ z \in X \ {}
        BY <2>1
      <4> QED
        BY <1>1, <4>1, SumAdds
    <3>2. {} \cup {z} = {z}
      OBVIOUS
    <3>3. Sum(e, {z}) = 1
      BY <1>1, <2>1, <3>1, <3>2, SumEmpty
    <3>4. {z} \in SUBSET X /\ \A x \in X \ {z} : e[x] = 0
      BY <1>1, <2>1
    <3>5. Sum(e, X) = 1
      BY <1>1, <3>3, <3>4, SumOfPart
    <3> QED
      BY <3>5
  <2>2. CASE z \notin X
    <3>1. {} \in SUBSET X /\ \A x \in X \ {} : e[x] = 0
      BY <1>1, <2>2
    <3>2. Sum(e, X) = 0
      BY <1>1, <3>1, SumOfPart, SumEmpty
    <3> QED
      BY <3>2
  <2> QED
    BY <2>1, <2>2
<1>7. Sum(g, X) \in Nat /\ Sum(k, X) \in Nat /\ Sum(e, X) \in Nat
  BY <1>1, SumType
<1> QED
  BY <1>4, <1>5, <1>6, <1>7

-----------------------------------------------------------------------------
(* The sums of RunHistory: of a counter, over buckets or days.             *)

Total(F, c, X) == MapThenSumSet(LAMBDA x : F[x].counts[c], X)

LEMMA TotalIsSum ==
  ASSUME NEW F, NEW c, NEW X, IsFiniteSet(X), NEW g \in [X -> Nat],
         \A x \in X : g[x] = F[x].counts[c]
  PROVE  Total(F, c, X) = Sum(g, X)
<1>1. PICK h \in [SUBSET X -> Nat] : AddsUp(g, X, h)
  BY SumsExist
<1> DEFINE Adds(k) == k = [s \in SUBSET X |-> IF s = {} THEN 0
                            ELSE F[Some1(s)].counts[c] + k[s \ {Some1(s)}]]
<1>2. Total(F, c, X) = (CHOOSE k : Adds(k))[X]
  BY DEF Total, MapThenSumSet, MapThenFoldSet, Some1
<1>3. ASSUME NEW s \in SUBSET X, s # {}
      PROVE  g[Some1(s)] = F[Some1(s)].counts[c]
  <2>1. Some1(s) \in s
    BY <1>3 DEF Some1
  <2> QED
    BY <2>1
<1>4. \A k : Adds(k) <=> AddsUp(g, X, k)
  BY <1>3 DEF AddsUp
<1> HIDE DEF Adds
<1>5. (CHOOSE k : Adds(k)) = h
  <2>1. Adds(CHOOSE k : Adds(k))
    BY <1>1, <1>4
  <2> QED
    BY <1>1, <1>4, <2>1, SumsAgree
<1>6. Sum(g, X) = h[X]
  BY <1>1, SumOfSubset
<1> QED
  BY <1>2, <1>5, <1>6

-----------------------------------------------------------------------------
(* No run is counted twice.                                                *)

LEMMA DaysFinite == IsFiniteSet(Days)
<1> DEFINE S == {0} \cup Times \cup ClockTimes
           f == [t \in S |-> Day(t)]
<1>1. IsFiniteSet(S)
  <2>1. IsFiniteSet({0})
    BY FS_Singleton
  <2> QED
    BY <2>1, HistoryAssumption, FS_Union
<1>2. f \in Surjection(S, Days)
  BY DEF Surjection, Days
<1> HIDE DEF S, f
<1> QED
  BY <1>1, <1>2, FS_Surjection

\* A part of X that m takes to different elements of Y, and nothing outside of
\* the part.
LEMMA SumMoved ==
  ASSUME NEW X, IsFiniteSet(X), NEW Y, IsFiniteSet(Y), NEW P \in SUBSET X,
         NEW g \in [X -> Nat], NEW k \in [Y -> Nat], NEW m, Embeds(m, P, Y),
         \A x \in P : g[x] <= k[m[x]],
         \A x \in X \ P : g[x] = 0
  PROVE  Sum(g, X) <= Sum(k, Y)
<1>1. IsFiniteSet(P)
  BY FS_Subset
<1>2. PICK q : q = [x \in P |-> g[x]]
  OBVIOUS
<1>3. q \in [P -> Nat] /\ \A x \in P : q[x] = g[x] /\ q[x] <= k[m[x]]
  BY <1>2
<1>4. Sum(g, P) = Sum(q, P)
  BY <1>1, <1>3, SumSame
<1>5. Sum(q, P) <= Sum(k, Image(m, P))
  BY <1>1, <1>3, SumImageAtMost
<1>6. Image(m, P) \in SUBSET Y
  BY DEF Image, Embeds
<1>7. PICK i : i = Image(m, P)
  OBVIOUS
<1>8. Sum(k, i) <= Sum(k, Y)
  BY <1>6, <1>7, SumOfPart
<1>9. Sum(g, P) = Sum(g, X)
  BY SumOfPart
<1>10. Sum(g, X) \in Nat /\ Sum(k, i) \in Nat /\ Sum(k, Y) \in Nat
  BY <1>6, <1>7, SumType
<1> QED
  BY <1>4, <1>5, <1>7, <1>8, <1>9, <1>10

LEMMA SumAtMost ==
  ASSUME NEW X, IsFiniteSet(X), NEW g \in [X -> Nat], NEW k \in [X -> Nat],
         \A x \in X : g[x] <= k[x]
  PROVE  Sum(g, X) <= Sum(k, X)
<1> DEFINE m == [x \in X |-> x]
<1>1. Embeds(m, X, X) /\ (\A x \in X : g[x] <= k[m[x]]) /\ (\A x \in X \ X : g[x] = 0)
  BY DEF Embeds
<1> HIDE DEF m
<1> QED
  BY <1>1, SumMoved

\* Values moved up by off places.
LEMMA SumShifted ==
  ASSUME NEW n \in Nat, NEW o \in Nat, NEW off \in Nat,
         NEW g \in [0 .. n - 1 -> Nat], NEW k \in [0 .. o - 1 -> Nat],
         \A j \in 0 .. n - 1 : IF j - off \in 0 .. o - 1 THEN g[j] <= k[j - off] ELSE g[j] = 0
  PROVE  Sum(g, 0 .. n - 1) <= Sum(k, 0 .. o - 1)
<1> DEFINE P == {j \in 0 .. n - 1 : j - off \in 0 .. o - 1}
           m == [j \in P |-> j - off]
<1>1. IsFiniteSet(0 .. n - 1) /\ IsFiniteSet(0 .. o - 1)
  BY FS_Interval
<1>2. P \in SUBSET (0 .. n - 1)
  OBVIOUS
<1>3. Embeds(m, P, 0 .. o - 1)
  BY DEF Embeds
<1>4. (\A j \in P : g[j] <= k[m[j]]) /\ \A j \in (0 .. n - 1) \ P : g[j] = 0
  OBVIOUS
<1> HIDE DEF P, m
<1> QED
  BY <1>1, <1>2, <1>3, <1>4, SumMoved

\* The runs that the buckets of record i count, bucket by bucket, and all that
\* a table counts of a test.
Counted(t, i, c) == [j \in 0 .. t.num_days - 1 |-> BucketAt(t, i, j).counts[c]]
Kept(t, key, c) ==
  IF key \in KeysOf(t) THEN Sum(Counted(t, IndexOf(t, key), c), 0 .. t.num_days - 1) ELSE 0

\* The runs that were reported of a test, on whatever day.
ToldOf(h, key, c) == Sum([d \in Days |-> h.runs[key][d].counts[c]], Days)

LEMMA CountedType ==
  ASSUME NEW t, GoodTable(t), NEW i \in DOMAIN t.tests, NEW c \in Counters
  PROVE  /\ t.num_days \in Nat /\ IsFiniteSet(0 .. t.num_days - 1)
         /\ Counted(t, i, c) \in [0 .. t.num_days - 1 -> Nat]
         /\ Sum(Counted(t, i, c), 0 .. t.num_days - 1) \in Nat
<1>1. t.num_days \in Nat /\ IsFiniteSet(0 .. t.num_days - 1)
  BY FS_Interval DEF GoodTable, Table
<1>2. \A j \in 0 .. t.num_days - 1 : BucketAt(t, i, j).counts[c] \in Nat
  BY BucketInData, RunsType
<1>3. Counted(t, i, c) \in [0 .. t.num_days - 1 -> Nat]
  BY <1>2 DEF Counted
<1>4. PICK n : n = t.num_days
  OBVIOUS
<1>5. PICK g : g = Counted(t, i, c)
  OBVIOUS
<1>6. Sum(g, 0 .. n - 1) \in Nat
  BY <1>1, <1>3, <1>4, <1>5, SumType
<1> QED
  BY <1>1, <1>3, <1>4, <1>5, <1>6

LEMMA KeptInRecord ==
  ASSUME NEW t, GoodTable(t), NEW i \in DOMAIN t.tests, NEW key, t.tests[i].key = key, NEW c
  PROVE  Kept(t, key, c) = Sum(Counted(t, i, c), 0 .. t.num_days - 1)
<1>1. key \in KeysOf(t) /\ IndexOf(t, key) = i
  BY StoredInRecord
<1> QED
  BY <1>1 DEF Kept

LEMMA KeptType ==
  ASSUME NEW t, GoodTable(t), NEW key, NEW c \in Counters
  PROVE  Kept(t, key, c) \in Nat
<1>1. CASE key \in KeysOf(t)
  <2>1. IndexOf(t, key) \in DOMAIN t.tests
    BY <1>1, IndexOfKnown
  <2>2. PICK i : i = IndexOf(t, key)
    OBVIOUS
  <2>3. Sum(Counted(t, i, c), 0 .. t.num_days - 1) \in Nat
    BY <2>1, <2>2, CountedType
  <2> QED
    BY <1>1, <2>2, <2>3 DEF Kept
<1>2. CASE key \notin KeysOf(t)
  BY <1>2 DEF Kept
<1> QED
  BY <1>1, <1>2

LEMMA SameRecordsKept ==
  ASSUME NEW t, NEW w, w.tests = t.tests, w.testdata = t.testdata, w.num_days = t.num_days
  PROVE  \A key, c : Kept(w, key, c) = Kept(t, key, c)
<1>1. KeysOf(w) = KeysOf(t)
  BY DEF KeysOf
<1>2. \A key : IndexOf(w, key) = IndexOf(t, key)
  BY DEF IndexOf
<1>3. \A i, j : BucketAt(w, i, j) = BucketAt(t, i, j)
  BY DEF BucketAt, RecordRange
<1>4. \A i, c : Counted(w, i, c) = Counted(t, i, c)
  BY <1>3 DEF Counted
<1> QED
  BY <1>1, <1>2, <1>4 DEF Kept

LEMMA EmptyKept ==
  ASSUME NEW t, t.tests = <<>>
  PROVE  \A key, c : Kept(t, key, c) = 0
<1>1. KeysOf(t) = {}
  BY EmptySeq DEF KeysOf
<1> QED
  BY <1>1 DEF Kept

\* A change of one record, or a new one, leaves what is counted of other tests.
LEMMA OtherKeysKept ==
  ASSUME NEW t, GoodTable(t), NEW w, GoodTable(w), NEW i, OnlyRecord(w, t, i),
         NEW key, KeysOf(w) \subseteq KeysOf(t) \cup {key},
         i \in DOMAIN t.tests => t.tests[i].key = key,
         NEW k, k # key, NEW c
  PROVE  Kept(w, k, c) = Kept(t, k, c)
<1>1. /\ DOMAIN t.tests = 1 .. Len(t.tests) /\ Len(t.tests) \in Nat
      /\ DOMAIN w.tests = 1 .. Len(w.tests) /\ Len(w.tests) \in Nat
      /\ t.num_days \in Nat \ {0}
  BY DEF GoodTable, Table
<1>2. DOMAIN t.tests \subseteq DOMAIN w.tests
  BY <1>1 DEF OnlyRecord
<1>3. CASE k \in KeysOf(t)
  <2>1. PICK j \in DOMAIN t.tests : t.tests[j].key = k
    BY <1>3 DEF KeysOf
  <2>2. j # i
    BY <2>1
  <2>3. j \in DOMAIN w.tests /\ w.tests[j].key = k
    BY <1>2, <2>1 DEF OnlyRecord
  <2>4. RecordRange(w, j) = RecordRange(t, j) /\ w.num_days = t.num_days
    BY DEF OnlyRecord, RecordRange
  <2>5. \A b \in Indices(RecordRange(t, j)) : w.testdata[b] = t.testdata[b]
    BY <2>1, <2>2 DEF OnlyRecord
  <2>6. \A a \in 0 .. t.num_days - 1 : BucketAt(w, j, a) = BucketAt(t, j, a)
    BY <2>1, <2>4, <2>5, BucketInData DEF BucketAt
  <2>7. Counted(w, j, c) = Counted(t, j, c)
    BY <2>4, <2>6 DEF Counted
  <2>8. Kept(w, k, c) = Sum(Counted(w, j, c), 0 .. w.num_days - 1)
    BY <2>3, KeptInRecord
  <2>9. Kept(t, k, c) = Sum(Counted(t, j, c), 0 .. t.num_days - 1)
    BY <2>1, KeptInRecord
  <2> QED
    BY <2>4, <2>7, <2>8, <2>9
<1>4. CASE k \notin KeysOf(t)
  BY <1>4 DEF Kept
<1> QED
  BY <1>3, <1>4

\* The sum over the buckets of the flat vector.
LEMMA KeptInData ==
  ASSUME NEW t, GoodTable(t), NEW i \in DOMAIN t.tests, NEW c \in Counters
  PROVE  Total(t.testdata, c, Indices(RecordRange(t, i))) = Kept(t, t.tests[i].key, c)
<1> DEFINE n == t.num_days
           start == RecordRange(t, i).start
           X == 0 .. n - 1
           g == Counted(t, i, c)
           m == [j \in X |-> start + j + 1]
           k == [b \in start + 1 .. start + n |-> t.testdata[b].counts[c]]
<1>1. n \in Nat /\ start \in Nat /\ RecordRange(t, i).end = start + n
  BY RecordInData DEF GoodTable, Table
<1>2. IsFiniteSet(X) /\ g \in [X -> Nat]
  BY CountedType
<1>3. Indices(RecordRange(t, i)) = start + 1 .. start + n
  BY <1>1 DEF Indices
<1>4. IsFiniteSet(start + 1 .. start + n)
  BY <1>1, FS_Interval
<1>5. \A j \in X : g[j] = t.testdata[start + j + 1].counts[c]
  BY DEF Counted, BucketAt
<1> HIDE DEF g, start, n
<1>6. Embeds(m, X, start + 1 .. start + n)
  BY <1>1 DEF Embeds
<1>7. Image(m, X) = start + 1 .. start + n
  <2>1. ASSUME NEW b \in start + 1 .. start + n
        PROVE  b \in Image(m, X)
    <3>1. b - start - 1 \in X /\ m[b - start - 1] = b
      BY <1>1
    <3> QED
      BY <3>1 DEF Image
  <2>2. \A b \in Image(m, X) : b \in start + 1 .. start + n
    BY <1>6 DEF Image, Embeds
  <2> QED
    BY <2>1, <2>2
<1>8. \A b \in start + 1 .. start + n : t.testdata[b].counts[c] \in Nat
  <2> SUFFICES ASSUME NEW b \in start + 1 .. start + n
               PROVE  t.testdata[b].counts[c] \in Nat
    OBVIOUS
  <2>1. b - start - 1 \in X /\ start + (b - start - 1) + 1 = b
    BY <1>1
  <2>2. g[b - start - 1] = t.testdata[b].counts[c]
    BY <1>5, <2>1
  <2> QED
    BY <1>2, <2>1, <2>2
<1>9. k \in [start + 1 .. start + n -> Nat] /\ \A j \in X : g[j] = k[m[j]]
  BY <1>1, <1>5, <1>8
<1>10. PICK D : D = start + 1 .. start + n
  OBVIOUS
<1>11. PICK F, q, e : F = t.testdata /\ q = k /\ e = m
  OBVIOUS
<1>12. IsFiniteSet(D) /\ q \in [D -> Nat] /\ (\A b \in D : q[b] = F[b].counts[c])
       /\ Embeds(e, X, D) /\ (\A j \in X : g[j] = q[e[j]]) /\ Image(e, X) = D
  BY <1>4, <1>6, <1>7, <1>9, <1>10, <1>11
<1> HIDE DEF k, m, X
<1>13. Total(F, c, D) = Sum(q, D)
  BY <1>12, TotalIsSum
<1>14. Sum(g, X) = Sum(q, D)
  BY <1>2, <1>12, SumOfImage
<1> QED
  BY <1>3, <1>10, <1>11, <1>13, <1>14, KeptInRecord DEF X, g, n

\* What is counted in n places, where it has moved up by off.
LEMMA KeptMoved ==
  ASSUME NEW t, GoodTable(t), NEW key, NEW c \in Counters,
         NEW n \in Nat, NEW off \in Nat, NEW g \in [0 .. n - 1 -> Nat],
         \A j \in 0 .. n - 1 :
           IF key \in KeysOf(t) /\ j - off \in 0 .. t.num_days - 1
           THEN g[j] <= BucketAt(t, IndexOf(t, key), j - off).counts[c]
           ELSE g[j] = 0
  PROVE  Sum(g, 0 .. n - 1) <= Kept(t, key, c)
<1>1. CASE key \in KeysOf(t)
  <2>1. PICK i : i = IndexOf(t, key)
    OBVIOUS
  <2>2. i \in DOMAIN t.tests
    BY <1>1, <2>1, IndexOfKnown
  <2>3. PICK k, o : k = Counted(t, i, c) /\ o = t.num_days
    OBVIOUS
  <2>4. o \in Nat /\ k \in [0 .. o - 1 -> Nat]
    BY <2>2, <2>3, CountedType
  <2>5. \A j \in 0 .. o - 1 : k[j] = BucketAt(t, i, j).counts[c]
    BY <2>3 DEF Counted
  <2>6. \A j \in 0 .. n - 1 : IF j - off \in 0 .. o - 1 THEN g[j] <= k[j - off] ELSE g[j] = 0
    BY <1>1, <2>1, <2>3, <2>5
  <2>7. Sum(g, 0 .. n - 1) <= Sum(k, 0 .. o - 1)
    BY <2>4, <2>6, SumShifted
  <2> QED
    BY <1>1, <2>1, <2>3, <2>7 DEF Kept
<1>2. CASE key \notin KeysOf(t)
  <2>1. \A j \in 0 .. n - 1 : g[j] = 0
    BY <1>2
  <2>2. {} \in SUBSET (0 .. n - 1) /\ IsFiniteSet(0 .. n - 1)
    BY FS_Interval
  <2>3. Sum(g, {}) = Sum(g, 0 .. n - 1)
    BY <2>1, <2>2, SumOfPart
  <2> QED
    BY <1>2, <2>3, SumEmpty DEF Kept
<1> QED
  BY <1>1, <1>2

\* An insert counts its run, and no other one more.
LEMMA InsertedKept ==
  ASSUME IInv, NEW test \in Tests, NEW outcome \in Outcomes, Inserted(test, outcome),
         NEW key, key = SessionKey(test), NEW c \in Counters
  PROVE  Kept(writer', key, c) <= Kept(writer, key, c) + (IF c = CounterOf(outcome) THEN 1 ELSE 0)
<1> DEFINE i == InsertIndex(test)
           Moved(j, off) == IF j < off THEN NoData ELSE KnownBucket(test, j - off)
<1>1. /\ GoodTable(writer) /\ GoodTable(writer') /\ writer'.num_days = writer.num_days
      /\ i \in DOMAIN writer'.tests /\ writer'.tests[i].key = key
  BY InsertsShape
<1>2. phase = "session"
  BY DEF Inserted, InsertNew, InsertNewer, InsertHistoric, Historic
<1>3. /\ writer.num_days \in Nat \ {0}
      /\ session.timestamp \in Nat
      /\ \A j \in 0 .. writer.num_days - 1 : KnownBucket(test, j) \in TestData
  <2>1. 0 \in Int
    OBVIOUS
  <2>2. NoData \in TestData
    BY NoDataType
  <2> QED
    BY <1>2, <2>1, <2>2, KnownStored DEF KnownBucket
<1>4. \E off \in Nat : \E z : \A j \in 0 .. writer.num_days - 1 :
        BucketAt(writer', i, j) = IF j = z THEN CountedIn(Moved(j, off), outcome) ELSE Moved(j, off)
  <2>1. CASE InsertNew(test, outcome)
    <3>1. ~ Known(test)
      BY <2>1 DEF InsertNew
    <3>2. \A j : Moved(j, 0) = NoData
      BY <3>1 DEF KnownBucket
    <3>3. \A j \in 0 .. writer.num_days - 1 :
            BucketAt(writer', i, j) = IF j = 0 THEN CountedIn(NoData, outcome) ELSE NoData
      BY <2>1, InsertsBucketAt
    <3> HIDE DEF i, Moved
    <3> QED
      BY <3>2, <3>3
  <2>2. CASE InsertNewer(test, outcome)
    <3> DEFINE off == OffsetFromToday(KnownLatest(test), session.timestamp)
    <3>1. Known(test) /\ KnownLatest(test) < session.timestamp
      BY <2>2 DEF InsertNewer
    <3>2. KnownLatest(test) \in Nat
      BY <1>2, <3>1, InsertTarget
    <3>3. off \in Nat
      BY <1>3, <3>1, <3>2, OffsetIsNatural
    <3>4. \A j \in 0 .. writer.num_days - 1 :
            BucketAt(writer', i, j) = IF j = 0 THEN CountedIn(Moved(0, off), outcome) ELSE Moved(j, off)
      BY <2>2, InsertsBucketAt
    <3> HIDE DEF i, Moved, off
    <3> QED
      BY <3>3, <3>4
  <2>3. CASE InsertHistoric(test, outcome)
    <3>1. \A j \in 0 .. writer.num_days - 1 : Moved(j, 0) = KnownBucket(test, j)
      BY <1>3
    <3>2. \A j \in 0 .. writer.num_days - 1 :
            BucketAt(writer', i, j) = IF j = HistoricOffset(test)
                                      THEN CountedIn(KnownBucket(test, j), outcome)
                                      ELSE KnownBucket(test, j)
      BY <2>3, InsertsBucketAt
    <3> HIDE DEF i, Moved
    <3> QED
      BY <3>1, <3>2
  <2> QED
    BY <2>1, <2>2, <2>3 DEF Inserted
<1>19. PICK off \in Nat : \E z : \A j \in 0 .. writer.num_days - 1 :
         BucketAt(writer', i, j) = IF j = z THEN CountedIn(Moved(j, off), outcome) ELSE Moved(j, off)
  BY <1>4
<1>5. PICK z : \A j \in 0 .. writer.num_days - 1 :
        BucketAt(writer', i, j) = IF j = z THEN CountedIn(Moved(j, off), outcome) ELSE Moved(j, off)
  BY <1>19
<1>6. \A j \in 0 .. writer.num_days - 1 : Moved(j, off) \in TestData
  BY <1>3, NoDataType
<1>7. PICK n : n = writer.num_days
  OBVIOUS
<1>8. PICK g : g = [j \in 0 .. n - 1 |-> Moved(j, off).counts[c]]
  OBVIOUS
<1>9. PICK k : k = Counted(writer', i, c)
  OBVIOUS
<1>10. n \in Nat /\ g \in [0 .. n - 1 -> Nat] /\ IsFiniteSet(0 .. n - 1)
  <2>1. n \in Nat
    BY <1>3, <1>7
  <2>2. IsFiniteSet(0 .. n - 1)
    BY <2>1, FS_Interval
  <2> HIDE DEF Moved
  <2>3. \A j \in 0 .. n - 1 : Moved(j, off).counts[c] \in Nat
    BY <1>6, <1>7, RunsType
  <2> QED
    BY <1>8, <2>1, <2>2, <2>3
<1>11. k \in [0 .. n - 1 -> Nat] /\ Kept(writer', key, c) = Sum(k, 0 .. n - 1)
  BY <1>1, <1>7, <1>9, CountedType, KeptInRecord
<1>12. Sum(g, 0 .. n - 1) <= Kept(writer, key, c)
  <2>1. \A j \in 0 .. n - 1 :
          IF key \in KeysOf(writer) /\ j - off \in 0 .. writer.num_days - 1
          THEN g[j] <= BucketAt(writer, IndexOf(writer, key), j - off).counts[c]
          ELSE g[j] = 0
    <3> SUFFICES ASSUME NEW j \in 0 .. n - 1
                 PROVE  IF key \in KeysOf(writer) /\ j - off \in 0 .. writer.num_days - 1
                        THEN g[j] <= BucketAt(writer, IndexOf(writer, key), j - off).counts[c]
                        ELSE g[j] = 0
      OBVIOUS
    <3>1. g[j] = Moved(j, off).counts[c] /\ g[j] \in Nat
      BY <1>8, <1>10
    <3>2. CASE key \in KeysOf(writer) /\ j - off \in 0 .. writer.num_days - 1
      <4>1. Moved(j, off) = BucketAt(writer, IndexOf(writer, key), j - off)
        BY <3>2 DEF KnownBucket, Known, KnownIndex
      <4> QED
        BY <3>1, <3>2, <4>1
    <3>3. CASE ~ (key \in KeysOf(writer) /\ j - off \in 0 .. writer.num_days - 1)
      <4>1. Moved(j, off) = NoData
        BY <1>3, <1>7, <3>3 DEF KnownBucket, Known
      <4> QED
        BY <3>1, <3>3, <4>1, NoDataCounts
    <3> QED
      BY <3>2, <3>3
  <2> QED
    BY <1>1, <1>10, <2>1, KeptMoved
<1>13. \A j \in 0 .. n - 1 : k[j] = BucketAt(writer', i, j).counts[c]
  BY <1>1, <1>7, <1>9 DEF Counted
<1>14. \A j \in 0 .. n - 1 : g[j] = Moved(j, off).counts[c]
  BY <1>8
<1> HIDE DEF i, Moved
<1>15. \A j \in 0 .. n - 1 : j # z => k[j] <= g[j]
  BY <1>5, <1>7, <1>10, <1>13, <1>14
<1>16. z \in 0 .. n - 1 => k[z] <= g[z] + (IF c = CounterOf(outcome) THEN 1 ELSE 0)
  <2> SUFFICES ASSUME z \in 0 .. n - 1
               PROVE  k[z] <= g[z] + (IF c = CounterOf(outcome) THEN 1 ELSE 0)
    OBVIOUS
  <2>1. PICK data \in TestData : data = Moved(z, off)
    BY <1>6, <1>7
  <2>2. k[z] = CountedIn(data, outcome).counts[c] /\ g[z] = data.counts[c]
    BY <1>5, <1>7, <1>13, <1>14, <2>1
  <2>3. data.counts \in [Counters -> Nat] /\ CounterModulus \in Nat \ {0, 1}
    BY ConstantsAssumption DEF TestData
  <2>4. CountedIn(data, outcome).counts[c] =
          IF c = CounterOf(outcome) THEN (data.counts[c] + 1) % CounterModulus ELSE data.counts[c]
    BY <2>3 DEF CountedIn, CountRun
  <2>5. (data.counts[c] + 1) % CounterModulus <= data.counts[c] + 1
    BY <2>3, ModNotMore
  <2> QED
    BY <2>2, <2>3, <2>4, <2>5
<1>17. Sum(k, 0 .. n - 1) <= Sum(g, 0 .. n - 1) + (IF c = CounterOf(outcome) THEN 1 ELSE 0)
  <2>1. CASE c = CounterOf(outcome)
    BY <1>10, <1>11, <1>15, <1>16, <2>1, SumOfOneMore
  <2>2. CASE c # CounterOf(outcome)
    <3>1. \A j \in 0 .. n - 1 : k[j] <= g[j]
      BY <1>10, <1>11, <1>15, <1>16, <2>2
    <3>2. Sum(k, 0 .. n - 1) <= Sum(g, 0 .. n - 1)
      BY <1>10, <1>11, <3>1, SumAtMost
    <3>3. Sum(k, 0 .. n - 1) \in Nat /\ Sum(g, 0 .. n - 1) \in Nat
      BY <1>10, <1>11, SumType
    <3> QED
      BY <2>2, <3>2, <3>3
  <2> QED
    BY <2>1, <2>2
<1>18. Sum(k, 0 .. n - 1) \in Nat /\ Sum(g, 0 .. n - 1) \in Nat /\ Kept(writer, key, c) \in Nat
  BY <1>1, <1>10, <1>11, SumType, KeptType
<1> QED
  BY <1>11, <1>12, <1>17, <1>18

\* merge counts no more of the test than the writer and the record did.
LEMMA MergedKept ==
  ASSUME MergePre, MergeRecord, NEW key, key = MergeKey, NEW c \in Counters
  PROVE  Kept(writer', key, c) <= Kept(writer, key, c) + Kept(source, key, c)
<1> DEFINE Theirs(j) == IF j \in MergeMove .. MergeMove + MergeSize - 1
                        THEN BucketAt(source, next, j - MergeMove) ELSE NoData
<1>1. /\ GoodTable(writer) /\ GoodTable(source) /\ GoodTable(writer')
      /\ writer'.num_days = writer.num_days /\ next \in DOMAIN source.tests
      /\ MergeIndex \in DOMAIN writer'.tests /\ writer'.tests[MergeIndex].key = key
  BY MergeShape DEF MergePre
<1>2. /\ writer.num_days \in Nat \ {0} /\ source.num_days \in Nat \ {0}
      /\ MergeMove \in Nat /\ MergeShift \in Nat /\ MergeSize \in Nat
      /\ MergeSize <= source.num_days
  <2>1. writer.num_days \in Nat \ {0} /\ source.num_days \in Nat \ {0}
    BY <1>1 DEF GoodTable, Table
  <2>2. MergeOffset \in Nat
    BY MergeRanges
  <2>3. MergeSize <= source.num_days
    BY <2>1, <2>2 DEF MergeSize, MinOf, MaxOf
  <2> QED
    BY <2>1, <2>3, MergeSelection
<1>3. PICK n, o, up, down : n = writer.num_days /\ o = source.num_days
                            /\ up = MergeMove /\ down = MergeShift
  OBVIOUS
<1>4. \A j \in 0 .. n - 1 : MergeMoved(j) \in TestData /\ Theirs(j) \in TestData
  <2> SUFFICES ASSUME NEW j \in 0 .. n - 1
               PROVE  MergeMoved(j) \in TestData /\ Theirs(j) \in TestData
    OBVIOUS
  <2>1. MergeMoved(j) \in TestData
    <3>1. CASE j < MergeShift \/ MergeKey \notin KeysOf(writer)
      BY <3>1, NoDataType DEF MergeMoved, MergeOld
    <3>2. CASE j >= MergeShift /\ MergeKey \in KeysOf(writer)
      <4>1. j - MergeShift \in 0 .. writer.num_days - 1
        BY <1>2, <1>3, <3>2
      <4>2. IndexOf(writer, MergeKey) \in DOMAIN writer.tests
        BY <3>2, IndexOfKnown
      <4>3. BucketAt(writer, IndexOf(writer, MergeKey), j - MergeShift) \in TestData
        BY <1>1, <4>1, <4>2, BucketInData
      <4>4. ~ (j < MergeShift)
        BY <1>2, <3>2
      <4> QED
        BY <3>2, <4>3, <4>4 DEF MergeMoved, MergeOld
    <3> QED
      BY <1>2, <3>1, <3>2
  <2>2. Theirs(j) \in TestData
    <3>1. CASE j \in MergeMove .. MergeMove + MergeSize - 1
      <4>1. j - MergeMove \in 0 .. source.num_days - 1
        BY <1>2, <3>1
      <4> QED
        BY <1>1, <3>1, <4>1, BucketInData
    <3>2. CASE j \notin MergeMove .. MergeMove + MergeSize - 1
      BY <3>2, NoDataType
    <3> QED
      BY <3>1, <3>2
  <2> QED
    BY <2>1, <2>2
<1>5. PICK g, q, k : /\ g = [j \in 0 .. n - 1 |-> MergeMoved(j).counts[c]]
                     /\ q = [j \in 0 .. n - 1 |-> Theirs(j).counts[c]]
                     /\ k = Counted(writer', MergeIndex, c)
  OBVIOUS
<1>6. /\ n \in Nat /\ o \in Nat /\ up \in Nat /\ down \in Nat /\ IsFiniteSet(0 .. n - 1)
  <2>1. n \in Nat /\ o \in Nat /\ up \in Nat /\ down \in Nat
    BY <1>2, <1>3
  <2> QED
    BY <2>1, FS_Interval
<1>7. /\ \A j \in 0 .. n - 1 : g[j] = MergeMoved(j).counts[c]
      /\ \A j \in 0 .. n - 1 : q[j] = Theirs(j).counts[c]
  BY <1>5
<1>8. g \in [0 .. n - 1 -> Nat] /\ q \in [0 .. n - 1 -> Nat]
  <2> HIDE DEF Theirs
  <2>1. \A j \in 0 .. n - 1 : MergeMoved(j).counts[c] \in Nat /\ Theirs(j).counts[c] \in Nat
    BY <1>4, RunsType
  <2> QED
    BY <1>5, <2>1
<1>9. k \in [0 .. n - 1 -> Nat] /\ Kept(writer', key, c) = Sum(k, 0 .. n - 1)
  BY <1>1, <1>3, <1>5, CountedType, KeptInRecord
<1>10. \A j \in 0 .. n - 1 : k[j] = BucketAt(writer', MergeIndex, j).counts[c]
  BY <1>1, <1>3, <1>5 DEF Counted
<1>11. Sum(g, 0 .. n - 1) <= Kept(writer, key, c)
  <2>1. ASSUME NEW j \in 0 .. n - 1
        PROVE  IF key \in KeysOf(writer) /\ j - down \in 0 .. writer.num_days - 1
               THEN g[j] <= BucketAt(writer, IndexOf(writer, key), j - down).counts[c]
               ELSE g[j] = 0
    <3>1. g[j] = MergeMoved(j).counts[c] /\ g[j] \in Nat
      BY <1>7, <1>8
    <3>2. CASE key \in KeysOf(writer) /\ j - down \in 0 .. writer.num_days - 1
      <4>1. MergeMoved(j) = BucketAt(writer, IndexOf(writer, key), j - down)
        BY <1>3, <1>6, <3>2 DEF MergeMoved, MergeOld
      <4> QED
        BY <3>1, <3>2, <4>1
    <3>3. CASE ~ (key \in KeysOf(writer) /\ j - down \in 0 .. writer.num_days - 1)
      <4>1. MergeMoved(j) = NoData
        BY <1>3, <1>6, <3>3 DEF MergeMoved, MergeOld
      <4> QED
        BY <3>1, <3>3, <4>1, NoDataCounts
    <3> QED
      BY <3>2, <3>3
  <2> QED
    BY <1>1, <1>6, <1>8, <2>1, KeptMoved
<1>12. Sum(q, 0 .. n - 1) <= Kept(source, key, c)
  <2>1. key \in KeysOf(source) /\ IndexOf(source, key) = next
    BY <1>1, StoredInRecord DEF MergeKey
  <2>2. ASSUME NEW j \in 0 .. n - 1
        PROVE  IF key \in KeysOf(source) /\ j - up \in 0 .. source.num_days - 1
               THEN q[j] <= BucketAt(source, IndexOf(source, key), j - up).counts[c]
               ELSE q[j] = 0
    <3>1. q[j] = Theirs(j).counts[c] /\ q[j] \in Nat
      BY <1>7, <1>8
    <3>2. CASE j \in MergeMove .. MergeMove + MergeSize - 1
      <4>1. j - up \in 0 .. source.num_days - 1
        BY <1>2, <1>3, <3>2
      <4>2. Theirs(j) = BucketAt(source, next, j - up)
        BY <1>3, <3>2
      <4> QED
        BY <2>1, <3>1, <4>1, <4>2
    <3>3. CASE j \notin MergeMove .. MergeMove + MergeSize - 1
      <4>1. q[j] = 0
        BY <3>1, <3>3, NoDataCounts
      <4>2. j - up \in 0 .. source.num_days - 1
              => BucketAt(source, next, j - up).counts[c] \in Nat
        BY <1>1, BucketInData, RunsType
      <4> QED
        BY <2>1, <4>1, <4>2
    <3> QED
      BY <3>2, <3>3
  <2> QED
    BY <1>1, <1>6, <1>8, <2>2, KeptMoved
<1>13. ASSUME NEW j \in 0 .. n - 1
       PROVE  k[j] <= g[j] + q[j]
  <2>1. PICK a \in TestData, b \in TestData : a = MergeMoved(j) /\ b = Theirs(j)
    BY <1>4
  <2>2. BucketAt(writer', MergeIndex, j) \in {MergeData(a, b), a}
    BY <1>3, <2>1, MergeRecordBucketAt
  <2>3. a.counts[c] \in Nat /\ b.counts[c] \in Nat
    BY RunsType
  <2>4. MergeData(a, b).counts[c] <= a.counts[c] + b.counts[c]
    BY <2>3, ConstantsAssumption, ModNotMore DEF MergeData
  <2>5. k[j] \in {MergeData(a, b).counts[c], a.counts[c]} /\ k[j] \in Nat
    BY <1>9, <1>10, <2>2
  <2>6. g[j] = a.counts[c] /\ q[j] = b.counts[c]
    BY <1>7, <2>1
  <2> QED
    BY <2>3, <2>4, <2>5, <2>6
<1>14. Sum(k, 0 .. n - 1) <= Sum(g, 0 .. n - 1) + Sum(q, 0 .. n - 1)
  <2>1. PICK s : s = [j \in 0 .. n - 1 |-> g[j] + q[j]]
    OBVIOUS
  <2>2. s \in [0 .. n - 1 -> Nat] /\ \A j \in 0 .. n - 1 : k[j] <= s[j]
    BY <1>8, <1>13, <2>1
  <2>3. PICK X : X = 0 .. n - 1
    OBVIOUS
  <2>4. Sum([x \in X |-> g[x] + q[x]], X) = Sum(g, X) + Sum(q, X)
    BY <1>6, <1>8, <2>3, SumOfSums
  <2>5. Sum(k, X) <= Sum(s, X)
    BY <1>6, <1>9, <2>2, <2>3, SumAtMost
  <2> QED
    BY <2>1, <2>3, <2>4, <2>5
<1>15. /\ Sum(k, 0 .. n - 1) \in Nat /\ Sum(g, 0 .. n - 1) \in Nat /\ Sum(q, 0 .. n - 1) \in Nat
       /\ Kept(writer, key, c) \in Nat /\ Kept(source, key, c) \in Nat
  BY <1>1, <1>6, <1>8, <1>9, SumType, KeptType
<1> QED
  BY <1>9, <1>11, <1>12, <1>14, <1>15

\* rewrite counts no more of the test than the record did.
LEMMA RewrittenKept ==
  ASSUME GoodTable(writer), GoodTable(source), GoodTable(writer'), next \in DOMAIN source.tests,
         RewriteLive, NEW key, key = source.tests[next].key, NEW c \in Counters
  PROVE  Kept(writer', key, c) <= Kept(source, key, c)
<1> DEFINE i == Len(writer.tests) + 1
<1>1. /\ writer'.tests = Append(writer.tests, RewrittenTest) /\ writer'.num_days = writer.num_days
      /\ Len(writer.tests) \in Nat /\ DOMAIN writer.tests = 1 .. Len(writer.tests)
      /\ writer.num_days \in Nat /\ source.num_days \in Nat
  BY DEF RewriteLive, GoodTable, Table
<1>2. i \in DOMAIN writer'.tests /\ writer'.tests[i].key = key
  <2>1. writer.tests \in Seq(Test)
    BY DEF GoodTable, Table
  <2> QED
    BY <1>1, <2>1 DEF RewrittenTest
<1>3. key \in KeysOf(source) /\ IndexOf(source, key) = next
  BY StoredInRecord
<1>4. PICK n, k : n = writer.num_days /\ k = Counted(writer', i, c)
  OBVIOUS
<1>5. n \in Nat /\ k \in [0 .. n - 1 -> Nat] /\ Kept(writer', key, c) = Sum(k, 0 .. n - 1)
  BY <1>1, <1>2, <1>4, CountedType, KeptInRecord
<1>6. ASSUME NEW j \in 0 .. n - 1
      PROVE  IF key \in KeysOf(source) /\ j - 0 \in 0 .. source.num_days - 1
             THEN k[j] <= BucketAt(source, IndexOf(source, key), j - 0).counts[c]
             ELSE k[j] = 0
  <2>1. k[j] = BucketAt(writer', i, j).counts[c] /\ k[j] \in Nat
    BY <1>1, <1>4, <1>5 DEF Counted
  <2>2. BucketAt(writer', i, j) = IF j < source.num_days THEN BucketAt(source, next, j) ELSE NoData
    BY <1>4, RewriteLiveBucketAt
  <2>3. CASE j < source.num_days
    BY <1>1, <1>3, <1>5, <2>1, <2>2, <2>3
  <2>4. CASE ~ (j < source.num_days)
    BY <1>1, <1>3, <1>5, <2>1, <2>2, <2>4, NoDataCounts
  <2> QED
    BY <2>3, <2>4
<1>7. Sum(k, 0 .. n - 1) <= Kept(source, key, c)
  BY <1>5, <1>6, KeptMoved
<1> QED
  BY <1>5, <1>7

\* What has been reported of a test, day by day.
DaysTold(h, key, c) == [d \in Days |-> h.runs[key][d].counts[c]]

LEMMA DaysToldType ==
  ASSUME NEW h \in Histories, NEW key \in Keys, NEW c \in Counters
  PROVE  DaysTold(h, key, c) \in [Days -> Nat] /\ ToldOf(h, key, c) \in Nat
         /\ ToldOf(h, key, c) = Sum(DaysTold(h, key, c), Days)
         /\ Total(h.runs[key], c, Days) = ToldOf(h, key, c)
<1>1. \A d \in Days : h.runs[key][d].counts[c] \in Nat
  BY DEF Histories, Runs
<1>2. PICK g : g = DaysTold(h, key, c)
  OBVIOUS
<1>3. g \in [Days -> Nat] /\ \A d \in Days : g[d] = h.runs[key][d].counts[c]
  BY <1>1, <1>2 DEF DaysTold
<1>4. PICK D : D = Days
  OBVIOUS
<1>5. IsFiniteSet(D) /\ g \in [D -> Nat]
  BY <1>3, <1>4, DaysFinite
<1>6. Sum(g, D) \in Nat
  BY <1>5, SumType
<1>7. Total(h.runs[key], c, D) = Sum(g, D)
  BY <1>3, <1>4, <1>5, TotalIsSum
<1> QED
  BY <1>2, <1>3, <1>4, <1>6, <1>7 DEF ToldOf, DaysTold

\* One run more on one of the days.
LEMMA SumOneAdded ==
  ASSUME NEW X, IsFiniteSet(X), NEW g \in [X -> Nat], NEW k \in [X -> Nat], NEW z \in X,
         \A x \in X : x # z => k[x] = g[x],
         k[z] = g[z] + 1
  PROVE  Sum(k, X) = Sum(g, X) + 1
<1>1. PICK Y : Y = X \ {z}
  OBVIOUS
<1>2. Y \in SUBSET X /\ z \in X \ Y /\ Y \cup {z} = X /\ IsFiniteSet(Y)
  BY <1>1, FS_Subset
<1>3. Sum(g, X) = g[z] + Sum(g, Y)
  <2>1. Sum(g, Y \cup {z}) = g[z] + Sum(g, Y)
    BY <1>2, SumAdds
  <2> QED
    BY <1>2, <2>1
<1>4. Sum(k, X) = k[z] + Sum(k, Y)
  <2>1. Sum(k, Y \cup {z}) = k[z] + Sum(k, Y)
    BY <1>2, SumAdds
  <2> QED
    BY <1>2, <2>1
<1>5. Sum(k, Y) = Sum(g, Y)
  <2>1. PICK r : r = [y \in Y |-> g[y]]
    OBVIOUS
  <2>2. r \in [Y -> Nat] /\ (\A y \in Y : r[y] = g[y]) /\ \A y \in Y : r[y] = k[y]
    BY <1>1, <2>1
  <2>3. Sum(g, Y) = Sum(r, Y) /\ Sum(k, Y) = Sum(r, Y)
    BY <1>2, <2>2, SumSame
  <2> QED
    BY <2>3
<1>6. Sum(g, Y) \in Nat /\ g[z] \in Nat
  BY <1>2, SumType
<1> QED
  BY <1>3, <1>4, <1>5, <1>6

\* A report adds its run to what is told of its test.
LEMMA ReportedTold ==
  ASSUME NEW h \in Histories, NEW r \in Histories, NEW me \in Keys, NEW day \in Days,
         NEW outcome \in Outcomes, NEW commit \in Commits,
         r.runs = Reported(h, me, day, outcome, commit).runs, NEW key \in Keys, NEW c \in Counters
  PROVE  ToldOf(r, key, c) =
           ToldOf(h, key, c) + (IF key = me /\ c = CounterOf(outcome) THEN 1 ELSE 0)
<1>1. \A k \in Keys, d \in Days :
        r.runs[k][d] = IF k = me /\ d = day THEN Told(h.runs[k][d], outcome, commit)
                       ELSE h.runs[k][d]
  BY ReportedRuns
<1>2. PICK g, k : g = DaysTold(h, key, c) /\ k = DaysTold(r, key, c)
  OBVIOUS
<1>3. /\ g \in [Days -> Nat] /\ k \in [Days -> Nat] /\ ToldOf(h, key, c) \in Nat
      /\ ToldOf(h, key, c) = Sum(g, Days) /\ ToldOf(r, key, c) = Sum(k, Days)
  BY <1>2, DaysToldType
<1>4. \A d \in Days : g[d] = h.runs[key][d].counts[c] /\ k[d] = r.runs[key][d].counts[c]
  BY <1>2 DEF DaysTold
<1>5. h.runs[key][day].counts \in [Counters -> Nat]
  BY DEF Histories, Runs
<1>6. Told(h.runs[key][day], outcome, commit).counts[c] =
        h.runs[key][day].counts[c] + (IF c = CounterOf(outcome) THEN 1 ELSE 0)
  BY <1>5 DEF Told
<1>7. \A d \in Days : d # day => k[d] = g[d]
  BY <1>1, <1>4
<1>8. PICK D : D = Days
  OBVIOUS
<1>9. CASE key = me /\ c = CounterOf(outcome)
  <2>1. k[day] = g[day] + 1
    BY <1>1, <1>4, <1>6, <1>9
  <2>2. Sum(k, D) = Sum(g, D) + 1
    BY <1>3, <1>7, <1>8, <2>1, DaysFinite, SumOneAdded
  <2> QED
    BY <1>3, <1>8, <1>9, <2>2
<1>10. CASE ~ (key = me /\ c = CounterOf(outcome))
  <2>1. k[day] = g[day]
    BY <1>1, <1>4, <1>5, <1>6, <1>10
  <2>2. k = g
    BY <1>3, <1>7, <2>1
  <2> QED
    BY <1>3, <1>10, <2>2
<1> QED
  BY <1>9, <1>10

LEMMA CombinedTold ==
  ASSUME NEW h \in Histories, NEW g \in Histories, NEW r \in Histories,
         r.runs = Combined(h, g).runs, NEW key \in Keys, NEW c \in Counters
  PROVE  ToldOf(r, key, c) = ToldOf(h, key, c) + ToldOf(g, key, c)
<1>1. \A d \in Days : r.runs[key][d] = Joined(h.runs[key][d], g.runs[key][d])
  BY CombinedProperties
<1>2. PICK p, q, k : p = DaysTold(h, key, c) /\ q = DaysTold(g, key, c) /\ k = DaysTold(r, key, c)
  OBVIOUS
<1>3. /\ p \in [Days -> Nat] /\ q \in [Days -> Nat] /\ k \in [Days -> Nat]
      /\ ToldOf(h, key, c) = Sum(p, Days) /\ ToldOf(g, key, c) = Sum(q, Days)
      /\ ToldOf(r, key, c) = Sum(k, Days)
  BY <1>2, DaysToldType
<1>4. \A d \in Days : /\ p[d] = h.runs[key][d].counts[c] /\ q[d] = g.runs[key][d].counts[c]
                      /\ k[d] = r.runs[key][d].counts[c]
  BY <1>2 DEF DaysTold
<1>5. PICK D : D = Days
  OBVIOUS
<1>6. ASSUME NEW d \in D
      PROVE  k[d] = p[d] + q[d]
  <2>1. \A a, b : Joined(a, b).counts[c] = a.counts[c] + b.counts[c]
    BY DEF Joined
  <2> QED
    BY <1>1, <1>4, <1>5, <2>1
<1>7. k = [d \in D |-> p[d] + q[d]]
  BY <1>3, <1>5, <1>6
<1>8. Sum([x \in D |-> p[x] + q[x]], D) = Sum(p, D) + Sum(q, D)
  BY <1>3, <1>5, DaysFinite, SumOfSums
<1> QED
  BY <1>3, <1>5, <1>7, <1>8

LEMMA SameRunsTold ==
  ASSUME NEW h, NEW r, r.runs = h.runs
  PROVE  \A key, c : ToldOf(r, key, c) = ToldOf(h, key, c)
  BY DEF ToldOf

-----------------------------------------------------------------------------
(* The invariant: what is counted of a test, in the writer and in the       *)
(* record of it that a loop has not come to, is no more than was reported.  *)

PendingCount(key, c) == IF key \in Ahead THEN Kept(source, key, c) ELSE 0

FileTotals(t, h) == \A key \in Keys, c \in Counters : Kept(t, key, c) <= ToldOf(h, key, c)

WriterTotals ==
  \A key \in Keys, c \in Counters :
    Kept(writer, key, c) + PendingCount(key, c) <= ToldOf(history, key, c)

TotalsInv == WriterTotals /\ \A f \in DOMAIN files : FileTotals(files[f], histories[f])

\* Outside of the loops the writer alone counts.
LEMMA IdleTotals ==
  /\ source = NoTable /\ next \in Nat \ {0} /\ GoodTable(writer)
       => (WriterTotals <=> FileTotals(writer, history))
  /\ source' = NoTable /\ next' \in Nat \ {0} /\ GoodTable(writer')
       => (WriterTotals' <=> FileTotals(writer', history'))
<1>1. ASSUME source = NoTable, next \in Nat \ {0}, GoodTable(writer)
      PROVE  WriterTotals <=> FileTotals(writer, history)
  <2>1. \A key, c : PendingCount(key, c) = 0
    BY <1>1, NothingAhead DEF PendingCount
  <2>2. \A key \in Keys, c \in Counters : Kept(writer, key, c) \in Nat
    BY <1>1, KeptType
  <2> QED
    BY <2>1, <2>2 DEF WriterTotals, FileTotals
<1>2. ASSUME source' = NoTable, next' \in Nat \ {0}, GoodTable(writer')
      PROVE  WriterTotals' <=> FileTotals(writer', history')
  <2>1. \A key, c : PendingCount(key, c)' = 0
    BY <1>2, NothingAhead DEF PendingCount
  <2>2. \A key \in Keys, c \in Counters : Kept(writer', key, c) \in Nat
    BY <1>2, KeptType
  <2>3. \A key, c : Kept(writer, key, c)' = Kept(writer', key, c)
                    /\ ToldOf(history, key, c)' = ToldOf(history', key, c)
    OBVIOUS
  <2> QED
    BY <2>1, <2>2 DEF WriterTotals, FileTotals
<1> QED
  BY <1>1, <1>2

-----------------------------------------------------------------------------
(* Every step keeps the totals.                                            *)

LEMMA FilesTotalled ==
  ASSUME TotalsInv, UNCHANGED <<files, histories>>, WriterTotals'
  PROVE  TotalsInv'
  BY DEF TotalsInv, FileTotals

\* A table without records counts nothing.
LEMMA EmptyTotals ==
  ASSUME IInv', HistoryInv', writer'.tests = <<>>, source' = NoTable
  PROVE  WriterTotals'
<1>1. StateSound(phase', writer', session', source', next', files')
  BY IInvIsSound
<1>2. GoodTable(writer') /\ next' \in Nat \ {0} /\ history' \in Histories
  BY <1>1 DEF StateSound, SoundTable, HistoryInv
<1>3. ASSUME NEW key \in Keys, NEW c \in Counters
      PROVE  Kept(writer', key, c) <= ToldOf(history', key, c)
  <2>1. Kept(writer', key, c) = 0
    BY EmptyKept
  <2>2. ToldOf(history', key, c) \in Nat
    BY <1>2, DaysToldType
  <2> QED
    BY <2>1, <2>2
<1> QED
  BY <1>2, <1>3, IdleTotals DEF FileTotals

\* Tables with the same records count the same.
LEMMA SameTotals ==
  ASSUME NEW t, NEW h, FileTotals(t, h),
         NEW w, w.tests = t.tests, w.testdata = t.testdata, w.num_days = t.num_days
  PROVE  FileTotals(w, h)
  BY SameRecordsKept DEF FileTotals

LEMMA NewTotals ==
  ASSUME IInv, IInv', HistoryInv', TotalsInv, NEW num_days \in Windows, NewH(num_days)
  PROVE  TotalsInv'
<1>1. StateSound(phase, writer, session, source, next, files)
  BY IInvIsSound
<1>2. source' = NoTable /\ writer'.tests = <<>> /\ UNCHANGED <<files, histories>>
  BY <1>1 DEF StateSound, NewH, New, NewTable
<1> QED
  BY <1>2, EmptyTotals, FilesTotalled

LEMMA OpenTotals ==
  ASSUME IInv, IInv', TotalsInv, NEW f \in DOMAIN files, NEW now \in ClockTimes, OpenH(f, now)
  PROVE  TotalsInv'
<1>1. StateSound(phase, writer, session, source, next, files)
  BY IInvIsSound
<1>2. StateSound(phase', writer', session', source', next', files')
  BY IInvIsSound
<1>3. /\ source' = NoTable /\ next' \in Nat \ {0} /\ GoodTable(writer')
      /\ files[f] \in Table
  BY <1>1, <1>2 DEF StateSound, SoundTable, GoodTable, OpenH, Open
<1>4. writer' = Parse(files[f], now) /\ history' = histories[f] /\ UNCHANGED <<files, histories>>
  BY DEF OpenH, Open
<1>5. /\ writer'.tests = files[f].tests /\ writer'.testdata = files[f].testdata
      /\ writer'.num_days = files[f].num_days
  BY <1>3, <1>4 DEF Parse, Table
<1>6. FileTotals(writer', history')
  BY <1>4, <1>5, SameTotals DEF TotalsInv
<1> QED
  BY <1>3, <1>4, <1>6, IdleTotals, FilesTotalled

LEMMA SerializeTotals ==
  ASSUME IInv, IInv', HistoryInv, HistoryInv', TotalsInv, SerializeH
  PROVE  TotalsInv'
<1>1. StateSound(phase, writer, session, source, next, files)
  BY IInvIsSound
<1>2. /\ source = NoTable /\ source' = NoTable /\ next \in Nat \ {0} /\ GoodTable(writer)
  BY <1>1 DEF StateSound, SoundTable, SerializeH, Serialize, Ready
<1>3. /\ writer'.tests = <<>>
      /\ files' = Append(files, writer) /\ histories' = Append(histories, history)
      /\ files \in Seq(Table) /\ writer \in Table
  BY <1>1 DEF SerializeH, Serialize, StateSound, SoundTable, GoodTable, NoTable, NewTable
<1>4. /\ Len(files) \in Nat /\ DOMAIN files = 1 .. Len(files)
      /\ DOMAIN files' = 1 .. Len(files) + 1
      /\ \A f \in 1 .. Len(files) : files'[f] = files[f]
      /\ files'[Len(files) + 1] = writer
  BY <1>3, AppendProperties
<1>5. /\ \A f \in 1 .. Len(histories) : histories'[f] = histories[f]
      /\ histories'[Len(histories) + 1] = history
  BY <1>3, AppendProperties DEF HistoryInv
<1>6. Len(histories) = Len(files)
  BY DEF HistoryInv
<1>7. FileTotals(writer, history)
  BY <1>2, IdleTotals DEF TotalsInv
<1>8. ASSUME NEW f \in DOMAIN files'
      PROVE  FileTotals(files'[f], histories'[f])
  <2>1. CASE f = Len(files) + 1
    BY <1>4, <1>5, <1>6, <1>7, <2>1
  <2>2. CASE f # Len(files) + 1
    <3>1. f \in 1 .. Len(files)
      BY <1>4, <2>2
    <3>2. files'[f] = files[f] /\ histories'[f] = histories[f]
      BY <1>4, <1>5, <1>6, <3>1
    <3> QED
      BY <1>4, <3>1, <3>2 DEF TotalsInv
  <2> QED
    BY <2>1, <2>2
<1>9. WriterTotals'
  BY <1>2, <1>3, EmptyTotals
<1>10. (\A f \in DOMAIN files : FileTotals(files[f], histories[f]))'
  BY <1>8
<1> QED
  BY <1>9, <1>10 DEF TotalsInv

\* The steps that only move the clock of the writer.
LEMMA ClockTotals ==
  ASSUME IInv, IInv', TotalsInv, Ready,
         writer'.tests = writer.tests, writer'.testdata = writer.testdata,
         writer'.num_days = writer.num_days,
         UNCHANGED <<source, next, files, history, histories>>
  PROVE  TotalsInv'
<1>1. StateSound(phase, writer, session, source, next, files)
  BY IInvIsSound
<1>2. StateSound(phase', writer', session', source', next', files')
  BY IInvIsSound
<1>3. GoodTable(writer) /\ GoodTable(writer') /\ source = NoTable /\ next \in Nat \ {0}
  BY <1>1, <1>2 DEF StateSound, SoundTable, Ready
<1>4. FileTotals(writer, history)
  BY <1>3, IdleTotals DEF TotalsInv
<1>5. FileTotals(writer', history')
  BY <1>4, SameTotals
<1> QED
  BY <1>3, <1>5, IdleTotals, FilesTotalled

LEMMA StartSessionTotals ==
  ASSUME IInv, IInv', TotalsInv, NEW timestamp \in Times, NEW commit \in Commits,
         NEW flags \in FlagSets, StartSessionH(timestamp, commit, flags)
  PROVE  TotalsInv'
<1>1. StateSound(phase, writer, session, source, next, files)
  BY IInvIsSound
<1>2. writer \in Table
  BY <1>1 DEF StateSound, SoundTable, GoodTable
<1>3. /\ Ready /\ UNCHANGED <<source, next, files, history, histories>>
      /\ writer'.tests = writer.tests /\ writer'.testdata = writer.testdata
      /\ writer'.num_days = writer.num_days
  BY <1>2 DEF StartSessionH, StartSession, Table
<1> QED
  BY <1>3, ClockTotals

LEMMA RewriteSkipTotals ==
  ASSUME IInv, IInv', TotalsInv, NEW num_days, NEW timestamp, NEW threshold,
         StepH(RewriteSkip(num_days, timestamp, threshold))
  PROVE  TotalsInv'
<1>1. StateSound(phase, writer, session, source, next, files)
  BY IInvIsSound
<1>2. writer \in Table
  BY <1>1 DEF StateSound, SoundTable, GoodTable
<1>3. /\ Ready /\ UNCHANGED <<source, next, files, history, histories>>
      /\ writer'.tests = writer.tests /\ writer'.testdata = writer.testdata
      /\ writer'.num_days = writer.num_days
  BY <1>2 DEF StepH, RewriteSkip, Table
<1> QED
  BY <1>3, ClockTotals

\* A run that was reported, and that the writer counts once or not at all.
LEMMA ReportTotals ==
  ASSUME IInv, IInv', HistoryInv, HistoryInv', SessionDated, TotalsInv, phase = "session",
         NEW test \in Tests, NEW outcome \in Outcomes, NEW newest, Report(test, outcome, newest),
         UNCHANGED <<source, next, files>>,
         \A key \in Keys, c \in Counters : key # SessionKey(test) =>
           Kept(writer', key, c) = Kept(writer, key, c),
         \A c \in Counters :
           Kept(writer', SessionKey(test), c)
             <= Kept(writer, SessionKey(test), c) + (IF c = CounterOf(outcome) THEN 1 ELSE 0)
  PROVE  TotalsInv'
<1> DEFINE me == SessionKey(test)
           today == Day(session.timestamp)
           told == Reported(history, me, today, outcome, session.commit)
<1>1. StateSound(phase, writer, session, source, next, files)
  BY IInvIsSound
<1>2. StateSound(phase', writer', session', source', next', files')
  BY IInvIsSound
<1>3. /\ GoodTable(writer) /\ GoodTable(writer') /\ me \in Keys /\ session.commit \in Commits
      /\ source = NoTable /\ source' = NoTable /\ next \in Nat \ {0} /\ next' \in Nat \ {0}
  BY <1>1, <1>2 DEF StateSound, SoundTable, SessionKey, Keys, Session
<1>4. today \in Days
  BY DEF SessionDated, Days
<1>5. history \in Histories /\ history' \in Histories
  BY DEF HistoryInv
<1>6. history'.runs = told.runs /\ UNCHANGED histories
  <2>1. told \in Histories
    BY <1>3, <1>5, ReportedRuns
  <2>2. \E late : history' = [told EXCEPT !.late = late]
    BY DEF Report
  <2> HIDE DEF told
  <2> QED
    BY <2>1, <2>2 DEF Histories, Report
<1> HIDE DEF me, today
<1>7. \A key \in Keys, c \in Counters :
        ToldOf(history', key, c) =
          ToldOf(history, key, c) + (IF key = me /\ c = CounterOf(outcome) THEN 1 ELSE 0)
  BY <1>3, <1>4, <1>5, <1>6, ReportedTold
<1>8. FileTotals(writer, history)
  BY <1>3, IdleTotals DEF TotalsInv
<1>9. ASSUME NEW key \in Keys, NEW c \in Counters
      PROVE  Kept(writer', key, c) <= ToldOf(history', key, c)
  <2>1. Kept(writer, key, c) <= ToldOf(history, key, c)
    BY <1>8 DEF FileTotals
  <2>2. /\ Kept(writer, key, c) \in Nat /\ Kept(writer', key, c) \in Nat
        /\ ToldOf(history, key, c) \in Nat
    BY <1>3, <1>5, KeptType, DaysToldType
  <2>3. CASE key = me
    <3>1. Kept(writer', key, c) <= Kept(writer, key, c) + (IF c = CounterOf(outcome) THEN 1 ELSE 0)
      BY <2>3 DEF me
    <3> QED
      BY <1>7, <2>1, <2>2, <2>3, <3>1
  <2>4. CASE key # me
    <3>1. Kept(writer', key, c) = Kept(writer, key, c)
      BY <2>4 DEF me
    <3> QED
      BY <1>7, <2>1, <2>2, <2>4, <3>1
  <2> QED
    BY <2>3, <2>4
<1>10. FileTotals(writer', history')
  BY <1>9 DEF FileTotals
<1> QED
  BY <1>3, <1>6, <1>10, IdleTotals, FilesTotalled

LEMMA InsertTotals ==
  ASSUME IInv, IInv', HistoryInv, HistoryInv', SessionDated, TotalsInv,
         NEW test \in Tests, NEW outcome \in Outcomes,
         \/ InsertNewH(test, outcome)
         \/ InsertNewerH(test, outcome)
         \/ InsertHistoricH(test, outcome)
  PROVE  TotalsInv'
<1>1. Inserted(test, outcome) /\ phase = "session" /\ UNCHANGED <<session, source, next, files>>
  BY DEF InsertNewH, InsertNewerH, InsertHistoricH, Inserted, InsertNew, InsertNewer,
         InsertHistoric, Historic
<1>2. \E newest : Report(test, outcome, newest)
  BY DEF InsertNewH, InsertNewerH, InsertHistoricH
<1>3. PICK newest : Report(test, outcome, newest)
  BY <1>2
<1>4. PICK me : me = SessionKey(test)
  OBVIOUS
<1>5. \A c \in Counters :
        Kept(writer', me, c) <= Kept(writer, me, c) + (IF c = CounterOf(outcome) THEN 1 ELSE 0)
  BY <1>1, <1>4, InsertedKept
<1>6. /\ GoodTable(writer) /\ GoodTable(writer')
      /\ KeysOf(writer') = KeysOf(writer) \cup {me}
      /\ OnlyRecord(writer', writer, InsertIndex(test))
      /\ InsertIndex(test) \in DOMAIN writer.tests => writer.tests[InsertIndex(test)].key = me
  BY <1>1, <1>4, InsertsShape
<1>7. PICK i : i = InsertIndex(test)
  OBVIOUS
<1>8. \A key \in Keys, c \in Counters : key # me => Kept(writer', key, c) = Kept(writer, key, c)
  BY <1>6, <1>7, OtherKeysKept
<1> QED
  BY <1>1, <1>3, <1>4, <1>5, <1>8, ReportTotals

\* A run too old to be counted.
LEMMA InsertExpiredTotals ==
  ASSUME IInv, IInv', HistoryInv, HistoryInv', SessionDated, TotalsInv,
         NEW test \in Tests, NEW outcome \in Outcomes, InsertExpiredH(test, outcome)
  PROVE  TotalsInv'
<1>1. /\ Report(test, outcome, FALSE) /\ phase = "session"
      /\ UNCHANGED <<session, source, next, files>>
      /\ Known(test) /\ writer' = InsertFull(writer, SessionKey(test))
  BY DEF InsertExpiredH, InsertExpired, Historic
<1>2. PICK me : me = SessionKey(test)
  OBVIOUS
<1>3. GoodTable(writer) /\ me \in Keys /\ me \in KeysOf(writer)
  <2>1. StateSound(phase, writer, session, source, next, files)
    BY IInvIsSound
  <2> QED
    BY <1>1, <1>2, <2>1 DEF StateSound, SoundTable, SessionKey, Keys, Session, Known
<1>4. /\ GoodTable(writer') /\ writer'.num_days = writer.num_days
      /\ writer'.testdata = writer.testdata
      /\ \A j \in DOMAIN writer.tests : writer'.tests[j].key = writer.tests[j].key
      /\ Len(writer'.tests) = Len(writer.tests)
  BY <1>1, <1>2, <1>3, ReplacedRecord
<1>5. DOMAIN writer'.tests = DOMAIN writer.tests
  BY <1>3, <1>4 DEF GoodTable, Table
<1>6. KeysOf(writer') = KeysOf(writer)
  BY <1>4, <1>5 DEF KeysOf
<1>7. ASSUME NEW key, NEW c
      PROVE  Kept(writer', key, c) = Kept(writer, key, c)
  <2>1. CASE key \in KeysOf(writer)
    <3>1. PICK j \in DOMAIN writer.tests : writer.tests[j].key = key
      BY <2>1 DEF KeysOf
    <3>2. Kept(writer, key, c) = Sum(Counted(writer, j, c), 0 .. writer.num_days - 1)
      BY <1>3, <3>1, KeptInRecord
    <3>3. j \in DOMAIN writer'.tests /\ writer'.tests[j].key = key
      BY <1>4, <1>5, <3>1
    <3>4. Kept(writer', key, c) = Sum(Counted(writer', j, c), 0 .. writer'.num_days - 1)
      BY <1>4, <3>3, KeptInRecord
    <3>5. Counted(writer', j, c) = Counted(writer, j, c)
      BY <1>4 DEF Counted, BucketAt, RecordRange
    <3> QED
      BY <1>4, <3>2, <3>4, <3>5
  <2>2. CASE key \notin KeysOf(writer)
    BY <1>6, <2>2 DEF Kept
  <2> QED
    BY <2>1, <2>2
<1>8. \A c \in Counters :
        Kept(writer', me, c) <= Kept(writer, me, c) + (IF c = CounterOf(outcome) THEN 1 ELSE 0)
  <2>1. \A c \in Counters : Kept(writer, me, c) \in Nat
    BY <1>3, KeptType
  <2> QED
    BY <1>7, <2>1
<1> QED
  BY <1>1, <1>2, <1>7, <1>8, ReportTotals

LEMMA MergeBeginTotals ==
  ASSUME IInv, IInv', HistoryInv, HistoryInv', TotalsInv,
         NEW f \in DOMAIN files, NEW g \in DOMAIN files, NEW now \in ClockTimes, MergeBeginH(f, g, now)
  PROVE  TotalsInv'
<1> DEFINE a == Parse(files[f], now)
           b == Parse(files[g], now)
           l == Larger(a, b)
           s == Smaller(a, b)
           both == Combined(histories[f], histories[g])
<1>1. StateSound(phase, writer, session, source, next, files)
  BY IInvIsSound
<1>2. StateSound(phase', writer', session', source', next', files')
  BY IInvIsSound
<1>3. /\ writer' = [l EXCEPT !.timestamp = MaxOf(a.timestamp, b.timestamp)]
      /\ source' = s /\ next' = 1 /\ UNCHANGED <<files, histories>>
      /\ history' = IF s.num_days < l.num_days THEN [both EXCEPT !.shed = Keys] ELSE both
  BY DEF MergeBeginH, MergeBegin
<1>4. ASSUME NEW i \in DOMAIN files
      PROVE  /\ Parse(files[i], now) \in Table /\ GoodTable(Parse(files[i], now))
             /\ FileTotals(Parse(files[i], now), histories[i]) /\ histories[i] \in Histories
  <2>1. SoundTable(files[i]) /\ files[i] \in Table
    BY <1>1 DEF StateSound, SoundTable, GoodTable
  <2>2. now \in Nat
    BY ConstantsAssumption
  <2>3. GoodTable(Parse(files[i], now)) /\ Parse(files[i], now) \in Table
    BY <2>1, <2>2, ParseSound DEF SoundTable, GoodTable
  <2>4. /\ Parse(files[i], now).tests = files[i].tests
        /\ Parse(files[i], now).testdata = files[i].testdata
        /\ Parse(files[i], now).num_days = files[i].num_days
    BY <2>1 DEF Parse, Table
  <2>5. FileTotals(Parse(files[i], now), histories[i])
    BY <2>4, SameTotals DEF TotalsInv
  <2>6. DOMAIN histories = DOMAIN files
    BY <1>1 DEF HistoryInv, StateSound
  <2>7. histories[i] \in Histories
    BY <2>6, ElementOfSeq DEF HistoryInv
  <2> QED
    BY <2>3, <2>5, <2>7
<1>5. PICK hl \in Histories, hs \in Histories :
        /\ l \in Table /\ GoodTable(l) /\ FileTotals(l, hl)
        /\ GoodTable(s) /\ FileTotals(s, hs)
        /\ both = Combined(hl, hs)
  <2>1. CASE SecondIsLarger(a, b)
    <3>1. l = b /\ s = a
      BY <2>1 DEF Larger, Smaller
    <3>2. both = Combined(histories[g], histories[f])
      BY <1>4, CombinedProperties
    <3> HIDE DEF a, b, l, s, both
    <3> QED
      BY <1>4, <3>1, <3>2 DEF a, b
  <2>2. CASE ~ SecondIsLarger(a, b)
    <3>1. l = a /\ s = b
      BY <2>2 DEF Larger, Smaller
    <3>2. both = Combined(histories[f], histories[g])
      OBVIOUS
    <3> HIDE DEF a, b, l, s, both
    <3> QED
      BY <1>4, <3>1, <3>2 DEF a, b
  <2> QED
    BY <2>1, <2>2
<1> HIDE DEF a, b, l, s, both
<1>6. /\ writer'.tests = l.tests /\ writer'.testdata = l.testdata
      /\ writer'.num_days = l.num_days
  BY <1>3, <1>5 DEF Table
<1>7. history' \in Histories /\ history'.runs = Combined(hl, hs).runs
  <2>1. both \in Histories
    BY <1>5, CombinedProperties
  <2>2. history'.runs = both.runs
    BY <1>3, <2>1 DEF Histories
  <2> QED
    BY <1>5, <2>2 DEF HistoryInv
<1>8. source' \in Table /\ GoodTable(source') /\ GoodTable(writer')
  BY <1>2 DEF StateSound, SoundTable, GoodTable
<1>9. Ahead' = KeysOf(source')
  BY <1>3, <1>8, AllAhead
<1>10. ASSUME NEW key \in Keys, NEW c \in Counters
       PROVE  Kept(writer', key, c) + PendingCount(key, c)' <= ToldOf(history', key, c)
  <2>1. Kept(writer', key, c) = Kept(l, key, c)
    BY <1>6, SameRecordsKept
  <2>2. PendingCount(key, c)' = Kept(s, key, c)
    BY <1>3, <1>9 DEF PendingCount, Kept
  <2>3. Kept(l, key, c) <= ToldOf(hl, key, c) /\ Kept(s, key, c) <= ToldOf(hs, key, c)
    BY <1>5 DEF FileTotals
  <2>4. ToldOf(history', key, c) = ToldOf(hl, key, c) + ToldOf(hs, key, c)
    BY <1>5, <1>7, CombinedTold
  <2>5. /\ Kept(l, key, c) \in Nat /\ Kept(s, key, c) \in Nat
        /\ ToldOf(hl, key, c) \in Nat /\ ToldOf(hs, key, c) \in Nat
    BY <1>5, KeptType, DaysToldType
  <2> QED
    BY <2>1, <2>2, <2>3, <2>4, <2>5
<1>11. WriterTotals'
  BY <1>10 DEF WriterTotals
<1> QED
  BY <1>3, <1>11, FilesTotalled

\* What a step of the loops leaves of what is pending.
LEMMA PendingAdvances ==
  ASSUME GoodTable(source), next \in DOMAIN source.tests, next' = next + 1, source' = source
  PROVE  /\ \A c : PendingCount(source.tests[next].key, c) = Kept(source, source.tests[next].key, c)
         /\ \A key, c : PendingCount(key, c)' = IF key = source.tests[next].key THEN 0
                                                ELSE PendingCount(key, c)
<1>1. PICK me : me = source.tests[next].key
  OBVIOUS
<1>2. Ahead = Ahead' \cup {me} /\ me \notin Ahead'
  BY <1>1, AheadAdvances
<1>3. \A key, c : Kept(source, key, c)' = Kept(source, key, c)
  BY DEF Kept, Counted
<1>4. \A key, c : PendingCount(key, c)' = IF key \in Ahead' THEN Kept(source, key, c) ELSE 0
  BY <1>3 DEF PendingCount
<1> QED
  BY <1>1, <1>2, <1>4 DEF PendingCount

\* A step of a loop: what the writer then counts of the test of the record was
\* counted by the writer or by the record.
LEMMA LoopTotals ==
  ASSUME IInv, IInv', HistoryInv, TotalsInv, next \in DOMAIN source.tests, next' = next + 1,
         UNCHANGED <<source, files, histories>>, history'.runs = history.runs,
         \A key \in Keys, c \in Counters : key # source.tests[next].key =>
           Kept(writer', key, c) = Kept(writer, key, c),
         \A c \in Counters :
           Kept(writer', source.tests[next].key, c)
             <= Kept(writer, source.tests[next].key, c) + Kept(source, source.tests[next].key, c)
  PROVE  TotalsInv'
<1>1. StateSound(phase, writer, session, source, next, files)
  BY IInvIsSound
<1>2. StateSound(phase', writer', session', source', next', files')
  BY IInvIsSound
<1>3. GoodTable(writer) /\ GoodTable(writer') /\ GoodTable(source) /\ history \in Histories
  BY <1>1, <1>2 DEF StateSound, SoundTable, HistoryInv
<1>4. PICK me : me = source.tests[next].key
  OBVIOUS
<1>5. ASSUME NEW key \in Keys, NEW c \in Counters
      PROVE  Kept(writer', key, c) + PendingCount(key, c)' <= ToldOf(history', key, c)
  <2>1. Kept(writer, key, c) + PendingCount(key, c) <= ToldOf(history, key, c)
    BY DEF TotalsInv, WriterTotals
  <2>2. ToldOf(history', key, c) = ToldOf(history, key, c)
    BY SameRunsTold
  <2>3. /\ Kept(writer, key, c) \in Nat /\ Kept(writer', key, c) \in Nat
        /\ Kept(source, key, c) \in Nat /\ ToldOf(history, key, c) \in Nat
    BY <1>3, KeptType, DaysToldType
  <2>4. CASE key = me
    <3>1. PendingCount(key, c) = Kept(source, key, c) /\ PendingCount(key, c)' = 0
      BY <1>3, <1>4, <2>4, PendingAdvances
    <3>2. Kept(writer', key, c) <= Kept(writer, key, c) + Kept(source, key, c)
      BY <1>4, <2>4
    <3> QED
      BY <2>1, <2>2, <2>3, <3>1, <3>2
  <2>5. CASE key # me
    <3>1. PendingCount(key, c)' = PendingCount(key, c)
      BY <1>3, <1>4, <2>5, PendingAdvances
    <3>2. Kept(writer', key, c) = Kept(writer, key, c)
      BY <1>4, <2>5
    <3> QED
      BY <2>1, <2>2, <3>1, <3>2
  <2> QED
    BY <2>4, <2>5
<1>6. WriterTotals'
  BY <1>5 DEF WriterTotals
<1> QED
  BY <1>6, FilesTotalled

LEMMA MergeRecordTotals ==
  ASSUME IInv, IInv', HistoryInv, TotalsInv, MergeRecordH
  PROVE  TotalsInv'
<1>1. StateSound(phase, writer, session, source, next, files)
  BY IInvIsSound
<1>2. /\ MergeRecord /\ UNCHANGED <<source, files, histories>> /\ next' = next + 1
      /\ next \in DOMAIN source.tests
  BY <1>1 DEF StateSound, GoodTable, Table, MergeRecordH, MergeRecord
<1>3. history'.runs = history.runs
  <2>1. history \in Histories
    BY DEF HistoryInv
  <2>2. \E shed : history' = [history EXCEPT !.shed = shed] \/ history' = history
    BY DEF MergeRecordH
  <2> QED
    BY <2>1, <2>2 DEF Histories
<1>4. MergePre
  BY <1>1, <1>2 DEF MergePre, StateSound, SoundTable
<1>5. PICK me, i : me = MergeKey /\ i = MergeIndex
  OBVIOUS
<1>6. /\ GoodTable(writer) /\ GoodTable(writer') /\ KeysOf(writer') = KeysOf(writer) \cup {me}
      /\ OnlyRecord(writer', writer, i)
      /\ i \in DOMAIN writer.tests => writer.tests[i].key = me
  BY <1>2, <1>4, <1>5, MergeShape DEF MergePre
<1>7. \A key \in Keys, c \in Counters : key # me => Kept(writer', key, c) = Kept(writer, key, c)
  BY <1>6, OtherKeysKept
<1>8. \A c \in Counters : Kept(writer', me, c) <= Kept(writer, me, c) + Kept(source, me, c)
  BY <1>2, <1>4, <1>5, MergedKept
<1>9. me = source.tests[next].key
  BY <1>5 DEF MergeKey
<1> QED
  BY <1>2, <1>3, <1>7, <1>8, <1>9, LoopTotals

LEMMA RewriteDeadTotals ==
  ASSUME IInv, IInv', HistoryInv, TotalsInv, StepH(RewriteDead)
  PROVE  TotalsInv'
<1>1. StateSound(phase, writer, session, source, next, files)
  BY IInvIsSound
<1>2. /\ UNCHANGED <<writer, source, files, history, histories>> /\ next' = next + 1
      /\ next \in DOMAIN source.tests
  BY <1>1 DEF StateSound, SoundTable, GoodTable, Table, StepH, RewriteDead
<1>3. \A key, c : Kept(writer', key, c) = Kept(writer, key, c)
  BY <1>2
<1>4. \A c \in Counters :
        /\ Kept(writer, source.tests[next].key, c) \in Nat
        /\ Kept(source, source.tests[next].key, c) \in Nat
  BY <1>1, KeptType DEF StateSound, SoundTable
<1>5. \A c \in Counters :
        Kept(writer', source.tests[next].key, c)
          <= Kept(writer, source.tests[next].key, c) + Kept(source, source.tests[next].key, c)
  BY <1>3, <1>4
<1> QED
  BY <1>2, <1>3, <1>5, LoopTotals

LEMMA RewriteLiveTotals ==
  ASSUME IInv, IInv', HistoryInv, TotalsInv, StepH(RewriteLive)
  PROVE  TotalsInv'
<1>1. StateSound(phase, writer, session, source, next, files)
  BY IInvIsSound
<1>2. /\ RewriteLive /\ phase = "rewrite"
      /\ UNCHANGED <<source, files, history, histories>> /\ next' = next + 1
      /\ next \in DOMAIN source.tests /\ next \in next .. Len(source.tests)
      /\ GoodTable(source) /\ NoneAfter(source, writer.timestamp)
      /\ GoodTable(writer) /\ NoneAfter(writer, writer.timestamp)
  BY <1>1 DEF StateSound, SoundTable, GoodTable, Table, StepH, RewriteLive
<1>3. PICK me : me = source.tests[next].key
  OBVIOUS
<1>4. me \notin KeysOf(writer)
  BY <1>1, <1>2, <1>3 DEF StateSound
<1>5. GoodTable(writer') /\ KeysOf(writer') = KeysOf(writer) \cup {me}
  BY <1>2, <1>3, <1>4, RewrittenRecord
<1>6. PICK i : i = 0
  OBVIOUS
<1>7. OnlyRecord(writer', writer, i) /\ i \notin DOMAIN writer.tests
  <2>1. DOMAIN writer.tests = 1 .. Len(writer.tests) /\ Len(writer.tests) \in Nat
    BY <1>2 DEF GoodTable, Table
  <2> QED
    BY <1>2, <1>6, <2>1, RewriteLiveOnly
<1>8. \A key \in Keys, c \in Counters : key # me => Kept(writer', key, c) = Kept(writer, key, c)
  <2>1. i \in DOMAIN writer.tests => writer.tests[i].key = me
    BY <1>7
  <2>2. KeysOf(writer') \subseteq KeysOf(writer) \cup {me} /\ GoodTable(writer)
    BY <1>2, <1>5
  <2> QED
    BY <1>5, <1>7, <2>1, <2>2, OtherKeysKept
<1>9. ASSUME NEW c \in Counters
      PROVE  Kept(writer', me, c) <= Kept(writer, me, c) + Kept(source, me, c)
  <2>1. Kept(writer', me, c) <= Kept(source, me, c)
    BY <1>2, <1>3, <1>5, RewrittenKept
  <2>2. Kept(writer, me, c) = 0
    BY <1>4 DEF Kept
  <2>3. Kept(source, me, c) \in Nat
    BY <1>2, KeptType
  <2> QED
    BY <2>1, <2>2, <2>3
<1> QED
  BY <1>2, <1>3, <1>8, <1>9, LoopTotals

LEMMA RewriteBeginTotals ==
  ASSUME IInv, IInv', HistoryInv, TotalsInv, NEW num_days \in Windows,
         NEW timestamp \in ClockTimes, NEW threshold, RewriteBeginH(num_days, timestamp, threshold)
  PROVE  TotalsInv'
<1> DEFINE now == MaxOf(writer.timestamp, timestamp)
<1>1. StateSound(phase, writer, session, source, next, files)
  BY IInvIsSound
<1>2. StateSound(phase', writer', session', source', next', files')
  BY IInvIsSound
<1>3. /\ GoodTable(writer) /\ writer \in Table /\ source' \in Table
      /\ source = NoTable /\ next \in Nat \ {0} /\ history \in Histories
  BY <1>1, <1>2 DEF StateSound, SoundTable, GoodTable, HistoryInv, RewriteBeginH, RewriteBegin, Ready
<1>4. /\ next' = 1 /\ UNCHANGED <<files, histories>>
      /\ writer' = [NewTable(num_days) EXCEPT !.timestamp = now]
      /\ source' = [writer EXCEPT !.timestamp = now]
      /\ history' = IF num_days > writer.num_days THEN [history EXCEPT !.shed = Keys] ELSE history
  BY DEF RewriteBeginH, RewriteBegin
<1> HIDE DEF now
<1>5. writer'.tests = <<>>
  BY <1>4 DEF NewTable
<1>6. /\ source'.tests = writer.tests /\ source'.testdata = writer.testdata
      /\ source'.num_days = writer.num_days
  BY <1>3, <1>4 DEF Table
<1>7. history'.runs = history.runs
  BY <1>3, <1>4 DEF Histories
<1>8. Ahead' = KeysOf(source')
  BY <1>3, <1>4, AllAhead
<1>9. FileTotals(writer, history)
  BY <1>3, IdleTotals DEF TotalsInv
<1>10. ASSUME NEW key \in Keys, NEW c \in Counters
       PROVE  Kept(writer', key, c) + PendingCount(key, c)' <= ToldOf(history', key, c)
  <2>1. Kept(writer', key, c) = 0
    BY <1>5, EmptyKept
  <2>2. PendingCount(key, c)' = Kept(source', key, c)
    BY <1>8 DEF PendingCount, Kept
  <2>3. Kept(source', key, c) = Kept(writer, key, c)
    BY <1>6, SameRecordsKept
  <2>4. ToldOf(history', key, c) = ToldOf(history, key, c)
    BY <1>7, SameRunsTold
  <2>5. Kept(writer, key, c) <= ToldOf(history, key, c) /\ Kept(writer, key, c) \in Nat
    BY <1>3, <1>9, KeptType DEF FileTotals
  <2> QED
    BY <2>1, <2>2, <2>3, <2>4, <2>5
<1>11. WriterTotals'
  BY <1>10 DEF WriterTotals
<1> QED
  BY <1>4, <1>11, FilesTotalled

\* At the end of the loops nothing is pending any more.
LEMMA LoopEndTotals ==
  ASSUME IInv, IInv', TotalsInv, next > Len(source.tests), source' = NoTable, next' = 1,
         UNCHANGED <<writer, files, history, histories>>
  PROVE  TotalsInv'
<1>1. StateSound(phase, writer, session, source, next, files)
  BY IInvIsSound
<1>2. next \in Nat \ {0} /\ Len(source.tests) \in Nat /\ GoodTable(writer)
  BY <1>1 DEF StateSound, SoundTable, GoodTable, Table
<1>3. next .. Len(source.tests) = {}
  BY <1>2
<1>4. \A key, c : PendingCount(key, c) = 0
  BY <1>3 DEF PendingCount, Ahead
<1>5. \A key, c : PendingCount(key, c)' = 0
  BY NothingAhead DEF PendingCount
<1>6. \A key, c : Kept(writer, key, c)' = Kept(writer, key, c)
                  /\ ToldOf(history, key, c)' = ToldOf(history, key, c)
  BY DEF Kept, Counted, ToldOf
<1>7. WriterTotals'
  BY <1>4, <1>5, <1>6 DEF TotalsInv, WriterTotals
<1> QED
  BY <1>7, FilesTotalled

LEMMA NothingTotals ==
  ASSUME TotalsInv, UNCHANGED <<writer, source, next, files, history, histories>>
  PROVE  TotalsInv'
<1>1. \A key, c : PendingCount(key, c)' = PendingCount(key, c)
  BY DEF PendingCount, Ahead, Kept, Counted
<1>2. \A key, c : Kept(writer, key, c)' = Kept(writer, key, c)
                  /\ ToldOf(history, key, c)' = ToldOf(history, key, c)
  BY DEF Kept, Counted, ToldOf
<1>3. WriterTotals'
  BY <1>1, <1>2 DEF TotalsInv, WriterTotals
<1> QED
  BY <1>3, FilesTotalled

LEMMA UnwindTotals ==
  ASSUME IInv', HistoryInv', TotalsInv, UnwindH
  PROVE  TotalsInv'
<1>1. writer'.tests = <<>> /\ source' = NoTable /\ UNCHANGED <<files, histories>>
  BY DEF UnwindH, Unwind, NoTable, NewTable
<1> QED
  BY <1>1, EmptyTotals, FilesTotalled

LEMMA NextTotals ==
  ASSUME IInv, IInv', HistoryInv, HistoryInv', SessionDated, TotalsInv, [NextH]_hvars
  PROVE  TotalsInv'
<1>1. ASSUME NEW num_days \in Windows, NewH(num_days)
      PROVE  TotalsInv'
  BY <1>1, NewTotals
<1>2. ASSUME NEW f \in DOMAIN files, NEW now \in ClockTimes, OpenH(f, now)
      PROVE  TotalsInv'
  BY <1>2, OpenTotals
<1>3. CASE SerializeH
  BY <1>3, SerializeTotals
<1>4. ASSUME NEW timestamp \in Times, NEW commit \in Commits, NEW flags \in FlagSets,
             StartSessionH(timestamp, commit, flags)
      PROVE  TotalsInv'
  BY <1>4, StartSessionTotals
<1>5. ASSUME NEW test \in Tests, NEW outcome \in Outcomes,
             \/ InsertNewH(test, outcome)
             \/ InsertNewerH(test, outcome)
             \/ InsertHistoricH(test, outcome)
      PROVE  TotalsInv'
  BY <1>5, InsertTotals
<1>6. ASSUME NEW test \in Tests, NEW outcome \in Outcomes, InsertExpiredH(test, outcome)
      PROVE  TotalsInv'
  BY <1>6, InsertExpiredTotals
<1>7. ASSUME NEW f \in DOMAIN files, NEW g \in DOMAIN files, NEW now \in ClockTimes,
             MergeBeginH(f, g, now)
      PROVE  TotalsInv'
  BY <1>7, MergeBeginTotals
<1>8. CASE MergeRecordH
  BY <1>8, MergeRecordTotals
<1>9. CASE StepH(MergePanics)
  BY <1>9, NothingTotals DEF StepH, MergePanics
<1>10. CASE StepH(MergeEnd)
  BY <1>10, LoopEndTotals DEF StepH, MergeEnd
<1>11. CASE UnwindH
  BY <1>11, UnwindTotals
<1>12. ASSUME NEW num_days \in Windows, NEW timestamp \in ClockTimes,
              NEW threshold \in Thresholds \cup {DefaultThreshold},
              \/ StepH(RewriteSkip(num_days, timestamp, threshold))
              \/ RewriteBeginH(num_days, timestamp, threshold)
       PROVE  TotalsInv'
  BY <1>12, RewriteSkipTotals, RewriteBeginTotals
<1>13. CASE StepH(RewriteDead)
  BY <1>13, RewriteDeadTotals
<1>14. CASE StepH(RewriteLive)
  BY <1>14, RewriteLiveTotals
<1>15. CASE StepH(RewriteEnd)
  BY <1>15, LoopEndTotals DEF StepH, RewriteEnd
<1>16. CASE UNCHANGED hvars
  BY <1>16, NothingTotals DEF hvars, vars
<1> QED
  BY <1>1, <1>2, <1>3, <1>4, <1>5, <1>6, <1>7, <1>8, <1>9, <1>10, <1>11, <1>12, <1>13,
     <1>14, <1>15, <1>16 DEF NextH

LEMMA InitTotals ==
  ASSUME InitH, IInv, HistoryInv
  PROVE  TotalsInv
<1>1. /\ source = NoTable /\ next = 1 /\ files = <<>> /\ writer = NoTable
      /\ history \in Histories /\ NoTable.tests = <<>>
  BY DEF InitH, Init, NoTable, NewTable, HistoryInv
<1>2. StateSound(phase, writer, session, source, next, files)
  BY IInvIsSound
<1>3. ASSUME NEW key \in Keys, NEW c \in Counters
      PROVE  Kept(writer, key, c) <= ToldOf(history, key, c)
  <2>1. Kept(writer, key, c) = 0
    BY <1>1, EmptyKept
  <2>2. ToldOf(history, key, c) \in Nat
    BY <1>1, DaysToldType
  <2> QED
    BY <2>1, <2>2
<1>4. WriterTotals
  BY <1>1, <1>2, <1>3, IdleTotals DEF FileTotals, StateSound, SoundTable
<1> QED
  BY <1>1, <1>4, EmptySeq DEF TotalsInv

\* The inductive invariant of the sums: what the writer, and the record of
\* source a loop has not come to, count of a test is no more than was reported
\* of it, whatever day it is counted on; and so for every file.
THEOREM TotalsKept == SpecH => []TotalsInv
<1>1. InitH /\ IInv /\ HistoryInv => TotalsInv
  BY InitTotals
<1>2. IInv /\ IInv' /\ HistoryInv /\ HistoryInv' /\ SessionDated /\ TotalsInv /\ [NextH]_hvars
        => TotalsInv'
  BY NextTotals
<1> QED
  BY <1>1, <1>2, AccountsKept, InvariantWithHistory, PTL DEF SpecH

LEMMA CountsNoRunTwice ==
  ASSUME IInv, HistoryInv, TotalsInv
  PROVE  CountedOnce
<1>1. StateSound(phase, writer, session, source, next, files)
  BY IInvIsSound
<1>2. GoodTable(writer) /\ GoodTable(source) /\ history \in Histories
  BY <1>1 DEF StateSound, SoundTable, HistoryInv
<1>3. ASSUME NEW i \in DOMAIN writer.tests, NEW c \in Counters
      PROVE  Total(writer.testdata, c, Indices(RecordRange(writer, i)))
               <= Total(history.runs[writer.tests[i].key], c, Days)
  <2>1. PICK key : key = writer.tests[i].key
    OBVIOUS
  <2>2. key \in Keys
    <3>1. writer.tests[i] \in Test
      BY <1>2, ElementOfSeq DEF GoodTable, Table
    <3> QED
      BY <2>1, <3>1 DEF Test
  <2>3. Kept(writer, key, c) + PendingCount(key, c) <= ToldOf(history, key, c)
    BY <2>2 DEF TotalsInv, WriterTotals
  <2>4. /\ Kept(writer, key, c) \in Nat /\ PendingCount(key, c) \in Nat
        /\ ToldOf(history, key, c) \in Nat
    BY <1>2, <2>2, KeptType, DaysToldType DEF PendingCount
  <2>5. Total(writer.testdata, c, Indices(RecordRange(writer, i))) = Kept(writer, key, c)
    BY <1>2, <2>1, KeptInData
  <2>6. Total(history.runs[key], c, Days) = ToldOf(history, key, c)
    BY <1>2, <2>2, DaysToldType
  <2> QED
    BY <2>1, <2>3, <2>4, <2>5, <2>6
<1> QED
  BY <1>3 DEF CountedOnce, CountsOnce, Total

\* No run is counted twice, not even one of a late test: the buckets of a record
\* together count no more runs than were ever reported for its test.
THEOREM RunsAreCountedOnce == SpecH => []CountedOnce
<1>1. IInv /\ HistoryInv /\ TotalsInv => CountedOnce
  BY CountsNoRunTwice
<1> QED
  BY <1>1, TotalsKept, AccountsKept, InvariantWithHistory, PTL

-----------------------------------------------------------------------------
(* What the reader reports of a file.                                       *)

\* How long ago the newest bucket of record i is, for a reader at now.
ReadOffset(t, i, now) == OffsetFromToday(Latest(t, i), Parse(t, now).timestamp)

\* The reader selects a bucket of the record exactly when valid_data reaches it
\* and its age is asked for; it never leaves the record.
LEMMA ReadsByAge ==
  ASSUME NEW t, SoundTable(t), ValidIn(t), NEW i \in DOMAIN t.tests, NEW now \in Nat,
         NEW s \in Nat, NEW e \in Nat
  PROVE  LET start == RecordRange(t, i).start
             r == ReadRange(t, i, now, [start |-> s, end |-> e])
         IN /\ start \in Nat /\ ReadOffset(t, i, now) \in Nat
            /\ r.start \in Nat /\ r.end \in Nat /\ r.end <= Len(t.testdata)
            /\ t.tests[i].valid_data \in 1 .. t.num_days
            /\ \A b \in Int : b \in Indices(r) <=>
                 /\ b - 1 - start \in 0 .. t.tests[i].valid_data - 1
                 /\ b - 1 - start + ReadOffset(t, i, now) \in s .. e - 1
<1> DEFINE start == RecordRange(t, i).start
           v == t.tests[i].valid_data
           off == ReadOffset(t, i, now)
           data_range == [start |-> start, end |-> start + v]
           want == [start |-> s, end |-> e]
           r == ReadRange(t, i, now, want)
<1>1. /\ GoodTable(t) /\ t \in Table /\ t.timestamp \in Nat /\ t.num_days \in Nat
      /\ Len(t.testdata) \in Nat
  BY DEF SoundTable, GoodTable, Table
<1>2. /\ start \in Nat /\ RecordRange(t, i).end = start + t.num_days
      /\ RecordRange(t, i).end <= Len(t.testdata)
  BY <1>1, RecordInData
<1>3. v \in 1 .. t.num_days
  BY DEF ValidIn
<1>4. off \in Nat
  <2>1. 0 \in 0 .. t.num_days - 1
    BY <1>1 DEF GoodTable, Table
  <2>2. BucketAt(t, i, 0) \in TestData /\ start + 0 + 1 \in DOMAIN t.testdata
    BY <1>1, <2>1, BucketInData
  <2>3. Latest(t, i) = BucketAt(t, i, 0).last_timestamp
    BY <1>1, LatestIsNewestBucket
  <2>4. Latest(t, i) \in Nat
    BY <2>2, <2>3 DEF TestData
  <2>5. Latest(t, i) <= t.timestamp
    BY <2>2, <2>3 DEF SoundTable, NoneAfter, BucketAt
  <2>6. Parse(t, now).timestamp \in Nat /\ t.timestamp <= Parse(t, now).timestamp
    BY <1>1 DEF Parse, Table, MaxOf
  <2>7. /\ Day(Latest(t, i)) \in Nat /\ Day(Parse(t, now).timestamp) \in Nat
        /\ Day(Latest(t, i)) <= Day(Parse(t, now).timestamp)
    <3>1. Latest(t, i) <= Parse(t, now).timestamp
      BY <1>1, <2>4, <2>5, <2>6
    <3>2. PICK a, b : a = Latest(t, i) /\ b = Parse(t, now).timestamp
      OBVIOUS
    <3>3. a \in Nat /\ b \in Nat /\ a <= b
      BY <2>4, <2>6, <3>1, <3>2
    <3> QED
      BY <3>2, <3>3, DayMonotone
  <2> QED
    BY <2>7 DEF ReadOffset, OffsetFromToday
<1>5. r = AdjustSelectionRange(data_range, want, off)
  BY DEF ReadRange, ReadOffset
<1> HIDE DEF start, v, off
<1>6. /\ r.start = Clamp(SaturatingSub(start + s, off), data_range)
      /\ r.end = Clamp(SaturatingSub(start + e, off), data_range)
  BY <1>5 DEF AdjustSelectionRange
<1> HIDE DEF r
<1>7. data_range.start = start /\ data_range.end = start + v /\ v \in Nat
  BY <1>1, <1>3
<1> HIDE DEF data_range
<1>8. /\ r.start = MaxOf(MinOf(SaturatingSub(start + s, off), start + v), start)
      /\ r.end = MaxOf(MinOf(SaturatingSub(start + e, off), start + v), start)
  BY <1>6, <1>7 DEF Clamp
<1>9. r.start \in Nat /\ r.end \in Nat /\ r.end <= start + v
  BY <1>2, <1>4, <1>7, <1>8 DEF MaxOf, MinOf, SaturatingSub
<1>10. ASSUME NEW b \in Int
       PROVE  b \in Indices(r) <=> /\ b - 1 - start \in 0 .. v - 1
                                   /\ b - 1 - start + off \in s .. e - 1
  <2>1. b \in Indices(r) <=> r.start + 1 <= b /\ b <= r.end
    BY <1>9 DEF Indices
  <2>2. CASE b - 1 - start \in 0 .. v - 1
    <3>1. start + 1 <= b /\ b <= start + v
      BY <2>2, <1>2, <1>7
    <3>2. r.start + 1 <= b <=> s <= b - 1 - start + off
      BY <3>1, <1>2, <1>4, <1>7, <1>8 DEF MaxOf, MinOf, SaturatingSub
    <3>3. b <= r.end <=> b - 1 - start + off <= e - 1
      BY <3>1, <1>2, <1>4, <1>7, <1>8 DEF MaxOf, MinOf, SaturatingSub
    <3>4. b - 1 - start + off \in Int
      BY <1>2, <1>4
    <3> QED
      BY <2>1, <2>2, <3>2, <3>3, <3>4
  <2>3. CASE ~ (b - 1 - start \in 0 .. v - 1)
    <3>1. ~ (start + 1 <= b /\ b <= start + v)
      BY <2>3, <1>2, <1>7
    <3>2. start <= r.start
      BY <1>2, <1>4, <1>7, <1>8 DEF MaxOf, MinOf, SaturatingSub
    <3> QED
      BY <2>1, <2>3, <3>1, <3>2, <1>2, <1>7, <1>9
  <2> QED
    BY <2>2, <2>3
<1>11. start \in Nat /\ r.end <= Len(t.testdata)
  BY <1>1, <1>2, <1>3, <1>7, <1>9
<1> QED
  BY <1>3, <1>4, <1>9, <1>10, <1>11 DEF start, v, off, r

\* The day of bucket b of record i.
DayAt(t, i, b) == Day(Latest(t, i)) - (b - 1 - RecordRange(t, i).start)

Today(t, now) == Day(Parse(t, now).timestamp)

LEMMA ReadToday ==
  ASSUME NEW t, SoundTable(t), NEW i \in DOMAIN t.tests, NEW now \in Nat
  PROVE  /\ Day(Latest(t, i)) \in Nat /\ Today(t, now) \in Nat
         /\ Today(t, now) = Day(Latest(t, i)) + ReadOffset(t, i, now)
<1> DEFINE off == ReadOffset(t, i, now)
           latest == Day(Latest(t, i))
<1>1. GoodTable(t)
  BY DEF SoundTable
<1>2. latest \in Nat
  <2>1. 0 \in 0 .. t.num_days - 1
    BY <1>1 DEF GoodTable, Table
  <2>2. BucketAt(t, i, 0) \in TestData
    BY <1>1, <2>1, BucketInData
  <2>3. Latest(t, i) \in Nat
    BY <1>1, <2>2, LatestIsNewestBucket DEF TestData
  <2>4. PICK a \in Nat : a = Latest(t, i)
    BY <2>3
  <2> QED
    BY <2>4, DayType
<1>3. off = Today(t, now) - latest
  BY DEF ReadOffset, OffsetFromToday, Today
<1>4. Today(t, now) \in Nat
  <2>1. Parse(t, now).timestamp \in Nat
    BY ParseSound
  <2>2. PICK a \in Nat : a = Parse(t, now).timestamp
    BY <2>1
  <2> QED
    BY <2>2, DayType DEF Today
<1> HIDE DEF off, latest
<1>5. Today(t, now) = latest + off
  BY <1>2, <1>3, <1>4
<1> QED
  BY <1>2, <1>4, <1>5 DEF off, latest

LEMMA ReadBucketDay ==
  ASSUME NEW t, SoundTable(t), ValidIn(t), NEW i \in DOMAIN t.tests, NEW now \in Nat,
         NEW s \in Nat, NEW e \in Nat,
         NEW b \in Indices(ReadRange(t, i, now, [start |-> s, end |-> e]))
  PROVE  /\ DayAt(t, i, b) \in Int
         /\ Today(t, now) - DayAt(t, i, b) \in s .. e - 1
         /\ StoredOn(t, t.tests[i].key, DayAt(t, i, b)) = t.testdata[b]
         /\ t.testdata[b] \in TestData
<1> DEFINE start == RecordRange(t, i).start
           v == t.tests[i].valid_data
           off == ReadOffset(t, i, now)
           age == b - 1 - start
           latest == Day(Latest(t, i))
           d == DayAt(t, i, b)
<1>1. GoodTable(t) /\ t.num_days \in Nat
  BY DEF SoundTable, GoodTable, Table
<1>2. /\ start \in Nat /\ off \in Nat /\ v \in 1 .. t.num_days
      /\ b \in Int /\ age \in 0 .. v - 1 /\ age + off \in s .. e - 1
  <2>1. b \in Int
    BY DEF Indices
  <2> QED
    BY <2>1, ReadsByAge
<1>3. latest \in Nat /\ Today(t, now) = latest + off
  BY ReadToday
<1>4. d = latest - age
  BY DEF DayAt
<1> HIDE DEF start, v, off, latest, d
<1>5. d \in Int /\ Today(t, now) - d = age + off /\ latest - d = age
  BY <1>2, <1>3, <1>4
<1>6. age \in 0 .. t.num_days - 1 /\ start + age + 1 = b
  BY <1>1, <1>2
<1>7. StoredOn(t, t.tests[i].key, d) = StoredIn(t, i, d)
  BY <1>1, StoredInRecord
<1>8. StoredIn(t, i, d) = BucketAt(t, i, age)
  BY <1>5, <1>6 DEF StoredIn, latest
<1>9. BucketAt(t, i, age) \in TestData
  BY <1>1, <1>6, BucketInData
<1>10. BucketAt(t, i, age) = t.testdata[b]
  BY <1>6 DEF BucketAt, start
<1> QED
  BY <1>2, <1>5, <1>7, <1>8, <1>9, <1>10 DEF d

\* The days a reader is asked for.
Asked(t, now, s, e) == {d \in Days : Today(t, now) - d \in s .. e - 1}

LEMMA AskedFinite ==
  ASSUME NEW t, NEW now, NEW s, NEW e
  PROVE  Asked(t, now, s, e) \in SUBSET Days /\ IsFiniteSet(Asked(t, now, s, e))
<1>1. Asked(t, now, s, e) \in SUBSET Days
  BY DEF Asked
<1> QED
  BY <1>1, DaysFinite, FS_Subset

LEMMA NoRunsCounts ==
  ASSUME NEW c \in Counters
  PROVE  NoRuns.counts[c] = 0 /\ NoRuns.failing_commits = {}
  BY DEF NoRuns

\* What was reported of a day is what a bucket of that day may say.
LEMMA ReadBucketTold ==
  ASSUME NEW t, SoundTable(t), ValidIn(t), NEW i \in DOMAIN t.tests, NEW now \in Nat,
         NEW s \in Nat, NEW e \in Nat, NEW h \in Histories, FileAccounts(t, h),
         t.tests[i].key \notin h.late,
         NEW b \in Indices(ReadRange(t, i, now, [start |-> s, end |-> e]))
  PROVE  LET d == DayAt(t, i, b)
             told == h.runs[t.tests[i].key][d]
         IN /\ t.testdata[b] \in TestData
            /\ d \in Days => /\ d \in Asked(t, now, s, e)
                             /\ \A c \in Counters : t.testdata[b].counts[c] <= told.counts[c]
                             /\ t.testdata[b].failing_commits \subseteq told.failing_commits
            /\ d \notin Days => /\ \A c \in Counters : t.testdata[b].counts[c] = 0
                                /\ t.testdata[b].failing_commits = {}
<1> DEFINE key == t.tests[i].key
           d == DayAt(t, i, b)
           data == t.testdata[b]
           told == ToldOn(h, key, d)
<1>1. /\ d \in Int /\ Today(t, now) - d \in s .. e - 1
      /\ StoredOn(t, key, d) = data /\ data \in TestData
  <2>1. /\ DayAt(t, i, b) \in Int
        /\ Today(t, now) - DayAt(t, i, b) \in s .. e - 1
        /\ StoredOn(t, t.tests[i].key, DayAt(t, i, b)) = t.testdata[b]
        /\ t.testdata[b] \in TestData
    BY ReadBucketDay, ZenonT(30)
  <2> QED
    BY <2>1
<1>2. key \in Keys
  <2>1. t.tests[i] \in Test
    BY ElementOfSeq DEF SoundTable, GoodTable, Table
  <2> QED
    BY <2>1 DEF Test
<1>3. Within(data, NoData, told)
  BY <1>1, <1>2 DEF FileAccounts, Accounts
<1>4. told \in Runs
  BY <1>1, <1>2, HistoryType
<1>5. d \in Days => told = h.runs[key][d] /\ d \in Asked(t, now, s, e)
  BY <1>1 DEF ToldOn, Asked
<1>6. d \notin Days => told = NoRuns
  BY DEF ToldOn
<1> HIDE DEF key, d, data, told
<1>7. ASSUME NEW c \in Counters
      PROVE  data.counts[c] \in Nat /\ data.counts[c] <= told.counts[c]
  <2>1. data.counts[c] + NoData.counts[c] <= told.counts[c] /\ NoData.counts[c] = 0
    BY <1>3, NoDataCounts DEF Within
  <2>2. data.counts[c] \in Nat /\ told.counts[c] \in Nat
    BY <1>1, <1>4, RunsType DEF Runs
  <2> QED
    BY <2>1, <2>2
<1>8. data.failing_commits \subseteq told.failing_commits
  BY <1>3 DEF Within
<1>9. ASSUME d \notin Days, NEW c \in Counters PROVE data.counts[c] = 0
  <2>1. data.counts[c] \in Nat /\ data.counts[c] <= 0
    BY <1>6, <1>7, <1>9, NoRunsCounts
  <2> QED
    BY <2>1
<1>10. d \notin Days => data.failing_commits = {}
  <2>1. d \notin Days => told.failing_commits = {}
    BY <1>6 DEF NoRuns
  <2> QED
    BY <1>8, <2>1
<1> QED
  BY <1>1, <1>5, <1>7, <1>8, <1>9, <1>10 DEF key, d, data, told

\* What is reported of an interval is no more than what was reported on its days.
LEMMA ReadsNoMore ==
  ASSUME NEW t, SoundTable(t), ValidIn(t), NEW i \in DOMAIN t.tests, NEW now \in Nat,
         NEW s \in Nat, NEW e \in Nat, NEW h \in Histories, FileAccounts(t, h),
         t.tests[i].key \notin h.late
  PROVE  LET read == Indices(ReadRange(t, i, now, [start |-> s, end |-> e]))
             told == h.runs[t.tests[i].key]
             asked == Asked(t, now, s, e)
         IN /\ \A c \in Counters : Total(t.testdata, c, read) <= Total(told, c, asked)
            /\ UNION {t.testdata[b].failing_commits : b \in read}
                 \subseteq UNION {told[d].failing_commits : d \in asked}
<1> DEFINE read == Indices(ReadRange(t, i, now, [start |-> s, end |-> e]))
           key == t.tests[i].key
           asked == Asked(t, now, s, e)
           P == {b \in read : DayAt(t, i, b) \in Days}
           m == [b \in P |-> DayAt(t, i, b)]
<1>1. key \in Keys
  <2>1. t.tests[i] \in Test
    BY ElementOfSeq DEF SoundTable, GoodTable, Table
  <2> QED
    BY <2>1 DEF Test
<1>2. IsFiniteSet(read) /\ read \subseteq Int
  <2>1. PICK r : r = ReadRange(t, i, now, [start |-> s, end |-> e])
    OBVIOUS
  <2>2. r.start \in Nat /\ r.end \in Nat
    BY <2>1, ReadsByAge
  <2>3. r.start + 1 \in Int /\ r.end \in Int
    BY <2>2
  <2>4. IsFiniteSet(r.start + 1 .. r.end)
    BY <2>3, FS_Interval
  <2> QED
    BY <2>1, <2>3, <2>4 DEF Indices
<1>3. PICK D : D = asked
  OBVIOUS
<1>4. IsFiniteSet(D) /\ D \subseteq Days
  BY <1>3, AskedFinite
<1>5. \A b \in read :
        /\ t.testdata[b] \in TestData
        /\ DayAt(t, i, b) \in Days =>
             /\ DayAt(t, i, b) \in asked
             /\ \A c \in Counters : t.testdata[b].counts[c] <= h.runs[key][DayAt(t, i, b)].counts[c]
             /\ t.testdata[b].failing_commits \subseteq h.runs[key][DayAt(t, i, b)].failing_commits
        /\ DayAt(t, i, b) \notin Days =>
             /\ \A c \in Counters : t.testdata[b].counts[c] = 0
             /\ t.testdata[b].failing_commits = {}
  BY ReadBucketTold
<1>6. \A b, q \in read : DayAt(t, i, b) = DayAt(t, i, q) => b = q
  <2> SUFFICES ASSUME NEW b \in read, NEW q \in read, DayAt(t, i, b) = DayAt(t, i, q)
               PROVE  b = q
    OBVIOUS
  <2>1. DayAt(t, i, b) \in Int /\ RecordRange(t, i).start \in Nat
    BY ReadBucketDay, ReadsByAge
  <2>2. Day(Latest(t, i)) \in Int
    <3>1. Today(t, now) = Day(Latest(t, i)) + ReadOffset(t, i, now)
      BY ReadToday
    <3> QED
      BY <3>1, ReadToday
  <2>3. PICK l, a, x : l = Day(Latest(t, i)) /\ a = RecordRange(t, i).start /\ x = DayAt(t, i, b)
    OBVIOUS
  <2>4. x = l - (b - 1 - a) /\ x = l - (q - 1 - a)
    BY <2>3 DEF DayAt
  <2> QED
    BY <1>2, <2>1, <2>2, <2>3, <2>4
<1> HIDE DEF read, asked
<1>7. Embeds(m, P, D)
  <2>1. m \in [P -> D]
    BY <1>3, <1>5
  <2> QED
    BY <1>6, <2>1 DEF Embeds
<1>8. ASSUME NEW c \in Counters
      PROVE  Total(t.testdata, c, read) <= Total(h.runs[key], c, asked)
  <2>1. PICK g : g = [b \in read |-> t.testdata[b].counts[c]]
    OBVIOUS
  <2>2. PICK k : k = [d \in D |-> h.runs[key][d].counts[c]]
    OBVIOUS
  <2>3. g \in [read -> Nat] /\ \A b \in read : g[b] = t.testdata[b].counts[c]
    BY <1>5, <2>1, RunsType
  <2>4. k \in [D -> Nat] /\ \A d \in D : k[d] = h.runs[key][d].counts[c]
    <3>1. \A d \in D : h.runs[key][d].counts[c] \in Nat
      BY <1>1, <1>4 DEF Histories, Runs
    <3> QED
      BY <2>2, <3>1
  <2>5. PICK p, w, R : p = P /\ w = m /\ R = read
    OBVIOUS
  <2>6. /\ p \in SUBSET R /\ Embeds(w, p, D) /\ IsFiniteSet(R) /\ g \in [R -> Nat]
        /\ \A b \in p : g[b] <= k[w[b]]
        /\ \A b \in R \ p : g[b] = 0
    <3>1. \A b \in P : m[b] \in D /\ m[b] = DayAt(t, i, b) /\ b \in read
      BY <1>7 DEF Embeds
    <3>2. \A b \in P : g[b] <= k[m[b]]
      BY <1>5, <2>3, <2>4, <3>1
    <3>3. \A b \in read \ P : g[b] = 0
      BY <1>5, <2>3
    <3> QED
      BY <1>2, <1>7, <2>3, <2>5, <3>2, <3>3
  <2>7. Sum(g, R) <= Sum(k, D)
    BY <1>4, <2>4, <2>6, SumMoved
  <2>8. Total(t.testdata, c, R) = Sum(g, R)
    <3>1. PICK F : F = t.testdata
      OBVIOUS
    <3>2. \A b \in R : g[b] = F[b].counts[c]
      BY <2>3, <2>5, <3>1
    <3>3. Total(F, c, R) = Sum(g, R)
      BY <2>6, <3>2, TotalIsSum
    <3> QED
      BY <3>1, <3>3
  <2>9. Total(h.runs[key], c, D) = Sum(k, D)
    <3>1. PICK F : F = h.runs[key]
      OBVIOUS
    <3>2. \A d \in D : k[d] = F[d].counts[c]
      BY <2>4, <3>1
    <3>3. Total(F, c, D) = Sum(k, D)
      BY <1>4, <2>4, <3>2, TotalIsSum
    <3> QED
      BY <3>1, <3>3
  <2> QED
    BY <1>3, <2>5, <2>7, <2>8, <2>9
<1>9. UNION {t.testdata[b].failing_commits : b \in read}
        \subseteq UNION {h.runs[key][d].failing_commits : d \in asked}
  <2> SUFFICES ASSUME NEW b \in read, NEW x \in t.testdata[b].failing_commits
               PROVE  \E d \in asked : x \in h.runs[key][d].failing_commits
    OBVIOUS
  <2>1. DayAt(t, i, b) \in Days
    BY <1>5
  <2> QED
    BY <1>5, <2>1
<1> QED
  BY <1>8, <1>9 DEF read, asked

\* What holds of every file that can be read.
LEMMA FilesSound ==
  ASSUME IInv, HistoryInv, ValidDataInRecord, files # <<>>
  PROVE  LET t == files[Len(files)]
             h == histories[Len(files)]
         IN /\ SoundTable(t) /\ ValidIn(t) /\ t.num_days \in Nat
            /\ h \in Histories /\ FileAccounts(t, h)
<1>1. StateSound(phase, writer, session, source, next, files)
  BY IInvIsSound
<1>2. files \in Seq(Table) /\ \A f \in DOMAIN files : SoundTable(files[f])
  BY <1>1 DEF StateSound
<1>3. Len(files) \in DOMAIN files /\ DOMAIN files = 1 .. Len(files) /\ Len(files) \in Nat
  BY <1>2, EmptySeq
<1>4. PICK f : f = Len(files)
  OBVIOUS
<1>5. f \in DOMAIN files /\ f \in 1 .. Len(histories)
  BY <1>3, <1>4 DEF HistoryInv
<1>6. histories[f] \in Histories
  BY <1>5, ElementOfSeq DEF HistoryInv
<1>7. FileAccounts(files[f], histories[f])
  BY <1>5 DEF HistoryInv
<1>8. ValidIn(files[f])
  BY <1>5 DEF ValidDataInRecord, AllTables, ValidIn
<1>9. SoundTable(files[f]) /\ files[f].num_days \in Nat
  BY <1>2, <1>5 DEF SoundTable, GoodTable, Table
<1> QED
  BY <1>4, <1>6, <1>7, <1>8, <1>9

LEMMA ReadsSound ==
  ASSUME NEW t, SoundTable(t), ValidIn(t), t.num_days \in Nat,
         NEW h \in Histories, FileAccounts(t, h), NEW now \in Nat
  PROVE  ReadsSoundly(t, h, now)
<1>1. ASSUME NEW s \in 0 .. t.num_days, NEW e \in 1 .. t.num_days + 1,
             NEW i \in Yielded(t, now, [start |-> s, end |-> e], {})
      PROVE  LET want == [start |-> s, end |-> e]
                 told == h.runs[t.tests[i].key]
                 asked == {d \in Days : Day(Parse(t, now).timestamp) - d \in s .. e - 1}
                 answer == Aggregate(t, i, now, want)
             IN /\ ~ ReadPanics(t, i, now, want)
                /\ t.tests[i].key \notin h.late =>
                     /\ \A c \in Counters :
                          answer.totals[c] <= MapThenSumSet(LAMBDA d : told[d].counts[c], asked)
                     /\ answer.failing_commits \subseteq UNION {told[d].failing_commits : d \in asked}
  <2> DEFINE want == [start |-> s, end |-> e]
             read == Indices(ReadRange(t, i, now, want))
             told == h.runs[t.tests[i].key]
             asked == Asked(t, now, s, e)
             answer == Aggregate(t, i, now, want)
  <2>1. i \in DOMAIN t.tests /\ s \in Nat /\ e \in Nat
    BY DEF Yielded
  <2>2. ~ ReadPanics(t, i, now, want)
    <3>1. PICK r : r = ReadRange(t, i, now, want)
      OBVIOUS
    <3>2. r.end \in Nat /\ r.end <= Len(t.testdata)
      BY <2>1, <3>1, ReadsByAge
    <3>3. Len(t.testdata) \in Nat
      BY DEF SoundTable, GoodTable, Table
    <3>4. ~ (r.end > Len(t.testdata))
      BY <3>2, <3>3
    <3> QED
      BY <3>1, <3>4 DEF ReadPanics
  <2>3. t.tests[i].key \notin h.late =>
          /\ \A c \in Counters : Total(t.testdata, c, read) <= Total(told, c, asked)
          /\ UNION {t.testdata[b].failing_commits : b \in read}
               \subseteq UNION {told[d].failing_commits : d \in asked}
    BY <2>1, ReadsNoMore
  <2>4. \A c \in Counters : answer.totals[c] = Total(t.testdata, c, read)
    BY DEF Aggregate, Total
  <2>5. answer.failing_commits = UNION {t.testdata[b].failing_commits : b \in read}
    BY DEF Aggregate
  <2> HIDE DEF answer, read, told, want
  <2> QED
    BY <2>2, <2>3, <2>4, <2>5 DEF Asked, Total, Today, answer, want, told
<1> QED
  BY <1>1 DEF ReadsSoundly

\* As long as no rewrite narrows the window, whatever days a file is asked for
\* and whenever it is read: the reader stays inside the data, and it never
\* reports a run or a failing commit of a day outside the interval; late tests
\* are exempt.
THEOREM ReaderIsSound == SpecH /\ [][~ Narrows]_vars => []ReaderSound
<1>1. IInv /\ HistoryInv /\ ValidDataInRecord => ReaderSound
  <2> SUFFICES ASSUME IInv, HistoryInv, ValidDataInRecord, files # <<>>,
                      NEW now \in Times \cup ClockTimes
               PROVE  ReadsSoundly(files[Len(files)], histories[Len(files)], now)
    BY DEF ReaderSound
  <2>1. now \in Nat
    BY ConstantsAssumption
  <2>2. PICK t, h : t = files[Len(files)] /\ h = histories[Len(files)]
    OBVIOUS
  <2>3. SoundTable(t) /\ ValidIn(t) /\ t.num_days \in Nat /\ h \in Histories /\ FileAccounts(t, h)
    BY <2>2, FilesSound
  <2> QED
    BY <2>1, <2>2, <2>3, ReadsSound
<1> QED
  BY <1>1, AccountsKept, InvariantWithHistory, HistoryWatches, ValidDataStaysInRecord, PTL

-----------------------------------------------------------------------------
(* Nothing the reader is asked for is left out.                             *)

\* A commit fails on a day only with a run that failed.
CommitsTold(h) ==
  \A key \in Keys, d \in Days :
    h.runs[key][d].failing_commits # {} => h.runs[key][d].counts["fail"] # 0

\* No counter of the history is beyond the width of a counter of a bucket.
FitsCounters(h) ==
  \A key \in Keys, d \in Days, c \in Counters : h.runs[key][d].counts[c] < CounterModulus

\* A day that is asked for: either the reader reads its bucket, which says what
\* was reported, or nothing was reported.
LEMMA AskedDayTold ==
  ASSUME NEW t, SoundTable(t), ValidIn(t), BucketsIn(t, Fitting), NEW i \in DOMAIN t.tests,
         ~ HidesData(t, i), NEW now \in Nat, NEW s \in Nat, NEW e \in 0 .. t.num_days,
         NEW h \in Histories, FileAccounts(t, h), CommitsTold(h), FitsCounters(h),
         t.tests[i].key \notin h.late \cup h.shed,
         NEW d \in Asked(t, now, s, e)
  PROVE  LET start == RecordRange(t, i).start
             age == Day(Latest(t, i)) - d
             told == h.runs[t.tests[i].key][d]
         IN /\ age \in Int
            /\ age \in 0 .. t.tests[i].valid_data - 1 =>
                 /\ start + age + 1 \in Indices(ReadRange(t, i, now, [start |-> s, end |-> e]))
                 /\ \A c \in Counters : told.counts[c] = t.testdata[start + age + 1].counts[c]
                 /\ told.failing_commits = t.testdata[start + age + 1].failing_commits
            /\ age \notin 0 .. t.tests[i].valid_data - 1 =>
                 /\ \A c \in Counters : told.counts[c] = 0
                 /\ told.failing_commits = {}
<1> DEFINE start == RecordRange(t, i).start
           v == t.tests[i].valid_data
           key == t.tests[i].key
           latest == Day(Latest(t, i))
           age == latest - d
           stored == StoredOn(t, key, d)
           told == h.runs[key][d]
           n == t.num_days
<1>1. GoodTable(t) /\ n \in Nat /\ t.timestamp \in Nat
  BY DEF SoundTable, GoodTable, Table
<1>2. key \in Keys
  <2>1. t.tests[i] \in Test
    BY ElementOfSeq DEF SoundTable, GoodTable, Table
  <2> QED
    BY <2>1 DEF Test
<1>3. d \in Days /\ d \in Nat /\ d \in Int /\ Today(t, now) - d \in s .. e - 1
  BY DaysType DEF Asked
<1>4. /\ latest \in Nat /\ Today(t, now) \in Nat
      /\ Today(t, now) = latest + ReadOffset(t, i, now)
  BY ReadToday
<1>5. start \in Nat /\ ReadOffset(t, i, now) \in Nat /\ v \in 1 .. n
  <2>1. e \in Nat
    BY <1>1
  <2> QED
    BY <2>1, ReadsByAge
<1>6. d \in Window(t)
  <2>1. Day(t.timestamp) \in Nat /\ Day(t.timestamp) <= Today(t, now)
    <3>1. Parse(t, now).timestamp \in Nat /\ t.timestamp <= Parse(t, now).timestamp
      BY <1>1 DEF Parse, GoodTable, Table, MaxOf
    <3>2. PICK a, b : a = t.timestamp /\ b = Parse(t, now).timestamp
      OBVIOUS
    <3>3. Day(a) \in Nat /\ Day(a) <= Day(b)
      BY <1>1, <3>1, <3>2, DayMonotone
    <3> QED
      BY <3>2, <3>3 DEF Today
  <2>2. Today(t, now) - d < n
    BY <1>1, <1>3, <1>4
  <2>3. Day(t.timestamp) - d < n
    BY <1>1, <1>3, <1>4, <2>1, <2>2
  <2> QED
    BY <1>3, <2>3 DEF Window
<1>7. Exactly(stored, NoData, told)
  <2>1. Exactly(stored, NoData, ToldOn(h, key, d))
    BY <1>2, <1>3, <1>6 DEF FileAccounts, Accounts
  <2> QED
    BY <1>3, <2>1 DEF ToldOn
<1>8. stored \in Fitting
  BY <1>1, <1>3, StoredFits
<1>9. told \in Runs
  BY <1>2, <1>3, HistoryType
<1>10. stored = IF age \in 0 .. n - 1 THEN BucketAt(t, i, age) ELSE NoData
  BY <1>1, StoredInRecord DEF StoredIn
<1>11. \A c \in Counters : told.counts[c] < CounterModulus
  BY <1>2, <1>3 DEF FitsCounters
<1>12. told.failing_commits # {} => told.counts["fail"] # 0
  BY <1>2, <1>3 DEF CommitsTold
<1>13. \A j \in 0 .. n - 1 : j >= v => BucketAt(t, i, j).counts = NoData.counts
  BY DEF HidesData, BucketAt
<1>14. BucketAt(t, i, age) = t.testdata[start + age + 1]
  BY DEF BucketAt
<1> HIDE DEF start, v, key, latest, stored, told, n
<1>15. age \in Int
  BY <1>3, <1>4
<1>16. ASSUME NEW c \in Counters PROVE told.counts[c] = stored.counts[c]
  <2>1. stored.counts[c] \in Nat /\ stored.counts[c] < CounterModulus /\ NoData.counts[c] = 0
    BY <1>8, NoDataCounts, RunsType DEF Fitting
  <2>2. stored.counts[c] + NoData.counts[c] = stored.counts[c]
    BY <2>1
  <2>3. stored.counts[c] % CounterModulus = stored.counts[c]
    BY <2>1, ModSmall, ConstantsAssumption
  <2>4. told.counts[c] \in Nat
    BY <1>9 DEF Runs
  <2>5. told.counts[c] % CounterModulus = told.counts[c]
    BY <1>11, <2>4, ModSmall, ConstantsAssumption
  <2> QED
    BY <1>7, <2>2, <2>3, <2>5 DEF Exactly
<1>17. told.failing_commits = stored.failing_commits
  BY <1>7 DEF Exactly, NoData
<1>18. ASSUME age \in 0 .. v - 1
       PROVE  /\ start + age + 1 \in Indices(ReadRange(t, i, now, [start |-> s, end |-> e]))
              /\ stored = t.testdata[start + age + 1]
  <2>1. age \in 0 .. n - 1
    BY <1>1, <1>5, <1>18 DEF n
  <2>2. PICK b \in Int : b = start + age + 1
    BY <1>5, <1>15
  <2>3. b - 1 - start = age /\ b - 1 - start + ReadOffset(t, i, now) = Today(t, now) - d
    BY <1>3, <1>4, <1>5, <1>15, <2>2
  <2>4. e \in Nat
    BY <1>1 DEF n
  <2>5. b \in Indices(ReadRange(t, i, now, [start |-> s, end |-> e])) <=>
          /\ b - 1 - start \in 0 .. v - 1
          /\ b - 1 - start + ReadOffset(t, i, now) \in s .. e - 1
    BY <2>4, ReadsByAge DEF start, v
  <2> QED
    BY <1>3, <1>10, <1>14, <1>18, <2>1, <2>2, <2>3, <2>5
<1>19. ASSUME age \notin 0 .. v - 1
       PROVE  /\ \A c \in Counters : told.counts[c] = 0
              /\ told.failing_commits = {}
  <2>1. stored.counts = NoData.counts
    <3>1. CASE age \in 0 .. n - 1
      <4>1. age >= v
        BY <1>1, <1>5, <1>15, <1>19, <3>1 DEF n
      <4> QED
        BY <1>10, <1>13, <3>1, <4>1
    <3> QED
      BY <1>10, <3>1
  <2>2. \A c \in Counters : told.counts[c] = 0
    BY <1>16, <2>1, NoDataCounts
  <2>3. "fail" \in Counters
    BY DEF Counters
  <2> QED
    BY <1>12, <2>2, <2>3
<1> QED
  BY <1>15, <1>16, <1>17, <1>18, <1>19 DEF start, v, key, latest, told

LEMMA ReadsNoLess ==
  ASSUME NEW t, SoundTable(t), ValidIn(t), BucketsIn(t, Fitting), NEW i \in DOMAIN t.tests,
         ~ HidesData(t, i), NEW now \in Nat, NEW s \in Nat, NEW e \in 0 .. t.num_days,
         NEW h \in Histories, FileAccounts(t, h), CommitsTold(h), FitsCounters(h),
         t.tests[i].key \notin h.late \cup h.shed
  PROVE  LET read == Indices(ReadRange(t, i, now, [start |-> s, end |-> e]))
             told == h.runs[t.tests[i].key]
             asked == Asked(t, now, s, e)
         IN /\ \A c \in Counters : Total(told, c, asked) <= Total(t.testdata, c, read)
            /\ UNION {told[d].failing_commits : d \in asked}
                 \subseteq UNION {t.testdata[b].failing_commits : b \in read}
            /\ \A c \in Counters : Total(told, c, asked) \in Nat /\ Total(t.testdata, c, read) \in Nat
<1> DEFINE read == Indices(ReadRange(t, i, now, [start |-> s, end |-> e]))
           key == t.tests[i].key
           start == RecordRange(t, i).start
           latest == Day(Latest(t, i))
           v == t.tests[i].valid_data
           asked == Asked(t, now, s, e)
           P == {d \in asked : latest - d \in 0 .. v - 1}
           m == [d \in P |-> start + (latest - d) + 1]
<1>1. key \in Keys
  <2>1. t.tests[i] \in Test
    BY ElementOfSeq DEF SoundTable, GoodTable, Table
  <2> QED
    BY <2>1 DEF Test
<1>2. e \in Nat /\ start \in Nat
  <2>1. t.num_days \in Nat
    BY DEF SoundTable, GoodTable, Table
  <2>2. e \in Nat
    BY <2>1
  <2> QED
    BY <2>2, ReadsByAge
<1>3. IsFiniteSet(read)
  <2>1. PICK r : r = ReadRange(t, i, now, [start |-> s, end |-> e])
    OBVIOUS
  <2>2. r.start \in Nat /\ r.end \in Nat
    BY <1>2, <2>1, ReadsByAge
  <2>3. r.start + 1 \in Int /\ r.end \in Int
    BY <2>2
  <2>4. IsFiniteSet(r.start + 1 .. r.end)
    BY <2>3, FS_Interval
  <2> QED
    BY <2>1, <2>3, <2>4 DEF Indices
<1>4. IsFiniteSet(asked) /\ asked \subseteq Days
  BY AskedFinite
<1>5. \A b \in read : t.testdata[b] \in TestData
  BY <1>2, ReadBucketDay
<1>6. \A d \in asked :
        /\ latest - d \in Int
        /\ latest - d \in 0 .. v - 1 =>
             /\ start + (latest - d) + 1 \in read
             /\ \A c \in Counters :
                  h.runs[key][d].counts[c] = t.testdata[start + (latest - d) + 1].counts[c]
             /\ h.runs[key][d].failing_commits
                  = t.testdata[start + (latest - d) + 1].failing_commits
        /\ latest - d \notin 0 .. v - 1 =>
             /\ \A c \in Counters : h.runs[key][d].counts[c] = 0
             /\ h.runs[key][d].failing_commits = {}
  BY AskedDayTold
<1>7. latest \in Nat
  BY ReadToday
<1>8. \A d \in asked : d \in Nat
  BY <1>4, DaysType
<1> HIDE DEF read, asked, key, start, latest, v
<1>9. Embeds(m, P, read)
  <2>1. m \in [P -> read]
    BY <1>6
  <2>2. \A d, q \in P : m[d] = m[q] => d = q
    BY <1>2, <1>7, <1>8
  <2> QED
    BY <2>1, <2>2 DEF Embeds
<1>10. ASSUME NEW c \in Counters
       PROVE  /\ Total(h.runs[key], c, asked) <= Total(t.testdata, c, read)
              /\ Total(h.runs[key], c, asked) \in Nat /\ Total(t.testdata, c, read) \in Nat
  <2>1. PICK g : g = [d \in asked |-> h.runs[key][d].counts[c]]
    OBVIOUS
  <2>2. PICK k : k = [b \in read |-> t.testdata[b].counts[c]]
    OBVIOUS
  <2>3. k \in [read -> Nat] /\ \A b \in read : k[b] = t.testdata[b].counts[c]
    BY <1>5, <2>2, RunsType
  <2>4. g \in [asked -> Nat] /\ \A d \in asked : g[d] = h.runs[key][d].counts[c]
    <3>1. \A d \in asked : h.runs[key][d].counts[c] \in Nat
      BY <1>1, <1>4 DEF Histories, Runs
    <3> QED
      BY <2>1, <3>1
  <2>5. PICK p, w, R, D : p = P /\ w = m /\ R = read /\ D = asked
    OBVIOUS
  <2>6. /\ p \in SUBSET D /\ Embeds(w, p, R) /\ IsFiniteSet(R) /\ IsFiniteSet(D)
        /\ g \in [D -> Nat] /\ k \in [R -> Nat]
        /\ \A d \in p : g[d] <= k[w[d]]
        /\ \A d \in D \ p : g[d] = 0
    <3>1. \A d \in P : m[d] \in read /\ m[d] = start + (latest - d) + 1 /\ d \in asked
      BY <1>9 DEF Embeds
    <3>2. \A d \in P : g[d] <= k[m[d]]
      <4> SUFFICES ASSUME NEW d \in P PROVE g[d] <= k[m[d]]
        OBVIOUS
      <4>1. g[d] = k[m[d]]
        BY <1>6, <2>3, <2>4, <3>1
      <4>2. k[m[d]] \in Nat
        BY <2>3, <3>1
      <4> QED
        BY <4>1, <4>2
    <3>3. \A d \in asked \ P : g[d] = 0
      BY <1>6, <2>4
    <3> QED
      BY <1>3, <1>4, <1>9, <2>3, <2>4, <2>5, <3>2, <3>3
  <2>7. Sum(g, D) <= Sum(k, R) /\ Sum(g, D) \in Nat /\ Sum(k, R) \in Nat
    BY <2>6, SumMoved, SumType
  <2>8. Total(t.testdata, c, R) = Sum(k, R)
    <3>1. PICK F : F = t.testdata
      OBVIOUS
    <3>2. \A b \in R : k[b] = F[b].counts[c]
      BY <2>3, <2>5, <3>1
    <3>3. Total(F, c, R) = Sum(k, R)
      BY <2>6, <3>2, TotalIsSum
    <3> QED
      BY <3>1, <3>3
  <2>9. Total(h.runs[key], c, D) = Sum(g, D)
    <3>1. PICK F : F = h.runs[key]
      OBVIOUS
    <3>2. \A d \in D : g[d] = F[d].counts[c]
      BY <2>4, <2>5, <3>1
    <3>3. Total(F, c, D) = Sum(g, D)
      BY <2>6, <3>2, TotalIsSum
    <3> QED
      BY <3>1, <3>3
  <2> QED
    BY <2>5, <2>7, <2>8, <2>9
<1>11. UNION {h.runs[key][d].failing_commits : d \in asked}
         \subseteq UNION {t.testdata[b].failing_commits : b \in read}
  <2> SUFFICES ASSUME NEW d \in asked, NEW x \in h.runs[key][d].failing_commits
               PROVE  \E b \in read : x \in t.testdata[b].failing_commits
    OBVIOUS
  <2>1. latest - d \in 0 .. v - 1
    BY <1>6
  <2> QED
    BY <1>6, <2>1
<1> QED
  BY <1>10, <1>11 DEF read, asked, key

LEMMA ReadsAll ==
  ASSUME NEW t, SoundTable(t), ValidIn(t), BucketsIn(t, Fitting), t.num_days \in Nat,
         NEW h \in Histories, FileAccounts(t, h), CommitsTold(h), FitsCounters(h),
         NEW now \in Nat
  PROVE  ReadsCompletely(t, h, now)
<1>1. ASSUME NEW i \in DOMAIN t.tests, t.tests[i].key \notin h.late \cup h.shed,
             ~ HidesData(t, i), NEW s \in 0 .. t.num_days, NEW e \in 0 .. t.num_days
      PROVE  LET want == [start |-> s, end |-> e]
                 told == h.runs[t.tests[i].key]
                 asked == {d \in Days : Day(Parse(t, now).timestamp) - d \in s .. e - 1}
                 answer == Aggregate(t, i, now, want)
             IN /\ \A c \in Counters :
                     answer.totals[c] = MapThenSumSet(LAMBDA d : told[d].counts[c], asked)
                /\ answer.failing_commits = UNION {told[d].failing_commits : d \in asked}
  <2> DEFINE want == [start |-> s, end |-> e]
             read == Indices(ReadRange(t, i, now, want))
             told == h.runs[t.tests[i].key]
             asked == Asked(t, now, s, e)
             answer == Aggregate(t, i, now, want)
  <2>1. s \in Nat /\ e \in Nat /\ t.tests[i].key \notin h.late
    BY <1>1
  <2>2. /\ \A c \in Counters : Total(t.testdata, c, read) <= Total(told, c, asked)
        /\ UNION {t.testdata[b].failing_commits : b \in read}
             \subseteq UNION {told[d].failing_commits : d \in asked}
    BY <2>1, ReadsNoMore
  <2>3. /\ \A c \in Counters : Total(told, c, asked) <= Total(t.testdata, c, read)
        /\ UNION {told[d].failing_commits : d \in asked}
             \subseteq UNION {t.testdata[b].failing_commits : b \in read}
        /\ \A c \in Counters : Total(told, c, asked) \in Nat /\ Total(t.testdata, c, read) \in Nat
    BY <1>1, <2>1, ReadsNoLess
  <2>4. \A c \in Counters : answer.totals[c] = Total(t.testdata, c, read)
    BY DEF Aggregate, Total
  <2>5. answer.failing_commits = UNION {t.testdata[b].failing_commits : b \in read}
    BY DEF Aggregate
  <2> HIDE DEF answer, read, told, want, asked
  <2>6. \A c \in Counters : Total(t.testdata, c, read) = Total(told, c, asked)
    BY <2>2, <2>3
  <2>7. UNION {t.testdata[b].failing_commits : b \in read}
          = UNION {told[d].failing_commits : d \in asked}
    BY <2>2, <2>3
  <2> QED
    BY <2>4, <2>5, <2>6, <2>7 DEF Asked, Total, Today, answer, want, told, asked
<1> QED
  BY <1>1 DEF ReadsCompletely

CommitsAllTold ==
  CommitsTold(history) /\ \A f \in DOMAIN histories : CommitsTold(histories[f])

LEMMA FailedRunsTold ==
  ASSUME NEW r \in Runs, r.failing_commits # {} => r.counts["fail"] # 0
  PROVE  /\ \A outcome \in Outcomes, commit \in Commits :
              Told(r, outcome, commit).failing_commits # {}
                => Told(r, outcome, commit).counts["fail"] # 0
         /\ \A s \in Runs : (s.failing_commits # {} => s.counts["fail"] # 0) =>
              (Joined(r, s).failing_commits # {} => Joined(r, s).counts["fail"] # 0)
<1>1. "fail" \in Counters /\ r.counts["fail"] \in Nat /\ r.counts \in [Counters -> Nat]
  BY DEF Counters, Runs
<1>2. ASSUME NEW outcome \in Outcomes, NEW commit \in Commits,
             Told(r, outcome, commit).failing_commits # {}
      PROVE  Told(r, outcome, commit).counts["fail"] # 0
  <2>1. CASE CounterOf(outcome) = "fail"
    <3>1. Told(r, outcome, commit).counts["fail"] = r.counts["fail"] + 1
      BY <2>1, <1>1 DEF Told
    <3> QED
      BY <1>1, <3>1
  <2>2. CASE CounterOf(outcome) # "fail"
    <3>1. /\ Told(r, outcome, commit).counts["fail"] = r.counts["fail"]
          /\ Told(r, outcome, commit).failing_commits = r.failing_commits
      BY <2>2, <1>1 DEF Told
    <3> QED
      BY <1>2, <3>1
  <2> QED
    BY <2>1, <2>2
<1>3. ASSUME NEW s \in Runs, s.failing_commits # {} => s.counts["fail"] # 0,
             Joined(r, s).failing_commits # {}
      PROVE  Joined(r, s).counts["fail"] # 0
  <2>1. s.counts["fail"] \in Nat
    BY <1>1 DEF Runs
  <2>2. Joined(r, s).counts["fail"] = r.counts["fail"] + s.counts["fail"]
    BY <1>1 DEF Joined
  <2>3. r.failing_commits # {} \/ s.failing_commits # {}
    BY <1>3 DEF Joined
  <2>4. r.counts["fail"] # 0 \/ s.counts["fail"] # 0
    BY <1>3, <2>3
  <2> QED
    BY <1>1, <2>1, <2>2, <2>4
<1> QED
  BY <1>2, <1>3

LEMMA ReportTellsCommits ==
  ASSUME IInv, HistoryInv, CommitsTold(history), NEW test \in Tests, NEW outcome \in Outcomes,
         NEW newest, Report(test, outcome, newest)
  PROVE  CommitsTold(history')
<1> DEFINE me == SessionKey(test)
           day == Day(session.timestamp)
           told == Reported(history, me, day, outcome, session.commit)
<1>1. session \in Session
  BY IInvIsSound DEF StateSound
<1>2. me \in Keys /\ session.commit \in Commits
  BY <1>1 DEF SessionKey, Keys, Session
<1>3. PICK h, commit, key, today :
        h = history /\ commit = session.commit /\ key = me /\ today = day
  OBVIOUS
<1>4. h \in Histories /\ commit \in Commits /\ key \in Keys
  BY <1>2, <1>3 DEF HistoryInv
<1>5. PICK r : r = Reported(h, key, today, outcome, commit)
  OBVIOUS
<1>6. /\ r \in Histories
      /\ \A k \in Keys, d \in Days :
           r.runs[k][d] = IF k = key /\ d = today THEN Told(h.runs[k][d], outcome, commit)
                          ELSE h.runs[k][d]
  BY <1>4, <1>5, ReportedRuns
<1>7. history'.runs = r.runs
  <2>1. history' = [told EXCEPT !.late = IF newest /\ day < Day(writer.timestamp)
                                          THEN @ \cup {me} ELSE @]
    BY DEF Report
  <2>2. r = told
    BY <1>3, <1>5
  <2> HIDE DEF told
  <2> QED
    BY <1>6, <2>1, <2>2 DEF Histories
<1>8. ASSUME NEW k \in Keys, NEW d \in Days, r.runs[k][d].failing_commits # {}
      PROVE  r.runs[k][d].counts["fail"] # 0
  <2>1. h.runs[k][d] \in Runs
    BY <1>4 DEF Histories
  <2>2. h.runs[k][d].failing_commits # {} => h.runs[k][d].counts["fail"] # 0
    BY <1>3 DEF CommitsTold
  <2>3. PICK x : x = h.runs[k][d]
    OBVIOUS
  <2>4. Told(x, outcome, commit).failing_commits # {}
          => Told(x, outcome, commit).counts["fail"] # 0
    BY <1>4, <2>1, <2>2, <2>3, FailedRunsTold
  <2> QED
    BY <1>6, <1>8, <2>2, <2>3, <2>4
<1> QED
  BY <1>7, <1>8 DEF CommitsTold

LEMMA NextCommitsTold ==
  ASSUME IInv, HistoryInv, CommitsAllTold, [NextH]_hvars
  PROVE  CommitsAllTold'
<1>1. DOMAIN histories = DOMAIN files /\ histories \in Seq(Histories)
  <2>1. files \in Seq(Table)
    BY IInvIsSound DEF StateSound
  <2> QED
    BY <2>1 DEF HistoryInv
<1>2. CommitsTold(NoHistory)
  BY DEF CommitsTold, NoHistory, NoRuns, Counters
<1>3. \A f \in DOMAIN files : CommitsTold(histories[f])
  BY <1>1 DEF CommitsAllTold
<1>4. ASSUME CommitsTold(history'), histories' = histories PROVE CommitsAllTold'
  BY <1>4 DEF CommitsAllTold
<1>5. ASSUME NEW num_days \in Windows, NewH(num_days) PROVE CommitsAllTold'
  BY <1>2, <1>4, <1>5 DEF NewH
<1>6. ASSUME NEW f \in DOMAIN files, NEW now \in ClockTimes, OpenH(f, now) PROVE CommitsAllTold'
  BY <1>3, <1>4, <1>6 DEF OpenH
<1>7. CASE SerializeH
  <2>1. history' = NoHistory /\ histories' = Append(histories, history)
    BY <1>7 DEF SerializeH
  <2>2. ASSUME NEW f \in DOMAIN histories' PROVE CommitsTold(histories'[f])
    <3>1. history \in Histories
      BY DEF HistoryInv
    <3>2. histories'[f] = IF f = Len(histories) + 1 THEN history ELSE histories[f]
      BY <1>1, <2>1, <3>1
    <3>3. f = Len(histories) + 1 \/ f \in DOMAIN histories
      BY <1>1, <2>1, <3>1
    <3> QED
      BY <3>2, <3>3 DEF CommitsAllTold
  <2> QED
    BY <1>2, <2>1, <2>2 DEF CommitsAllTold
<1>8. ASSUME NEW timestamp \in Times, NEW commit \in Commits, NEW flags \in FlagSets,
             StartSessionH(timestamp, commit, flags)
      PROVE  CommitsAllTold'
  BY <1>4, <1>8 DEF StartSessionH, CommitsAllTold
<1>9. ASSUME NEW test \in Tests, NEW outcome \in Outcomes, NEW newest, Report(test, outcome, newest)
      PROVE  CommitsAllTold'
  <2>1. CommitsTold(history')
    BY <1>9, ReportTellsCommits DEF CommitsAllTold
  <2> QED
    BY <1>4, <1>9, <2>1 DEF Report
<1>10. ASSUME NEW f \in DOMAIN files, NEW g \in DOMAIN files, NEW now \in ClockTimes,
              MergeBeginH(f, g, now)
       PROVE  CommitsAllTold'
  <2>1. PICK a, b : a = histories[f] /\ b = histories[g]
    OBVIOUS
  <2>2. a \in Histories /\ b \in Histories /\ CommitsTold(a) /\ CommitsTold(b)
    BY <1>1, <1>3, <2>1, ElementOfSeq
  <2>3. PICK r : r = Combined(a, b)
    OBVIOUS
  <2>4. /\ r \in Histories
        /\ \A k \in Keys, d \in Days : r.runs[k][d] = Joined(a.runs[k][d], b.runs[k][d])
    BY <2>2, <2>3, CombinedProperties
  <2>5. history'.runs = r.runs /\ histories' = histories
    <3>1. \/ history' = r
          \/ history' = [r EXCEPT !.shed = Keys]
      BY <1>10, <2>1, <2>3 DEF MergeBeginH
    <3> QED
      BY <1>10, <2>4, <3>1 DEF MergeBeginH, Histories
  <2>6. ASSUME NEW k \in Keys, NEW d \in Days, r.runs[k][d].failing_commits # {}
        PROVE  r.runs[k][d].counts["fail"] # 0
    <3>1. PICK x, y : x = a.runs[k][d] /\ y = b.runs[k][d]
      OBVIOUS
    <3>2. /\ x \in Runs /\ y \in Runs
          /\ x.failing_commits # {} => x.counts["fail"] # 0
          /\ y.failing_commits # {} => y.counts["fail"] # 0
      BY <2>2, <3>1 DEF Histories, CommitsTold
    <3>3. Joined(x, y).failing_commits # {} => Joined(x, y).counts["fail"] # 0
      BY <3>2, FailedRunsTold
    <3> QED
      BY <2>4, <2>6, <3>1, <3>3
  <2>7. CommitsTold(history')
    BY <2>5, <2>6 DEF CommitsTold
  <2> QED
    BY <1>4, <2>5, <2>7
<1>11. ASSUME histories' = histories,
              history' = history \/ (\E shed : history' = [history EXCEPT !.shed = shed])
       PROVE  CommitsAllTold'
  <2>1. history'.runs = history.runs
    BY <1>11 DEF HistoryInv, Histories
  <2>2. CommitsTold(history')
    BY <2>1 DEF CommitsAllTold, CommitsTold
  <2> QED
    BY <1>4, <1>11, <2>2
<1>12. CASE MergeRecordH
  BY <1>11, <1>12 DEF MergeRecordH
<1>13. CASE UnwindH
  BY <1>2, <1>4, <1>13 DEF UnwindH
<1>14. ASSUME NEW num_days \in Windows, NEW timestamp \in ClockTimes,
              NEW threshold \in Thresholds \cup {DefaultThreshold},
              RewriteBeginH(num_days, timestamp, threshold)
       PROVE  CommitsAllTold'
  BY <1>11, <1>14 DEF RewriteBeginH
<1>15. CASE UNCHANGED <<history, histories>>
  BY <1>11, <1>15
<1>16. ASSUME NEW test \in Tests, NEW outcome \in Outcomes,
              \/ InsertNewH(test, outcome)
              \/ InsertNewerH(test, outcome)
              \/ InsertHistoricH(test, outcome)
              \/ InsertExpiredH(test, outcome)
       PROVE  CommitsAllTold'
  BY <1>9, <1>16 DEF InsertNewH, InsertNewerH, InsertHistoricH, InsertExpiredH
<1>17. ASSUME NEW num_days \in Windows, NEW timestamp \in ClockTimes,
              NEW threshold \in Thresholds \cup {DefaultThreshold},
              StepH(RewriteSkip(num_days, timestamp, threshold))
       PROVE  CommitsAllTold'
  BY <1>15, <1>17 DEF StepH
<1>18. ASSUME \/ StepH(MergePanics) \/ StepH(MergeEnd) \/ StepH(RewriteDead)
              \/ StepH(RewriteLive) \/ StepH(RewriteEnd) \/ UNCHANGED hvars
       PROVE  CommitsAllTold'
  BY <1>15, <1>18 DEF StepH, hvars
<1> QED
  BY <1>5, <1>6, <1>7, <1>8, <1>10, <1>12, <1>13, <1>14, <1>16, <1>17, <1>18 DEF NextH

LEMMA AllCommitsTold == SpecH => []CommitsAllTold
<1>1. InitH => CommitsAllTold
  BY EmptySeq DEF InitH, CommitsAllTold, CommitsTold, NoHistory, NoRuns, Counters
<1>2. IInv /\ HistoryInv /\ CommitsAllTold /\ [NextH]_hvars => CommitsAllTold'
  BY NextCommitsTold
<1> QED
  BY <1>1, <1>2, AccountsKept, InvariantWithHistory, PTL DEF SpecH

\* No test has more runs of one outcome on a day than a counter can count.
CountersSuffice == \A f \in DOMAIN histories : FitsCounters(histories[f])

\* As long as no rewrite narrows the window and the counters suffice, what a
\* file reports for an interval of its window is all that was reported on those
\* days, run by run and commit by commit, whenever it is read: for every record
\* that hides no bucket, and a test that is not late and of which merge shed
\* nothing.
THEOREM ReaderIsComplete ==
  SpecH /\ [][~ Narrows]_vars /\ []CountersSuffice => []ReaderComplete
<1>1. IInv /\ HistoryInv /\ ValidDataInRecord /\ CommitsAllTold /\ CountersSuffice => ReaderComplete
  <2> SUFFICES ASSUME IInv, HistoryInv, ValidDataInRecord, CommitsAllTold, CountersSuffice,
                      files # <<>>, NEW now \in Times \cup ClockTimes
               PROVE  ReadsCompletely(files[Len(files)], histories[Len(files)], now)
    BY DEF ReaderComplete
  <2>1. now \in Nat
    BY ConstantsAssumption
  <2>2. PICK t, h : t = files[Len(files)] /\ h = histories[Len(files)]
    OBVIOUS
  <2>3. SoundTable(t) /\ ValidIn(t) /\ t.num_days \in Nat /\ h \in Histories /\ FileAccounts(t, h)
    BY <2>2, FilesSound
  <2>4. BucketsIn(t, Fitting) /\ CommitsTold(h) /\ FitsCounters(h)
    <3>1. files \in Seq(Table)
      BY IInvIsSound DEF StateSound
    <3>2. Len(files) \in DOMAIN files /\ Len(files) \in DOMAIN histories
      BY <3>1, EmptySeq DEF HistoryInv
    <3> QED
      BY <2>2, <3>2 DEF HistoryInv, CommitsAllTold, CountersSuffice
  <2> QED
    BY <2>1, <2>2, <2>3, <2>4, ReadsAll
<1> QED
  BY <1>1, AllCommitsTold, AccountsKept, InvariantWithHistory, HistoryWatches,
     ValidDataStaysInRecord, PTL
=============================================================================
