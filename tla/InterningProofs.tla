---------------------------- MODULE InterningProofs ----------------------------
(***************************************************************************)
(* Proofs about InternedTables.  Sound says what holds of a writer's       *)
(* tables: values are stored once, the index of the sets of flags has what *)
(* load would find, and every reference is one of its table.  Extends says *)
(* that tables grow without a reference changing its meaning.  From these  *)
(* two follow what FlagsInsert and Added leave behind, for any tables; the *)
(* invariant of the specification, TablesInv, is their use on the writer,  *)
(* the source and the files, and the refinement reads off what is resolved.*)
(***************************************************************************)
EXTENDS InternedTables, SequenceTheorems, FiniteSetTheorems, WellFoundedInduction, TLAPS

-----------------------------------------------------------------------------
(* Sequences that grow, and values that are stored once.                   *)

\* Every value is stored once.
Unique(s) == \A i, j \in 1 .. Len(s) : s[i] = s[j] => i = j

\* What is stored stays where it is.
Grows(s, t) == Len(s) <= Len(t) /\ \A i \in 1 .. Len(s) : t[i] = s[i]

Sorting(set) ==
  {s \in [1 .. Cardinality(set) -> set] : \A i, j \in DOMAIN s : i < j => s[i] < s[j]}

-----------------------------------------------------------------------------
(* Tables of values.                                                       *)

LEMMA ToSetOfSeq ==
  ASSUME NEW S, NEW s \in Seq(S)
  PROVE  /\ ToSet(s) = {s[i] : i \in 1 .. Len(s)}
         /\ ToSet(s) \subseteq S
         /\ DOMAIN s = 1 .. Len(s)
         /\ Len(s) \in Nat
<1>1. DOMAIN s = 1 .. Len(s) /\ Len(s) \in Nat
  OBVIOUS
<1>2. \A i \in 1 .. Len(s) : s[i] \in S
  BY ElementOfSeq
<1>3. QED
  BY <1>1, <1>2 DEF ToSet

\* A value is at one offset of a table only.
LEMMA OffsetOfValue ==
  ASSUME NEW S, NEW s \in Seq(S), Unique(s), NEW x \in ToSet(s)
  PROVE  /\ OffsetOf(s, x) \in Nat
         /\ OffsetOf(s, x) + 1 \in 1 .. Len(s)
         /\ ReadAt(s, OffsetOf(s, x)) = x
         /\ \A i \in 1 .. Len(s) : s[i] = x => OffsetOf(s, x) = i - 1
<1>1. DOMAIN s = 1 .. Len(s) /\ Len(s) \in Nat
  OBVIOUS
<1>2. PICK i \in 1 .. Len(s) : s[i] = x
  BY ToSetOfSeq
<1>3. \A j \in 1 .. Len(s) : s[j] = x => j = i
  BY <1>2 DEF Unique
<1>4. (CHOOSE j \in DOMAIN s : s[j] = x) = i
  BY <1>1, <1>2, <1>3
<1>5. OffsetOf(s, x) = i - 1
  BY <1>4 DEF OffsetOf
<1>6. i - 1 \in Nat /\ i - 1 + 1 = i
  BY <1>1
<1>7. QED
  BY <1>2, <1>3, <1>5, <1>6 DEF ReadAt

LEMMA GrowsKeepsOffsets ==
  ASSUME NEW S, NEW s \in Seq(S), NEW t \in Seq(S), Unique(t), Grows(s, t)
  PROVE  /\ Unique(s)
         /\ ToSet(s) \subseteq ToSet(t)
         /\ \A x \in ToSet(s) : OffsetOf(t, x) = OffsetOf(s, x)
         /\ \A o \in Nat : o + 1 \in 1 .. Len(s) => o + 1 \in 1 .. Len(t) /\ ReadAt(t, o) = ReadAt(s, o)
<1>1. Len(s) \in Nat /\ Len(t) \in Nat /\ Len(s) <= Len(t)
  BY DEF Grows
<1>2. \A i \in 1 .. Len(s) : i \in 1 .. Len(t) /\ t[i] = s[i]
  BY <1>1 DEF Grows
<1>3. Unique(s)
  BY <1>2 DEF Unique
<1>4. ToSet(s) \subseteq ToSet(t)
  BY <1>2, ToSetOfSeq
<1>5. ASSUME NEW x \in ToSet(s)
      PROVE  OffsetOf(t, x) = OffsetOf(s, x)
  <2>1. PICK i \in 1 .. Len(s) : s[i] = x
    BY ToSetOfSeq
  <2>2. OffsetOf(s, x) = i - 1
    BY <1>3, <2>1, OffsetOfValue
  <2>3. OffsetOf(t, x) = i - 1
    BY <1>2, <1>4, <2>1, OffsetOfValue
  <2>4. QED
    BY <2>2, <2>3
<1>6. QED
  BY <1>2, <1>3, <1>4, <1>5 DEF ReadAt

LEMMA GrowsTransitive ==
  ASSUME NEW S, NEW s \in Seq(S), NEW t \in Seq(S), NEW u \in Seq(S), Grows(s, t), Grows(t, u)
  PROVE  Grows(s, u)
<1>1. Len(s) \in Nat /\ Len(t) \in Nat /\ Len(u) \in Nat
  OBVIOUS
<1>2. QED
  BY <1>1 DEF Grows

LEMMA InternedValue ==
  ASSUME NEW S, NEW s \in Seq(S), Unique(s), NEW x \in S
  PROVE  /\ Interned(s, x) \in Seq(S)
         /\ Unique(Interned(s, x))
         /\ Grows(s, Interned(s, x))
         /\ ToSet(Interned(s, x)) = ToSet(s) \cup {x}
         /\ x \in ToSet(s) => Interned(s, x) = s
         /\ x \notin ToSet(s) => Len(Interned(s, x)) = Len(s) + 1
<1>1. Len(s) \in Nat
  OBVIOUS
<1>2. CASE x \in ToSet(s)
  BY <1>1, <1>2 DEF Interned, Grows
<1>3. CASE x \notin ToSet(s)
  <2> DEFINE t == Append(s, x)
  <2>1. /\ t \in Seq(S) /\ Len(t) = Len(s) + 1 /\ t[Len(s) + 1] = x
        /\ \A i \in 1 .. Len(s) : t[i] = s[i]
    OBVIOUS
  <2>2. Interned(s, x) = t
    BY <1>3 DEF Interned
  <2> HIDE DEF t
  <2>3. \A i \in 1 .. Len(t) : i \in 1 .. Len(s) \/ i = Len(s) + 1
    BY <1>1, <2>1
  <2>4. \A i \in 1 .. Len(s) : i \in 1 .. Len(t) /\ i # Len(s) + 1 /\ s[i] # x
    BY <1>1, <1>3, <2>1, ToSetOfSeq
  <2>5. Unique(t)
    BY <2>1, <2>3, <2>4 DEF Unique
  <2>6. Len(s) + 1 \in 1 .. Len(t)
    BY <1>1, <2>1
  <2>7. ToSet(t) = {t[i] : i \in 1 .. Len(t)} /\ ToSet(s) = {s[i] : i \in 1 .. Len(s)}
    BY <2>1, ToSetOfSeq
  <2>8. ToSet(t) = ToSet(s) \cup {x}
    BY <2>1, <2>3, <2>4, <2>6, <2>7
  <2>9. Grows(s, t)
    BY <1>1, <2>1 DEF Grows
  <2>10. QED
    BY <1>3, <2>1, <2>2, <2>5, <2>8, <2>9
<1>4. QED
  BY <1>2, <1>3

-----------------------------------------------------------------------------
(* sort and dedup.                                                         *)

\* A finite set of strings can be sorted: put the least before the others.
LEMMA SortingExists ==
  ASSUME NEW set \in SUBSET Nat, IsFiniteSet(set)
  PROVE  Sorting(set) # {}
<1> DEFINE Bad == {S \in SUBSET Nat : IsFiniteSet(S) /\ Sorting(S) = {}}
           Sizes == {Cardinality(S) : S \in Bad}
<1>1. SUFFICES ASSUME Bad # {}
               PROVE  FALSE
  OBVIOUS
<1>2. Sizes \subseteq Nat /\ Sizes # {}
  <2>1. \A S \in Bad : Cardinality(S) \in Nat
    BY FS_CardinalityType
  <2>2. QED
    BY <1>1, <2>1
<1>3. PICK n \in Sizes : \A k \in Sizes : ~ (<<k, n>> \in OpToRel(<, Nat))
  BY <1>2, NatLessThanWellFounded, WFMin
<1>4. PICK S \in Bad : n = Cardinality(S)
  BY <1>3
<1>5. n \in Nat /\ S \subseteq Nat /\ IsFiniteSet(S) /\ Sorting(S) = {}
  BY <1>2, <1>4
<1>6. S # {}
  <2>1. SUFFICES ASSUME S = {}
                 PROVE  FALSE
    OBVIOUS
  <2>2. Cardinality(S) = 0
    BY <2>1, FS_EmptySet
  <2>3. <<>> \in [1 .. 0 -> S]
    OBVIOUS
  <2>4. DOMAIN <<>> = {}
    OBVIOUS
  <2>5. <<>> \in Sorting(S)
    BY <2>2, <2>3, <2>4 DEF Sorting
  <2>6. QED
    BY <1>5, <2>5
<1>7. PICK m \in S : \A x \in S : ~ (<<x, m>> \in OpToRel(<, Nat))
  BY <1>5, <1>6, NatLessThanWellFounded, WFMin
<1>8. ASSUME NEW x \in S, x # m
      PROVE  m < x
  <2>1. x \in Nat /\ m \in Nat
    BY <1>5
  <2>2. ~ (x < m)
    BY <1>7, <2>1 DEF OpToRel
  <2>3. QED
    BY <1>8, <2>1, <2>2
<1> DEFINE R == S \ {m}
<1>9. IsFiniteSet(R) /\ Cardinality(R) = n - 1 /\ R \subseteq Nat
  BY <1>4, <1>5, <1>7, FS_RemoveElement
<1>10. n - 1 \in Nat /\ Cardinality(R) < n
  <2>1. Cardinality(R) \in Nat
    BY <1>9, FS_CardinalityType
  <2>2. QED
    BY <1>5, <1>9, <2>1
<1>11. R \notin Bad
  <2>1. SUFFICES ASSUME R \in Bad
                 PROVE  FALSE
    OBVIOUS
  <2>2. Cardinality(R) \in Sizes
    BY <2>1
  <2>3. <<Cardinality(R), n>> \in OpToRel(<, Nat)
    BY <1>2, <1>5, <1>10, <2>2 DEF OpToRel
  <2>4. QED
    BY <1>3, <2>2, <2>3
<1>12. PICK r \in Sorting(R) : TRUE
  BY <1>9, <1>11
<1>13. /\ r \in [1 .. n - 1 -> R]
       /\ \A i, j \in 1 .. n - 1 : i < j => r[i] < r[j]
  BY <1>9, <1>12 DEF Sorting
<1> DEFINE s == [i \in 1 .. n |-> IF i = 1 THEN m ELSE r[i - 1]]
<1>14. \A i \in 1 .. n : i # 1 => i - 1 \in 1 .. n - 1
  BY <1>5
<1>15. s \in [1 .. n -> S]
  BY <1>7, <1>13, <1>14
<1>16. ASSUME NEW i \in 1 .. n, NEW j \in 1 .. n, i < j
       PROVE  s[i] < s[j]
  <2>1. j # 1 /\ j - 1 \in 1 .. n - 1 /\ s[j] = r[j - 1]
    BY <1>5, <1>14, <1>16
  <2>2. CASE i = 1
    <3>1. r[j - 1] \in R
      BY <1>13, <2>1
    <3>2. QED
      BY <1>5, <1>8, <2>1, <2>2, <3>1
  <2>3. CASE i # 1
    <3>1. i - 1 \in 1 .. n - 1 /\ s[i] = r[i - 1] /\ i - 1 < j - 1
      BY <1>5, <1>14, <1>16, <2>3
    <3>2. QED
      BY <1>13, <2>1, <3>1
  <2>4. QED
    BY <2>2, <2>3
<1>17. s \in Sorting(S)
  BY <1>4, <1>15, <1>16 DEF Sorting
<1>18. QED
  BY <1>5, <1>17

\* Sorted has each of the strings once.
LEMMA SortedSet ==
  ASSUME NEW set \in SUBSET Nat, IsFiniteSet(set)
  PROVE  /\ Sorted(set) \in Seq(set)
         /\ Sorted(set) \in Seq(Nat)
         /\ Unique(Sorted(set))
         /\ ToSet(Sorted(set)) = set
<1> DEFINE s == Sorted(set)
           n == Cardinality(set)
<1>1. n \in Nat
  BY FS_CardinalityType
<1>2. s \in [1 .. n -> set] /\ \A i, j \in DOMAIN s : i < j => s[i] < s[j]
  BY SortingExists DEF Sorted, Sorting
<1> HIDE DEF s
<1>3. s \in Seq(set) /\ Len(s) = n /\ DOMAIN s = 1 .. n
  BY <1>1, <1>2
<1>4. s \in Seq(Nat)
  BY <1>3, SeqMonotonic
<1>5. \A i \in 1 .. n : s[i] \in Nat
  BY <1>2
<1>6. Unique(s)
  <2>1. ASSUME NEW i \in 1 .. n, NEW j \in 1 .. n, s[i] = s[j]
        PROVE  i = j
    <3>1. s[i] \in Nat /\ s[j] \in Nat
      BY <1>5
    <3>2. ~ (i < j) /\ ~ (j < i)
      BY <1>2, <1>3, <2>1, <3>1
    <3>3. QED
      BY <1>1, <3>2
  <2>2. QED
    BY <1>3, <2>1 DEF Unique
<1>7. ToSet(s) = set
  <2>1. s \in Injection(1 .. n, set)
    BY <1>2, <1>3, <1>6 DEF Unique, Injection, IsInjective
  <2>2. IsFiniteSet(1 .. n) /\ Cardinality(1 .. n) = n
    BY <1>1, FS_Interval
  <2>3. s \in Surjection(1 .. n, set)
    BY <2>1, <2>2, FS_Injection
  <2>4. \A x \in set : \E i \in 1 .. n : s[i] = x
    BY <2>3 DEF Surjection
  <2>5. ToSet(s) = {s[i] : i \in 1 .. n}
    BY <1>3, ToSetOfSeq
  <2>6. \A i \in 1 .. n : s[i] \in set
    BY <1>2, <1>3
  <2>7. QED
    BY <2>4, <2>5, <2>6
<1>8. QED
  BY <1>3, <1>4, <1>6, <1>7 DEF s

LEMMA FlagsAreFinite ==
  ASSUME NEW flags \in Seq(Nat)
  PROVE  ToSet(flags) \in SUBSET Nat /\ IsFiniteSet(ToSet(flags))
<1>1. Len(flags) \in Nat /\ ToSet(flags) = {flags[i] : i \in 1 .. Len(flags)} /\ ToSet(flags) \subseteq Nat
  BY ToSetOfSeq
<1>2. IsFiniteSet(1 .. Len(flags))
  BY <1>1, FS_Interval
<1>3. IsFiniteSet({flags[i] : i \in 1 .. Len(flags)})
  <2>1. flags \in Surjection(1 .. Len(flags), ToSet(flags))
    BY <1>1, LenProperties DEF Surjection
  <2>2. QED
    BY <1>1, <1>2, <2>1, FS_Surjection
<1>4. QED
  BY <1>1, <1>3

\* All flags are in the table, and what was there stays where it is.
LEMMA InternAllValue ==
  ASSUME NEW strings \in Seq(Nat), Unique(strings), NEW flags \in Seq(Nat)
  PROVE  /\ InternAll(strings, flags) \in Seq(Nat)
         /\ Unique(InternAll(strings, flags))
         /\ Grows(strings, InternAll(strings, flags))
         /\ ToSet(InternAll(strings, flags)) = ToSet(strings) \cup ToSet(flags)
<1> DEFINE more == Sorted(ToSet(flags) \ ToSet(strings))
           all == InternAll(strings, flags)
<1>1. /\ more \in Seq(Nat) /\ Unique(more)
      /\ ToSet(more) = ToSet(flags) \ ToSet(strings)
  <2>1. ToSet(flags) \ ToSet(strings) \in SUBSET Nat /\ IsFiniteSet(ToSet(flags) \ ToSet(strings))
    BY FlagsAreFinite, FS_Difference
  <2>2. QED
    BY <2>1, SortedSet
<1>2. all = strings \o more
  BY DEF InternAll
<1> HIDE DEF more, all
<1>3. /\ all \in Seq(Nat) /\ Len(all) = Len(strings) + Len(more)
      /\ \A i \in 1 .. Len(strings) + Len(more) :
           all[i] = IF i <= Len(strings) THEN strings[i] ELSE more[i - Len(strings)]
  BY <1>1, <1>2, ConcatProperties
<1>4. Len(strings) \in Nat /\ Len(more) \in Nat
  BY <1>1
<1>5. \A i \in 1 .. Len(strings) : i \in 1 .. Len(all) /\ all[i] = strings[i]
  BY <1>3, <1>4
<1>6. ASSUME NEW i \in 1 .. Len(more)
      PROVE  Len(strings) + i \in 1 .. Len(all) /\ all[Len(strings) + i] = more[i]
  <2>1. /\ Len(strings) + i \in 1 .. Len(strings) + Len(more)
        /\ ~ (Len(strings) + i <= Len(strings))
        /\ Len(strings) + i - Len(strings) = i
    BY <1>4
  <2>2. QED
    BY <1>3, <2>1
<1>7. \A i \in 1 .. Len(all) : i \notin 1 .. Len(strings) =>
        /\ i - Len(strings) \in 1 .. Len(more)
        /\ all[i] = more[i - Len(strings)]
  BY <1>3, <1>4
<1>8. \A i \in 1 .. Len(strings), j \in 1 .. Len(more) : strings[i] # more[j]
  <2>1. /\ \A i \in 1 .. Len(strings) : strings[i] \in ToSet(strings)
        /\ \A j \in 1 .. Len(more) : more[j] \in ToSet(more)
    BY <1>1, ToSetOfSeq
  <2>2. QED
    BY <1>1, <2>1
<1>9. Unique(all)
  <2>1. ASSUME NEW i \in 1 .. Len(all), NEW j \in 1 .. Len(all), all[i] = all[j]
        PROVE  i = j
    <3>1. CASE i \in 1 .. Len(strings) /\ j \in 1 .. Len(strings)
      BY <1>5, <2>1, <3>1 DEF Unique
    <3>2. CASE i \notin 1 .. Len(strings) /\ j \notin 1 .. Len(strings)
      <4>1. i - Len(strings) = j - Len(strings)
        BY <1>1, <1>7, <2>1, <3>2 DEF Unique
      <4>2. QED
        BY <1>3, <1>4, <4>1
    <3>3. CASE i \in 1 .. Len(strings) /\ j \notin 1 .. Len(strings)
      BY <1>5, <1>7, <1>8, <2>1, <3>3
    <3>4. CASE i \notin 1 .. Len(strings) /\ j \in 1 .. Len(strings)
      BY <1>5, <1>7, <1>8, <2>1, <3>4
    <3>5. QED
      BY <3>1, <3>2, <3>3, <3>4
  <2>2. QED
    BY <2>1 DEF Unique
<1>10. ToSet(all) = ToSet(strings) \cup ToSet(more)
  <2>1. /\ ToSet(all) = {all[i] : i \in 1 .. Len(all)}
        /\ ToSet(strings) = {strings[i] : i \in 1 .. Len(strings)}
        /\ ToSet(more) = {more[i] : i \in 1 .. Len(more)}
    <3>1. all \in Seq(Nat) /\ strings \in Seq(Nat) /\ more \in Seq(Nat)
      BY <1>1, <1>3
    <3> HIDE DEF all
    <3>2. ToSet(all) = {all[i] : i \in 1 .. Len(all)}
      BY <3>1, ToSetOfSeq
    <3>3. ToSet(strings) = {strings[i] : i \in 1 .. Len(strings)}
      BY <3>1, ToSetOfSeq
    <3>4. ToSet(more) = {more[i] : i \in 1 .. Len(more)}
      BY <3>1, ToSetOfSeq
    <3>5. QED
      BY <3>2, <3>3, <3>4
  <2>2. ASSUME NEW i \in 1 .. Len(all) PROVE all[i] \in ToSet(strings) \cup ToSet(more)
    <3>1. CASE i \in 1 .. Len(strings)
      BY <1>5, <2>1, <3>1
    <3>2. CASE i \notin 1 .. Len(strings)
      BY <1>7, <2>1, <3>2
    <3>3. QED
      BY <3>1, <3>2
  <2>3. ToSet(strings) \subseteq ToSet(all) /\ ToSet(more) \subseteq ToSet(all)
    BY <1>5, <1>6, <2>1
  <2>4. QED
    BY <2>1, <2>2, <2>3
<1>11. Grows(strings, all)
  BY <1>3, <1>4, <1>5 DEF Grows
<1>12. QED
  BY <1>1, <1>3, <1>9, <1>10, <1>11 DEF all

\* The strings of a set, as its offsets say them.
Spelled(strings, key) == [i \in DOMAIN key |-> ReadAt(strings, key[i])]

\* The offsets of a set, as insert makes them.
Names(strings, key) ==
  /\ key \in Seq(Nat)
  /\ \A i \in 1 .. Len(key) : key[i] + 1 \in 1 .. Len(strings)
  /\ key = FlagsKey(strings, Spelled(strings, key))

\* A set is in the table, behind its length.
At(table, offset, key) ==
  /\ offset \in Nat
  /\ offset + 1 + Len(key) <= Len(table)
  /\ table[offset + 1] = Len(key)
  /\ \A i \in 1 .. Len(key) : table[offset + 1 + i] = key[i]

Indexed(map, table) ==
  /\ table \in Seq(Nat)
  /\ DOMAIN map \subseteq Seq(Nat)
  /\ map = [key \in DOMAIN map |-> map[key]]
  /\ \A key \in DOMAIN map : At(table, map[key], key)
  /\ Walk(table) = {map[key] : key \in DOMAIN map}

-----------------------------------------------------------------------------
(* Sets of flags.                                                          *)

LEMMA FlagsKeyValue ==
  ASSUME NEW strings \in Seq(Nat), Unique(strings),
         NEW flags \in Seq(Nat), ToSet(flags) \subseteq ToSet(strings)
  PROVE  LET key == FlagsKey(strings, flags) IN
         /\ key \in Seq(Nat)
         /\ \A i \in 1 .. Len(key) : key[i] + 1 \in 1 .. Len(strings)
         /\ Spelled(strings, key) = Sorted(ToSet(flags))
         /\ ToSet(Spelled(strings, key)) = ToSet(flags)
         /\ Names(strings, key)
         /\ \A x \in ToSet(flags) : OffsetOf(strings, x) \in ToSet(key)
<1> DEFINE s == Sorted(ToSet(flags))
           key == FlagsKey(strings, flags)
<1>1. s \in Seq(Nat) /\ ToSet(s) = ToSet(flags)
  BY FlagsAreFinite, SortedSet
<1>2. key = [i \in DOMAIN s |-> OffsetOf(strings, s[i])]
  BY DEF FlagsKey
<1> HIDE DEF s, key
<1>3. Len(s) \in Nat /\ DOMAIN s = 1 .. Len(s) /\ ToSet(s) = {s[i] : i \in 1 .. Len(s)}
  BY <1>1, ToSetOfSeq
<1>4. ASSUME NEW i \in 1 .. Len(s)
      PROVE  /\ OffsetOf(strings, s[i]) \in Nat
             /\ OffsetOf(strings, s[i]) + 1 \in 1 .. Len(strings)
             /\ ReadAt(strings, OffsetOf(strings, s[i])) = s[i]
  <2>1. s[i] \in ToSet(strings)
    BY <1>1, <1>3
  <2>2. QED
    BY <2>1, OffsetOfValue
<1>5. key \in Seq(Nat) /\ Len(key) = Len(s) /\ DOMAIN key = 1 .. Len(s)
  BY <1>2, <1>3, <1>4
<1>6. \A i \in 1 .. Len(s) : key[i] = OffsetOf(strings, s[i])
  BY <1>2, <1>3
<1>7. \A i \in 1 .. Len(s) : ReadAt(strings, key[i]) = s[i]
  BY <1>4, <1>6
<1>8. Spelled(strings, key) = s
  <2>1. Spelled(strings, key) = [i \in 1 .. Len(s) |-> s[i]]
    BY <1>5, <1>7 DEF Spelled
  <2>2. QED
    BY <1>1, <1>3, <2>1
<1>9. ToSet(Spelled(strings, key)) = ToSet(flags)
  BY <1>1, <1>8
<1>10. FlagsKey(strings, Spelled(strings, key)) = key
  BY <1>9 DEF FlagsKey, key
<1>11. ASSUME NEW x \in ToSet(flags)
       PROVE  OffsetOf(strings, x) \in ToSet(key)
  <2>1. PICK i \in 1 .. Len(s) : s[i] = x
    BY <1>1, <1>3
  <2>2. key[i] = OffsetOf(strings, x)
    BY <1>6, <2>1
  <2>3. QED
    BY <1>5, <2>2 DEF ToSet
<1>12. \A i \in 1 .. Len(key) : key[i] + 1 \in 1 .. Len(strings)
  BY <1>4, <1>5, <1>6
<1>13. Names(strings, key)
  BY <1>5, <1>10, <1>12 DEF Names
<1>14. QED
  BY <1>5, <1>8, <1>9, <1>11, <1>12, <1>13 DEF s, key

\* A set that is named is spelled with strings of the table.
LEMMA SpelledNames ==
  ASSUME NEW strings \in Seq(Nat), NEW key, Names(strings, key)
  PROVE  /\ Spelled(strings, key) \in Seq(Nat)
         /\ Len(Spelled(strings, key)) = Len(key)
         /\ ToSet(Spelled(strings, key)) \subseteq ToSet(strings)
<1> DEFINE s == Spelled(strings, key)
<1>1. key \in Seq(Nat) /\ Len(key) \in Nat /\ DOMAIN key = 1 .. Len(key)
  BY DEF Names
<1>2. s = [i \in 1 .. Len(key) |-> strings[key[i] + 1]]
  BY <1>1 DEF Spelled, ReadAt
<1>3. \A i \in 1 .. Len(key) : key[i] + 1 \in 1 .. Len(strings)
  BY DEF Names
<1> HIDE DEF s
<1>4. \A i \in 1 .. Len(key) : strings[key[i] + 1] \in Nat
  BY <1>3, ElementOfSeq
<1>5. s \in Seq(Nat) /\ Len(s) = Len(key)
  BY <1>1, <1>2, <1>4
<1>6. \A i \in 1 .. Len(s) : s[i] \in ToSet(strings)
  BY <1>2, <1>3, <1>5, ToSetOfSeq
<1>7. ToSet(s) \subseteq ToSet(strings)
  BY <1>5, <1>6, ToSetOfSeq
<1>8. QED
  BY <1>5, <1>7 DEF s

LEMMA NamesGrow ==
  ASSUME NEW strings \in Seq(Nat), NEW more \in Seq(Nat), Unique(more), Grows(strings, more),
         NEW key, Names(strings, key)
  PROVE  Names(more, key) /\ Spelled(more, key) = Spelled(strings, key)
<1> DEFINE s == Spelled(strings, key)
           sorted == Sorted(ToSet(s))
<1>1. key \in Seq(Nat) /\ \A i \in 1 .. Len(key) : key[i] + 1 \in 1 .. Len(strings)
  BY DEF Names
<1>2. \A i \in 1 .. Len(key) : key[i] \in Nat
  BY <1>1, ElementOfSeq
<1>3. \A i \in 1 .. Len(key) :
        key[i] + 1 \in 1 .. Len(more) /\ ReadAt(more, key[i]) = ReadAt(strings, key[i])
  BY <1>1, <1>2, GrowsKeepsOffsets
<1>4. Spelled(more, key) = s
  BY <1>1, <1>3 DEF Spelled
<1>5. s \in Seq(Nat) /\ ToSet(s) \subseteq ToSet(strings)
  BY SpelledNames
<1>6. sorted \in Seq(Nat) /\ ToSet(sorted) = ToSet(s)
  <2> HIDE DEF s
  <2> QED BY <1>5, FlagsAreFinite, SortedSet
<1>7. key = [i \in DOMAIN sorted |-> OffsetOf(strings, sorted[i])]
  BY DEF Names, FlagsKey
<1>8. FlagsKey(more, s) = [i \in DOMAIN sorted |-> OffsetOf(more, sorted[i])]
  BY DEF FlagsKey
<1> HIDE DEF s, sorted
<1>9. \A i \in DOMAIN sorted : OffsetOf(more, sorted[i]) = OffsetOf(strings, sorted[i])
  <2>1. \A i \in DOMAIN sorted : sorted[i] \in ToSet(strings)
    BY <1>5, <1>6 DEF ToSet
  <2>2. QED
    BY <2>1, GrowsKeepsOffsets
<1>10. FlagsKey(more, s) = key
  BY <1>7, <1>8, <1>9
<1>11. QED
  BY <1>1, <1>3, <1>4, <1>10 DEF Names, s

-----------------------------------------------------------------------------
(* The table of flag sets.                                                 *)

LEMMA AtFlags ==
  ASSUME NEW table \in Seq(Nat), NEW key \in Seq(Nat), NEW o, At(table, o, key)
  PROVE  /\ FlagsAt(table, o) = key
         /\ o \in 0 .. Len(table) - 1
         /\ ReadAt(table, o) = Len(key)
<1>1. Len(table) \in Nat /\ Len(key) \in Nat /\ o \in Nat
  BY DEF At
<1>2. /\ o + 1 + Len(key) <= Len(table)
      /\ ReadAt(table, o) = Len(key)
      /\ \A i \in 1 .. Len(key) : table[o + 1 + i] = key[i]
  BY DEF At, ReadAt
<1> DEFINE m == o + 2
           n == o + 1 + Len(key)
<1>3. FlagsAt(table, o) = SubSeq(table, m, n)
  BY <1>2 DEF FlagsAt
<1>4. m \in Int /\ n \in Int /\ n - m + 1 = Len(key) /\ (m <= n <=> Len(key) # 0)
  BY <1>1
<1>5. \A i \in m .. n : i \in 1 .. Len(table)
  BY <1>1, <1>2
<1>6. \A i \in 1 .. Len(key) : m + i - 1 = o + 1 + i
  BY <1>1
<1> HIDE DEF m, n
<1>7. \A i \in m .. n : table[i] \in Nat
  BY <1>5, ElementOfSeq
<1>8. /\ SubSeq(table, m, n) \in Seq(Nat)
      /\ Len(SubSeq(table, m, n)) = IF m <= n THEN n - m + 1 ELSE 0
      /\ \A i \in 1 .. n - m + 1 : SubSeq(table, m, n)[i] = table[m + i - 1]
  BY <1>4, <1>7, SubSeqProperties
<1>9. Len(SubSeq(table, m, n)) = Len(key)
  BY <1>1, <1>4, <1>8
<1>10. \A i \in 1 .. Len(key) : SubSeq(table, m, n)[i] = key[i]
  BY <1>2, <1>4, <1>6, <1>8
<1>11. SubSeq(table, m, n) = key
  BY <1>8, <1>9, <1>10, SeqEqual
<1>12. o \in 0 .. Len(table) - 1
  BY <1>1, <1>2
<1>13. QED
  BY <1>2, <1>3, <1>11, <1>12

\* Flags that insert hands out once are not handed out for another set.
LEMMA IndexedOffsets ==
  ASSUME NEW map, NEW table, Indexed(map, table)
  PROVE  /\ \A key \in DOMAIN map :
              /\ map[key] \in 0 .. Len(table) - 1
              /\ FlagsAt(table, map[key]) = key
         /\ \A o \in {map[key] : key \in DOMAIN map} :
              FlagsAt(table, o) \in DOMAIN map /\ map[FlagsAt(table, o)] = o
<1>1. \A key \in DOMAIN map : map[key] \in 0 .. Len(table) - 1 /\ FlagsAt(table, map[key]) = key
  BY AtFlags DEF Indexed
<1>2. QED
  BY <1>1

\* load makes the index that insert has made.
LEMMA LoadFindsIndex ==
  ASSUME NEW map, NEW table, Indexed(map, table)
  PROVE  LoadFlags(table) = map
<1> DEFINE found == Walk(table)
           Latest(key) == CHOOSE o \in found :
                            /\ FlagsAt(table, o) = key
                            /\ \A p \in found : FlagsAt(table, p) = key => p <= o
<1>1. found = {map[key] : key \in DOMAIN map} /\ map = [key \in DOMAIN map |-> map[key]]
  BY DEF Indexed
<1>2. LoadFlags(table) = [key \in {FlagsAt(table, o) : o \in found} |-> Latest(key)]
  BY DEF LoadFlags
<1> HIDE DEF found
<1>3. {FlagsAt(table, o) : o \in found} = DOMAIN map
  BY <1>1, IndexedOffsets
<1>4. ASSUME NEW key \in DOMAIN map
      PROVE  Latest(key) = map[key]
  <2>1. map[key] \in found /\ FlagsAt(table, map[key]) = key
    BY <1>1, IndexedOffsets
  <2>2. \A p \in found : FlagsAt(table, p) = key => p = map[key]
    BY <1>1, IndexedOffsets
  <2>3. map[key] <= map[key]
    BY IndexedOffsets
  <2>4. QED
    BY <2>1, <2>2, <2>3
<1> HIDE DEF Latest
<1>5. QED
  BY <1>1, <1>2, <1>3, <1>4

-----------------------------------------------------------------------------
(* load goes on from set to set.                                           *)

\* A set of offsets with an upper bound has a largest.
LEMMA Largest ==
  ASSUME NEW max \in Nat, NEW S \in SUBSET (0 .. max), S # {}
  PROVE  \E i \in S : \A j \in S : j <= i
<1> DEFINE T == {max - i : i \in S}
<1>1. T \subseteq Nat /\ T # {}
  <2>1. \A i \in S : max - i \in Nat
    OBVIOUS
  <2>2. QED
    BY <2>1, Zenon
<1>2. PICK x \in T : \A y \in T : ~ (<<y, x>> \in OpToRel(<, Nat))
  BY <1>1, NatLessThanWellFounded, WFMin
<1>3. PICK i \in S : x = max - i
  BY <1>2
<1>4. ASSUME NEW j \in S
      PROVE  j <= i
  <2>1. ~ (<<max - j, x>> \in OpToRel(<, Nat))
    BY <1>2
  <2>2. ~ (max - j < x)
    BY <1>1, <2>1 DEF OpToRel
  <2>3. QED
    BY <1>3, <2>2
<1>5. QED
  BY <1>3, <1>4

LEMMA StepsReachEnd ==
  ASSUME NEW table \in Seq(Nat), NEW found \in SUBSET (0 .. Len(table)), Steps(table, found)
  PROVE  Len(table) \in found
<1>1. Len(table) \in Nat /\ found # {}
  BY DEF Steps
<1>2. PICK o \in found : \A p \in found : p <= o
  BY <1>1, Largest
<1>3. o \in 0 .. Len(table)
  OBVIOUS
<1>4. CASE o < Len(table)
  <2>1. o + 1 + ReadAt(table, o) \in found
    BY <1>4 DEF Steps
  <2>2. o + 1 \in 1 .. Len(table)
    BY <1>1, <1>3, <1>4
  <2>3. ReadAt(table, o) \in Nat
    BY <2>2, ElementOfSeq DEF ReadAt
  <2>4. o + 1 + ReadAt(table, o) <= o
    BY <1>2, <2>1
  <2>5. QED
    BY <1>3, <2>3, <2>4
<1>5. QED
  BY <1>1, <1>3, <1>4

\* A set appended to the table is found there, after all the others.
LEMMA WalkAppended ==
  ASSUME NEW table \in Seq(Nat), NEW key \in Seq(Nat),
         \A o \in Walk(table) : o + 1 + ReadAt(table, o) <= Len(table)
  PROVE  Walk((table \o <<Len(key)>>) \o key) = Walk(table) \cup {Len(table)}
<1> DEFINE head == table \o <<Len(key)>>
           t == head \o key
           n == Len(table)
<1>1. /\ Len(key) \in Nat /\ n \in Nat
      /\ <<Len(key)>> \in Seq(Nat) /\ Len(<<Len(key)>>) = 1 /\ <<Len(key)>>[1] = Len(key)
  OBVIOUS
<1>2. /\ head \in Seq(Nat) /\ Len(head) = n + 1
      /\ \A i \in 1 .. n + 1 : head[i] = IF i <= n THEN table[i] ELSE <<Len(key)>>[i - n]
  BY <1>1, ConcatProperties
<1> HIDE DEF head
<1>3. /\ t \in Seq(Nat) /\ Len(t) = Len(head) + Len(key)
      /\ \A i \in 1 .. Len(head) + Len(key) :
           t[i] = IF i <= Len(head) THEN head[i] ELSE key[i - Len(head)]
  BY <1>2, ConcatProperties
<1> HIDE DEF t
<1>4. Len(t) = n + 1 + Len(key) /\ Len(t) \in Nat
  BY <1>1, <1>2, <1>3
<1>5. ASSUME NEW o \in 0 .. n - 1
      PROVE  ReadAt(t, o) = ReadAt(table, o)
  <2>1. o + 1 \in 1 .. n + 1 /\ o + 1 <= n /\ o + 1 \in 1 .. Len(head) + Len(key) /\ o + 1 <= Len(head)
    BY <1>1, <1>2
  <2>2. QED
    BY <1>2, <1>3, <2>1 DEF ReadAt
<1>6. ReadAt(t, n) = Len(key)
  <2>1. n + 1 \in 1 .. n + 1 /\ ~ (n + 1 <= n) /\ n + 1 - n = 1
        /\ n + 1 \in 1 .. Len(head) + Len(key) /\ n + 1 <= Len(head)
    BY <1>1, <1>2
  <2>2. QED
    BY <1>1, <1>2, <1>3, <2>1 DEF ReadAt
<1>7. Walk(table) \subseteq 0 .. n - 1
  BY DEF Walk
\* What is found is closed in the longer table too.
<1>8. Walk(t) \subseteq Walk(table) \cup {n}
  <2> DEFINE found == Walk(table) \cup {n} \cup {Len(t)}
  <2>1. found \in SUBSET (0 .. Len(t))
    BY <1>1, <1>4, <1>7
  <2>2. 0 \in found
    <3>1. CASE n = 0
      BY <3>1
    <3>2. CASE n # 0
      <4>1. 0 \in 0 .. n - 1
        BY <1>1, <3>2
      <4>2. 0 \in Walk(table)
        BY <4>1 DEF Walk, Steps
      <4>3. QED
        BY <4>2
    <3>3. QED
      BY <3>1, <3>2
  <2>3. ASSUME NEW o \in found, o < Len(t)
        PROVE  o + 1 + ReadAt(t, o) \in found
    <3>1. CASE o = n
      BY <1>4, <1>6, <3>1
    <3>2. CASE o \in Walk(table)
      <4>1. o \in 0 .. n - 1 /\ o < n
        BY <1>1, <1>7, <3>2
      <4>2. ReadAt(t, o) = ReadAt(table, o)
        BY <1>5, <4>1
      <4>3. o + 1 \in 1 .. n
        BY <1>1, <4>1
      <4>4. ReadAt(table, o) \in Nat
        BY <4>3, ElementOfSeq DEF ReadAt
      <4>5. o + 1 + ReadAt(table, o) <= n
        BY <3>2
      <4>6. CASE o + 1 + ReadAt(table, o) = n
        BY <4>2, <4>6
      <4>7. CASE o + 1 + ReadAt(table, o) # n
        <5>1. o + 1 + ReadAt(table, o) \in 0 .. n - 1
          BY <1>1, <4>1, <4>4, <4>5, <4>7
        <5>2. \A X \in SUBSET (0 .. Len(table)) :
                Steps(table, X) => o + 1 + ReadAt(table, o) \in X
          BY <3>2, <4>1 DEF Walk, Steps
        <5>3. o + 1 + ReadAt(table, o) \in Walk(table)
          BY <5>1, <5>2 DEF Walk
        <5>4. QED
          BY <4>2, <5>3
      <4>8. QED
        BY <4>6, <4>7
    <3>3. QED
      BY <1>4, <2>3, <3>1, <3>2
  <2>4. Steps(t, found)
    BY <2>2, <2>3 DEF Steps
  <2>5. \A o \in Walk(t) : o \in found /\ o # Len(t)
    <3> HIDE DEF found
    <3>1. \A o \in Walk(t) : o \in 0 .. Len(t) - 1 /\ o \in found
      BY <2>1, <2>4 DEF Walk
    <3>2. QED
      BY <1>4, <3>1
  <2>6. QED
    BY <2>5
\* Whatever is closed in the longer table is closed in the shorter one.
<1>9. ASSUME NEW X \in SUBSET (0 .. Len(t)), Steps(t, X)
      PROVE  Walk(table) \cup {n} \subseteq X
  <2> DEFINE Y == X \cap (Walk(table) \cup {n})
  <2>1. Y \in SUBSET (0 .. Len(table))
    BY <1>1, <1>7
  <2>2. 0 \in Y
    <3>1. 0 \in X
      BY <1>9 DEF Steps
    <3>2. n # 0 => 0 \in 0 .. n - 1
      BY <1>1
    <3>3. n # 0 => 0 \in Walk(table)
      BY <3>2 DEF Walk, Steps
    <3>4. QED
      BY <3>1, <3>3
  <2>3. ASSUME NEW o \in Y, o < n
        PROVE  o + 1 + ReadAt(table, o) \in Y
    <3>1. o \in Walk(table) /\ o \in X
      BY <1>1, <2>3
    <3>2. o \in 0 .. n - 1 /\ o < Len(t)
      BY <1>1, <1>4, <1>7, <3>1
    <3>3. o + 1 + ReadAt(table, o) \in X
      <4>1. o + 1 + ReadAt(t, o) \in X
        BY <1>9, <3>1, <3>2 DEF Steps
      <4>2. QED
        BY <1>5, <3>2, <4>1
    <3>4. o + 1 \in 1 .. n
      BY <1>1, <3>2
    <3>5. ReadAt(table, o) \in Nat
      BY <3>4, ElementOfSeq DEF ReadAt
    <3>6. o + 1 + ReadAt(table, o) <= n
      BY <3>1
    <3>7. CASE o + 1 + ReadAt(table, o) = n
      BY <3>3, <3>7
    <3>8. CASE o + 1 + ReadAt(table, o) # n
      <4>1. o + 1 + ReadAt(table, o) \in 0 .. n - 1
        BY <1>1, <3>2, <3>5, <3>6, <3>8
      <4>2. \A Z \in SUBSET (0 .. Len(table)) :
              Steps(table, Z) => o + 1 + ReadAt(table, o) \in Z
        BY <2>3, <3>1 DEF Walk, Steps
      <4>3. o + 1 + ReadAt(table, o) \in Walk(table)
        BY <4>1, <4>2 DEF Walk
      <4>4. QED
        BY <3>3, <4>3
    <3>9. QED
      BY <3>7, <3>8
  <2>4. Steps(table, Y)
    BY <2>2, <2>3 DEF Steps
  <2> HIDE DEF Y
  <2>5. Walk(table) \subseteq Y
    BY <2>1, <2>4 DEF Walk
  <2>6. n \in Y
    BY <2>1, <2>4, StepsReachEnd
  <2>7. QED
    BY <2>5, <2>6 DEF Y
<1>10. Walk(table) \cup {n} \subseteq 0 .. Len(t) - 1
  BY <1>1, <1>4, <1>7
<1>11. Walk(table) \cup {n} \subseteq Walk(t)
  BY <1>9, <1>10 DEF Walk
<1>12. QED
  BY <1>8, <1>11 DEF t, head

\* An index and a table with one set more.
MapWith(map, key, offset) ==
  [k \in DOMAIN map \cup {key} |-> IF k = key THEN offset ELSE map[k]]
TableWith(table, key) == (table \o <<Len(key)>>) \o key

\* insert keeps the index and the table together.
LEMMA IndexedGrows ==
  ASSUME NEW map, NEW table, Indexed(map, table), NEW key \in Seq(Nat), key \notin DOMAIN map
  PROVE  /\ Indexed(MapWith(map, key, Len(table)), TableWith(table, key))
         /\ TableWith(table, key) \in Seq(Nat)
         /\ DOMAIN MapWith(map, key, Len(table)) = DOMAIN map \cup {key}
         /\ \A k \in DOMAIN map :
              /\ MapWith(map, key, Len(table))[k] = map[k]
              /\ FlagsAt(TableWith(table, key), map[k]) = FlagsAt(table, map[k])
<1> DEFINE head == table \o <<Len(key)>>
           t == head \o key
           n == Len(table)
           map2 == [k \in DOMAIN map \cup {key} |-> IF k = key THEN n ELSE map[k]]
<1>1. /\ table \in Seq(Nat) /\ Len(key) \in Nat /\ n \in Nat
      /\ <<Len(key)>> \in Seq(Nat) /\ Len(<<Len(key)>>) = 1 /\ <<Len(key)>>[1] = Len(key)
  BY DEF Indexed
<1>2. /\ head \in Seq(Nat) /\ Len(head) = n + 1
      /\ \A i \in 1 .. n + 1 : head[i] = IF i <= n THEN table[i] ELSE <<Len(key)>>[i - n]
  BY <1>1, ConcatProperties
<1> HIDE DEF head
<1>3. /\ t \in Seq(Nat) /\ Len(t) = Len(head) + Len(key)
      /\ \A i \in 1 .. Len(head) + Len(key) :
           t[i] = IF i <= Len(head) THEN head[i] ELSE key[i - Len(head)]
  BY <1>2, ConcatProperties
<1> HIDE DEF t
<1>4. Len(t) = n + 1 + Len(key) /\ Len(t) \in Nat
  BY <1>1, <1>2, <1>3
<1>5. ASSUME NEW i \in 1 .. n
      PROVE  i \in 1 .. Len(t) /\ t[i] = table[i]
  <2>1. i \in 1 .. n + 1 /\ i <= n /\ i \in 1 .. Len(head) + Len(key) /\ i <= Len(head)
    BY <1>1, <1>2
  <2>2. QED
    BY <1>1, <1>2, <1>3, <1>4, <2>1
<1>6. t[n + 1] = Len(key)
  <2>1. n + 1 \in 1 .. n + 1 /\ ~ (n + 1 <= n) /\ n + 1 - n = 1
        /\ n + 1 \in 1 .. Len(head) + Len(key) /\ n + 1 <= Len(head)
    BY <1>1, <1>2
  <2>2. QED
    BY <1>1, <1>2, <1>3, <2>1
<1>7. ASSUME NEW i \in 1 .. Len(key)
      PROVE  t[n + 1 + i] = key[i]
  <2>1. /\ n + 1 + i \in 1 .. Len(head) + Len(key) /\ ~ (n + 1 + i <= Len(head))
        /\ n + 1 + i - Len(head) = i
    BY <1>1, <1>2
  <2>2. t[n + 1 + i] = key[n + 1 + i - Len(head)]
    <3> DEFINE j == n + 1 + i
    <3>1. j \in 1 .. Len(head) + Len(key) /\ ~ (j <= Len(head))
      BY <2>1
    <3> HIDE DEF j
    <3>2. t[j] = key[j - Len(head)]
      BY <1>3, <3>1
    <3>3. QED
      BY <3>2 DEF j
  <2>3. QED
    BY <2>1, <2>2
<1>9. ASSUME NEW k \in DOMAIN map
      PROVE  At(t, map[k], k)
  <2>1. At(table, map[k], k) /\ k \in Seq(Nat)
    BY DEF Indexed
  <2>2. map[k] \in Nat /\ Len(k) \in Nat /\ map[k] + 1 + Len(k) <= n
    BY <2>1 DEF At
  <2>3. map[k] + 1 \in 1 .. n /\ \A i \in 1 .. Len(k) : map[k] + 1 + i \in 1 .. n
    BY <1>1, <2>2
  <2>4. map[k] + 1 + Len(k) <= Len(t)
    BY <1>1, <1>4, <2>2
  <2>5. QED
    BY <1>5, <2>1, <2>2, <2>3, <2>4 DEF At
<1>10. At(t, n, key)
  BY <1>1, <1>4, <1>6, <1>7 DEF At
<1>11. DOMAIN map2 = DOMAIN map \cup {key} /\ map2[key] = n /\ \A k \in DOMAIN map : map2[k] = map[k]
  OBVIOUS
<1>12. map2 = [k \in DOMAIN map2 |-> map2[k]]
  OBVIOUS
<1>13. Walk(t) = {map2[k] : k \in DOMAIN map2}
  <2>1. Walk(table) = {map[k] : k \in DOMAIN map}
    BY DEF Indexed
  <2>2. ASSUME NEW o \in Walk(table)
        PROVE  o + 1 + ReadAt(table, o) <= Len(table)
    <3>1. PICK k \in DOMAIN map : o = map[k]
      BY <2>1
    <3>2. At(table, o, k)
      BY <3>1 DEF Indexed
    <3>3. QED
      BY <3>2 DEF At, ReadAt
  <2>3. Walk(t) = Walk(table) \cup {n}
    BY <1>1, <2>2, WalkAppended DEF t, head
  <2> HIDE DEF map2, n
  <2>4. QED
    BY <1>11, <2>1, <2>3
<1>14. DOMAIN map2 \subseteq Seq(Nat)
  BY <1>11 DEF Indexed
<1>15. Indexed(map2, t)
  <2> HIDE DEF map2
  <2> QED BY <1>3, <1>9, <1>10, <1>11, <1>12, <1>13, <1>14 DEF Indexed
<1>16. ASSUME NEW k \in DOMAIN map
       PROVE  FlagsAt(t, map[k]) = FlagsAt(table, map[k])
  <2>2. At(table, map[k], k) /\ k \in Seq(Nat)
    BY DEF Indexed
  <2>3. FlagsAt(table, map[k]) = k
    BY <1>1, <2>2, AtFlags
  <2>4. FlagsAt(t, map[k]) = k
    BY <1>3, <1>9, <2>2, AtFlags
  <2>5. QED
    BY <2>3, <2>4
<1>18. QED
  BY <1>3, <1>11, <1>15, <1>16 DEF t, head, MapWith, TableWith

Records == [testsuite_offset : Nat, name_offset : Nat, flag_set_offset : Nat]

Tables ==
  [strings : Seq(Nat), flags_map : UNION {[keys -> Nat] : keys \in SUBSET Seq(Nat)},
   flags_table : Seq(Nat), commits : Seq(SUBSET Commits), tests : Seq(Records),
   failing : Seq(Nat)]

Offsets(t) == {t.flags_map[key] : key \in DOMAIN t.flags_map}

Refers(t, record) ==
  /\ record.testsuite_offset + 1 \in 1 .. Len(t.strings)
  /\ record.name_offset + 1 \in 1 .. Len(t.strings)
  /\ record.flag_set_offset \in Offsets(t)

Sound(t) ==
  /\ t \in Tables
  /\ Unique(t.strings) /\ Unique(t.commits) /\ Unique(t.tests)
  /\ Len(t.commits) # 0 /\ t.commits[1] = {}
  /\ Indexed(t.flags_map, t.flags_table)
  /\ \A key \in DOMAIN t.flags_map : Names(t.strings, key)
  /\ Len(t.failing) = Len(t.tests)
  /\ \A i \in 1 .. Len(t.tests) :
       Refers(t, t.tests[i]) /\ t.failing[i] + 1 \in 1 .. Len(t.commits)

\* What a reference means in t, it means in u.
Extends(t, u) ==
  /\ Grows(t.strings, u.strings)
  /\ Offsets(t) \subseteq Offsets(u)
  /\ \A o \in Offsets(t) : FlagsAt(u.flags_table, o) = FlagsAt(t.flags_table, o)

-----------------------------------------------------------------------------
(* Tables that belong together.                                            *)

LEMMA SoundTypes ==
  ASSUME NEW t, Sound(t)
  PROVE  /\ t.strings \in Seq(Nat) /\ t.flags_table \in Seq(Nat)
         /\ t.commits \in Seq(SUBSET Commits)
         /\ t.tests \in Seq(Records) /\ t.failing \in Seq(Nat)
         /\ Len(t.strings) \in Nat /\ Len(t.commits) \in Nat
         /\ Len(t.tests) \in Nat /\ Len(t.failing) = Len(t.tests)
         /\ \A i \in 1 .. Len(t.tests) : t.tests[i] \in Records /\ t.failing[i] \in Nat
         /\ \A o \in Offsets(t) : o \in Nat
         /\ t.flags_map \in UNION {[keys -> Nat] : keys \in SUBSET Seq(Nat)}
<1>1. /\ t.strings \in Seq(Nat) /\ t.flags_table \in Seq(Nat)
      /\ t.commits \in Seq(SUBSET Commits)
      /\ t.tests \in Seq(Records) /\ t.failing \in Seq(Nat)
      /\ Len(t.failing) = Len(t.tests)
      /\ t.flags_map \in UNION {[keys -> Nat] : keys \in SUBSET Seq(Nat)}
  BY DEF Sound, Tables
<1>2. /\ Len(t.strings) \in Nat /\ Len(t.commits) \in Nat /\ Len(t.tests) \in Nat
  BY <1>1
<1>3. \A i \in 1 .. Len(t.tests) : t.tests[i] \in Records
  BY <1>1, ElementOfSeq
<1>4. \A i \in 1 .. Len(t.failing) : t.failing[i] \in Nat
  BY <1>1, ElementOfSeq
<1>5. \A o \in Offsets(t) : o \in Nat
  BY DEF Sound, Indexed, At, Offsets
<1>6. QED
  BY <1>1, <1>2, <1>3, <1>4, <1>5

\* The offset of a set of flags resolves to it, and no other offset does.
LEMMA ResolvedOffset ==
  ASSUME NEW t, Sound(t), NEW o \in Offsets(t)
  PROVE  /\ FlagsAt(t.flags_table, o) \in DOMAIN t.flags_map
         /\ t.flags_map[FlagsAt(t.flags_table, o)] = o
         /\ ResolveFlags(t, o) = Spelled(t.strings, FlagsAt(t.flags_table, o))
         /\ Names(t.strings, FlagsAt(t.flags_table, o))
         /\ ResolveFlags(t, o) \in Seq(Nat)
         /\ ToSet(ResolveFlags(t, o)) \subseteq ToSet(t.strings)
         /\ \A p \in Offsets(t) : ToSet(ResolveFlags(t, p)) = ToSet(ResolveFlags(t, o)) => p = o
<1> DEFINE KeyAt(p) == FlagsAt(t.flags_table, p)
<1>1. \A p \in Offsets(t) : KeyAt(p) \in DOMAIN t.flags_map /\ t.flags_map[KeyAt(p)] = p
  BY IndexedOffsets DEF Sound, Offsets
<1>2. \A p \in Offsets(t) : Names(t.strings, KeyAt(p))
  BY <1>1 DEF Sound
<1>3. \A p \in Offsets(t) : ResolveFlags(t, p) = Spelled(t.strings, KeyAt(p))
  BY DEF ResolveFlags, Spelled
<1> HIDE DEF KeyAt
<1>4. ResolveFlags(t, o) \in Seq(Nat) /\ ToSet(ResolveFlags(t, o)) \subseteq ToSet(t.strings)
  BY <1>2, <1>3, SoundTypes, SpelledNames
<1>5. ASSUME NEW p \in Offsets(t), ToSet(ResolveFlags(t, p)) = ToSet(ResolveFlags(t, o))
      PROVE  p = o
  <2>1. FlagsKey(t.strings, ResolveFlags(t, p)) = FlagsKey(t.strings, ResolveFlags(t, o))
    BY <1>5 DEF FlagsKey
  <2>2. KeyAt(p) = FlagsKey(t.strings, ResolveFlags(t, p)) /\ KeyAt(o) = FlagsKey(t.strings, ResolveFlags(t, o))
    BY <1>2, <1>3 DEF Names
  <2>3. QED
    BY <1>1, <2>1, <2>2
<1>6. QED
  BY <1>1, <1>2, <1>3, <1>4, <1>5 DEF KeyAt

LEMMA ExtendsKeepsMeaning ==
  ASSUME NEW t, NEW u, Sound(t), Sound(u), Extends(t, u)
  PROVE  /\ \A o \in Offsets(t) : o \in Offsets(u) /\ ResolveFlags(u, o) = ResolveFlags(t, o)
         /\ \A r \in Records : Refers(t, r) => Refers(u, r) /\ TestOf(u, r) = TestOf(t, r)
<1>1. /\ t.strings \in Seq(Nat) /\ u.strings \in Seq(Nat) /\ Unique(u.strings)
      /\ Grows(t.strings, u.strings) /\ Offsets(t) \subseteq Offsets(u)
  BY SoundTypes DEF Sound, Extends
<1>2. ASSUME NEW o \in Offsets(t)
      PROVE  ResolveFlags(u, o) = ResolveFlags(t, o)
  <2> DEFINE key == FlagsAt(t.flags_table, o)
  <2>1. FlagsAt(u.flags_table, o) = key
    BY DEF Extends
  <2>2. Names(t.strings, key) /\ ResolveFlags(t, o) = Spelled(t.strings, key)
    BY ResolvedOffset
  <2>3. ResolveFlags(u, o) = Spelled(u.strings, key)
    BY <1>1, <2>1, ResolvedOffset
  <2> HIDE DEF key
  <2>4. QED
    BY <1>1, <2>2, <2>3, NamesGrow
<1>3. ASSUME NEW r \in Records, Refers(t, r)
      PROVE  Refers(u, r) /\ TestOf(u, r) = TestOf(t, r)
  <2>1. r.testsuite_offset \in Nat /\ r.name_offset \in Nat
    BY DEF Records
  <2>2. r.testsuite_offset + 1 \in 1 .. Len(t.strings) /\ r.name_offset + 1 \in 1 .. Len(t.strings)
    BY <1>3 DEF Refers
  <2>5. \A n \in Nat : n + 1 \in 1 .. Len(t.strings) =>
          n + 1 \in 1 .. Len(u.strings) /\ ReadAt(u.strings, n) = ReadAt(t.strings, n)
    BY <1>1, GrowsKeepsOffsets
  <2>3. /\ r.testsuite_offset + 1 \in 1 .. Len(u.strings) /\ r.name_offset + 1 \in 1 .. Len(u.strings)
        /\ ReadAt(u.strings, r.testsuite_offset) = ReadAt(t.strings, r.testsuite_offset)
        /\ ReadAt(u.strings, r.name_offset) = ReadAt(t.strings, r.name_offset)
    BY <2>1, <2>2, <2>5
  <2>4. QED
    BY <1>1, <1>3, <2>3 DEF Refers, TestOf
<1>4. QED
  BY <1>1, <1>2, <1>3

LEMMA ExtendsTransitive ==
  ASSUME NEW t, NEW u, NEW v, Sound(t), Sound(u), Sound(v), Extends(t, u), Extends(u, v)
  PROVE  Extends(t, v)
<1>1. Grows(t.strings, v.strings)
  BY SoundTypes, GrowsTransitive DEF Extends
<1>2. QED
  BY <1>1 DEF Extends

\* u is t with a set of flags, which has the offset o.
WithFlags(t, flags, u, o) ==
  /\ Sound(u)
  /\ Extends(t, u)
  /\ u.tests = t.tests /\ u.failing = t.failing /\ u.commits = t.commits
  /\ o \in Offsets(u)
  /\ Offsets(u) = Offsets(t) \cup {o}
  /\ ToSet(ResolveFlags(u, o)) = ToSet(flags)
  /\ ToSet(u.strings) = ToSet(t.strings) \cup ToSet(flags)
  /\ DOMAIN t.flags_map \subseteq DOMAIN u.flags_map
  /\ \A x \in ToSet(flags) :
       \E key \in DOMAIN u.flags_map : OffsetOf(u.strings, x) \in ToSet(key)

\* What FlagsSet::insert leaves behind.
LEMMA FlagsInsertValue ==
  ASSUME NEW t, Sound(t), NEW flags \in Seq(Nat)
  PROVE  WithFlags(t, flags, FlagsInsert(t, flags), FlagsOffset(FlagsInsert(t, flags), flags))
<1> DEFINE strings == InternAll(t.strings, flags)
           key == FlagsKey(strings, flags)
           map2 == MapWith(t.flags_map, key, Len(t.flags_table))
           table2 == TableWith(t.flags_table, key)
           u == FlagsInsert(t, flags)
           o == FlagsOffset(u, flags)
<1>1. /\ t.strings \in Seq(Nat) /\ Unique(t.strings) /\ t \in Tables
      /\ Indexed(t.flags_map, t.flags_table)
      /\ \A k \in DOMAIN t.flags_map : Names(t.strings, k)
  BY SoundTypes DEF Sound
<1>2. /\ strings \in Seq(Nat) /\ Unique(strings) /\ Grows(t.strings, strings)
      /\ ToSet(strings) = ToSet(t.strings) \cup ToSet(flags)
  BY <1>1, InternAllValue
<1> HIDE DEF strings
<1>3. /\ key \in Seq(Nat) /\ Names(strings, key)
      /\ Spelled(strings, key) = Sorted(ToSet(flags))
      /\ ToSet(Spelled(strings, key)) = ToSet(flags)
      /\ \A x \in ToSet(flags) : OffsetOf(strings, x) \in ToSet(key)
  BY <1>2, FlagsKeyValue
<1>4. \A k \in DOMAIN t.flags_map : Names(strings, k)
  BY <1>1, <1>2, NamesGrow
<1>5. u = IF key \in DOMAIN t.flags_map
          THEN [t EXCEPT !.strings = strings]
          ELSE [t EXCEPT !.strings = strings, !.flags_map = map2, !.flags_table = table2]
  BY DEF FlagsInsert, MapWith, TableWith, strings
<1> HIDE DEF u, key
<1>6. \A i \in 1 .. Len(t.tests) : t.tests[i] \in Records /\ t.failing[i] \in Nat
  BY SoundTypes
<1>7. ASSUME u \in Tables, u.strings = strings, u.tests = t.tests, u.failing = t.failing,
             u.commits = t.commits, Indexed(u.flags_map, u.flags_table), key \in DOMAIN u.flags_map,
             DOMAIN u.flags_map = DOMAIN t.flags_map \cup {key}, Offsets(t) \subseteq Offsets(u),
             \A p \in Offsets(t) : FlagsAt(u.flags_table, p) = FlagsAt(t.flags_table, p),
             \A k \in DOMAIN t.flags_map : u.flags_map[k] = t.flags_map[k]
      PROVE  /\ Sound(u) /\ Extends(t, u)
             /\ o \in Offsets(u) /\ Offsets(u) = Offsets(t) \cup {o}
             /\ ToSet(ResolveFlags(u, o)) = ToSet(flags)
             /\ \A x \in ToSet(flags) : \E k \in DOMAIN u.flags_map : OffsetOf(u.strings, x) \in ToSet(k)
  <2>1. \A k \in DOMAIN u.flags_map : Names(u.strings, k)
    BY <1>3, <1>4, <1>7
  <2>2. Extends(t, u)
    BY <1>2, <1>7 DEF Extends
  <2>3. ASSUME NEW i \in 1 .. Len(t.tests)
        PROVE  Refers(u, t.tests[i])
    <3>1. Refers(t, t.tests[i])
      BY DEF Sound
    <3>2. t.tests[i].testsuite_offset \in Nat /\ t.tests[i].name_offset \in Nat
      BY <1>6 DEF Records
    <3>3. \A n \in Nat : n + 1 \in 1 .. Len(t.strings) => n + 1 \in 1 .. Len(strings)
      BY <1>1, <1>2, GrowsKeepsOffsets
    <3>4. QED
      BY <1>7, <3>1, <3>2, <3>3 DEF Refers
  <2>4. Sound(u)
    BY <1>2, <1>7, <2>1, <2>3 DEF Sound
  <2>5. o = u.flags_map[key]
    BY <1>7 DEF FlagsOffset, key
  <2> HIDE DEF o
  <2>6. o \in Offsets(u) /\ Offsets(u) = Offsets(t) \cup {o}
    BY <1>7, <2>5 DEF Offsets
  <2>7. FlagsAt(u.flags_table, o) = key
    BY <1>7, <2>5, IndexedOffsets
  <2>8. ResolveFlags(u, o) = Spelled(strings, key)
    BY <1>7, <2>4, <2>6, <2>7, ResolvedOffset
  <2>9. QED
    BY <1>3, <1>7, <2>2, <2>4, <2>6, <2>8
<1>8. CASE key \in DOMAIN t.flags_map
  <2>1. u = [t EXCEPT !.strings = strings]
    BY <1>5, <1>8
  <2>2. /\ u.strings = strings /\ u.tests = t.tests /\ u.failing = t.failing /\ u.commits = t.commits
        /\ u.flags_map = t.flags_map /\ u.flags_table = t.flags_table /\ u \in Tables
    BY <1>1, <1>2, <2>1 DEF Tables
  <2>3. DOMAIN u.flags_map = DOMAIN t.flags_map \cup {key} /\ Offsets(u) = Offsets(t)
    BY <1>8, <2>2 DEF Offsets
  <2>4. QED
    BY <1>1, <1>2, <1>7, <1>8, <2>2, <2>3 DEF WithFlags, u, o
<1>9. CASE key \notin DOMAIN t.flags_map
  <2>1. /\ Indexed(map2, table2) /\ table2 \in Seq(Nat)
        /\ \A p \in Offsets(t) : FlagsAt(table2, p) = FlagsAt(t.flags_table, p)
        /\ DOMAIN map2 = DOMAIN t.flags_map \cup {key}
        /\ \A k \in DOMAIN t.flags_map : map2[k] = t.flags_map[k]
    <3>1. /\ Indexed(map2, table2) /\ table2 \in Seq(Nat)
          /\ \A k \in DOMAIN t.flags_map :
               FlagsAt(table2, t.flags_map[k]) = FlagsAt(t.flags_table, t.flags_map[k])
          /\ DOMAIN map2 = DOMAIN t.flags_map \cup {key}
          /\ \A k \in DOMAIN t.flags_map : map2[k] = t.flags_map[k]
      <4>1. PICK map, table : map = t.flags_map /\ table = t.flags_table
        OBVIOUS
      <4>2. Indexed(map, table) /\ key \notin DOMAIN map
        BY <1>1, <1>9, <4>1
      <4>3. /\ Indexed(MapWith(map, key, Len(table)), TableWith(table, key))
            /\ TableWith(table, key) \in Seq(Nat)
            /\ DOMAIN MapWith(map, key, Len(table)) = DOMAIN map \cup {key}
            /\ \A k \in DOMAIN map :
                 /\ MapWith(map, key, Len(table))[k] = map[k]
                 /\ FlagsAt(TableWith(table, key), map[k]) = FlagsAt(table, map[k])
        BY <1>3, <4>2, IndexedGrows
      <4>4. QED
        BY <4>1, <4>3
    <3>2. QED
      BY <3>1 DEF Offsets
  <2>2. u = [t EXCEPT !.strings = strings, !.flags_map = map2, !.flags_table = table2]
    BY <1>5, <1>9
  <2>4. map2 \in UNION {[keys -> Nat] : keys \in SUBSET Seq(Nat)}
    <3>1. DOMAIN map2 \subseteq Seq(Nat)
      BY <2>1 DEF Indexed
    <3>2. map2 = [k \in DOMAIN map2 |-> map2[k]] /\ \A k \in DOMAIN map2 : map2[k] \in Nat
      BY <2>1 DEF Indexed, At
    <3> HIDE DEF map2
    <3>3. map2 \in [DOMAIN map2 -> Nat]
      BY <3>2
    <3>4. QED
      BY <3>1, <3>3
  <2> HIDE DEF map2, table2
  <2>5. /\ u.strings = strings /\ u.tests = t.tests /\ u.failing = t.failing /\ u.commits = t.commits
        /\ u.flags_map = map2 /\ u.flags_table = table2
    BY <1>1, <2>2 DEF Tables
  <2>6. u \in Tables
    BY <1>1, <1>2, <2>1, <2>2, <2>4 DEF Tables
  <2>7. Offsets(t) \subseteq Offsets(u)
    BY <2>1, <2>5 DEF Offsets
  <2>8. key \in DOMAIN u.flags_map
    BY <2>1, <2>5
  <2>9. QED
    BY <1>2, <1>7, <2>1, <2>5, <2>6, <2>7, <2>8 DEF WithFlags, u, o
<1>10. QED
  BY <1>8, <1>9 DEF u, o

CommitsAt(t, i) == ReadCommits(t.commits, t.failing[i])

\* t with the names of a test; nothing else is changed.
LEMMA NamedValue ==
  ASSUME NEW t, Sound(t), NEW test \in [testsuite : Nat, name : Nat]
  PROVE  /\ Sound(Named(t, test))
         /\ Extends(t, Named(t, test))
         /\ Named(t, test) = [t EXCEPT !.strings = Named(t, test).strings]
         /\ ToSet(Named(t, test).strings) = ToSet(t.strings) \cup {test.testsuite, test.name}
<1> DEFINE once == Interned(t.strings, test.testsuite)
           strings == Interned(once, test.name)
           u == Named(t, test)
<1>1. test.testsuite \in Nat /\ test.name \in Nat /\ t.strings \in Seq(Nat) /\ Unique(t.strings) /\ t \in Tables
  BY SoundTypes DEF Sound
<1>2. /\ once \in Seq(Nat) /\ Unique(once) /\ Grows(t.strings, once)
      /\ ToSet(once) = ToSet(t.strings) \cup {test.testsuite}
  <2>1. ASSUME NEW s \in Seq(Nat), Unique(s), NEW x \in Nat
        PROVE  /\ Interned(s, x) \in Seq(Nat) /\ Unique(Interned(s, x)) /\ Grows(s, Interned(s, x))
               /\ ToSet(Interned(s, x)) = ToSet(s) \cup {x}
    BY <2>1, InternedValue
  <2>2. QED
    BY <1>1, <2>1
<1> HIDE DEF once
<1>3. /\ strings \in Seq(Nat) /\ Unique(strings) /\ Grows(once, strings)
      /\ ToSet(strings) = ToSet(once) \cup {test.name}
  BY <1>1, <1>2, InternedValue
<1>4. u = [t EXCEPT !.strings = strings]
  BY <1>1 DEF Named, Tables, once
<1> HIDE DEF strings, u
<1>5. /\ u.strings = strings /\ u.tests = t.tests /\ u.failing = t.failing /\ u.commits = t.commits
      /\ u.flags_map = t.flags_map /\ u.flags_table = t.flags_table /\ u \in Tables
  BY <1>1, <1>3, <1>4 DEF Tables
<1>6. Grows(t.strings, strings)
  BY <1>1, <1>2, <1>3, GrowsTransitive
<1>7. Offsets(u) = Offsets(t)
  BY <1>5 DEF Offsets
<1>8. Extends(t, u)
  BY <1>5, <1>6, <1>7 DEF Extends
<1>9. \A key \in DOMAIN u.flags_map : Names(u.strings, key)
  <2>1. \A key \in DOMAIN t.flags_map : Names(t.strings, key)
    BY DEF Sound
  <2>2. QED
    BY <1>1, <1>3, <1>5, <1>6, <2>1, NamesGrow
<1>10. ASSUME NEW i \in 1 .. Len(t.tests)
       PROVE  Refers(u, t.tests[i])
  <2>1. Refers(t, t.tests[i])
    BY DEF Sound
  <2>2. t.tests[i].testsuite_offset \in Nat /\ t.tests[i].name_offset \in Nat
    BY SoundTypes DEF Records
  <2>3. \A n \in Nat : n + 1 \in 1 .. Len(t.strings) => n + 1 \in 1 .. Len(strings)
    BY <1>1, <1>3, <1>6, GrowsKeepsOffsets
  <2>4. QED
    BY <1>5, <1>7, <2>1, <2>2, <2>3 DEF Refers
<1>11. Sound(u)
  BY <1>3, <1>5, <1>9, <1>10 DEF Sound
<1>12. ToSet(strings) = ToSet(t.strings) \cup {test.testsuite, test.name}
  BY <1>2, <1>3
<1>13. QED
  BY <1>4, <1>5, <1>8, <1>11, <1>12 DEF u

\* A record refers to the names of its test, and no other record of the same flags does.
LEMMA KeyValue ==
  ASSUME NEW t, Sound(t), NEW test \in [testsuite : Nat, name : Nat],
         test.testsuite \in ToSet(t.strings), test.name \in ToSet(t.strings),
         NEW o \in Offsets(t)
  PROVE  /\ Key(t, test, o) \in Records
         /\ Refers(t, Key(t, test, o))
         /\ TestOf(t, Key(t, test, o)) = test
         /\ Key(t, test, o).flag_set_offset = o
         /\ \A r \in Records : Refers(t, r) /\ TestOf(t, r) = test /\ r.flag_set_offset = o => r = Key(t, test, o)
<1> DEFINE k == Key(t, test, o)
<1>1. t.strings \in Seq(Nat) /\ Unique(t.strings) /\ o \in Nat
  BY SoundTypes DEF Sound
<1>2. \A x \in ToSet(t.strings) :
        /\ OffsetOf(t.strings, x) \in Nat
        /\ OffsetOf(t.strings, x) + 1 \in 1 .. Len(t.strings)
        /\ ReadAt(t.strings, OffsetOf(t.strings, x)) = x
        /\ \A i \in 1 .. Len(t.strings) : t.strings[i] = x => OffsetOf(t.strings, x) = i - 1
  BY <1>1, OffsetOfValue
<1>3. k = [testsuite_offset |-> OffsetOf(t.strings, test.testsuite),
           name_offset |-> OffsetOf(t.strings, test.name), flag_set_offset |-> o]
  BY DEF Key
<1>4. k \in Records
  BY <1>1, <1>2, <1>3 DEF Records
<1>5. Refers(t, k) /\ k.flag_set_offset = o
  BY <1>2, <1>3 DEF Refers
<1>6. TestOf(t, k) = test
  BY <1>2, <1>3 DEF TestOf
<1>7. ASSUME NEW r \in Records, Refers(t, r), TestOf(t, r) = test, r.flag_set_offset = o
      PROVE  r = k
  <2>1. r.testsuite_offset \in Nat /\ r.name_offset \in Nat
    BY DEF Records
  <2>2. test.testsuite = t.strings[r.testsuite_offset + 1] /\ test.name = t.strings[r.name_offset + 1]
    BY <1>7 DEF TestOf, ReadAt
  <2>3. r.testsuite_offset + 1 \in 1 .. Len(t.strings) /\ r.name_offset + 1 \in 1 .. Len(t.strings)
    BY <1>7 DEF Refers
  <2>4. ASSUME NEW n \in Nat, NEW x \in ToSet(t.strings),
               n + 1 \in 1 .. Len(t.strings), x = t.strings[n + 1]
        PROVE  OffsetOf(t.strings, x) = n
    <3>1. n + 1 - 1 = n
      OBVIOUS
    <3>2. \A i \in 1 .. Len(t.strings) : t.strings[i] = x => OffsetOf(t.strings, x) = i - 1
      BY <1>2
    <3>3. QED
      BY <2>4, <3>1, <3>2
  <2>5. OffsetOf(t.strings, test.testsuite) = r.testsuite_offset
    BY <2>1, <2>2, <2>3, <2>4
  <2>7. OffsetOf(t.strings, test.name) = r.name_offset
    BY <2>1, <2>2, <2>3, <2>4
  <2>6. QED
    BY <1>3, <1>7, <2>5, <2>7 DEF Records
<1>8. QED
  BY <1>4, <1>5, <1>6, <1>7

\* insert_full of a record.
LEMMA RecordedValue ==
  ASSUME NEW t, Sound(t), NEW k \in Records, Refers(t, k)
  PROVE  /\ Sound(Recorded(t, k))
         /\ Extends(t, Recorded(t, k))
         /\ k \in ToSet(t.tests) => Recorded(t, k) = t
         /\ k \notin ToSet(t.tests) =>
              Recorded(t, k) = [t EXCEPT !.tests = Append(t.tests, k), !.failing = Append(t.failing, 0)]
         /\ k \in ToSet(Recorded(t, k).tests)
<1> DEFINE tests == Append(t.tests, k)
           failing == Append(t.failing, 0)
           u == [t EXCEPT !.tests = tests, !.failing = failing]
<1>1. t \in Tables /\ t.tests \in Seq(Records) /\ t.failing \in Seq(Nat) /\ Len(t.failing) = Len(t.tests)
      /\ Unique(t.tests) /\ Len(t.tests) \in Nat /\ Len(t.commits) \in Nat
  BY SoundTypes DEF Sound
<1>2. Extends(t, t)
  BY SoundTypes DEF Extends, Grows
<1>3. CASE k \in ToSet(t.tests)
  BY <1>2, <1>3 DEF Recorded
<1>4. CASE k \notin ToSet(t.tests)
  <2>1. Recorded(t, k) = u
    BY <1>1, <1>4 DEF Recorded, Tables
  <2>2. /\ tests \in Seq(Records) /\ Len(tests) = Len(t.tests) + 1
        /\ tests[Len(t.tests) + 1] = k /\ \A i \in 1 .. Len(t.tests) : tests[i] = t.tests[i]
    BY <1>1
  <2>3. /\ failing \in Seq(Nat) /\ Len(failing) = Len(t.tests) + 1
        /\ failing[Len(t.tests) + 1] = 0 /\ \A i \in 1 .. Len(t.tests) : failing[i] = t.failing[i]
    BY <1>1
  <2> HIDE DEF tests, failing
  <2>4. /\ u.tests = tests /\ u.failing = failing /\ u.commits = t.commits /\ u.strings = t.strings
        /\ u.flags_map = t.flags_map /\ u.flags_table = t.flags_table /\ u \in Tables
    BY <1>1, <2>2, <2>3 DEF Tables
  <2> HIDE DEF u
  <2>5. Unique(tests) /\ ToSet(tests) = ToSet(t.tests) \cup {k}
    <3>1. Interned(t.tests, k) = tests
      BY <1>4 DEF Interned, tests
    <3>2. QED
      BY <1>1, <3>1, InternedValue
  <2>6. Offsets(u) = Offsets(t)
    BY <2>4 DEF Offsets
  <2>7. ASSUME NEW i \in 1 .. Len(tests)
        PROVE  Refers(u, tests[i]) /\ failing[i] + 1 \in 1 .. Len(t.commits)
    <3>1. CASE i = Len(t.tests) + 1
      <4>1. Len(t.commits) # 0
        BY DEF Sound
      <4>2. 0 + 1 \in 1 .. Len(t.commits)
        BY <1>1, <4>1
      <4>3. Refers(u, k)
        BY <2>4, <2>6 DEF Refers
      <4>4. QED
        BY <2>2, <2>3, <3>1, <4>2, <4>3
    <3>2. CASE i # Len(t.tests) + 1
      <4>1. i \in 1 .. Len(t.tests)
        BY <1>1, <2>2, <3>2
      <4>2. Refers(t, t.tests[i]) /\ t.failing[i] + 1 \in 1 .. Len(t.commits)
        BY <4>1 DEF Sound
      <4>3. QED
        BY <2>2, <2>3, <2>4, <2>6, <4>1, <4>2 DEF Refers
    <3>3. QED
      BY <3>1, <3>2
  <2>8. Sound(u)
    BY <2>2, <2>3, <2>4, <2>5, <2>7 DEF Sound
  <2>9. Extends(t, u)
    BY <1>2, <2>4, <2>6 DEF Extends
  <2>10. QED
    BY <1>4, <2>1, <2>4, <2>5, <2>8, <2>9 DEF u, tests, failing
<1>5. QED
  BY <1>3, <1>4

\* The first entry of the table of commits is the empty set.
LEMMA CommitsValue ==
  ASSUME NEW t, Sound(t), NEW i \in 1 .. Len(t.tests)
  PROVE  /\ CommitsAt(t, i) = ReadAt(t.commits, t.failing[i])
         /\ CommitsAt(t, i) \subseteq Commits
<1>1. t.failing[i] \in Nat /\ t.failing[i] + 1 \in 1 .. Len(t.commits) /\ t.commits[1] = {}
  BY SoundTypes DEF Sound
<1>2. t.commits[t.failing[i] + 1] \in SUBSET Commits
  BY <1>1, SoundTypes, ElementOfSeq
<1>3. t.failing[i] = 0 => ReadAt(t.commits, t.failing[i]) = {}
  BY <1>1 DEF ReadAt
<1>4. QED
  BY <1>1, <1>2, <1>3 DEF CommitsAt, ReadCommits, ReadAt

\* append_intersection for the bucket of a record: its commits and the new ones.
WithCommits(t, n, hashes, u) ==
  /\ Sound(u)
  /\ Extends(t, u)
  /\ u.strings = t.strings /\ u.flags_map = t.flags_map /\ u.flags_table = t.flags_table
  /\ u.tests = t.tests
  /\ CommitsAt(u, n) = CommitsAt(t, n) \cup hashes
  /\ \A i \in 1 .. Len(t.tests) : i # n => CommitsAt(u, i) = CommitsAt(t, i) /\ u.failing[i] = t.failing[i]
  /\ Grows(t.commits, u.commits)
  /\ \A i \in 1 .. Len(u.commits) : i <= Len(t.commits) \/ u.failing[n] + 1 = i

LEMMA FailedValue ==
  ASSUME NEW t, Sound(t), NEW n \in 1 .. Len(t.tests), NEW hashes \in SUBSET Commits
  PROVE  /\ IndexOf(t, t.tests[n]) = n
         /\ WithCommits(t, n, hashes, Failed(t, t.tests[n], hashes))
<1> DEFINE all == ReadAt(t.commits, t.failing[n]) \cup hashes
           commits == Interned(t.commits, all)
           offset == OffsetOf(commits, all)
           failing == [t.failing EXCEPT ![n] = offset]
           u == Failed(t, t.tests[n], hashes)
<1>1. /\ t \in Tables /\ t.tests \in Seq(Records) /\ t.failing \in Seq(Nat) /\ Len(t.failing) = Len(t.tests)
      /\ Unique(t.tests) /\ Len(t.tests) \in Nat /\ Len(t.commits) \in Nat
      /\ t.commits \in Seq(SUBSET Commits) /\ Unique(t.commits)
      /\ DOMAIN t.tests = 1 .. Len(t.tests) /\ DOMAIN t.failing = 1 .. Len(t.tests)
  BY SoundTypes DEF Sound
<1>2. IndexOf(t, t.tests[n]) = n
  <2>1. \A i \in DOMAIN t.tests : t.tests[i] = t.tests[n] => i = n
    BY <1>1 DEF Unique
  <2>2. QED
    BY <1>1, <2>1 DEF IndexOf
<1>3. u = [t EXCEPT !.commits = commits, !.failing = failing]
  BY <1>1, <1>2 DEF Failed, AppendIntersection, Tables
<1>4. all \in SUBSET Commits /\ all = CommitsAt(t, n) \cup hashes
  BY CommitsValue
<1> HIDE DEF all, u
<1>5. /\ commits \in Seq(SUBSET Commits) /\ Unique(commits) /\ Grows(t.commits, commits)
      /\ ToSet(commits) = ToSet(t.commits) \cup {all}
      /\ all \in ToSet(t.commits) => commits = t.commits
      /\ all \notin ToSet(t.commits) => Len(commits) = Len(t.commits) + 1
  <2>1. PICK table, set : table = t.commits /\ set = all
    OBVIOUS
  <2>2. table \in Seq(SUBSET Commits) /\ Unique(table) /\ set \in SUBSET Commits
    BY <1>1, <1>4, <2>1
  <2>3. /\ Interned(table, set) \in Seq(SUBSET Commits) /\ Unique(Interned(table, set))
        /\ Grows(table, Interned(table, set))
        /\ ToSet(Interned(table, set)) = ToSet(table) \cup {set}
        /\ set \in ToSet(table) => Interned(table, set) = table
        /\ set \notin ToSet(table) => Len(Interned(table, set)) = Len(table) + 1
    BY <2>2, InternedValue
  <2>4. QED
    BY <2>1, <2>3 DEF commits
<1> HIDE DEF commits
<1>6. /\ offset \in Nat /\ offset + 1 \in 1 .. Len(commits) /\ ReadAt(commits, offset) = all
      /\ \A i \in 1 .. Len(commits) : commits[i] = all => offset = i - 1
  BY <1>5, OffsetOfValue
<1> HIDE DEF offset
<1>7. /\ failing \in Seq(Nat) /\ Len(failing) = Len(t.tests)
      /\ failing[n] = offset /\ \A i \in 1 .. Len(t.tests) : i # n => failing[i] = t.failing[i]
  BY <1>1, <1>6, ExceptSeq
<1> HIDE DEF failing
<1>8. /\ u.tests = t.tests /\ u.failing = failing /\ u.commits = commits /\ u.strings = t.strings
      /\ u.flags_map = t.flags_map /\ u.flags_table = t.flags_table /\ u \in Tables
  BY <1>1, <1>3, <1>5, <1>7 DEF Tables
<1>9. Offsets(u) = Offsets(t)
  BY <1>8 DEF Offsets
<1>10. Len(t.commits) # 0 /\ t.commits[1] = {} /\ Len(commits) \in Nat /\ Len(t.commits) <= Len(commits)
       /\ \A i \in 1 .. Len(t.commits) : commits[i] = t.commits[i]
  BY <1>5 DEF Sound, Grows
<1>11. Len(commits) # 0 /\ commits[1] = {}
  <2>1. 1 \in 1 .. Len(t.commits)
    BY <1>1, <1>10
  <2>2. QED
    BY <1>1, <1>10, <2>1
<1>12. ASSUME NEW i \in 1 .. Len(t.tests)
       PROVE  Refers(u, t.tests[i]) /\ failing[i] + 1 \in 1 .. Len(commits)
  <2>1. Refers(t, t.tests[i]) /\ t.failing[i] + 1 \in 1 .. Len(t.commits)
    BY DEF Sound
  <2>2. Refers(u, t.tests[i])
    BY <1>8, <1>9, <2>1 DEF Refers
  <2>3. t.failing[i] + 1 \in 1 .. Len(commits)
    BY <1>1, <1>10, <2>1
  <2>4. QED
    BY <1>6, <1>7, <2>2, <2>3
<1>13. Sound(u)
  BY <1>5, <1>7, <1>8, <1>11, <1>12 DEF Sound
<1>14. Extends(t, u)
  BY <1>8, <1>9, SoundTypes DEF Extends, Grows
<1>15. CommitsAt(u, n) = CommitsAt(t, n) \cup hashes
  BY <1>4, <1>6, <1>7, <1>8, <1>13, CommitsValue
<1>16. ASSUME NEW i \in 1 .. Len(t.tests), i # n
       PROVE  CommitsAt(u, i) = CommitsAt(t, i) /\ u.failing[i] = t.failing[i]
  <2>1. t.failing[i] \in Nat /\ t.failing[i] + 1 \in 1 .. Len(t.commits)
    BY SoundTypes DEF Sound
  <2>2. ReadAt(commits, t.failing[i]) = ReadAt(t.commits, t.failing[i])
    BY <1>10, <2>1 DEF ReadAt
  <2>3. u.failing[i] = t.failing[i]
    BY <1>7, <1>8, <1>16
  <2>4. QED
    BY <1>8, <1>13, <2>2, <2>3, CommitsValue
<1>17. ASSUME NEW i \in 1 .. Len(commits), ~ (i <= Len(t.commits))
       PROVE  offset + 1 = i
  <2>1. all \notin ToSet(t.commits) /\ Len(commits) = Len(t.commits) + 1 /\ i = Len(t.commits) + 1
    BY <1>1, <1>5, <1>17
  <2>2. offset + 1 \notin 1 .. Len(t.commits)
    <3>1. SUFFICES ASSUME offset + 1 \in 1 .. Len(t.commits)
                   PROVE  FALSE
      OBVIOUS
    <3>2. t.commits[offset + 1] = all
      BY <1>6, <1>10, <3>1 DEF ReadAt
    <3>3. t.commits[offset + 1] \in ToSet(t.commits)
      BY <1>1, <3>1, ToSetOfSeq
    <3>4. QED
      BY <2>1, <3>2, <3>3
  <2>3. QED
    BY <1>1, <1>6, <2>1, <2>2
<1>18. QED
  BY <1>2, <1>5, <1>7, <1>8, <1>13, <1>14, <1>15, <1>16, <1>17 DEF WithCommits, u

TestRecords == [testsuite : Nat, name : Nat]

\* v is t with a record of a test under the flags at o, the n-th, which failed on
\* the hashes too.
AddedTo(t, test, o, hashes, v, n) ==
  /\ Sound(v)
  /\ Extends(t, v)
  /\ v.flags_map = t.flags_map /\ v.flags_table = t.flags_table
  /\ ToSet(v.strings) = ToSet(t.strings) \cup {test.testsuite, test.name}
  /\ \/ Len(v.tests) = Len(t.tests) /\ n \in 1 .. Len(t.tests)
     \/ Len(v.tests) = Len(t.tests) + 1 /\ n = Len(t.tests) + 1
  /\ \A i \in 1 .. Len(t.tests) : v.tests[i] = t.tests[i]
  /\ v.tests[n].flag_set_offset = o
  /\ TestOf(v, v.tests[n]) = test
  /\ \A i \in 1 .. Len(t.tests) : i # n => CommitsAt(v, i) = CommitsAt(t, i) /\ v.failing[i] = t.failing[i]
  /\ n \in 1 .. Len(t.tests) => CommitsAt(v, n) = CommitsAt(t, n) \cup hashes
  /\ n \notin 1 .. Len(t.tests) => CommitsAt(v, n) = hashes
  /\ Grows(t.commits, v.commits)
  /\ \A i \in 1 .. Len(v.commits) : i <= Len(t.commits) \/ v.failing[n] + 1 = i

\* A test without commits.
LEMMA RecordAdded ==
  ASSUME NEW t, Sound(t), NEW test \in TestRecords, NEW o \in Offsets(t),
         NEW v, v = Recorded(Named(t, test), Key(Named(t, test), test, o))
  PROVE  \E n \in 1 .. Len(v.tests) :
           /\ AddedTo(t, test, o, {}, v, n)
           /\ v.tests[n] = Key(Named(t, test), test, o)
           /\ v.commits = t.commits
<1>1. PICK u : u = Named(t, test)
  OBVIOUS
<1>2. /\ Sound(u) /\ Extends(t, u) /\ u = [t EXCEPT !.strings = u.strings]
      /\ ToSet(u.strings) = ToSet(t.strings) \cup {test.testsuite, test.name}
  BY <1>1, NamedValue DEF TestRecords
<1>3. t \in Tables
  BY DEF Sound
<1>4. /\ u.tests = t.tests /\ u.failing = t.failing /\ u.commits = t.commits
      /\ u.flags_map = t.flags_map /\ u.flags_table = t.flags_table
  BY <1>2, <1>3 DEF Tables
<1>5. Offsets(u) = Offsets(t)
  BY <1>4 DEF Offsets
<1>6. PICK k : k = Key(u, test, o)
  OBVIOUS
<1>7. k \in Records /\ Refers(u, k) /\ TestOf(u, k) = test /\ k.flag_set_offset = o
  <2>1. test.testsuite \in ToSet(u.strings) /\ test.name \in ToSet(u.strings) /\ o \in Offsets(u)
    BY <1>2, <1>5
  <2>2. QED
    BY <1>2, <1>6, <2>1, KeyValue DEF TestRecords
<1>8. v = Recorded(u, k)
  BY <1>1, <1>6
<1>9. /\ Sound(v) /\ Extends(u, v)
      /\ k \in ToSet(u.tests) => v = u
      /\ k \notin ToSet(u.tests) =>
           v = [u EXCEPT !.tests = Append(u.tests, k), !.failing = Append(u.failing, 0)]
  <2>1. /\ Sound(Recorded(u, k)) /\ Extends(u, Recorded(u, k))
        /\ k \in ToSet(u.tests) => Recorded(u, k) = u
        /\ k \notin ToSet(u.tests) => Recorded(u, k) =
             [u EXCEPT !.tests = Append(u.tests, k), !.failing = Append(u.failing, 0)]
    BY <1>2, <1>7, RecordedValue
  <2>2. QED
    BY <1>8, <2>1
<1>10. Extends(t, v)
  BY <1>2, <1>9, ExtendsTransitive
<1>11. TestOf(v, k) = test
  BY <1>2, <1>7, <1>9, ExtendsKeepsMeaning
<1>12. u \in Tables /\ u.tests \in Seq(Records) /\ u.failing \in Seq(Nat) /\ Len(u.tests) \in Nat
       /\ Len(u.failing) = Len(u.tests) /\ Len(u.commits) \in Nat
  BY <1>2, SoundTypes DEF Sound
<1>13. CASE k \in ToSet(u.tests)
  <2>1. v = u
    BY <1>9, <1>13
  <2>2. PICK n \in 1 .. Len(u.tests) : u.tests[n] = k
    BY <1>12, <1>13, ToSetOfSeq
  <2>3. \A i \in 1 .. Len(t.tests) : CommitsAt(v, i) = CommitsAt(t, i) /\ v.failing[i] = t.failing[i]
    BY <1>4, <2>1 DEF CommitsAt
  <2>4. Grows(t.commits, v.commits) /\ \A i \in 1 .. Len(v.commits) : i <= Len(t.commits)
    BY <1>4, <1>12, <2>1 DEF Grows
  <2>5. AddedTo(t, test, o, {}, v, n)
    BY <1>2, <1>4, <1>7, <1>9, <1>10, <1>11, <2>1, <2>2, <2>3, <2>4 DEF AddedTo
  <2>6. QED
    BY <1>1, <1>4, <1>6, <2>1, <2>2, <2>5
<1>14. CASE k \notin ToSet(u.tests)
  <2> DEFINE n == Len(u.tests) + 1
             tests == Append(u.tests, k)
             failing == Append(u.failing, 0)
  <2>1. v = [u EXCEPT !.tests = tests, !.failing = failing]
    BY <1>9, <1>14
  <2>2. /\ Len(tests) = n /\ tests[n] = k /\ \A i \in 1 .. Len(u.tests) : tests[i] = u.tests[i]
        /\ failing[n] = 0 /\ \A i \in 1 .. Len(u.tests) : failing[i] = u.failing[i]
    BY <1>12
  <2>8. n \in 1 .. n /\ n \notin 1 .. Len(u.tests)
    BY <1>12
  <2> HIDE DEF tests, failing
  <2>3. /\ v.tests = tests /\ v.failing = failing /\ v.commits = u.commits /\ v.strings = u.strings
        /\ v.flags_map = u.flags_map /\ v.flags_table = u.flags_table
    BY <1>12, <2>1 DEF Tables
  <2>4. \A i \in 1 .. Len(t.tests) : CommitsAt(v, i) = CommitsAt(t, i) /\ v.failing[i] = t.failing[i]
    BY <1>4, <2>2, <2>3 DEF CommitsAt
  <2>5. CommitsAt(v, n) = {}
    BY <2>2, <2>3 DEF CommitsAt, ReadCommits
  <2>6. Grows(t.commits, v.commits) /\ \A i \in 1 .. Len(v.commits) : i <= Len(t.commits)
    BY <1>4, <1>12, <2>3 DEF Grows
  <2> HIDE DEF n
  <2>7. AddedTo(t, test, o, {}, v, n)
    <3>1. Len(t.tests) = Len(u.tests) /\ n = Len(t.tests) + 1
      BY <1>4 DEF n
    <3>2. QED
      BY <1>2, <1>4, <1>7, <1>9, <1>10, <1>11, <2>2, <2>3, <2>4, <2>5, <2>6, <2>8, <3>1 DEF AddedTo
  <2>9. QED
    BY <1>1, <1>4, <1>6, <2>2, <2>3, <2>7, <2>8
<1>15. QED
  BY <1>13, <1>14

\* What Added leaves behind.
LEMMA AddedValue ==
  ASSUME NEW t, Sound(t), NEW test \in TestRecords, NEW o \in Offsets(t),
         NEW hashes \in SUBSET Commits
  PROVE  \E n \in 1 .. Len(Added(t, test, o, hashes).tests) :
           AddedTo(t, test, o, hashes, Added(t, test, o, hashes), n)
<1>1. PICK k : k = Key(Named(t, test), test, o)
  OBVIOUS
<1>2. PICK u : u = Recorded(Named(t, test), k)
  OBVIOUS
<1>3. PICK n \in 1 .. Len(u.tests) : AddedTo(t, test, o, {}, u, n) /\ u.tests[n] = k /\ u.commits = t.commits
  BY <1>1, <1>2, RecordAdded
<1>4. CASE hashes = {}
  <2>1. Added(t, test, o, hashes) = u
    BY <1>1, <1>2, <1>4 DEF Added
  <2>2. QED
    BY <1>3, <1>4, <2>1
<1>5. CASE hashes # {}
  <2>1. PICK v : v = Failed(u, k, hashes)
    OBVIOUS
  <2>2. Added(t, test, o, hashes) = v
    BY <1>1, <1>2, <1>5, <2>1 DEF Added
  <2>3. Sound(u) /\ Extends(t, u)
    BY <1>3 DEF AddedTo
  <2>4. WithCommits(u, n, hashes, v)
    BY <1>3, <2>1, <2>3, FailedValue
  <2>5. Sound(v) /\ Extends(u, v) /\ v.strings = u.strings /\ v.flags_map = u.flags_map
        /\ v.flags_table = u.flags_table /\ v.tests = u.tests
    BY <2>4 DEF WithCommits
  <2>6. Extends(t, v)
    BY <2>3, <2>5, ExtendsTransitive
  <2>7. TestOf(v, v.tests[n]) = test
    BY <1>3, <2>5 DEF AddedTo, TestOf
  <2>8. \A i \in 1 .. Len(t.tests) : i \in 1 .. Len(u.tests)
    BY <1>3, SoundTypes DEF AddedTo
  <2>9. \A i \in 1 .. Len(t.tests) : i # n => CommitsAt(v, i) = CommitsAt(t, i) /\ v.failing[i] = t.failing[i]
    BY <1>3, <2>4, <2>8 DEF AddedTo, WithCommits
  <2>10. n \in 1 .. Len(t.tests) => CommitsAt(v, n) = CommitsAt(t, n) \cup hashes
    BY <1>3, <2>4 DEF AddedTo, WithCommits
  <2>11. n \notin 1 .. Len(t.tests) => CommitsAt(v, n) = hashes
    BY <1>3, <2>4 DEF AddedTo, WithCommits
  <2>12. Grows(t.commits, v.commits)
    <3>1. PICK c, d, e : c = t.commits /\ d = u.commits /\ e = v.commits
      OBVIOUS
    <3>2. Grows(c, d) /\ Grows(d, e)
      BY <1>3, <2>4, <3>1 DEF AddedTo, WithCommits
    <3>3. c \in Seq(SUBSET Commits) /\ d \in Seq(SUBSET Commits) /\ e \in Seq(SUBSET Commits)
      BY <2>3, <2>5, <3>1, SoundTypes
    <3>4. QED
      BY <3>1, <3>2, <3>3, GrowsTransitive
  <2>13. \A i \in 1 .. Len(v.commits) : i <= Len(t.commits) \/ v.failing[n] + 1 = i
    BY <1>3, <2>4 DEF WithCommits
  <2>14. AddedTo(t, test, o, hashes, v, n)
    BY <1>3, <2>5, <2>6, <2>7, <2>9, <2>10, <2>11, <2>12, <2>13 DEF AddedTo
  <2>15. QED
    BY <1>3, <2>2, <2>5, <2>14
<1>6. QED
  BY <1>4, <1>5

\* Records differ in what they mean.
LEMMA MeaningsApart ==
  ASSUME NEW t, Sound(t), NEW i \in 1 .. Len(t.tests), NEW j \in 1 .. Len(t.tests),
         Meaning(t, i) = Meaning(t, j)
  PROVE  i = j
<1>1. PICK r, s : r = t.tests[i] /\ s = t.tests[j]
  OBVIOUS
<1>2. r \in Records /\ s \in Records /\ Refers(t, r) /\ Refers(t, s)
  BY <1>1, SoundTypes DEF Sound
<1>3. /\ ReadAt(t.strings, r.testsuite_offset) = ReadAt(t.strings, s.testsuite_offset)
      /\ ReadAt(t.strings, r.name_offset) = ReadAt(t.strings, s.name_offset)
      /\ ToSet(ResolveFlags(t, r.flag_set_offset)) = ToSet(ResolveFlags(t, s.flag_set_offset))
  BY <1>1 DEF Meaning, TestOf
<1>4. r.flag_set_offset = s.flag_set_offset
  BY <1>2, <1>3, ResolvedOffset DEF Refers
<1>5. Unique(t.strings) /\ Unique(t.tests)
  BY DEF Sound
<1>6. \A m, n \in Nat : m + 1 \in 1 .. Len(t.strings) /\ n + 1 \in 1 .. Len(t.strings)
                        /\ ReadAt(t.strings, m) = ReadAt(t.strings, n) => m = n
  BY <1>5 DEF Unique, ReadAt
<1>7. r.testsuite_offset \in Nat /\ s.testsuite_offset \in Nat /\ r.name_offset \in Nat /\ s.name_offset \in Nat
  BY <1>2 DEF Records
<1>8. r.testsuite_offset = s.testsuite_offset
  BY <1>2, <1>3, <1>6, <1>7 DEF Refers
<1>9. r.name_offset = s.name_offset
  BY <1>2, <1>3, <1>6, <1>7 DEF Refers
<1>10. r = s
  BY <1>2, <1>4, <1>8, <1>9 DEF Records
<1>11. QED
  BY <1>1, <1>5, <1>10 DEF Unique

LEMMA ExtendsMeaning ==
  ASSUME NEW t, NEW u, Sound(t), Sound(u), Extends(t, u),
         NEW i \in 1 .. Len(t.tests), u.tests[i] = t.tests[i]
  PROVE  Meaning(u, i) = Meaning(t, i)
<1>1. PICK r : r = t.tests[i]
  OBVIOUS
<1>2. r \in Records /\ Refers(t, r) /\ r.flag_set_offset \in Offsets(t)
  BY <1>1, SoundTypes DEF Sound, Refers
<1>3. TestOf(u, r) = TestOf(t, r) /\ ResolveFlags(u, r.flag_set_offset) = ResolveFlags(t, r.flag_set_offset)
  BY <1>2, ExtendsKeepsMeaning
<1>4. QED
  BY <1>1, <1>3 DEF Meaning

\* What the tables say, resolved, from a record on.
LEMMA ResolvedValue ==
  ASSUME NEW t, Sound(t), NEW from \in Nat \ {0}
  PROVE  /\ DOMAIN Resolved(t, from) = {Meaning(t, i) : i \in from .. Len(t.tests)}
         /\ \A i \in from .. Len(t.tests) : Resolved(t, from)[Meaning(t, i)] = CommitsAt(t, i)
         /\ Resolved(t, from) = [k \in DOMAIN Resolved(t, from) |-> Resolved(t, from)[k]]
<1>1. DOMAIN Resolved(t, from) = {Meaning(t, i) : i \in from .. Len(t.tests)}
  BY DEF Resolved
<1>2. Resolved(t, from) = [k \in DOMAIN Resolved(t, from) |-> Resolved(t, from)[k]]
  BY DEF Resolved
<1>3. ASSUME NEW i \in from .. Len(t.tests)
      PROVE  Resolved(t, from)[Meaning(t, i)] = CommitsAt(t, i)
  <2> DEFINE found == CHOOSE j \in from .. Len(t.tests) : Meaning(t, j) = Meaning(t, i)
  <2>1. found \in from .. Len(t.tests) /\ Meaning(t, found) = Meaning(t, i)
    OBVIOUS
  <2>2. Resolved(t, from)[Meaning(t, i)] = ReadCommits(t.commits, t.failing[found])
    BY DEF Resolved
  <2> HIDE DEF found
  <2>3. found \in 1 .. Len(t.tests) /\ i \in 1 .. Len(t.tests)
    BY <2>1, SoundTypes
  <2>4. found = i
    BY <2>1, <2>3, MeaningsApart
  <2>5. QED
    BY <2>2, <2>4 DEF CommitsAt
<1>4. QED
  BY <1>1, <1>2, <1>3

\* Only strings, sets of flags and records have a say.
LEMMA ResolvedOf ==
  ASSUME NEW t, NEW u, NEW from,
         u.strings = t.strings, u.flags_table = t.flags_table, u.commits = t.commits,
         u.tests = t.tests, u.failing = t.failing
  PROVE  Resolved(u, from) = Resolved(t, from)
<1>1. \A i : Meaning(u, i) = Meaning(t, i)
  BY DEF Meaning, TestOf, ResolveFlags
<1> DEFINE S == from .. Len(t.tests)
           p == Resolved(t, from)
           q == Resolved(u, from)
<1>2. ASSUME NEW k
      PROVE  (CHOOSE i \in S : Meaning(u, i) = k) = (CHOOSE i \in S : Meaning(t, i) = k)
  BY <1>1
<1>3. /\ p = [k \in {Meaning(t, i) : i \in S} |->
                 ReadCommits(t.commits, t.failing[CHOOSE i \in S : Meaning(t, i) = k])]
      /\ q = [k \in {Meaning(u, i) : i \in S} |->
                 ReadCommits(t.commits, t.failing[CHOOSE i \in S : Meaning(u, i) = k])]
  BY DEF Resolved
<1>4. {Meaning(t, i) : i \in S} = {Meaning(u, i) : i \in S}
  BY <1>1
<1>5. p = [k \in DOMAIN p |-> p[k]]
  BY DEF Resolved
<1>6. q = [k \in DOMAIN q |-> q[k]]
  BY DEF Resolved
<1> HIDE DEF p, q, S
<1>7. DOMAIN p = DOMAIN q
  BY <1>3, <1>4
<1>8. ASSUME NEW k \in DOMAIN p
      PROVE  p[k] = q[k]
  <2>1. p[k] = ReadCommits(t.commits, t.failing[CHOOSE i \in S : Meaning(t, i) = k])
    BY <1>3
  <2>2. q[k] = ReadCommits(t.commits, t.failing[CHOOSE i \in S : Meaning(u, i) = k])
    BY <1>3, <1>4
  <2>3. QED
    BY <1>2, <2>1, <2>2
<1>9. [k \in DOMAIN p |-> p[k]] = [k \in DOMAIN q |-> q[k]]
  BY <1>7, <1>8
<1>10. p = q
  BY <1>9, <1>5, <1>6
<1>11. QED
  BY <1>10 DEF p, q

\* Tables that only grow by strings and flags say the same of every record.
LEMMA ResolvedExtends ==
  ASSUME NEW t, NEW u, Sound(t), Sound(u), Extends(t, u), NEW from \in Nat \ {0},
         u.tests = t.tests, u.failing = t.failing, u.commits = t.commits
  PROVE  Resolved(u, from) = Resolved(t, from)
<1>1. \A i \in from .. Len(t.tests) : i \in 1 .. Len(t.tests)
  BY SoundTypes
<1>2. \A i \in from .. Len(t.tests) : Meaning(u, i) = Meaning(t, i)
  BY <1>1, ExtendsMeaning
<1>3. \A i : CommitsAt(u, i) = CommitsAt(t, i)
  BY DEF CommitsAt
<1> DEFINE p == Resolved(t, from)
           q == Resolved(u, from)
<1>4. /\ DOMAIN p = {Meaning(t, i) : i \in from .. Len(t.tests)}
      /\ \A i \in from .. Len(t.tests) : p[Meaning(t, i)] = CommitsAt(t, i)
      /\ p = [k \in DOMAIN p |-> p[k]]
  BY ResolvedValue
<1>5. /\ DOMAIN q = {Meaning(u, i) : i \in from .. Len(u.tests)}
      /\ \A i \in from .. Len(u.tests) : q[Meaning(u, i)] = CommitsAt(u, i)
      /\ q = [k \in DOMAIN q |-> q[k]]
  BY ResolvedValue
<1> HIDE DEF p, q
<1>6. DOMAIN p = DOMAIN q
  BY <1>2, <1>4, <1>5
<1>7. \A k \in DOMAIN p : p[k] = q[k]
  BY <1>2, <1>3, <1>4, <1>5
<1>8. [k \in DOMAIN p |-> p[k]] = [k \in DOMAIN q |-> q[k]]
  BY <1>6, <1>7
<1>9. p = q
  BY <1>4, <1>5, <1>8
<1>10. QED
  BY <1>9 DEF p, q

\* Without its first record.
LEMMA ResolvedRest ==
  ASSUME NEW t, Sound(t), NEW from \in 1 .. Len(t.tests)
  PROVE  /\ Resolved(t, from + 1) = Abstract!Without(Resolved(t, from), Meaning(t, from))
         /\ Meaning(t, from) \in DOMAIN Resolved(t, from)
         /\ Resolved(t, from)[Meaning(t, from)] = CommitsAt(t, from)
<1> DEFINE p == Resolved(t, from)
           q == Resolved(t, from + 1)
           key == Meaning(t, from)
<1>1. from \in Nat \ {0} /\ from + 1 \in Nat \ {0} /\ Len(t.tests) \in Nat /\ from \in from .. Len(t.tests)
  BY SoundTypes
<1>2. /\ DOMAIN p = {Meaning(t, i) : i \in from .. Len(t.tests)}
      /\ \A i \in from .. Len(t.tests) : p[Meaning(t, i)] = CommitsAt(t, i)
  BY <1>1, ResolvedValue
<1>3. /\ DOMAIN q = {Meaning(t, i) : i \in from + 1 .. Len(t.tests)}
      /\ \A i \in from + 1 .. Len(t.tests) : q[Meaning(t, i)] = CommitsAt(t, i)
      /\ q = [k \in DOMAIN q |-> q[k]]
  BY <1>1, ResolvedValue
<1> HIDE DEF p, q
<1>4. \A i \in from .. Len(t.tests) : i \in 1 .. Len(t.tests) /\ (i = from \/ i \in from + 1 .. Len(t.tests))
  BY <1>1
<1>5. \A i \in from + 1 .. Len(t.tests) : i \in from .. Len(t.tests) /\ i # from
  BY <1>1
<1>6. \A i \in from + 1 .. Len(t.tests) : Meaning(t, i) # key
  BY <1>4, <1>5, MeaningsApart
<1>7. DOMAIN q = DOMAIN p \ {key}
  BY <1>2, <1>3, <1>4, <1>5, <1>6
<1>8. \A k \in DOMAIN q : q[k] = p[k]
  BY <1>2, <1>3, <1>5
<1>9. q = [k \in DOMAIN p \ {key} |-> p[k]]
  BY <1>3, <1>7, <1>8
<1>10. q = Abstract!Without(p, key)
  BY <1>9 DEF Abstract!Without
<1>11. QED
  BY <1>1, <1>2, <1>10 DEF p, q

\* Without any record.
LEMMA ResolvedNothing ==
  ASSUME NEW t, Sound(t), NEW from \in Nat \ {0}, from > Len(t.tests)
  PROVE  Resolved(t, from) = Abstract!Nothing
<1>1. from .. Len(t.tests) = {}
  BY SoundTypes
<1>2. QED
  BY <1>1 DEF Resolved, Abstract!Nothing

\* A run, or a record that is carried over, adds its commits to what is known.
LEMMA ResolvedAdded ==
  ASSUME NEW t, Sound(t), NEW v, NEW test, NEW o \in Offsets(t), NEW hashes, NEW n,
         AddedTo(t, test, o, hashes, v, n)
  PROVE  Resolved(v, 1) =
           Abstract!Adding(Resolved(t, 1), [test |-> test, flags |-> ToSet(ResolveFlags(t, o))], hashes)
<1> DEFINE p == Resolved(t, 1)
           q == Resolved(v, 1)
           key == [test |-> test, flags |-> ToSet(ResolveFlags(t, o))]
<1>1. Sound(v) /\ Extends(t, v) /\ Len(t.tests) \in Nat /\ Len(v.tests) \in Nat /\ 1 \in Nat \ {0}
  BY SoundTypes DEF AddedTo
<1>2. /\ DOMAIN p = {Meaning(t, i) : i \in 1 .. Len(t.tests)}
      /\ \A i \in 1 .. Len(t.tests) : p[Meaning(t, i)] = CommitsAt(t, i)
      /\ p = [k \in DOMAIN p |-> p[k]]
  BY <1>1, ResolvedValue
<1>3. /\ DOMAIN q = {Meaning(v, i) : i \in 1 .. Len(v.tests)}
      /\ \A i \in 1 .. Len(v.tests) : q[Meaning(v, i)] = CommitsAt(v, i)
      /\ q = [k \in DOMAIN q |-> q[k]]
  BY <1>1, ResolvedValue
<1> HIDE DEF p, q
<1>4. Meaning(v, n) = key
  <2>1. ResolveFlags(v, o) = ResolveFlags(t, o)
    BY <1>1, ExtendsKeepsMeaning
  <2>2. QED
    BY <2>1 DEF AddedTo, Meaning
<1> HIDE DEF key
<1>5. \A i \in 1 .. Len(t.tests) : Meaning(v, i) = Meaning(t, i)
  BY <1>1, ExtendsMeaning DEF AddedTo
<1>6. /\ \A i \in 1 .. Len(t.tests) : i \in 1 .. Len(v.tests)
      /\ \A i \in 1 .. Len(v.tests) : i = n \/ i \in 1 .. Len(t.tests)
      /\ n \in 1 .. Len(v.tests)
  BY <1>1 DEF AddedTo
<1>7. \A i \in 1 .. Len(t.tests) : Meaning(t, i) = key => i = n
  BY <1>1, <1>4, <1>5, <1>6, MeaningsApart
<1>8. DOMAIN q = DOMAIN p \cup {key}
  BY <1>2, <1>3, <1>4, <1>5, <1>6
<1>9. q[key] = Abstract!Failures(p, key) \cup hashes
  <2>1. q[key] = CommitsAt(v, n)
    BY <1>3, <1>4, <1>6
  <2>2. CASE n \in 1 .. Len(t.tests)
    <3>1. key = Meaning(t, n) /\ CommitsAt(v, n) = CommitsAt(t, n) \cup hashes
      BY <1>4, <1>5, <2>2 DEF AddedTo
    <3>2. key \in DOMAIN p /\ p[key] = CommitsAt(t, n)
      BY <1>2, <2>2, <3>1
    <3>3. QED
      BY <2>1, <3>1, <3>2 DEF Abstract!Failures
  <2>3. CASE n \notin 1 .. Len(t.tests)
    <3>1. key \notin DOMAIN p
      BY <1>2, <1>7, <2>3
    <3>2. CommitsAt(v, n) = hashes
      BY <2>3 DEF AddedTo
    <3>3. QED
      BY <2>1, <3>1, <3>2 DEF Abstract!Failures
  <2>4. QED
    BY <2>2, <2>3
<1>10. ASSUME NEW k \in DOMAIN p, k # key
       PROVE  q[k] = p[k]
  <2>1. PICK i \in 1 .. Len(t.tests) : k = Meaning(t, i)
    BY <1>2
  <2>2. i # n
    BY <1>4, <1>5, <1>10, <2>1
  <2>3. CommitsAt(v, i) = CommitsAt(t, i)
    BY <2>2 DEF AddedTo
  <2>4. QED
    BY <1>2, <1>3, <1>5, <1>6, <2>1, <2>3
<1>11. q = [k \in DOMAIN p \cup {key} |-> IF k = key THEN Abstract!Failures(p, key) \cup hashes ELSE p[k]]
  <2>1. \A k \in DOMAIN q : q[k] = IF k = key THEN Abstract!Failures(p, key) \cup hashes ELSE p[k]
    BY <1>8, <1>9, <1>10
  <2>2. QED
    BY <1>3, <1>8, <2>1
<1>12. QED
  BY <1>11 DEF Abstract!Adding, p, q, key

Files ==
  [strings : Seq(Nat), flags_table : Seq(Nat), commits : Seq(SUBSET Commits),
   tests : Seq(Records), failing : Seq(Nat)]

\* Everything in the tables is part of what a record means, or of its commits.
Clean(t) ==
  /\ \A x \in ToSet(t.strings) : \E i \in 1 .. Len(t.tests) :
       x \in {Meaning(t, i).test.testsuite, Meaning(t, i).test.name} \cup Meaning(t, i).flags
  /\ \A o \in Offsets(t) : \E i \in 1 .. Len(t.tests) : t.tests[i].flag_set_offset = o
  /\ \A i \in 1 .. Len(t.commits) : i = 1 \/ \E j \in 1 .. Len(t.tests) : t.failing[j] + 1 = i

Scalars ==
  /\ phase \in {"none", "idle", "session", "merge", "rewrite"}
  /\ session \in [flag_set_offset : Nat, commit : Commits \cup {NoCommit}]
  /\ files \in Seq(Files)
  /\ next \in 1 .. Len(source.tests) + 1
  /\ inserts \in 0 .. MaxInserts

AllSound ==
  /\ Sound(writer) /\ Sound(source)
  /\ \A f \in 1 .. Len(files) : Sound(Parsed(files[f]))

\* The session stands for one of the lists of flags, and has a commit.
InSession ==
  phase = "session" =>
    /\ session.flag_set_offset \in Offsets(writer)
    /\ session.commit \in Commits
    /\ \E flags \in FlagLists :
         ToSet(ResolveFlags(writer, session.flag_set_offset)) = ToSet(flags)

\* The mapping leads to offsets of the same flags.
SameFlags ==
  \A o \in DOMAIN mapping :
    /\ o \in Offsets(source)
    /\ mapping[o] \in Offsets(writer)
    /\ ToSet(ResolveFlags(writer, mapping[o])) = ToSet(ResolveFlags(source, o))

AtRest ==
  phase \notin {"merge", "rewrite"} =>
    source = NewTables /\ mapping = [o \in {} |-> 0] /\ next = 1

\* What rewrite builds has nothing but the meanings it has passed.
Collected ==
  phase = "rewrite" =>
    /\ Clean(writer)
    /\ \A i \in 1 .. Len(writer.tests) :
         \E j \in 1 .. Len(source.tests) : j < next /\ Meaning(writer, i) = Meaning(source, j)

TablesInv == Scalars /\ AllSound /\ InSession /\ SameFlags /\ AtRest /\ Collected

-----------------------------------------------------------------------------
(* New tables, and tables read from a file.                                *)

LEMMA NewTablesSound == Sound(NewTables) /\ Clean(NewTables) /\ Len(NewTables.tests) = 0
<1> DEFINE map == [k \in {} |-> 0]
<1>1. NewTables = [strings |-> <<>>, flags_map |-> map, flags_table |-> <<>>,
                   commits |-> <<{}>>, tests |-> <<>>, failing |-> <<>>]
  BY DEF NewTables, NewCommits
<1>2. DOMAIN map = {} /\ map \in [{} -> Nat]
  OBVIOUS
<1>3. map \in UNION {[keys -> Nat] : keys \in SUBSET Seq(Nat)}
  BY <1>2
<1>4. Indexed(map, <<>>)
  <2>1. Walk(<<>>) = {}
    <3>1. 0 .. Len(<<>>) - 1 = {}
      OBVIOUS
    <3>2. QED
      BY <3>1 DEF Walk
  <2>2. map = [key \in DOMAIN map |-> map[key]]
    OBVIOUS
  <2>3. {map[key] : key \in DOMAIN map} = {}
    BY <1>2
  <2>4. <<>> \in Seq(Nat)
    OBVIOUS
  <2> HIDE DEF map
  <2>5. QED
    BY <1>2, <2>1, <2>2, <2>3, <2>4 DEF Indexed
<1> HIDE DEF map
<1>5. <<{}>> \in Seq(SUBSET Commits) /\ Len(<<{}>>) = 1 /\ <<{}>>[1] = {}
  OBVIOUS
<1>6. NewTables \in Tables
  BY <1>1, <1>3, <1>5 DEF Tables
<1>7. Offsets(NewTables) = {}
  BY <1>1, <1>2 DEF Offsets
<1>8. Unique(<<>>) /\ Unique(<<{}>>)
  BY <1>5 DEF Unique
<1>9. Sound(NewTables)
  BY <1>1, <1>2, <1>4, <1>5, <1>6, <1>8 DEF Sound
<1>10. Clean(NewTables)
  <2>1. ToSet(NewTables.strings) = {}
    <3>1. DOMAIN <<>> = {}
      OBVIOUS
    <3>2. ToSet(<<>>) = {}
      BY <3>1 DEF ToSet
    <3>3. QED
      BY <1>1, <3>2
  <2>2. \A i \in 1 .. Len(NewTables.commits) : i = 1
    BY <1>1, <1>5
  <2>3. QED
    BY <1>7, <2>1, <2>2 DEF Clean
<1>11. QED
  BY <1>1, <1>9, <1>10

\* What is written is read again.
LEMMA ParsedValue ==
  ASSUME NEW t, Sound(t)
  PROVE  Parsed([strings |-> t.strings, flags_table |-> t.flags_table, commits |-> t.commits,
                 tests |-> t.tests, failing |-> t.failing]) = t
<1>1. t \in Tables
  BY DEF Sound
<1>2. LoadFlags(t.flags_table) = t.flags_map
  <2>1. PICK map, table : map = t.flags_map /\ table = t.flags_table
    OBVIOUS
  <2>2. Indexed(map, table)
    BY <2>1 DEF Sound
  <2>3. LoadFlags(table) = map
    BY <2>2, LoadFindsIndex
  <2>4. QED
    BY <2>1, <2>3
<1>3. QED
  BY <1>1, <1>2 DEF Parsed, Tables

\* A record of sound tables is one that can be added to others.
LEMMA RecordValue ==
  ASSUME NEW t, Sound(t), NEW i \in 1 .. Len(t.tests)
  PROVE  /\ TestOf(t, t.tests[i]) \in TestRecords
         /\ t.tests[i].flag_set_offset \in Offsets(t)
         /\ ReadCommits(t.commits, t.failing[i]) \in SUBSET Commits
         /\ ReadCommits(t.commits, t.failing[i]) = CommitsAt(t, i)
<1>1. PICK r : r = t.tests[i]
  OBVIOUS
<1>2. r \in Records /\ Refers(t, r) /\ t.strings \in Seq(Nat)
  BY <1>1, SoundTypes DEF Sound
<1>3. t.strings[r.testsuite_offset + 1] \in Nat /\ t.strings[r.name_offset + 1] \in Nat
  BY <1>2, ElementOfSeq DEF Refers
<1>4. TestOf(t, r) \in TestRecords
  BY <1>3 DEF TestOf, ReadAt, TestRecords
<1>5. QED
  BY <1>1, <1>2, <1>4, CommitsValue DEF Refers, CommitsAt

LEMMA AddedMeaning ==
  ASSUME NEW t, Sound(t), NEW v, NEW test, NEW o \in Offsets(t), NEW hashes, NEW n,
         AddedTo(t, test, o, hashes, v, n)
  PROVE  /\ Meaning(v, n) = [test |-> test, flags |-> ToSet(ResolveFlags(t, o))]
         /\ \A i \in 1 .. Len(t.tests) : Meaning(v, i) = Meaning(t, i)
<1>1. Sound(v) /\ Extends(t, v)
  BY DEF AddedTo
<1>2. ResolveFlags(v, o) = ResolveFlags(t, o)
  BY <1>1, ExtendsKeepsMeaning
<1>3. Meaning(v, n) = [test |-> test, flags |-> ToSet(ResolveFlags(t, o))]
  BY <1>2 DEF AddedTo, Meaning
<1>4. \A i \in 1 .. Len(t.tests) : Meaning(v, i) = Meaning(t, i)
  BY <1>1, ExtendsMeaning DEF AddedTo
<1>5. QED
  BY <1>3, <1>4

\* A new record uses what was made for it.
LEMMA CleanAdded ==
  ASSUME NEW t, Sound(t), Clean(t), NEW u, Sound(u), Extends(t, u),
         u.tests = t.tests, u.failing = t.failing, u.commits = t.commits,
         NEW o \in Offsets(u), Offsets(u) = Offsets(t) \cup {o},
         ToSet(u.strings) \subseteq ToSet(t.strings) \cup ToSet(ResolveFlags(u, o)),
         NEW test, NEW hashes, NEW v, NEW n,
         AddedTo(u, test, o, hashes, v, n), n \notin 1 .. Len(t.tests)
  PROVE  Clean(v)
<1>1. Len(t.tests) \in Nat /\ n = Len(t.tests) + 1 /\ Len(v.tests) = n
  BY SoundTypes DEF AddedTo
<1>2. n \in 1 .. Len(v.tests) /\ \A i \in 1 .. Len(t.tests) : i \in 1 .. Len(v.tests) /\ i # n
  BY <1>1
<1>3. \A i \in 1 .. Len(t.tests) : Meaning(v, i) = Meaning(t, i)
  <2>1. \A i \in 1 .. Len(t.tests) : Meaning(u, i) = Meaning(t, i)
    BY ExtendsMeaning
  <2>2. QED
    BY <2>1, AddedMeaning
<1>4. Meaning(v, n) = [test |-> test, flags |-> ToSet(ResolveFlags(u, o))]
  <2>1. /\ Meaning(v, n) = [test |-> test, flags |-> ToSet(ResolveFlags(u, o))]
        /\ \A i \in 1 .. Len(u.tests) : Meaning(v, i) = Meaning(u, i)
    BY AddedMeaning
  <2>2. QED
    BY <2>1
<1>5. Offsets(v) = Offsets(u)
  BY DEF AddedTo, Offsets
<1>6. ASSUME NEW x \in ToSet(v.strings)
      PROVE  \E i \in 1 .. Len(v.tests) :
               x \in {Meaning(v, i).test.testsuite, Meaning(v, i).test.name} \cup Meaning(v, i).flags
  <2>1. x \in ToSet(t.strings) \/ x \in ToSet(ResolveFlags(u, o)) \/ x \in {test.testsuite, test.name}
    BY DEF AddedTo
  <2>2. CASE x \in ToSet(t.strings)
    <3>1. PICK i \in 1 .. Len(t.tests) :
            x \in {Meaning(t, i).test.testsuite, Meaning(t, i).test.name} \cup Meaning(t, i).flags
      BY <2>2 DEF Clean
    <3>2. QED
      BY <1>2, <1>3, <3>1
  <2>3. CASE x \in ToSet(ResolveFlags(u, o))
    <3>1. x \in Meaning(v, n).flags
      BY <1>4, <2>3
    <3>2. QED
      BY <1>2, <3>1
  <2>4. CASE x \in {test.testsuite, test.name}
    <3>1. x \in {Meaning(v, n).test.testsuite, Meaning(v, n).test.name}
      BY <1>4, <2>4
    <3>2. QED
      BY <1>2, <3>1
  <2>5. QED
    BY <2>1, <2>2, <2>3, <2>4
<1>7. ASSUME NEW p \in Offsets(v)
      PROVE  \E i \in 1 .. Len(v.tests) : v.tests[i].flag_set_offset = p
  <2>1. CASE p = o
    BY <1>2, <2>1 DEF AddedTo
  <2>2. CASE p # o
    <3>1. PICK i \in 1 .. Len(t.tests) : t.tests[i].flag_set_offset = p
      BY <1>5, <2>2 DEF Clean
    <3>2. v.tests[i] = t.tests[i]
      BY DEF AddedTo
    <3>3. QED
      BY <1>2, <3>1, <3>2
  <2>3. QED
    BY <2>1, <2>2
<1>8. ASSUME NEW i \in 1 .. Len(v.commits), i # 1
      PROVE  \E j \in 1 .. Len(v.tests) : v.failing[j] + 1 = i
  <2>1. CASE i <= Len(t.commits)
    <3>1. i \in 1 .. Len(t.commits)
      BY <2>1, SoundTypes
    <3>2. PICK j \in 1 .. Len(t.tests) : t.failing[j] + 1 = i
      BY <1>8, <3>1 DEF Clean
    <3>3. v.failing[j] = t.failing[j]
      BY <1>2 DEF AddedTo
    <3>4. QED
      BY <1>2, <3>2, <3>3
  <2>2. CASE ~ (i <= Len(t.commits))
    <3>1. v.failing[n] + 1 = i
      BY <2>2 DEF AddedTo
    <3>2. QED
      BY <1>2, <3>1
  <2>3. QED
    BY <2>1, <2>2
<1>9. QED
  BY <1>6, <1>7, <1>8 DEF Clean

\* Clean tables use every string, every set of flags and every set of commits.
LEMMA CleanUses ==
  ASSUME NEW t, Sound(t), Clean(t)
  PROVE  /\ {o + 1 : o \in UsedStrings(t)} = DOMAIN t.strings
         /\ Offsets(t) = {r.flag_set_offset : r \in ToSet(t.tests)}
         /\ ToSet(t.failing) \cup {0} = 0 .. Len(t.commits) - 1
<1>1. /\ t.strings \in Seq(Nat) /\ t.tests \in Seq(Records) /\ t.failing \in Seq(Nat)
      /\ Len(t.failing) = Len(t.tests) /\ Len(t.tests) \in Nat /\ Len(t.commits) \in Nat
      /\ Len(t.strings) \in Nat /\ DOMAIN t.strings = 1 .. Len(t.strings)
      /\ Unique(t.strings)
  BY SoundTypes DEF Sound
<1>2. /\ ToSet(t.tests) = {t.tests[i] : i \in 1 .. Len(t.tests)}
      /\ ToSet(t.failing) = {t.failing[i] : i \in 1 .. Len(t.tests)}
      /\ ToSet(t.strings) = {t.strings[i] : i \in 1 .. Len(t.strings)}
  <2>1. ToSet(t.tests) = {t.tests[i] : i \in 1 .. Len(t.tests)}
    BY <1>1, ToSetOfSeq
  <2>2. ToSet(t.failing) = {t.failing[i] : i \in 1 .. Len(t.failing)}
    BY <1>1, ToSetOfSeq
  <2>3. ToSet(t.strings) = {t.strings[i] : i \in 1 .. Len(t.strings)}
    BY <1>1, ToSetOfSeq
  <2>4. QED
    BY <1>1, <2>1, <2>2, <2>3
<1>3. \A i \in 1 .. Len(t.tests) :
        Refers(t, t.tests[i]) /\ t.failing[i] + 1 \in 1 .. Len(t.commits)
        /\ t.tests[i] \in Records /\ t.failing[i] \in Nat
  BY SoundTypes DEF Sound
<1>4. \A key \in DOMAIN t.flags_map : Names(t.strings, key) /\ key \in Seq(Nat)
                                      /\ ToSet(key) = {key[i] : i \in 1 .. Len(key)}
  <2>1. \A key \in DOMAIN t.flags_map : Names(t.strings, key)
    BY DEF Sound
  <2>2. \A key \in DOMAIN t.flags_map : key \in Seq(Nat)
    BY <2>1 DEF Names
  <2>3. QED
    BY <2>1, <2>2, ToSetOfSeq
<1>5. \A r \in ToSet(t.tests) : r.testsuite_offset \in UsedStrings(t) /\ r.name_offset \in UsedStrings(t)
  <2>1. SUFFICES ASSUME NEW r \in ToSet(t.tests)
                 PROVE  r.testsuite_offset \in UsedStrings(t) /\ r.name_offset \in UsedStrings(t)
    OBVIOUS
  <2>2. PICK pair : pair = {r.testsuite_offset, r.name_offset}
    OBVIOUS
  <2>3. pair \in {{q.testsuite_offset, q.name_offset} : q \in ToSet(t.tests)}
    BY <2>2
  <2>4. r.testsuite_offset \in pair /\ r.name_offset \in pair
    BY <2>2
  <2>5. QED
    BY <2>3, <2>4 DEF UsedStrings
<1>6. \A key \in DOMAIN t.flags_map : ToSet(key) \subseteq UsedStrings(t)
  BY DEF UsedStrings
<1>7. ASSUME NEW o \in UsedStrings(t)
      PROVE  o + 1 \in 1 .. Len(t.strings)
  <2>1. CASE o \in UNION {{r.testsuite_offset, r.name_offset} : r \in ToSet(t.tests)}
    <3>1. PICK i \in 1 .. Len(t.tests) : o \in {t.tests[i].testsuite_offset, t.tests[i].name_offset}
      BY <1>2, <2>1
    <3>2. QED
      BY <1>3, <3>1 DEF Refers
  <2>2. CASE o \in UNION {ToSet(key) : key \in DOMAIN t.flags_map}
    <3>1. PICK key \in DOMAIN t.flags_map : o \in ToSet(key)
      BY <2>2
    <3>2. PICK i \in 1 .. Len(key) : o = key[i]
      BY <1>4, <3>1
    <3>3. Names(t.strings, key)
      BY <1>4
    <3>4. key[i] + 1 \in 1 .. Len(t.strings)
      BY <3>3 DEF Names
    <3>5. QED
      BY <3>2, <3>4
  <2>3. QED
    BY <2>1, <2>2 DEF UsedStrings
<1>8. ASSUME NEW n \in 1 .. Len(t.strings)
      PROVE  \E o \in UsedStrings(t) : n = o + 1
  <2> DEFINE x == t.strings[n]
  <2>1. x \in ToSet(t.strings)
    BY <1>2
  <2>2. PICK i \in 1 .. Len(t.tests) :
          x \in {Meaning(t, i).test.testsuite, Meaning(t, i).test.name} \cup Meaning(t, i).flags
    BY <2>1 DEF Clean
  <2>3. \A o \in Nat : o + 1 \in 1 .. Len(t.strings) /\ ReadAt(t.strings, o) = x => n = o + 1
    BY <1>1 DEF Unique, ReadAt
  <2> HIDE DEF x
  <2>4. PICK r : r = t.tests[i]
    OBVIOUS
  <2>5. r \in Records /\ Refers(t, r) /\ r \in ToSet(t.tests)
    BY <1>2, <1>3, <2>4
  <2>6. r.testsuite_offset \in Nat /\ r.name_offset \in Nat
    BY <2>5 DEF Records
  <2>7. CASE x = Meaning(t, i).test.testsuite
    <3>1. x = ReadAt(t.strings, r.testsuite_offset)
      BY <2>4, <2>7 DEF Meaning, TestOf
    <3>2. n = r.testsuite_offset + 1
      BY <2>3, <2>5, <2>6, <3>1 DEF Refers
    <3>3. r.testsuite_offset \in UsedStrings(t)
      BY <1>5, <2>5
    <3>4. QED
      BY <3>2, <3>3
  <2>8. CASE x = Meaning(t, i).test.name
    <3>1. x = ReadAt(t.strings, r.name_offset)
      BY <2>4, <2>8 DEF Meaning, TestOf
    <3>2. n = r.name_offset + 1
      BY <2>3, <2>5, <2>6, <3>1 DEF Refers
    <3>3. r.name_offset \in UsedStrings(t)
      BY <1>5, <2>5
    <3>4. QED
      BY <3>2, <3>3
  <2>9. CASE x \in Meaning(t, i).flags
    <3>1. PICK o : o = r.flag_set_offset
      OBVIOUS
    <3>2. o \in Offsets(t) /\ x \in ToSet(ResolveFlags(t, o))
      BY <2>4, <2>5, <2>9, <3>1 DEF Refers, Meaning
    <3>3. PICK key \in DOMAIN t.flags_map : ResolveFlags(t, o) = Spelled(t.strings, key)
      BY <3>2, ResolvedOffset
    <3>4. ResolveFlags(t, o) \in Seq(Nat) /\ Names(t.strings, key) /\ key \in Seq(Nat)
      BY <1>4, <3>2, ResolvedOffset
    <3>5. PICK s : s = ResolveFlags(t, o)
      OBVIOUS
    <3>6. PICK j \in DOMAIN s : x = s[j]
      BY <3>2, <3>5 DEF ToSet
    <3>7. j \in 1 .. Len(key) /\ x = ReadAt(t.strings, key[j])
      BY <3>3, <3>4, <3>5, <3>6 DEF Spelled
    <3>8. key[j] \in Nat /\ key[j] + 1 \in 1 .. Len(t.strings)
      BY <3>4, <3>7, ElementOfSeq DEF Names
    <3>9. n = key[j] + 1
      BY <2>3, <3>7, <3>8
    <3>10. key[j] \in UsedStrings(t)
      BY <1>4, <1>6, <3>7
    <3>11. QED
      BY <3>9, <3>10
  <2>10. QED
    BY <2>2, <2>7, <2>8, <2>9
<1>9. {o + 1 : o \in UsedStrings(t)} = DOMAIN t.strings
  BY <1>1, <1>7, <1>8
<1>10. Offsets(t) = {r.flag_set_offset : r \in ToSet(t.tests)}
  <2>1. \A r \in ToSet(t.tests) : r.flag_set_offset \in Offsets(t)
    BY <1>2, <1>3 DEF Refers
  <2>2. \A o \in Offsets(t) : \E r \in ToSet(t.tests) : o = r.flag_set_offset
    BY <1>2 DEF Clean
  <2>3. QED
    BY <2>1, <2>2
<1>11. ToSet(t.failing) \cup {0} = 0 .. Len(t.commits) - 1
  <2>1. ASSUME NEW o \in ToSet(t.failing) \cup {0}
        PROVE  o \in 0 .. Len(t.commits) - 1
    <3>1. CASE o = 0
      <4>1. Len(t.commits) # 0
        BY DEF Sound
      <4>2. QED
        BY <1>1, <3>1, <4>1
    <3>2. CASE o # 0
      <4>1. PICK i \in 1 .. Len(t.tests) : o = t.failing[i]
        BY <1>2, <3>2
      <4>2. QED
        BY <1>1, <1>3, <4>1
    <3>3. QED
      BY <3>1, <3>2
  <2>2. ASSUME NEW o \in 0 .. Len(t.commits) - 1, o # 0
        PROVE  o \in ToSet(t.failing)
    <3>1. o + 1 \in 1 .. Len(t.commits) /\ o + 1 # 1
      BY <1>1, <2>2
    <3>2. PICK j \in 1 .. Len(t.tests) : t.failing[j] + 1 = o + 1
      BY <3>1 DEF Clean
    <3>3. t.failing[j] = o
      BY <1>3, <3>2
    <3>4. QED
      BY <1>2, <3>3
  <2>3. QED
    BY <2>1, <2>2
<1>12. QED
  BY <1>9, <1>10, <1>11

\* What the steps do to the tables of the writer.
LEMMA StartSessionEffect ==
  ASSUME TablesInv, NEW flags \in FlagLists, NEW commit \in Commits, StartSession(flags, commit)
  PROVE  WithFlags(writer, flags, writer', session'.flag_set_offset)
<1>1. PICK t, v, o : t = writer /\ v = writer' /\ o = session'.flag_set_offset
  OBVIOUS
<1>2. v = FlagsInsert(t, flags) /\ o = FlagsOffset(v, flags)
  BY <1>1 DEF StartSession
<1>3. Sound(t) /\ flags \in Seq(Nat)
  BY <1>1, FlagListsAssumption DEF TablesInv, AllSound
<1>4. WithFlags(t, flags, FlagsInsert(t, flags), FlagsOffset(FlagsInsert(t, flags), flags))
  BY <1>3, FlagsInsertValue
<1>5. QED
  BY <1>1, <1>2, <1>4

LEMMA InsertEffect ==
  ASSUME TablesInv, NEW test \in Tests, NEW failed \in BOOLEAN, Insert(test, failed)
  PROVE  \E n : AddedTo(writer, test, session.flag_set_offset,
                        IF failed THEN {session.commit} ELSE {}, writer', n)
<1>1. PICK t, v, o, hashes :
         /\ t = writer /\ v = writer' /\ o = session.flag_set_offset
         /\ hashes = IF failed THEN {session.commit} ELSE {}
  OBVIOUS
<1>2. v = Added(t, test, o, hashes)
  BY <1>1 DEF Insert
<1>3. Sound(t) /\ test \in TestRecords
  BY <1>1, TestsAssumption DEF TablesInv, AllSound, TestRecords
<1>4. o \in Offsets(t) /\ hashes \in SUBSET Commits
  BY <1>1 DEF TablesInv, InSession, Insert
<1>5. PICK n : AddedTo(t, test, o, hashes, Added(t, test, o, hashes), n)
  BY <1>3, <1>4, AddedValue
<1>6. AddedTo(writer, test, session.flag_set_offset,
              IF failed THEN {session.commit} ELSE {}, writer', n)
  BY <1>1, <1>2, <1>5
<1>7. QED
  BY <1>6

LEMMA MergeFlagsEffect ==
  ASSUME TablesInv, NEW offset \in Unmapped, MergeFlags(offset)
  PROVE  \E o : /\ WithFlags(writer, ResolveFlags(source, offset), writer', o)
                /\ mapping' = Mapped(offset, o)
                /\ offset \in Offsets(source)
<1>1. PICK t, v, s, flags, o :
         /\ t = writer /\ v = writer' /\ s = source
         /\ flags = ResolveFlags(source, offset)
         /\ o = FlagsOffset(writer', ResolveFlags(source, offset))
  OBVIOUS
<1>2. v = FlagsInsert(t, flags) /\ o = FlagsOffset(v, flags) /\ mapping' = Mapped(offset, o)
  BY <1>1 DEF MergeFlags
<1>3. Sound(t) /\ Sound(s) /\ offset \in Offsets(s)
  BY <1>1 DEF TablesInv, AllSound, Unmapped, Offsets
<1>4. flags \in Seq(Nat)
  BY <1>1, <1>3, ResolvedOffset
<1>5. WithFlags(t, flags, FlagsInsert(t, flags), FlagsOffset(FlagsInsert(t, flags), flags))
  BY <1>3, <1>4, FlagsInsertValue
<1>6. WithFlags(writer, ResolveFlags(source, offset), writer', o)
  BY <1>1, <1>2, <1>5
<1>7. QED
  BY <1>1, <1>2, <1>3, <1>6

\* The record that is next in a loop.
LEMMA NextRecord ==
  ASSUME TablesInv, next <= Len(source.tests)
  PROVE  /\ next \in 1 .. Len(source.tests)
         /\ TestOf(source, source.tests[next]) \in TestRecords
         /\ source.tests[next].flag_set_offset \in Offsets(source)
         /\ ReadCommits(source.commits, source.failing[next]) \in SUBSET Commits
         /\ ReadCommits(source.commits, source.failing[next]) = CommitsAt(source, next)
<1>1. PICK s, i : s = source /\ i = next
  OBVIOUS
<1>2. Sound(s) /\ i \in 1 .. Len(s.tests) + 1 /\ i <= Len(s.tests)
  BY <1>1 DEF TablesInv, AllSound, Scalars
<1>3. i \in 1 .. Len(s.tests)
  BY <1>2, SoundTypes
<1>4. /\ TestOf(s, s.tests[i]) \in TestRecords
      /\ s.tests[i].flag_set_offset \in Offsets(s)
      /\ ReadCommits(s.commits, s.failing[i]) \in SUBSET Commits
      /\ ReadCommits(s.commits, s.failing[i]) = CommitsAt(s, i)
  BY <1>2, <1>3, RecordValue
<1>5. QED
  BY <1>1, <1>3, <1>4

LEMMA MergeRecordEffect ==
  ASSUME TablesInv, MergeRecord
  PROVE  \E o, n : /\ o \in Offsets(writer)
                   /\ AddedTo(writer, TestOf(source, source.tests[next]), o,
                              CommitsAt(source, next), writer', n)
                   /\ ToSet(ResolveFlags(writer, o))
                        = ToSet(ResolveFlags(source, source.tests[next].flag_set_offset))
<1>1. PICK t, v, s, i, p, o, test, hashes :
         /\ t = writer /\ v = writer' /\ s = source /\ i = next
         /\ p = source.tests[next].flag_set_offset
         /\ o = mapping[source.tests[next].flag_set_offset]
         /\ test = TestOf(source, source.tests[next])
         /\ hashes = ReadCommits(source.commits, source.failing[next])
  OBVIOUS
<1>2. v = Added(t, test, o, hashes)
  BY <1>1 DEF MergeRecord
<1>3. Sound(t) /\ Sound(s)
  BY <1>1 DEF TablesInv, AllSound
<1>4. p \in Offsets(s) /\ test \in TestRecords /\ hashes \in SUBSET Commits /\ hashes = CommitsAt(s, i)
  BY <1>1, NextRecord DEF MergeRecord
<1>5. p \in DOMAIN mapping
  BY <1>1, <1>4 DEF MergeRecord, Unmapped, Offsets
<1>6. o \in Offsets(t) /\ ToSet(ResolveFlags(t, o)) = ToSet(ResolveFlags(s, p))
  BY <1>1, <1>5 DEF TablesInv, SameFlags
<1>7. PICK n : AddedTo(t, test, o, hashes, Added(t, test, o, hashes), n)
  BY <1>3, <1>4, <1>6, AddedValue
<1>8. AddedTo(writer, TestOf(source, source.tests[next]), o, CommitsAt(source, next), writer', n)
  BY <1>1, <1>2, <1>4, <1>7
<1>9. QED
  BY <1>1, <1>6, <1>8

\* The tables of rewrite with the flags of a record, whether they were there or not.
Reflagged(u, o) ==
  /\ Sound(u)
  /\ Extends(writer, u)
  /\ u.tests = writer.tests /\ u.failing = writer.failing /\ u.commits = writer.commits
  /\ o \in Offsets(u)
  /\ Offsets(u) = Offsets(writer) \cup {o}
  /\ ToSet(u.strings) \subseteq ToSet(writer.strings) \cup ToSet(ResolveFlags(u, o))
  /\ ToSet(ResolveFlags(u, o)) = ToSet(ResolveFlags(source, source.tests[next].flag_set_offset))

LEMMA RewriteLiveEffect ==
  ASSUME TablesInv, RewriteLive
  PROVE  \E u, o, n :
           /\ Reflagged(u, o)
           /\ AddedTo(u, TestOf(source, source.tests[next]), o, CommitsAt(source, next), writer', n)
           /\ \/ mapping' = mapping
              \/ mapping' = Mapped(source.tests[next].flag_set_offset, o)
<1>1. PICK t, v, s, i, p, flags, test, hashes :
         /\ t = writer /\ v = writer' /\ s = source /\ i = next
         /\ p = source.tests[next].flag_set_offset
         /\ flags = ResolveFlags(source, p)
         /\ test = TestOf(source, source.tests[next])
         /\ hashes = ReadCommits(source.commits, source.failing[next])
  OBVIOUS
<1>2. Sound(t) /\ Sound(s)
  BY <1>1 DEF TablesInv, AllSound
<1>3. p \in Offsets(s) /\ test \in TestRecords /\ hashes \in SUBSET Commits /\ hashes = CommitsAt(s, i)
  BY <1>1, NextRecord DEF RewriteLive
<1>4. flags \in Seq(Nat)
  BY <1>1, <1>2, <1>3, ResolvedOffset
<1>5. \E u, o : /\ Reflagged(u, o)
                /\ v = Added(u, test, o, hashes)
                /\ mapping' = mapping \/ mapping' = Mapped(p, o)
  <2>1. CASE p \in DOMAIN mapping
    <3>1. PICK o : o = mapping[p]
      OBVIOUS
    <3>2. mapping' = mapping /\ v = Added(t, test, o, hashes)
      BY <1>1, <2>1, <3>1 DEF RewriteLive
    <3>3. o \in Offsets(t) /\ ToSet(ResolveFlags(t, o)) = ToSet(ResolveFlags(s, p))
      BY <1>1, <2>1, <3>1 DEF TablesInv, SameFlags
    <3>4. Extends(t, t)
      BY <1>2, SoundTypes DEF Extends, Grows
    <3>5. Reflagged(t, o)
      BY <1>1, <1>2, <3>3, <3>4 DEF Reflagged
    <3>6. QED
      BY <3>2, <3>5
  <2>2. CASE p \notin DOMAIN mapping
    <3>1. PICK u : u = FlagsInsert(t, flags)
      OBVIOUS
    <3>2. PICK o : o = FlagsOffset(u, flags)
      OBVIOUS
    <3>3. mapping' = Mapped(p, o)
      BY <1>1, <2>2, <3>1, <3>2 DEF RewriteLive
    <3>4. mapping'[p] = o
      BY <3>3 DEF Mapped
    <3>5. v = Added(u, test, o, hashes)
      BY <1>1, <2>2, <3>1, <3>4 DEF RewriteLive
    <3>6. WithFlags(t, flags, u, o)
      BY <1>2, <1>4, <3>1, <3>2, FlagsInsertValue
    <3>7. Reflagged(u, o)
      BY <1>1, <3>6 DEF WithFlags, Reflagged
    <3>8. QED
      BY <3>3, <3>5, <3>7
  <2>3. QED
    BY <2>1, <2>2
<1>6. PICK u, o : /\ Reflagged(u, o)
                  /\ v = Added(u, test, o, hashes)
                  /\ mapping' = mapping \/ mapping' = Mapped(p, o)
  BY <1>5
<1>7. Sound(u) /\ o \in Offsets(u)
  BY <1>6 DEF Reflagged
<1>8. PICK n : AddedTo(u, test, o, hashes, Added(u, test, o, hashes), n)
  BY <1>3, <1>7, AddedValue
<1>9. AddedTo(u, TestOf(source, source.tests[next]), o, CommitsAt(source, next), writer', n)
  BY <1>1, <1>3, <1>6, <1>8
<1>10. QED
  BY <1>1, <1>6, <1>9

FileOf(t) ==
  [strings |-> t.strings, flags_table |-> t.flags_table, commits |-> t.commits,
   tests |-> t.tests, failing |-> t.failing]

\* The invariant holds at the start.
LEMMA TablesInit == Init => TablesInv
<1> SUFFICES ASSUME Init
             PROVE  TablesInv
  OBVIOUS
<1>1. AllSound
  <2>1. 1 .. Len(<<>>) = {}
    OBVIOUS
  <2>2. QED
    BY <2>1, NewTablesSound DEF Init, AllSound
<1>2. Scalars
  <2>1. next \in 1 .. Len(source.tests) + 1
    BY NewTablesSound DEF Init
  <2>2. inserts \in 0 .. MaxInserts
    BY MaxInsertsAssumption DEF Init
  <2>3. QED
    BY <2>1, <2>2 DEF Init, Scalars, NoSession
<1>3. InSession /\ SameFlags /\ AtRest /\ Collected
  BY DEF Init, InSession, SameFlags, AtRest, Collected
<1>4. QED
  BY <1>1, <1>2, <1>3 DEF TablesInv

\* No mapping, and nothing left to carry over.
LEMMA RestFlags ==
  ASSUME TablesInv, phase \notin {"merge", "rewrite"}
  PROVE  /\ source = NewTables /\ next = 1 /\ Len(source.tests) = 0
         /\ DOMAIN mapping = {}
<1>1. source = NewTables /\ mapping = [o \in {} |-> 0] /\ next = 1
  BY DEF TablesInv, AtRest
<1>2. QED
  BY <1>1, NewTablesSound

\* A step of a writer at rest leaves everything as it is but the writer.
LEMMA RestKept ==
  ASSUME TablesInv, phase \notin {"merge", "rewrite"}, phase' \in {"none", "idle", "session"},
         UNCHANGED <<source, mapping, next>>
  PROVE  SameFlags' /\ AtRest' /\ Collected' /\ next' \in 1 .. Len(source'.tests) + 1
<1>1. DOMAIN mapping' = {}
  BY RestFlags
<1>2. source' = NewTables /\ mapping' = [o \in {} |-> 0] /\ next' = 1
  BY DEF TablesInv, AtRest
<1>3. next' \in 1 .. Len(source'.tests) + 1
  BY <1>2, NewTablesSound
<1>4. QED
  BY <1>1, <1>2, <1>3 DEF SameFlags, AtRest, Collected

\* A writer that only grows keeps the flags of the mapping, and of the session.
LEMMA GrownFlags ==
  ASSUME TablesInv, Sound(writer'), Extends(writer, writer')
  PROVE  \A o \in Offsets(writer) :
           o \in Offsets(writer') /\ ResolveFlags(writer', o) = ResolveFlags(writer, o)
<1>1. PICK t, v : t = writer /\ v = writer'
  OBVIOUS
<1>2. Sound(t) /\ Sound(v) /\ Extends(t, v)
  BY <1>1 DEF TablesInv, AllSound
<1>3. \A o \in Offsets(t) : o \in Offsets(v) /\ ResolveFlags(v, o) = ResolveFlags(t, o)
  BY <1>2, ExtendsKeepsMeaning
<1>4. QED
  BY <1>1, <1>3

\* What holds of the files holds while no file is added.
LEMMA FilesKept ==
  ASSUME TablesInv, UNCHANGED files, Sound(writer'), Sound(source')
  PROVE  AllSound' /\ files' \in Seq(Files)
  BY DEF TablesInv, AllSound, Scalars

LEMMA FileSound ==
  ASSUME TablesInv, NEW f \in DOMAIN files
  PROVE  Sound(Parsed(files[f]))
<1>1. f \in 1 .. Len(files)
  BY DEF TablesInv, Scalars
<1>2. QED
  BY <1>1 DEF TablesInv, AllSound

LEMMA FileWritten ==
  ASSUME TablesInv, Serialize
  PROVE  /\ files' = Append(files, FileOf(writer))
         /\ files' \in Seq(Files)
         /\ Len(files') = Len(files) + 1
         /\ \A f \in 1 .. Len(files) : files'[f] = files[f]
         /\ files'[Len(files) + 1] = FileOf(writer)
         /\ Parsed(FileOf(writer)) = writer
<1>1. files' = Append(files, FileOf(writer))
  BY DEF Serialize, FileOf
<1>2. FileOf(writer) \in Files
  BY DEF TablesInv, AllSound, Sound, Tables, FileOf, Files
<1>3. files \in Seq(Files)
  BY DEF TablesInv, Scalars
<1>4. Parsed(FileOf(writer)) = writer
  <2>1. PICK t : t = writer
    OBVIOUS
  <2>2. Sound(t)
    BY <2>1 DEF TablesInv, AllSound
  <2>3. Parsed(FileOf(t)) = t
    BY <2>2, ParsedValue DEF FileOf
  <2>4. QED
    BY <2>1, <2>3
<1>5. QED
  BY <1>1, <1>2, <1>3, <1>4

-----------------------------------------------------------------------------
(* The invariant is kept.                                                  *)

LEMMA SessionSteps ==
  ASSUME TablesInv
  PROVE  /\ New => TablesInv'
         /\ \A f \in DOMAIN files : Open(f) => TablesInv'
         /\ \A flags \in FlagLists, commit \in Commits : StartSession(flags, commit) => TablesInv'
         /\ \A test \in Tests, failed \in BOOLEAN : Insert(test, failed) => TablesInv'
         /\ EndSession => TablesInv'
         /\ Serialize => TablesInv'
         /\ DropWriter => TablesInv'
<1>1. Sound(writer) /\ Sound(source)
  BY DEF TablesInv, AllSound
<1>2. ASSUME New
      PROVE  TablesInv'
  <2>1. SameFlags' /\ AtRest' /\ Collected' /\ next' \in 1 .. Len(source'.tests) + 1
    BY <1>2, RestKept DEF New
  <2>2. AllSound' /\ files' \in Seq(Files)
    BY <1>1, <1>2, FilesKept, NewTablesSound DEF New
  <2>3. QED
    BY <1>2, <2>1, <2>2 DEF New, TablesInv, Scalars, InSession
<1>3. ASSUME NEW f \in DOMAIN files, Open(f)
      PROVE  TablesInv'
  <2>1. SameFlags' /\ AtRest' /\ Collected' /\ next' \in 1 .. Len(source'.tests) + 1
    BY <1>3, RestKept DEF Open
  <2>2. AllSound' /\ files' \in Seq(Files)
    BY <1>1, <1>3, FilesKept, FileSound DEF Open
  <2>3. QED
    BY <1>3, <2>1, <2>2 DEF Open, TablesInv, Scalars, InSession
<1>4. ASSUME NEW flags \in FlagLists, NEW commit \in Commits, StartSession(flags, commit)
      PROVE  TablesInv'
  <2>1. SameFlags' /\ AtRest' /\ Collected' /\ next' \in 1 .. Len(source'.tests) + 1
    BY <1>4, RestKept DEF StartSession
  <2>2. WithFlags(writer, flags, writer', session'.flag_set_offset)
    BY <1>4, StartSessionEffect
  <2>3. Sound(writer') /\ session'.flag_set_offset \in Offsets(writer')
        /\ ToSet(ResolveFlags(writer', session'.flag_set_offset)) = ToSet(flags)
    BY <2>2 DEF WithFlags
  <2>4. AllSound' /\ files' \in Seq(Files)
    BY <1>1, <1>4, <2>3, FilesKept DEF StartSession
  <2>5. session'.flag_set_offset \in Nat
    BY <2>3, SoundTypes
  <2>6. session' \in [flag_set_offset : Nat, commit : Commits \cup {NoCommit}] /\ session'.commit = commit
    BY <1>4, <2>5 DEF StartSession
  <2>7. InSession'
    BY <2>3, <2>6 DEF InSession
  <2>8. QED
    BY <1>4, <2>1, <2>4, <2>6, <2>7 DEF StartSession, TablesInv, Scalars
<1>5. ASSUME NEW test \in Tests, NEW failed \in BOOLEAN, Insert(test, failed)
      PROVE  TablesInv'
  <2>1. SameFlags' /\ AtRest' /\ Collected' /\ next' \in 1 .. Len(source'.tests) + 1
    BY <1>5, RestKept DEF Insert
  <2>2. Sound(writer') /\ Extends(writer, writer')
    BY <1>5, InsertEffect DEF AddedTo
  <2>3. AllSound' /\ files' \in Seq(Files)
    BY <1>1, <1>5, <2>2, FilesKept DEF Insert
  <2>4. InSession'
    BY <1>5, <2>2, GrownFlags DEF TablesInv, InSession, Insert
  <2>5. inserts' \in 0 .. MaxInserts
    BY <1>5, MaxInsertsAssumption DEF TablesInv, Scalars, Insert
  <2>6. QED
    BY <1>5, <2>1, <2>3, <2>4, <2>5 DEF Insert, TablesInv, Scalars
<1>6. ASSUME EndSession
      PROVE  TablesInv'
  <2>1. SameFlags' /\ AtRest' /\ Collected' /\ next' \in 1 .. Len(source'.tests) + 1
    BY <1>6, RestKept DEF EndSession
  <2>2. AllSound' /\ files' \in Seq(Files)
    BY <1>1, <1>6, FilesKept DEF EndSession
  <2>3. QED
    BY <1>6, <2>1, <2>2 DEF EndSession, TablesInv, Scalars, InSession, NoSession
<1>7. ASSUME Serialize
      PROVE  TablesInv'
  <2>1. SameFlags' /\ AtRest' /\ Collected' /\ next' \in 1 .. Len(source'.tests) + 1
    BY <1>7, RestKept DEF Serialize
  <2>2. \A f \in 1 .. Len(files') : Sound(Parsed(files'[f]))
    <3>1. Len(files) \in Nat
      BY DEF TablesInv, Scalars
    <3>2. ASSUME NEW f \in 1 .. Len(files')
          PROVE  Sound(Parsed(files'[f]))
      <4>1. CASE f = Len(files) + 1
        BY <1>1, <1>7, <4>1, FileWritten
      <4>2. CASE f # Len(files) + 1
        <5>1. f \in 1 .. Len(files)
          BY <1>7, <3>1, <4>2, FileWritten
        <5>2. files'[f] = files[f]
          BY <1>7, <5>1, FileWritten
        <5>3. QED
          BY <5>1, <5>2 DEF TablesInv, AllSound
      <4>3. QED
        BY <4>1, <4>2
    <3>3. QED
      BY <3>2
  <2>3. AllSound' /\ files' \in Seq(Files)
    BY <1>1, <1>7, <2>2, FileWritten, NewTablesSound DEF Serialize, AllSound
  <2>4. phase' = "none" /\ UNCHANGED <<session, inserts>>
    BY <1>7 DEF Serialize
  <2>5. QED
    BY <2>1, <2>3, <2>4 DEF TablesInv, Scalars, InSession
<1>8. ASSUME DropWriter
      PROVE  TablesInv'
  <2>1. SameFlags' /\ AtRest' /\ Collected' /\ next' \in 1 .. Len(source'.tests) + 1
    BY <1>8, RestKept DEF DropWriter
  <2>2. AllSound' /\ files' \in Seq(Files)
    BY <1>1, <1>8, FilesKept, NewTablesSound DEF DropWriter
  <2>3. QED
    BY <1>8, <2>1, <2>2 DEF DropWriter, TablesInv, Scalars, InSession
<1>9. QED
  BY <1>2, <1>3, <1>4, <1>5, <1>6, <1>7, <1>8

\* A mapping stays good for a writer that grows, with one more offset or without.
LEMMA MappingKept ==
  ASSUME TablesInv, UNCHANGED source, Sound(writer'), Extends(writer, writer'),
         \/ mapping' = mapping
         \/ \E p \in Offsets(source), o \in Offsets(writer') :
              /\ mapping' = Mapped(p, o)
              /\ ToSet(ResolveFlags(writer', o)) = ToSet(ResolveFlags(source, p))
  PROVE  SameFlags'
<1>1. ASSUME NEW o \in DOMAIN mapping
      PROVE  /\ o \in Offsets(source)
             /\ mapping[o] \in Offsets(writer')
             /\ ToSet(ResolveFlags(writer', mapping[o])) = ToSet(ResolveFlags(source, o))
  <2>1. /\ o \in Offsets(source) /\ mapping[o] \in Offsets(writer)
        /\ ToSet(ResolveFlags(writer, mapping[o])) = ToSet(ResolveFlags(source, o))
    BY DEF TablesInv, SameFlags
  <2>2. mapping[o] \in Offsets(writer') /\ ResolveFlags(writer', mapping[o]) = ResolveFlags(writer, mapping[o])
    BY <2>1, GrownFlags
  <2>3. QED
    BY <2>1, <2>2
<1>2. CASE mapping' = mapping
  BY <1>1, <1>2 DEF SameFlags
<1>3. CASE \E p \in Offsets(source), o \in Offsets(writer') :
             /\ mapping' = Mapped(p, o)
             /\ ToSet(ResolveFlags(writer', o)) = ToSet(ResolveFlags(source, p))
  <2>1. PICK p \in Offsets(source), o \in Offsets(writer') :
             /\ mapping' = Mapped(p, o)
             /\ ToSet(ResolveFlags(writer', o)) = ToSet(ResolveFlags(source, p))
    BY <1>3
  <2>2. DOMAIN mapping' = DOMAIN mapping \cup {p}
    BY <2>1 DEF Mapped
  <2>3. \A q \in DOMAIN mapping' : mapping'[q] = IF q = p THEN o ELSE mapping[q]
    BY <2>1 DEF Mapped
  <2>4. ASSUME NEW q \in DOMAIN mapping'
        PROVE  /\ q \in Offsets(source)
               /\ mapping'[q] \in Offsets(writer')
               /\ ToSet(ResolveFlags(writer', mapping'[q])) = ToSet(ResolveFlags(source, q))
    <3>1. CASE q = p
      BY <2>1, <2>3, <3>1
    <3>2. CASE q # p
      BY <1>1, <2>2, <2>3, <3>2
    <3>3. QED
      BY <3>1, <3>2
  <2>5. QED
    BY <2>4 DEF SameFlags
<1>4. QED
  BY <1>2, <1>3

\* What a record that is carried over will mean is what it meant.
LEMMA CarriedMeaning ==
  [test |-> TestOf(source, source.tests[next]),
   flags |-> ToSet(ResolveFlags(source, source.tests[next].flag_set_offset))] = Meaning(source, next)
  BY DEF Meaning

\* rewrite never meets a meaning again, so that the record it adds is a new one.
LEMMA RewriteAddsRecord ==
  ASSUME TablesInv, RewriteLive, NEW u, NEW o, NEW n,
         Reflagged(u, o),
         AddedTo(u, TestOf(source, source.tests[next]), o, CommitsAt(source, next), writer', n)
  PROVE  /\ Sound(writer') /\ Extends(writer, writer')
         /\ Meaning(writer', n) = Meaning(source, next)
         /\ n = Len(writer.tests) + 1 /\ Len(writer'.tests) = n
         /\ \A i \in 1 .. Len(writer.tests) : Meaning(writer', i) = Meaning(writer, i)
         /\ Clean(writer')
<1>1. PICK t, v, s, k, test, hashes :
         /\ t = writer /\ v = writer' /\ s = source /\ k = next
         /\ test = TestOf(source, source.tests[next]) /\ hashes = CommitsAt(source, next)
  <2>1. PICK test : test = TestOf(source, source.tests[next])
    OBVIOUS
  <2>2. PICK hashes : hashes = CommitsAt(source, next)
    OBVIOUS
  <2>3. PICK t, v, s, k : t = writer /\ v = writer' /\ s = source /\ k = next
    OBVIOUS
  <2>4. QED
    BY <2>1, <2>2, <2>3
<1>2. /\ Sound(t) /\ Sound(s) /\ Clean(t) /\ k \in 1 .. Len(s.tests)
      /\ \A i \in 1 .. Len(t.tests) : \E j \in 1 .. Len(s.tests) : j < k /\ Meaning(t, i) = Meaning(s, j)
  BY <1>1, NextRecord DEF TablesInv, AllSound, Collected, RewriteLive
<1>3. /\ Sound(u) /\ Extends(t, u) /\ o \in Offsets(u)
      /\ u.tests = t.tests /\ u.failing = t.failing /\ u.commits = t.commits
      /\ Offsets(u) = Offsets(t) \cup {o}
      /\ ToSet(u.strings) \subseteq ToSet(t.strings) \cup ToSet(ResolveFlags(u, o))
      /\ ToSet(ResolveFlags(u, o)) = ToSet(ResolveFlags(s, s.tests[k].flag_set_offset))
  BY <1>1 DEF Reflagged
<1>4. AddedTo(u, test, o, hashes, v, n)
  BY <1>1
<1>5. Sound(v) /\ Extends(u, v)
  BY <1>4 DEF AddedTo
<1>6. Extends(t, v)
  BY <1>2, <1>3, <1>5, ExtendsTransitive
<1>7. Meaning(v, n) = Meaning(s, k)
  <2>1. /\ Meaning(v, n) = [test |-> test, flags |-> ToSet(ResolveFlags(u, o))]
        /\ \A i \in 1 .. Len(u.tests) : Meaning(v, i) = Meaning(u, i)
    BY <1>3, <1>4, AddedMeaning
  <2>2. test = TestOf(s, s.tests[k])
    BY <1>1
  <2>3. QED
    BY <1>3, <2>1, <2>2 DEF Meaning
<1>8. \A i \in 1 .. Len(t.tests) : Meaning(v, i) = Meaning(t, i)
  <2>1. \A i \in 1 .. Len(u.tests) : Meaning(v, i) = Meaning(u, i)
    BY <1>3, <1>4, AddedMeaning
  <2>2. \A i \in 1 .. Len(t.tests) : Meaning(u, i) = Meaning(t, i)
    BY <1>2, <1>3, ExtendsMeaning
  <2>3. QED
    BY <1>3, <2>1, <2>2
<1>9. n \notin 1 .. Len(t.tests)
  <2>1. SUFFICES ASSUME n \in 1 .. Len(t.tests)
                 PROVE  FALSE
    OBVIOUS
  <2>2. PICK j \in 1 .. Len(s.tests) : j < k /\ Meaning(t, n) = Meaning(s, j)
    BY <1>2, <2>1
  <2>3. Meaning(s, j) = Meaning(s, k)
    BY <1>7, <1>8, <2>1, <2>2
  <2>4. j = k
    BY <1>2, <2>3, MeaningsApart
  <2>5. QED
    BY <1>2, <2>2, <2>4, SoundTypes
<1>10. n = Len(t.tests) + 1 /\ Len(v.tests) = n
  BY <1>3, <1>4, <1>9 DEF AddedTo
<1>11. Clean(v)
  BY <1>2, <1>3, <1>4, <1>9, CleanAdded
<1>12. QED
  BY <1>1, <1>5, <1>6, <1>7, <1>8, <1>10, <1>11

LEMMA LoopSteps ==
  ASSUME TablesInv
  PROVE  /\ \A f, g \in DOMAIN files : MergeBegin(f, g) => TablesInv'
         /\ \A offset \in Unmapped : MergeFlags(offset) => TablesInv'
         /\ MergeRecord => TablesInv'
         /\ RewriteBegin => TablesInv'
         /\ RewriteDead => TablesInv'
         /\ RewriteLive => TablesInv'
         /\ LoopEnd => TablesInv'
<1>1. Sound(writer) /\ Sound(source)
  BY DEF TablesInv, AllSound
<1>2. ASSUME NEW f \in DOMAIN files, NEW g \in DOMAIN files, MergeBegin(f, g)
      PROVE  TablesInv'
  <2>1. Sound(writer') /\ Sound(source')
    BY <1>2, FileSound DEF MergeBegin
  <2>2. AllSound' /\ files' \in Seq(Files)
    BY <1>2, <2>1, FilesKept DEF MergeBegin
  <2>3. next' \in 1 .. Len(source'.tests) + 1
    BY <1>2, <2>1, SoundTypes DEF MergeBegin
  <2>4. DOMAIN mapping' = {}
    BY <1>2 DEF MergeBegin
  <2>5. QED
    BY <1>2, <2>2, <2>3, <2>4
       DEF MergeBegin, TablesInv, Scalars, InSession, SameFlags, AtRest, Collected
<1>3. ASSUME NEW offset \in Unmapped, MergeFlags(offset)
      PROVE  TablesInv'
  <2>1. PICK o : /\ WithFlags(writer, ResolveFlags(source, offset), writer', o)
                 /\ mapping' = Mapped(offset, o)
                 /\ offset \in Offsets(source)
    BY <1>3, MergeFlagsEffect
  <2>2. /\ Sound(writer') /\ Extends(writer, writer') /\ o \in Offsets(writer')
        /\ ToSet(ResolveFlags(writer', o)) = ToSet(ResolveFlags(source, offset))
    BY <2>1 DEF WithFlags
  <2>3. UNCHANGED source
    BY <1>3 DEF MergeFlags
  <2>4. SameFlags'
    BY <2>1, <2>2, <2>3, MappingKept
  <2>5. AllSound' /\ files' \in Seq(Files)
    BY <1>1, <1>3, <2>2, FilesKept DEF MergeFlags
  <2>6. QED
    BY <1>3, <2>4, <2>5 DEF MergeFlags, TablesInv, Scalars, InSession, AtRest, Collected
<1>4. ASSUME MergeRecord
      PROVE  TablesInv'
  <2>1. Sound(writer') /\ Extends(writer, writer')
    BY <1>4, MergeRecordEffect DEF AddedTo
  <2>2. UNCHANGED <<source, mapping>>
    BY <1>4 DEF MergeRecord
  <2>3. SameFlags'
    BY <2>1, <2>2, MappingKept
  <2>4. AllSound' /\ files' \in Seq(Files)
    BY <1>1, <1>4, <2>1, FilesKept DEF MergeRecord
  <2>5. next' \in 1 .. Len(source'.tests) + 1
    BY <1>1, <1>4, SoundTypes DEF MergeRecord, TablesInv, Scalars
  <2>6. QED
    BY <1>4, <2>3, <2>4, <2>5 DEF MergeRecord, TablesInv, Scalars, InSession, AtRest, Collected
<1>5. ASSUME RewriteBegin
      PROVE  TablesInv'
  <2>1. Sound(writer') /\ Sound(source') /\ Clean(writer') /\ Len(writer'.tests) = 0
    BY <1>1, <1>5, NewTablesSound DEF RewriteBegin
  <2>2. AllSound' /\ files' \in Seq(Files)
    BY <1>5, <2>1, FilesKept DEF RewriteBegin
  <2>3. next' \in 1 .. Len(source'.tests) + 1
    BY <1>5, <2>1, SoundTypes DEF RewriteBegin
  <2>4. DOMAIN mapping' = {}
    BY <1>5 DEF RewriteBegin
  <2>5. 1 .. Len(writer'.tests) = {}
    BY <2>1
  <2>6. QED
    BY <1>5, <2>1, <2>2, <2>3, <2>4, <2>5
       DEF RewriteBegin, TablesInv, Scalars, InSession, SameFlags, AtRest, Collected
<1>6. ASSUME RewriteDead
      PROVE  TablesInv'
  <2>1. AllSound' /\ files' \in Seq(Files)
    BY <1>1, <1>6, FilesKept DEF RewriteDead
  <2>2. next' \in 1 .. Len(source'.tests) + 1 /\ next' = next + 1 /\ next \in Nat
    BY <1>1, <1>6, SoundTypes DEF RewriteDead, TablesInv, Scalars
  <2>3. Collected'
    <3>1. /\ Clean(writer)
          /\ \A i \in 1 .. Len(writer.tests) :
               \E j \in 1 .. Len(source.tests) : j < next /\ Meaning(writer, i) = Meaning(source, j)
      BY <1>6 DEF TablesInv, Collected, RewriteDead
    <3>2. \A j \in 1 .. Len(source.tests) : j < next => j < next'
      BY <2>2
    <3>3. UNCHANGED <<writer, source>>
      BY <1>6 DEF RewriteDead
    <3>4. QED
      BY <3>1, <3>2, <3>3 DEF Collected
  <2>4. QED
    BY <1>6, <2>1, <2>2, <2>3 DEF RewriteDead, TablesInv, Scalars, InSession, SameFlags, AtRest
<1>7. ASSUME RewriteLive
      PROVE  TablesInv'
  <2>1. PICK u, o, n :
           /\ Reflagged(u, o)
           /\ AddedTo(u, TestOf(source, source.tests[next]), o, CommitsAt(source, next), writer', n)
           /\ \/ mapping' = mapping
              \/ mapping' = Mapped(source.tests[next].flag_set_offset, o)
    BY <1>7, RewriteLiveEffect
  <2>2. /\ Sound(writer') /\ Extends(writer, writer')
        /\ Meaning(writer', n) = Meaning(source, next)
        /\ n = Len(writer.tests) + 1 /\ Len(writer'.tests) = n
        /\ \A i \in 1 .. Len(writer.tests) : Meaning(writer', i) = Meaning(writer, i)
        /\ Clean(writer')
    BY <1>7, <2>1, RewriteAddsRecord
  <2>3. UNCHANGED source /\ next' = next + 1 /\ phase = "rewrite"
    BY <1>7 DEF RewriteLive
  <2>4. next \in 1 .. Len(source.tests) /\ source.tests[next].flag_set_offset \in Offsets(source)
    BY <1>7, NextRecord DEF RewriteLive
  <2>5. SameFlags'
    <3>1. Extends(u, writer') /\ Sound(u) /\ o \in Offsets(u)
          /\ ToSet(ResolveFlags(u, o)) = ToSet(ResolveFlags(source, source.tests[next].flag_set_offset))
      BY <2>1 DEF AddedTo, Reflagged
    <3>2. PICK v : v = writer'
      OBVIOUS
    <3>3. o \in Offsets(v) /\ ResolveFlags(v, o) = ResolveFlags(u, o)
      BY <2>2, <3>1, <3>2, ExtendsKeepsMeaning
    <3>4. o \in Offsets(writer')
          /\ ToSet(ResolveFlags(writer', o)) = ToSet(ResolveFlags(source, source.tests[next].flag_set_offset))
      <4>1. o \in Offsets(writer') /\ ResolveFlags(writer', o) = ResolveFlags(u, o)
        BY <3>2, <3>3
      <4>2. QED
        BY <3>1, <4>1
    <3>5. QED
      BY <2>1, <2>2, <2>3, <2>4, <3>4, MappingKept
  <2>6. AllSound' /\ files' \in Seq(Files)
    BY <1>1, <1>7, <2>2, FilesKept DEF RewriteLive
  <2>7. next' \in 1 .. Len(source'.tests) + 1 /\ next \in Nat /\ Len(writer.tests) \in Nat
    BY <1>1, <2>3, <2>4, SoundTypes
  <2>8. Collected'
    <3>1. ASSUME NEW i \in 1 .. Len(writer'.tests)
          PROVE  \E j \in 1 .. Len(source.tests) : j < next' /\ Meaning(writer', i) = Meaning(source, j)
      <4>1. CASE i = n
        BY <2>2, <2>3, <2>4, <2>7, <4>1
      <4>2. CASE i # n
        <5>1. i \in 1 .. Len(writer.tests)
          BY <2>2, <2>7, <4>2
        <5>2. PICK j \in 1 .. Len(source.tests) : j < next /\ Meaning(writer, i) = Meaning(source, j)
          BY <2>3, <5>1 DEF TablesInv, Collected
        <5>3. j < next'
          BY <2>3, <2>7, <5>2
        <5>4. QED
          BY <2>2, <5>1, <5>2, <5>3
      <4>3. QED
        BY <4>1, <4>2
    <3>2. QED
      BY <2>2, <2>3, <3>1 DEF Collected
  <2>9. QED
    BY <1>7, <2>5, <2>6, <2>7, <2>8 DEF RewriteLive, TablesInv, Scalars, InSession, AtRest
<1>8. ASSUME LoopEnd
      PROVE  TablesInv'
  <2>1. Sound(writer') /\ Sound(source') /\ Len(source'.tests) = 0
    BY <1>1, <1>8, NewTablesSound DEF LoopEnd
  <2>2. AllSound' /\ files' \in Seq(Files)
    BY <1>8, <2>1, FilesKept DEF LoopEnd
  <2>3. next' \in 1 .. Len(source'.tests) + 1
    BY <1>8, <2>1 DEF LoopEnd
  <2>4. DOMAIN mapping' = {}
    BY <1>8 DEF LoopEnd
  <2>5. QED
    BY <1>8, <2>2, <2>3, <2>4
       DEF LoopEnd, TablesInv, Scalars, InSession, SameFlags, AtRest, Collected
<1>9. QED
  BY <1>2, <1>3, <1>4, <1>5, <1>6, <1>7, <1>8

\* The invariant of all the theorems below.
LEMMA TablesAlways == Spec => []TablesInv
<1>1. TablesInv /\ [Next]_vars => TablesInv'
  <2>1. SUFFICES ASSUME TablesInv, [Next]_vars
                 PROVE  TablesInv'
    OBVIOUS
  <2>2. CASE Next
    BY <2>1, <2>2, SessionSteps, LoopSteps DEF Next
  <2>3. CASE UNCHANGED vars
    BY <2>1, <2>3 DEF vars, TablesInv, Scalars, AllSound, InSession, SameFlags, AtRest, Collected
  <2>4. QED
    BY <2>1, <2>2, <2>3
<1>2. QED
  BY <1>1, TablesInit, PTL DEF Spec

-----------------------------------------------------------------------------
(* Theorems.                                                               *)

\* Tables that belong together are what the type invariant asks for.
LEMMA SoundIsGood ==
  ASSUME NEW t, Sound(t)
  PROVE  /\ GoodTables(t)
         /\ \A o \in Offsets(t) : \E key \in DOMAIN t.flags_map : t.flags_map[key] = o
<1>1. /\ t.strings \in Seq(Nat) /\ t.flags_table \in Seq(Nat) /\ t.commits \in Seq(SUBSET Commits)
      /\ t.tests \in Seq(Records) /\ Len(t.failing) = Len(t.tests)
  BY SoundTypes
<1>2. DOMAIN t.strings = 1 .. Len(t.strings) /\ DOMAIN t.commits = 1 .. Len(t.commits)
      /\ DOMAIN t.tests = 1 .. Len(t.tests)
  BY <1>1
<1>3. \A o \in Offsets(t) : \E key \in DOMAIN t.flags_map : t.flags_map[key] = o
  BY DEF Offsets
<1>4. ASSUME NEW i \in DOMAIN t.tests
      PROVE  /\ t.tests[i].testsuite_offset + 1 \in DOMAIN t.strings
             /\ t.tests[i].name_offset + 1 \in DOMAIN t.strings
             /\ \E key \in DOMAIN t.flags_map : t.flags_map[key] = t.tests[i].flag_set_offset
             /\ t.failing[i] + 1 \in DOMAIN t.commits
  <2>1. Refers(t, t.tests[i]) /\ t.failing[i] + 1 \in 1 .. Len(t.commits)
    BY <1>2 DEF Sound
  <2>2. QED
    BY <1>2, <1>3, <2>1 DEF Refers
<1>5. ASSUME NEW key \in DOMAIN t.flags_map, NEW i \in DOMAIN key
      PROVE  key[i] + 1 \in DOMAIN t.strings
  <2>1. Names(t.strings, key)
    BY DEF Sound
  <2>2. key \in Seq(Nat) /\ \A j \in 1 .. Len(key) : key[j] + 1 \in 1 .. Len(t.strings)
    BY <2>1 DEF Names
  <2>3. i \in 1 .. Len(key)
    BY <2>2
  <2>4. QED
    BY <1>2, <2>2, <2>3
<1>6. QED
  BY <1>1, <1>3, <1>4, <1>5 DEF GoodTables

\* Every offset a record, a session or a mapping holds is one of the table it
\* refers to: what the writer has written, it can read, merge and rewrite.
THEOREM OffsetsReferToTables == Spec => []TypeOK
<1>1. TablesInv => TypeOK
  <2>1. SUFFICES ASSUME TablesInv
                 PROVE  TypeOK
    OBVIOUS
  <2>2. GoodTables(writer) /\ GoodTables(source)
    BY <2>1, SoundIsGood DEF TablesInv, AllSound
  <2>3. files # <<>> => GoodTables(Parsed(Last(files)))
    <3>1. SUFFICES ASSUME files # <<>>
                   PROVE  GoodTables(Parsed(Last(files)))
      OBVIOUS
    <3>2. files \in Seq(Files)
      BY <2>1 DEF TablesInv, Scalars
    <3>3. Len(files) \in 1 .. Len(files)
      BY <3>1, <3>2
    <3>4. Sound(Parsed(files[Len(files)]))
      BY <2>1, <3>3 DEF TablesInv, AllSound
    <3>5. QED
      BY <3>4, SoundIsGood DEF Last
  <2>4. \A o \in Offsets(writer) : \E key \in DOMAIN writer.flags_map : writer.flags_map[key] = o
    BY DEF Offsets
  <2>5. phase = "session" => \E key \in DOMAIN writer.flags_map :
                               writer.flags_map[key] = session.flag_set_offset
    BY <2>1, <2>4 DEF TablesInv, InSession
  <2>6. \A o \in DOMAIN mapping : \E key \in DOMAIN writer.flags_map : writer.flags_map[key] = mapping[o]
    BY <2>1, <2>4 DEF TablesInv, SameFlags
  <2>7. QED
    BY <2>1, <2>2, <2>3, <2>5, <2>6 DEF TypeOK, TablesInv, Scalars
<1>2. QED
  BY <1>1, TablesAlways, PTL

\* Two records of a writer differ in what they mean, not only in their offsets.
THEOREM MeaningsStayUnique == Spec => []MeaningsUnique
<1>1. TablesInv => MeaningsUnique
  <2>1. SUFFICES ASSUME TablesInv
                 PROVE  MeaningsUnique
    OBVIOUS
  <2>2. PICK t : t = writer
    OBVIOUS
  <2>3. Sound(t)
    BY <2>1, <2>2 DEF TablesInv, AllSound
  <2>4. DOMAIN t.tests = 1 .. Len(t.tests)
    BY <2>3, SoundTypes
  <2>5. \A i, j \in DOMAIN t.tests : Meaning(t, i) = Meaning(t, j) => i = j
    BY <2>3, <2>4, MeaningsApart
  <2>6. QED
    BY <2>2, <2>5 DEF MeaningsUnique
<1>2. QED
  BY <1>1, TablesAlways, PTL

\* FlagsSet::load of the table of a writer is the index FlagsSet::insert has kept.
THEOREM LoadFindsWhatInsertMade == Spec => []LoadMatchesInsert
<1>1. TablesInv => LoadMatchesInsert
  <2>1. SUFFICES ASSUME TablesInv
                 PROVE  LoadMatchesInsert
    OBVIOUS
  <2>2. PICK map, table : map = writer.flags_map /\ table = writer.flags_table
    OBVIOUS
  <2>3. Indexed(map, table)
    BY <2>1, <2>2 DEF TablesInv, AllSound, Sound
  <2>4. LoadFlags(table) = map
    BY <2>3, LoadFindsIndex
  <2>5. QED
    BY <2>2, <2>4 DEF LoadMatchesInsert
<1>2. QED
  BY <1>1, TablesAlways, PTL

\* append_intersection finds a set that is stored.
LEMMA KnownSetStays ==
  ASSUME NEW table \in Seq(SUBSET Commits), Unique(table),
         NEW o \in 0 .. Len(table) - 1, NEW hashes \in SUBSET ReadAt(table, o)
  PROVE  AppendIntersection(table, o, hashes) = [commits |-> table, offset |-> o]
<1>1. Len(table) \in Nat /\ o + 1 \in 1 .. Len(table) /\ o \in Nat /\ o + 1 - 1 = o
  OBVIOUS
<1>2. PICK set : set = ReadAt(table, o) \cup hashes
  OBVIOUS
<1>3. set = table[o + 1]
  BY <1>2 DEF ReadAt
<1>4. set \in ToSet(table)
  BY <1>1, <1>3, ToSetOfSeq
<1>5. Interned(table, set) = table
  BY <1>4 DEF Interned
<1>6. OffsetOf(table, set) = o
  BY <1>1, <1>3, <1>4, OffsetOfValue
<1>7. QED
  BY <1>2, <1>5, <1>6 DEF AppendIntersection

\* The doc of append_intersection: a set that includes the new hashes keeps its offset.
THEOREM KnownCommitsStay == Spec => []KnownCommitsKeepOffset
<1>1. TablesInv => KnownCommitsKeepOffset
  <2>1. SUFFICES ASSUME TablesInv
                 PROVE  KnownCommitsKeepOffset
    OBVIOUS
  <2>2. PICK table : table = writer.commits
    OBVIOUS
  <2>3. table \in Seq(SUBSET Commits) /\ Unique(table)
    BY <2>1, <2>2, SoundTypes DEF TablesInv, AllSound, Sound
  <2>4. \A o \in 0 .. Len(table) - 1 : \A hashes \in SUBSET ReadAt(table, o) :
          AppendIntersection(table, o, hashes) = [commits |-> table, offset |-> o]
    BY <2>3, KnownSetStays
  <2>5. QED
    BY <2>2, <2>4 DEF KnownCommitsKeepOffset
<1>2. QED
  BY <1>1, TablesAlways, PTL

\* The tables rewrite builds have no string, flags or commits without a record.
THEOREM RewriteCollectsGarbage == Spec => []RewriteLeavesNoGarbage
<1>1. TablesInv => RewriteLeavesNoGarbage
  <2>1. SUFFICES ASSUME TablesInv, phase = "rewrite"
                 PROVE  /\ {o + 1 : o \in UsedStrings(writer)} = DOMAIN writer.strings
                        /\ Offsets(writer) = {r.flag_set_offset : r \in ToSet(writer.tests)}
                        /\ ToSet(writer.failing) \cup {0} = 0 .. Len(writer.commits) - 1
    BY DEF RewriteLeavesNoGarbage, Offsets
  <2>2. PICK t : t = writer
    OBVIOUS
  <2>3. Sound(t) /\ Clean(t)
    BY <2>1, <2>2 DEF TablesInv, AllSound, Collected
  <2>4. /\ {o + 1 : o \in UsedStrings(t)} = DOMAIN t.strings
        /\ Offsets(t) = {r.flag_set_offset : r \in ToSet(t.tests)}
        /\ ToSet(t.failing) \cup {0} = 0 .. Len(t.commits) - 1
    BY <2>3, CleanUses
  <2>5. QED
    BY <2>2, <2>4
<1>2. QED
  BY <1>1, TablesAlways, PTL

-----------------------------------------------------------------------------
(* The refinement.                                                         *)

LEMMA NewTablesSayNothing == Resolved(NewTables, 1) = Abstract!Nothing
<1>1. 1 \in Nat \ {0} /\ 1 > 0
  OBVIOUS
<1>2. QED
  BY <1>1, NewTablesSound, ResolvedNothing

LEMMA FileSays == ASSUME NEW f
                  PROVE  Resolved(Parsed(f), 1) = Resolved(f, 1)
<1>1. PICK t : t = Parsed(f)
  OBVIOUS
<1>2. /\ t.strings = f.strings /\ t.flags_table = f.flags_table /\ t.commits = f.commits
      /\ t.tests = f.tests /\ t.failing = f.failing
  BY <1>1 DEF Parsed
<1>3. Resolved(t, 1) = Resolved(f, 1)
  BY <1>2, ResolvedOf
<1>4. QED
  BY <1>1, <1>3

LEMMA SavedValue ==
  ASSUME TablesInv
  PROVE  /\ DOMAIN Saved = DOMAIN files
         /\ \A f \in DOMAIN files : Saved[f] = Resolved(files[f], 1)
         /\ \A f \in DOMAIN files : Resolved(Parsed(files[f]), 1) = Saved[f]
<1>1. DOMAIN Saved = DOMAIN files /\ \A f \in DOMAIN files : Saved[f] = Resolved(files[f], 1)
  BY DEF Saved
<1>2. QED
  BY <1>1, FileSays

\* A written file says what the writer knew.
LEMMA SavedGrows ==
  ASSUME TablesInv, Serialize
  PROVE  Saved' = Append(Saved, Known)
<1> DEFINE n == Len(files)
           All == {Resolved(files[f], 1) : f \in DOMAIN files} \cup {Known}
<1>1. /\ n \in Nat /\ DOMAIN files = 1 .. n /\ DOMAIN files' = 1 .. n + 1
      /\ \A f \in 1 .. n : files'[f] = files[f]
      /\ files'[n + 1] = FileOf(writer)
  <2>1. files \in Seq(Files)
    BY DEF TablesInv, Scalars
  <2>2. QED
    BY <2>1, FileWritten
<1>2. Resolved(FileOf(writer), 1) = Known
  BY FileWritten, FileSays DEF Known
<1>3. Saved = [f \in 1 .. n |-> Resolved(files[f], 1)]
  BY <1>1 DEF Saved
<1>4. Saved' = [f \in 1 .. n + 1 |-> Resolved(files'[f], 1)]
  BY <1>1 DEF Saved
<1>5. Saved \in Seq(All) /\ Len(Saved) = n
  BY <1>1, <1>3
<1>6. Saved' \in Seq(All) /\ Len(Saved') = n + 1
  <2>1. \A f \in 1 .. n + 1 : Resolved(files'[f], 1) \in All
    <3>1. ASSUME NEW f \in 1 .. n + 1
          PROVE  Resolved(files'[f], 1) \in All
      <4>1. CASE f = n + 1
        BY <1>1, <1>2, <4>1
      <4>2. CASE f # n + 1
        <5>1. f \in 1 .. n
          BY <1>1, <4>2
        <5>2. QED
          BY <1>1, <5>1
      <4>3. QED
        BY <4>1, <4>2
    <3>2. QED
      BY <3>1
  <2> HIDE DEF All
  <2>2. QED
    BY <1>1, <1>4, <2>1
<1>7. Known \in All
  OBVIOUS
<1> HIDE DEF n, All
<1>8. /\ Append(Saved, Known) \in Seq(All) /\ Len(Append(Saved, Known)) = n + 1
      /\ \A f \in 1 .. n : Append(Saved, Known)[f] = Saved[f]
      /\ Append(Saved, Known)[n + 1] = Known
  BY <1>5, <1>7, AppendProperties
<1>9. \A f \in 1 .. n + 1 : Saved'[f] = Append(Saved, Known)[f]
  <2>1. ASSUME NEW f \in 1 .. n + 1
        PROVE  Saved'[f] = Append(Saved, Known)[f]
    <3>1. CASE f = n + 1
      BY <1>1, <1>2, <1>4, <1>8, <3>1
    <3>2. CASE f # n + 1
      <4>1. f \in 1 .. n
        BY <1>1, <3>2
      <4>2. Saved'[f] = Resolved(files[f], 1)
        BY <1>1, <1>4, <4>1
      <4>3. QED
        BY <1>3, <1>8, <4>1, <4>2
    <3>3. QED
      BY <3>1, <3>2
  <2>2. QED
    BY <2>1
<1>10. QED
  BY <1>6, <1>8, <1>9, SeqEqual

LEMMA KnownAfterInsert ==
  ASSUME TablesInv, NEW test \in Tests, NEW failed \in BOOLEAN, Insert(test, failed)
  PROVE  \E key \in Abstract!Keys :
           Known' = Abstract!Adding(Known, key, IF failed THEN {session.commit} ELSE {})
<1>1. PICK n : AddedTo(writer, test, session.flag_set_offset,
                       IF failed THEN {session.commit} ELSE {}, writer', n)
  BY InsertEffect
<1>2. PICK t, v, o, hashes :
         /\ t = writer /\ v = writer' /\ o = session.flag_set_offset
         /\ hashes = IF failed THEN {session.commit} ELSE {}
  OBVIOUS
<1>3. Sound(t) /\ o \in Offsets(t) /\ AddedTo(t, test, o, hashes, v, n)
  BY <1>1, <1>2 DEF TablesInv, AllSound, InSession, Insert
<1>4. PICK key : key = [test |-> test, flags |-> ToSet(ResolveFlags(t, o))]
  OBVIOUS
<1>5. Resolved(v, 1) = Abstract!Adding(Resolved(t, 1), key, hashes)
  BY <1>3, <1>4, ResolvedAdded
<1>6. \E flags \in FlagLists : ToSet(ResolveFlags(t, o)) = ToSet(flags)
  BY <1>2 DEF TablesInv, InSession, Insert
<1>7. key \in Abstract!Keys
  BY <1>4, <1>6 DEF Abstract!Keys
<1>8. Known' = Abstract!Adding(Known, key, IF failed THEN {session.commit} ELSE {})
  BY <1>2, <1>5 DEF Known
<1>9. QED
  BY <1>7, <1>8

\* A step of a loop takes the next record from what is pending.
LEMMA PendingAfterRecord ==
  ASSUME TablesInv, next <= Len(source.tests), next' = next + 1, UNCHANGED source
  PROVE  /\ Meaning(source, next) \in DOMAIN Pending
         /\ Pending[Meaning(source, next)] = CommitsAt(source, next)
         /\ Pending' = Abstract!Without(Pending, Meaning(source, next))
<1>1. PICK s, i : s = source /\ i = next
  OBVIOUS
<1>2. Sound(s) /\ i \in 1 .. Len(s.tests)
  BY <1>1, NextRecord DEF TablesInv, AllSound
<1>3. /\ Resolved(s, i + 1) = Abstract!Without(Resolved(s, i), Meaning(s, i))
      /\ Meaning(s, i) \in DOMAIN Resolved(s, i)
      /\ Resolved(s, i)[Meaning(s, i)] = CommitsAt(s, i)
  BY <1>2, ResolvedRest
<1>4. QED
  BY <1>1, <1>3 DEF Pending

LEMMA KnownAfterMerge ==
  ASSUME TablesInv, MergeRecord
  PROVE  Known' = Abstract!Adding(Known, Meaning(source, next), CommitsAt(source, next))
<1>1. PICK o, n : /\ o \in Offsets(writer)
                  /\ AddedTo(writer, TestOf(source, source.tests[next]), o,
                             CommitsAt(source, next), writer', n)
                  /\ ToSet(ResolveFlags(writer, o))
                       = ToSet(ResolveFlags(source, source.tests[next].flag_set_offset))
  BY MergeRecordEffect
<1>2. PICK t, v, test, hashes :
         /\ t = writer /\ v = writer' /\ test = TestOf(source, source.tests[next])
         /\ hashes = CommitsAt(source, next)
  OBVIOUS
<1>3. Sound(t) /\ o \in Offsets(t) /\ AddedTo(t, test, o, hashes, v, n)
  BY <1>1, <1>2 DEF TablesInv, AllSound
<1>4. Resolved(v, 1) = Abstract!Adding(Resolved(t, 1), [test |-> test, flags |-> ToSet(ResolveFlags(t, o))], hashes)
  BY <1>3, ResolvedAdded
<1>5. [test |-> test, flags |-> ToSet(ResolveFlags(t, o))] = Meaning(source, next)
  BY <1>1, <1>2 DEF Meaning
<1>6. QED
  BY <1>2, <1>4, <1>5 DEF Known

LEMMA KnownAfterRewrite ==
  ASSUME TablesInv, RewriteLive
  PROVE  Known' = Abstract!Adding(Known, Meaning(source, next), CommitsAt(source, next))
<1>1. PICK u, o, n :
         /\ Reflagged(u, o)
         /\ AddedTo(u, TestOf(source, source.tests[next]), o, CommitsAt(source, next), writer', n)
  BY RewriteLiveEffect
<1>2. PICK t, v, test, hashes :
         /\ t = writer /\ v = writer' /\ test = TestOf(source, source.tests[next])
         /\ hashes = CommitsAt(source, next)
  OBVIOUS
<1>3. /\ Sound(t) /\ Sound(u) /\ Extends(t, u) /\ o \in Offsets(u)
      /\ u.tests = t.tests /\ u.failing = t.failing /\ u.commits = t.commits
      /\ AddedTo(u, test, o, hashes, v, n)
  BY <1>1, <1>2 DEF TablesInv, AllSound, Reflagged
<1>4. 1 \in Nat \ {0}
  OBVIOUS
<1>5. Resolved(u, 1) = Resolved(t, 1)
  BY <1>3, <1>4, ResolvedExtends
<1>6. Resolved(v, 1) = Abstract!Adding(Resolved(u, 1), [test |-> test, flags |-> ToSet(ResolveFlags(u, o))], hashes)
  BY <1>3, ResolvedAdded
<1>7. [test |-> test, flags |-> ToSet(ResolveFlags(u, o))] = Meaning(source, next)
  BY <1>1, <1>2 DEF Meaning, Reflagged
<1>8. QED
  BY <1>2, <1>5, <1>6, <1>7 DEF Known

\* A set of flags more says nothing of a test.
LEMMA KnownAfterFlags ==
  ASSUME TablesInv, NEW flags, NEW o, WithFlags(writer, flags, writer', o)
  PROVE  Known' = Known
<1>1. PICK t, v : t = writer /\ v = writer'
  OBVIOUS
<1>2. /\ Sound(t) /\ Sound(v) /\ Extends(t, v)
      /\ v.tests = t.tests /\ v.failing = t.failing /\ v.commits = t.commits
  BY <1>1 DEF TablesInv, AllSound, WithFlags
<1>3. 1 \in Nat \ {0}
  OBVIOUS
<1>4. Resolved(v, 1) = Resolved(t, 1)
  BY <1>2, <1>3, ResolvedExtends
<1>5. QED
  BY <1>1, <1>4 DEF Known

\* Steps without merge or rewrite.
LEMMA SessionStepsMap ==
  ASSUME TablesInv
  PROVE  /\ New => Abstract!Next
         /\ \A f \in DOMAIN files : Open(f) => Abstract!Next
         /\ \A flags \in FlagLists, commit \in Commits :
              StartSession(flags, commit) => UNCHANGED <<Known, Pending, Task, Saved>>
         /\ \A test \in Tests, failed \in BOOLEAN : Insert(test, failed) => Abstract!Next
         /\ EndSession => UNCHANGED <<Known, Pending, Task, Saved>>
         /\ Serialize => Abstract!Next
         /\ DropWriter => Abstract!Next
<1>1. ASSUME New \/ DropWriter
      PROVE  Abstract!Next
  <2>1. Known' = Abstract!Nothing
    BY <1>1, NewTablesSayNothing DEF New, DropWriter, Known
  <2>2. UNCHANGED <<Pending, Task, Saved>> /\ Task = "none"
    BY <1>1 DEF New, DropWriter, Pending, Task, Saved
  <2>3. Abstract!Forget
    BY <2>1, <2>2 DEF Abstract!Forget
  <2>4. QED
    BY <2>3 DEF Abstract!Next
<1>2. ASSUME NEW f \in DOMAIN files, Open(f)
      PROVE  Abstract!Next
  <2>1. Known' = Saved[f]
    BY <1>2, SavedValue DEF Open, Known
  <2>2. UNCHANGED <<Pending, Task, Saved>> /\ Task = "none"
    BY <1>2 DEF Open, Pending, Task, Saved
  <2>3. Abstract!Open(f) /\ f \in DOMAIN Saved
    BY <2>1, <2>2, SavedValue DEF Abstract!Open
  <2>4. QED
    BY <2>3 DEF Abstract!Next
<1>3. ASSUME NEW flags \in FlagLists, NEW commit \in Commits, StartSession(flags, commit)
      PROVE  UNCHANGED <<Known, Pending, Task, Saved>>
  <2>1. Known' = Known
    BY <1>3, StartSessionEffect, KnownAfterFlags
  <2>2. UNCHANGED <<Pending, Task, Saved>>
    BY <1>3 DEF StartSession, Pending, Task, Saved
  <2>3. QED
    BY <2>1, <2>2
<1>4. ASSUME NEW test \in Tests, NEW failed \in BOOLEAN, Insert(test, failed)
      PROVE  Abstract!Next
  <2>1. PICK key \in Abstract!Keys :
          Known' = Abstract!Adding(Known, key, IF failed THEN {session.commit} ELSE {})
    BY <1>4, KnownAfterInsert
  <2>2. UNCHANGED <<Pending, Task, Saved>> /\ Task = "none"
    BY <1>4 DEF Insert, Pending, Task, Saved
  <2>3. session.commit \in Commits
    BY <1>4 DEF TablesInv, InSession, Insert
  <2>4. Abstract!Run(key, {}) \/ Abstract!Run(key, {session.commit})
    BY <2>1, <2>2 DEF Abstract!Run
  <2>5. QED
    BY <2>3, <2>4 DEF Abstract!Next
<1>5. ASSUME EndSession
      PROVE  UNCHANGED <<Known, Pending, Task, Saved>>
  BY <1>5 DEF EndSession, Known, Pending, Task, Saved
<1>6. ASSUME Serialize
      PROVE  Abstract!Next
  <2>1. Known' = Abstract!Nothing
    BY <1>6, NewTablesSayNothing DEF Serialize, Known
  <2>2. UNCHANGED <<Pending, Task>> /\ Task = "none"
    BY <1>6 DEF Serialize, Pending, Task
  <2>3. Saved' = Append(Saved, Known)
    BY <1>6, SavedGrows
  <2>4. Abstract!Save
    BY <2>1, <2>2, <2>3 DEF Abstract!Save
  <2>5. QED
    BY <2>4 DEF Abstract!Next
<1>7. QED
  BY <1>1, <1>2, <1>3, <1>4, <1>5, <1>6

\* The steps of merge and rewrite.
LEMMA LoopStepsMap ==
  ASSUME TablesInv
  PROVE  /\ \A f, g \in DOMAIN files : MergeBegin(f, g) => Abstract!Next
         /\ \A offset \in Unmapped : MergeFlags(offset) => UNCHANGED <<Known, Pending, Task, Saved>>
         /\ MergeRecord => Abstract!Next
         /\ RewriteBegin => Abstract!Next
         /\ RewriteDead => Abstract!Next
         /\ RewriteLive => Abstract!Next
         /\ LoopEnd => Abstract!Next
<1>1. ASSUME NEW f \in DOMAIN files, NEW g \in DOMAIN files, MergeBegin(f, g)
      PROVE  Abstract!Next
  <2>1. Known' = Saved[f] /\ Pending' = Saved[g]
    BY <1>1, SavedValue DEF MergeBegin, Known, Pending
  <2>2. UNCHANGED Saved /\ Task = "none" /\ Task' = "merge"
    BY <1>1 DEF MergeBegin, Task, Saved
  <2>3. Abstract!MergeBegin(f, g) /\ f \in DOMAIN Saved /\ g \in DOMAIN Saved
    BY <2>1, <2>2, SavedValue DEF Abstract!MergeBegin
  <2>4. QED
    BY <2>3 DEF Abstract!Next
<1>2. ASSUME NEW offset \in Unmapped, MergeFlags(offset)
      PROVE  UNCHANGED <<Known, Pending, Task, Saved>>
  <2>1. Known' = Known
    BY <1>2, MergeFlagsEffect, KnownAfterFlags
  <2>2. UNCHANGED <<Pending, Task, Saved>>
    BY <1>2 DEF MergeFlags, Pending, Task, Saved
  <2>3. QED
    BY <2>1, <2>2
<1>3. ASSUME MergeRecord \/ RewriteLive
      PROVE  Abstract!Next
  <2>1. Known' = Abstract!Adding(Known, Meaning(source, next), CommitsAt(source, next))
    BY <1>3, KnownAfterMerge, KnownAfterRewrite
  <2>2. /\ Meaning(source, next) \in DOMAIN Pending
        /\ Pending[Meaning(source, next)] = CommitsAt(source, next)
        /\ Pending' = Abstract!Without(Pending, Meaning(source, next))
    <3>1. next <= Len(source.tests) /\ next' = next + 1 /\ UNCHANGED source
      BY <1>3 DEF MergeRecord, RewriteLive
    <3>2. QED
      BY <3>1, PendingAfterRecord
  <2>3. UNCHANGED <<Task, Saved>> /\ Task # "none"
    BY <1>3 DEF MergeRecord, RewriteLive, Task, Saved
  <2>4. Abstract!CarryOver(Meaning(source, next))
    BY <2>1, <2>2, <2>3 DEF Abstract!CarryOver
  <2>5. QED
    BY <2>2, <2>4 DEF Abstract!Next
<1>4. ASSUME RewriteBegin
      PROVE  Abstract!Next
  <2>1. Known' = Abstract!Nothing /\ Pending' = Known
    BY <1>4, NewTablesSayNothing DEF RewriteBegin, Known, Pending
  <2>2. UNCHANGED Saved /\ Task = "none" /\ Task' = "rewrite"
    BY <1>4 DEF RewriteBegin, Task, Saved
  <2>3. Abstract!RewriteBegin
    BY <2>1, <2>2 DEF Abstract!RewriteBegin
  <2>4. QED
    BY <2>3 DEF Abstract!Next
<1>5. ASSUME RewriteDead
      PROVE  Abstract!Next
  <2>1. /\ Meaning(source, next) \in DOMAIN Pending
        /\ Pending' = Abstract!Without(Pending, Meaning(source, next))
    <3>1. next <= Len(source.tests) /\ next' = next + 1 /\ UNCHANGED source
      BY <1>5 DEF RewriteDead
    <3>2. QED
      BY <3>1, PendingAfterRecord
  <2>2. UNCHANGED <<Known, Task, Saved>> /\ Task = "rewrite"
    BY <1>5 DEF RewriteDead, Known, Task, Saved
  <2>3. Abstract!Drop(Meaning(source, next))
    BY <2>1, <2>2 DEF Abstract!Drop
  <2>4. QED
    BY <2>1, <2>3 DEF Abstract!Next
<1>6. ASSUME LoopEnd
      PROVE  Abstract!Next
  <2>1. Pending = Abstract!Nothing
    <3>1. PICK s, i : s = source /\ i = next
      OBVIOUS
    <3>2. Sound(s) /\ i \in Nat \ {0} /\ i > Len(s.tests)
      BY <1>6, <3>1 DEF LoopEnd, TablesInv, AllSound, Scalars
    <3>3. Resolved(s, i) = Abstract!Nothing
      BY <3>2, ResolvedNothing
    <3>4. QED
      BY <3>1, <3>3 DEF Pending
  <2>2. Pending' = Abstract!Nothing
    BY <1>6, NewTablesSayNothing DEF LoopEnd, Pending
  <2>3. UNCHANGED <<Known, Saved>> /\ Task # "none" /\ Task' = "none"
    BY <1>6 DEF LoopEnd, Known, Task, Saved
  <2>4. Abstract!Finish
    BY <2>1, <2>2, <2>3 DEF Abstract!Finish
  <2>5. QED
    BY <2>4 DEF Abstract!Next
<1>7. QED
  BY <1>1, <1>2, <1>3, <1>4, <1>5, <1>6

\* The tables implement FailingTests: New and DropWriter forget, Insert is a run,
\* MergeRecord and RewriteLive carry a record over, RewriteDead drops one, and the
\* steps that only intern flags are not seen.
THEOREM TablesImplementFailingTests == Spec => ImplementsFailingTests
<1>1. Init => Abstract!Init
  <2>1. SUFFICES ASSUME Init
                 PROVE  Abstract!Init
    OBVIOUS
  <2>2. Known = Abstract!Nothing /\ Pending = Abstract!Nothing
    BY <2>1, NewTablesSayNothing DEF Init, Known, Pending
  <2>3. Task = "none" /\ Saved = <<>>
    BY <2>1 DEF Init, Task, Saved
  <2>4. QED
    BY <2>2, <2>3 DEF Abstract!Init
<1>2. TablesInv /\ [Next]_vars => [Abstract!Next]_<<Known, Pending, Task, Saved>>
  <2>1. SUFFICES ASSUME TablesInv, [Next]_vars
                 PROVE  [Abstract!Next]_<<Known, Pending, Task, Saved>>
    OBVIOUS
  <2>2. CASE Next
    BY <2>1, <2>2, SessionStepsMap, LoopStepsMap DEF Next
  <2>3. CASE UNCHANGED vars
    BY <2>3 DEF vars, Known, Pending, Task, Saved
  <2>4. QED
    BY <2>1, <2>2, <2>3
<1>3. QED
  BY <1>1, <1>2, TablesAlways, PTL DEF Spec, ImplementsFailingTests, Abstract!Spec, Abstract!vars
=============================================================================
