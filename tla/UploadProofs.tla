---------------------------- MODULE UploadProofs ----------------------------
(***************************************************************************)
(* Proofs about use_reader, beside the document it reads, and about the    *)
(* uploads that parse_raw_upload reads with it.                            *)
(***************************************************************************)
EXTENDS RawUpload, SequenceTheorems, FiniteSetTheorems, WellFoundedInduction, TLAPS

Outcomes == {"skipped", "failure", "error"}

Reports == [element : Outcomes, message : Messages \cup {None}, text : Messages \cup {None}]

Frames ==
  [element : Elements, name : SuiteNames \cup {None}, time : SuiteTimes \cup {None},
   attrs : Attrs \cup {None}, message : Messages \cup {None}, text : Messages \cup {None},
   outcomes : Seq(Reports)]

Durations == SuiteTimes \cup TestTimes \cup {None}

ExpectedType ==
  [name : Nat, testsuite : SuiteNames \cup {None}, duration : Durations,
   outcome : {"Pass", "Skip", "Failure", "Error"}, failure_message : Messages \cup {None}]

-----------------------------------------------------------------------------
(* The inductive invariant, whatever elements are nested in others.        *)

Types ==
  /\ status \in {"reading", "done", "failed"}
  /\ open \in Seq(Elements)
  /\ position \in 0 .. MaxEvents
  /\ in_failure \in BOOLEAN /\ in_error \in BOOLEAN
  /\ framework \in Frameworks \cup {None}
  /\ saved_testrun \in Testruns \cup {None, Skipped}
  /\ testsuite_names \in Seq(SuiteNames \cup {None})
  /\ testsuite_times \in Seq(SuiteTimes \cup {None})
  /\ testruns \in Seq(Testruns)
  /\ warnings \in Seq(Nat)
  /\ tree \in Seq(Frames)
  /\ expected \in Seq(ExpectedType)
  /\ since \in Nat /\ since <= Len(testruns)
  /\ hinted \subseteq Frameworks

\* The frames are those of the open elements.
Mirror ==
  /\ Len(tree) = Len(open)
  /\ \A i \in DOMAIN tree :
       /\ tree[i].element = open[i]
       /\ open[i] = "testcase" => tree[i].attrs \in Attrs
       /\ open[i] # "testsuite" => tree[i].name = None /\ tree[i].time = None

\* The stacks have the names and times of the open testsuites, at these places.
StackedAt(at) ==
  /\ at \in [DOMAIN testsuite_names -> DOMAIN tree]
  /\ \A m, n \in DOMAIN testsuite_names : m < n => at[m] < at[n]
  /\ \A i \in DOMAIN tree :
       tree[i].element = "testsuite" <=> \E n \in DOMAIN testsuite_names : at[n] = i
  /\ \A n \in DOMAIN testsuite_names :
       testsuite_names[n] = tree[at[n]].name /\ testsuite_times[n] = tree[at[n]].time
Stacked ==
  /\ Len(testsuite_times) = Len(testsuite_names)
  /\ \E at \in [DOMAIN testsuite_names -> DOMAIN tree] : StackedAt(at)

\* The saved run is that of the innermost open test case.
InnermostTestcase(i) ==
  /\ i \in DOMAIN open
  /\ open[i] = "testcase"
  /\ \A j \in DOMAIN open : j > i => open[j] # "testcase"
Saved ==
  saved_testrun # None =>
    \E i \in DOMAIN tree :
      /\ InnermostTestcase(i)
      /\ saved_testrun = Skipped <=> tree[i].attrs.parsed # "Ok"

Flags ==
  /\ in_failure => "failure" \in ToSet(open)
  /\ in_error => "error" \in ToSet(open)

SameLength == Len(testruns) = Len(expected)

DocumentInv ==
  /\ Types
  /\ Mirror
  /\ Stacked
  /\ Saved
  /\ Flags
  /\ SameLength
  /\ WarningsOrdered
  /\ framework \in hinted \cup {None}

-----------------------------------------------------------------------------
(* What holds as well of documents that follow the schema.                 *)

Leaves ==
  \A i \in DOMAIN open :
    /\ open[i] \in Outcomes => i = Len(open) /\ i > 1 /\ open[i - 1] = "testcase"
    /\ open[i] \in {"testcase", "testsuite", "testsuites"} =>
         \A j \in DOMAIN open : j < i => open[j] \in {"testsuite", "testsuites"}

FlagsExact ==
  /\ in_failure <=> open # <<>> /\ Last(open) = "failure"
  /\ in_error <=> open # <<>> /\ Last(open) = "error"

Report(frame) == [element |-> frame.element, message |-> frame.message, text |-> frame.text]

\* The outcomes of a frame, that of an open child included.
Reported(i) ==
  IF i < Len(tree) /\ tree[i + 1].element \in Outcomes
  THEN Append(tree[i].outcomes, Report(tree[i + 1]))
  ELSE tree[i].outcomes

InheritedName(frames) == Inherited(frames, LAMBDA f : f.name)
InheritedTime(frames) == Inherited(frames, LAMBDA f : f.time)

Around(i) == SubSeq(tree, 1, i - 1)

Says(i, run) ==
  /\ run.name = tree[i].attrs.name
  /\ run.testsuite = InheritedName(Around(i))
  /\ run.duration = ParseTime(Some(tree[i].attrs.time, InheritedTime(Around(i))))
  /\ run.outcome = ExpectedOutcome(Reported(i))
  /\ run.failure_message = ExpectedMessage(Reported(i))

\* The saved run is what the document says of the test case so far.
SavedMatches ==
  saved_testrun \in Testruns =>
    \A i \in DOMAIN tree :
      tree[i].element = "testcase" =>
        Says(i, saved_testrun) /\ saved_testrun.computed_by = framework

RunsMatch == [i \in DOMAIN testruns |-> Without(testruns[i])] = expected

SchemaInv ==
  /\ Leaves
  /\ FlagsExact
  /\ SavedMatches
  /\ RunsMatch
  /\ FrameworkOfRuns

-----------------------------------------------------------------------------
(* Lemmas about sequences.                                                 *)

LEMMA FrontType ==
  ASSUME NEW S, NEW s \in Seq(S), s # <<>>
  PROVE  /\ Len(s) \in Nat \ {0}
         /\ Front(s) \in Seq(S)
         /\ Len(Front(s)) = Len(s) - 1
         /\ \A i \in 1 .. Len(s) - 1 : Front(s)[i] = s[i]
         /\ Last(s) = s[Len(s)]
         /\ Last(s) \in S
<1>1. Len(s) \in Nat \ {0}
  BY EmptySeq
<1>2. \A i \in 1 .. Len(s) - 1 : s[i] \in S
  BY <1>1, ElementOfSeq
<1>3. /\ SubSeq(s, 1, Len(s) - 1) \in Seq(S)
      /\ Len(SubSeq(s, 1, Len(s) - 1)) = IF 1 <= Len(s) - 1 THEN Len(s) - 1 - 1 + 1 ELSE 0
      /\ \A i \in 1 .. Len(s) - 1 - 1 + 1 : SubSeq(s, 1, Len(s) - 1)[i] = s[1 + i - 1]
  BY <1>1, <1>2, SubSeqProperties
<1>4. Last(s) = s[Len(s)] /\ Last(s) \in S
  BY <1>1, ElementOfSeq DEF Last
<1>5. Len(s) - 1 \in Nat /\ Len(s) - 1 - 1 + 1 = Len(s) - 1
  BY <1>1
<1>6. Len(Front(s)) = Len(s) - 1
  BY <1>1, <1>3, <1>5 DEF Front
<1>7. \A i \in 1 .. Len(s) - 1 : Front(s)[i] = s[i]
  BY <1>1, <1>3, <1>5 DEF Front
<1>8. QED
  BY <1>1, <1>3, <1>4, <1>6, <1>7 DEF Front

LEMMA AppendType ==
  ASSUME NEW S, NEW s \in Seq(S), NEW x \in S
  PROVE  /\ Append(s, x) \in Seq(S)
         /\ Append(s, x) # <<>>
         /\ Len(s) \in Nat
         /\ Len(Append(s, x)) = Len(s) + 1
         /\ Append(s, x)[Len(s) + 1] = x
         /\ \A i \in 1 .. Len(s) : Append(s, x)[i] = s[i]
         /\ Last(Append(s, x)) = x
         /\ Front(Append(s, x)) = s
<1> DEFINE t == Append(s, x)
<1>1. t \in Seq(S) /\ Len(s) \in Nat /\ Len(t) = Len(s) + 1 /\ t # <<>>
  OBVIOUS
<1>2. t[Len(s) + 1] = x /\ \A i \in 1 .. Len(s) : t[i] = s[i]
  OBVIOUS
<1>3. Last(t) = x
  BY <1>1, <1>2 DEF Last
<1>4. Front(t) = s
  <2> HIDE DEF t
  <2>1. /\ Front(t) \in Seq(S) /\ Len(Front(t)) = Len(s)
        /\ \A i \in 1 .. Len(s) : Front(t)[i] = s[i]
    BY <1>1, <1>2, FrontType
  <2>2. QED
    BY <2>1, SeqEqual
<1>5. QED
  BY <1>1, <1>2, <1>3, <1>4

\* A set of natural numbers with an upper bound has a largest element.
LEMMA Largest ==
  ASSUME NEW max \in Nat, NEW S \in SUBSET (0 .. max), S # {}
  PROVE  \E i \in S : \A j \in S : j <= i
<1> DEFINE T == {max - i : i \in S}
<1>1. T \subseteq Nat /\ T # {}
  <2>1. \A i \in S : max - i \in Nat
    OBVIOUS
  <2>2. QED
    BY <2>1, Zenon
<1>2. PICK x \in T : \A y \in T : ~ (<<y, x>> \in OpToRel(<, Nat))
  BY <1>1, NatLessThanWellFounded, WFMin
<1>3. PICK i \in S : x = max - i
  BY <1>2
<1>4. ASSUME NEW j \in S
      PROVE  j <= i
  <2>1. ~ (<<max - j, x>> \in OpToRel(<, Nat))
    BY <1>2
  <2>2. ~ (max - j < x)
    BY <1>1, <2>1 DEF OpToRel
  <2>3. QED
    BY <1>3, <2>2
<1>5. QED
  BY <1>3, <1>4

\* LastSome is the last value of a stack that is one.
LEMMA LastSomeValue ==
  ASSUME NEW S, NEW s \in Seq(S \cup {None})
  PROVE  /\ LastSome(s) \in S \cup {None}
         /\ \A i \in 1 .. Len(s) :
              s[i] # None /\ (\A j \in 1 .. Len(s) : j > i => s[j] = None) => LastSome(s) = s[i]
         /\ (\A i \in 1 .. Len(s) : s[i] = None) => LastSome(s) = None
         /\ LastSome(s) # None =>
              \E i \in 1 .. Len(s) :
                s[i] # None /\ \A j \in 1 .. Len(s) : j > i => s[j] = None
<1> DEFINE some == {i \in 1 .. Len(s) : s[i] # None}
           last == CHOOSE i \in some : \A j \in some : j <= i
<1>1. Len(s) \in Nat /\ DOMAIN s = 1 .. Len(s)
  OBVIOUS
<1>2. LastSome(s) = IF some = {} THEN None ELSE s[last]
  BY <1>1 DEF LastSome
<1>3. CASE some = {}
  BY <1>2, <1>3
<1>4. CASE some # {}
  <2>1. some \in SUBSET (0 .. Len(s))
    BY <1>1
  <2>2. \E i \in some : \A j \in some : j <= i
    <3> HIDE DEF some
    <3> QED BY <1>1, <1>4, <2>1, Largest
  <2>3. last \in some /\ \A j \in some : j <= last
    BY <2>2
  <2> HIDE DEF last
  <2>4. LastSome(s) = s[last] /\ s[last] # None /\ last \in 1 .. Len(s)
    BY <1>2, <1>4, <2>3
  <2>5. \A j \in 1 .. Len(s) : j > last => s[j] = None
    BY <1>1, <2>3
  <2>6. ASSUME NEW i \in 1 .. Len(s), s[i] # None,
               \A j \in 1 .. Len(s) : j > i => s[j] = None
        PROVE  i = last
    BY <1>1, <2>4, <2>5, <2>6
  <2>7. s[last] \in S \cup {None}
    BY <2>4, ElementOfSeq
  <2>8. QED
    BY <2>4, <2>5, <2>6, <2>7
<1>5. QED
  BY <1>3, <1>4

-----------------------------------------------------------------------------
(* What the frames around a test case hand down.                           *)

\* Frames that say the same but for what their children added to them.
SameFrame(f, g) ==
  /\ f.element = g.element
  /\ f.name = g.name
  /\ f.time = g.time
  /\ f.attrs = g.attrs
SameFrames(s, t) == Len(s) = Len(t) /\ \A i \in 1 .. Len(t) : SameFrame(s[i], t[i])

LEMMA InheritedNameValue ==
  ASSUME NEW S, NEW s \in Seq(S)
  PROVE  /\ \A i \in 1 .. Len(s) :
              s[i].name # None /\ (\A j \in 1 .. Len(s) : j > i => s[j].name = None)
                => InheritedName(s) = s[i].name
         /\ (\A i \in 1 .. Len(s) : s[i].name = None) => InheritedName(s) = None
<1>1. Len(s) \in Nat /\ DOMAIN s = 1 .. Len(s)
  OBVIOUS
<1>2. ASSUME NEW i \in 1 .. Len(s), s[i].name # None,
             \A j \in 1 .. Len(s) : j > i => s[j].name = None
      PROVE  InheritedName(s) = s[i].name
  <2> DEFINE In(k) == Innermost(s, k, LAMBDA f : f.name)
  <2>1. In(i)
    BY <1>1, <1>2 DEF Innermost
  <2>2. \A k \in DOMAIN s : In(k) => k = i
    BY <1>1, <1>2 DEF Innermost
  <2>3. InheritedName(s) = IF \E k \in DOMAIN s : In(k)
                           THEN s[CHOOSE k \in DOMAIN s : In(k)].name ELSE None
    BY DEF InheritedName, Inherited
  <2> HIDE DEF In
  <2>4. (CHOOSE k \in DOMAIN s : In(k)) = i
    BY <1>1, <2>1, <2>2
  <2>5. QED
    BY <1>1, <2>1, <2>3, <2>4
<1>3. ASSUME \A i \in 1 .. Len(s) : s[i].name = None
      PROVE  InheritedName(s) = None
  BY <1>1, <1>3 DEF InheritedName, Inherited, Innermost
<1>4. QED
  BY <1>2, <1>3

LEMMA InheritedTimeValue ==
  ASSUME NEW S, NEW s \in Seq(S)
  PROVE  /\ \A i \in 1 .. Len(s) :
              s[i].time # None /\ (\A j \in 1 .. Len(s) : j > i => s[j].time = None)
                => InheritedTime(s) = s[i].time
         /\ (\A i \in 1 .. Len(s) : s[i].time = None) => InheritedTime(s) = None
<1>1. Len(s) \in Nat /\ DOMAIN s = 1 .. Len(s)
  OBVIOUS
<1>2. ASSUME NEW i \in 1 .. Len(s), s[i].time # None,
             \A j \in 1 .. Len(s) : j > i => s[j].time = None
      PROVE  InheritedTime(s) = s[i].time
  <2> DEFINE In(k) == Innermost(s, k, LAMBDA f : f.time)
  <2>1. In(i)
    BY <1>1, <1>2 DEF Innermost
  <2>2. \A k \in DOMAIN s : In(k) => k = i
    BY <1>1, <1>2 DEF Innermost
  <2>3. InheritedTime(s) = IF \E k \in DOMAIN s : In(k)
                           THEN s[CHOOSE k \in DOMAIN s : In(k)].time ELSE None
    BY DEF InheritedTime, Inherited
  <2> HIDE DEF In
  <2>4. (CHOOSE k \in DOMAIN s : In(k)) = i
    BY <1>1, <2>1, <2>2
  <2>5. QED
    BY <1>1, <2>1, <2>3, <2>4
<1>3. ASSUME \A i \in 1 .. Len(s) : s[i].time = None
      PROVE  InheritedTime(s) = None
  BY <1>1, <1>3 DEF InheritedTime, Inherited, Innermost
<1>4. QED
  BY <1>2, <1>3

LEMMA LastPlace ==
  ASSUME NEW n \in Nat, NEW S \in SUBSET (1 .. n), S # {}
  PROVE  \E i \in S : \A j \in 1 .. n : j > i => j \notin S
<1>1. S \in SUBSET (0 .. n)
  OBVIOUS
<1>2. PICK i \in S : \A j \in S : j <= i
  BY <1>1, Largest
<1>3. QED
  BY <1>2

\* The same frames hand down the same.
LEMMA SameInheritance ==
  ASSUME NEW S, NEW s \in Seq(S), NEW T, NEW t \in Seq(T), SameFrames(s, t)
  PROVE  InheritedName(s) = InheritedName(t) /\ InheritedTime(s) = InheritedTime(t)
<1>1. Len(s) = Len(t) /\ Len(t) \in Nat
  BY DEF SameFrames
<1>2. \A i \in 1 .. Len(t) : s[i].name = t[i].name /\ s[i].time = t[i].time
  BY DEF SameFrames, SameFrame
<1>3. InheritedName(s) = InheritedName(t)
  <2> DEFINE N == {i \in 1 .. Len(t) : t[i].name # None}
  <2>1. CASE N = {}
    BY <1>1, <1>2, <2>1, InheritedNameValue
  <2>2. CASE N # {}
    <3>1. \E i \in N : \A j \in 1 .. Len(t) : j > i => j \notin N
      <4>1. N \in SUBSET (1 .. Len(t))
        OBVIOUS
      <4> HIDE DEF N
      <4>2. QED
        BY <1>1, <2>2, <4>1, LastPlace
    <3>2. PICK i \in 1 .. Len(t) : t[i].name # None /\ \A j \in 1 .. Len(t) : j > i => t[j].name = None
      BY <3>1
    <3>3. InheritedName(t) = t[i].name
      BY <3>2, InheritedNameValue
    <3>4. s[i].name # None /\ \A j \in 1 .. Len(s) : j > i => s[j].name = None
      BY <1>1, <1>2, <3>2
    <3>5. InheritedName(s) = s[i].name
      BY <1>1, <3>4, InheritedNameValue
    <3>6. QED
      BY <1>2, <3>3, <3>5
  <2>3. QED
    BY <2>1, <2>2
<1>4. InheritedTime(s) = InheritedTime(t)
  <2> DEFINE N == {i \in 1 .. Len(t) : t[i].time # None}
  <2>1. CASE N = {}
    BY <1>1, <1>2, <2>1, InheritedTimeValue
  <2>2. CASE N # {}
    <3>1. \E i \in N : \A j \in 1 .. Len(t) : j > i => j \notin N
      <4>1. N \in SUBSET (1 .. Len(t))
        OBVIOUS
      <4> HIDE DEF N
      <4>2. QED
        BY <1>1, <2>2, <4>1, LastPlace
    <3>2. PICK i \in 1 .. Len(t) : t[i].time # None /\ \A j \in 1 .. Len(t) : j > i => t[j].time = None
      BY <3>1
    <3>3. InheritedTime(t) = t[i].time
      BY <3>2, InheritedTimeValue
    <3>4. s[i].time # None /\ \A j \in 1 .. Len(s) : j > i => s[j].time = None
      BY <1>1, <1>2, <3>2
    <3>5. InheritedTime(s) = s[i].time
      BY <1>1, <3>4, InheritedTimeValue
    <3>6. QED
      BY <1>2, <3>3, <3>5
  <2>3. QED
    BY <2>1, <2>2
<1>5. QED
  BY <1>3, <1>4

\* The stacks of the parser hand down what the frames do.
LEMMA StacksInherit ==
  ASSUME Types, Mirror, Stacked
  PROVE  /\ LastSome(testsuite_names) = InheritedName(tree)
         /\ LastSome(testsuite_times) = InheritedTime(tree)
<1>1. PICK at \in [DOMAIN testsuite_names -> DOMAIN tree] : StackedAt(at)
  BY DEF Stacked
<1> DEFINE N == 1 .. Len(testsuite_names)
<1>2. /\ DOMAIN testsuite_names = N /\ DOMAIN testsuite_times = N
      /\ Len(testsuite_times) = Len(testsuite_names) /\ Len(testsuite_names) \in Nat
      /\ DOMAIN tree = 1 .. Len(tree) /\ Len(tree) \in Nat
  BY DEF Types, Stacked
<1>3. /\ \A n \in N : at[n] \in 1 .. Len(tree)
      /\ \A m, n \in N : m < n => at[m] < at[n]
      /\ \A n \in N : testsuite_names[n] = tree[at[n]].name
      /\ \A n \in N : testsuite_times[n] = tree[at[n]].time
  BY <1>1, <1>2 DEF StackedAt
<1>4. \A i \in 1 .. Len(tree) :
        tree[i].name # None \/ tree[i].time # None => \E n \in N : at[n] = i
  BY <1>1, <1>2 DEF StackedAt, Mirror
<1>5. /\ testsuite_names \in Seq(SuiteNames \cup {None})
      /\ testsuite_times \in Seq(SuiteTimes \cup {None})
      /\ tree \in Seq(Frames)
  BY DEF Types
<1>6. LastSome(testsuite_names) = InheritedName(tree)
  <2>1. CASE \A n \in N : testsuite_names[n] = None
    <3>1. \A i \in 1 .. Len(tree) : tree[i].name = None
      BY <1>3, <1>4, <2>1
    <3>2. LastSome(testsuite_names) = None
      BY <1>2, <1>5, <2>1, LastSomeValue
    <3>3. InheritedName(tree) = None
      BY <1>5, <3>1, InheritedNameValue
    <3>4. QED
      BY <3>2, <3>3
  <2>2. CASE ~ \A n \in N : testsuite_names[n] = None
    <3> DEFINE P == {n \in N : testsuite_names[n] # None}
    <3>1. \E n \in P : \A m \in N : m > n => m \notin P
      <4>1. P \in SUBSET N /\ P # {}
        BY <2>2
      <4> HIDE DEF P
      <4>2. QED
        BY <1>2, <4>1, LastPlace
    <3>2. PICK n \in N : testsuite_names[n] # None /\ \A m \in N : m > n => testsuite_names[m] = None
      BY <3>1
    <3>3. LastSome(testsuite_names) = testsuite_names[n]
      BY <1>2, <1>5, <3>2, LastSomeValue
    <3>4. /\ at[n] \in 1 .. Len(tree) /\ tree[at[n]].name # None
          /\ tree[at[n]].name = testsuite_names[n]
      BY <1>3, <3>2
    <3>5. ASSUME NEW j \in 1 .. Len(tree), j > at[n], tree[j].name # None
          PROVE  FALSE
      <4>1. PICK m \in N : at[m] = j
        BY <1>4, <3>5
      <4>2. m > n
        BY <1>2, <1>3, <3>4, <3>5, <4>1
      <4>3. QED
        BY <1>3, <3>2, <3>5, <4>1, <4>2
    <3>6. InheritedName(tree) = tree[at[n]].name
      <4>1. \A j \in 1 .. Len(tree) : j > at[n] => tree[j].name = None
        BY <3>5
      <4>2. QED
        BY <1>5, <3>4, <4>1, InheritedNameValue
    <3>7. QED
      BY <3>3, <3>4, <3>6
  <2>3. QED
    BY <2>1, <2>2
<1>7. LastSome(testsuite_times) = InheritedTime(tree)
  <2>1. CASE \A n \in N : testsuite_times[n] = None
    <3>1. \A i \in 1 .. Len(tree) : tree[i].time = None
      BY <1>3, <1>4, <2>1
    <3>2. LastSome(testsuite_times) = None
      BY <1>2, <1>5, <2>1, LastSomeValue
    <3>3. InheritedTime(tree) = None
      BY <1>5, <3>1, InheritedTimeValue
    <3>4. QED
      BY <3>2, <3>3
  <2>2. CASE ~ \A n \in N : testsuite_times[n] = None
    <3> DEFINE P == {n \in N : testsuite_times[n] # None}
    <3>1. \E n \in P : \A m \in N : m > n => m \notin P
      <4>1. P \in SUBSET N /\ P # {}
        BY <2>2
      <4> HIDE DEF P
      <4>2. QED
        BY <1>2, <4>1, LastPlace
    <3>2. PICK n \in N : testsuite_times[n] # None /\ \A m \in N : m > n => testsuite_times[m] = None
      BY <3>1
    <3>3. LastSome(testsuite_times) = testsuite_times[n]
      BY <1>2, <1>5, <3>2, LastSomeValue
    <3>4. /\ at[n] \in 1 .. Len(tree) /\ tree[at[n]].time # None
          /\ tree[at[n]].time = testsuite_times[n]
      BY <1>3, <3>2
    <3>5. ASSUME NEW j \in 1 .. Len(tree), j > at[n], tree[j].time # None
          PROVE  FALSE
      <4>1. PICK m \in N : at[m] = j
        BY <1>4, <3>5
      <4>2. m > n
        BY <1>2, <1>3, <3>4, <3>5, <4>1
      <4>3. QED
        BY <1>3, <3>2, <3>5, <4>1, <4>2
    <3>6. InheritedTime(tree) = tree[at[n]].time
      <4>1. \A j \in 1 .. Len(tree) : j > at[n] => tree[j].time = None
        BY <3>5
      <4>2. QED
        BY <1>5, <3>4, <4>1, InheritedTimeValue
    <3>7. QED
      BY <3>3, <3>4, <3>6
  <2>3. QED
    BY <2>1, <2>2
<1>8. QED
  BY <1>6, <1>7

-----------------------------------------------------------------------------
(* What a step does to the frames of the open elements.                    *)

LEMMA FrameUpdates ==
  ASSUME NEW f \in Frames
  PROVE  /\ \A report \in Reports :
              /\ [f EXCEPT !.outcomes = Append(f.outcomes, report)] \in Frames
              /\ SameFrame([f EXCEPT !.outcomes = Append(f.outcomes, report)], f)
              /\ [f EXCEPT !.outcomes = Append(f.outcomes, report)].outcomes
                   = Append(f.outcomes, report)
         /\ \A message \in Messages :
              /\ [f EXCEPT !.text = message] \in Frames
              /\ SameFrame([f EXCEPT !.text = message], f)
              /\ [f EXCEPT !.text = message].text = message
<1>1. \A report \in Reports : Append(f.outcomes, report) \in Seq(Reports)
  BY DEF Frames
<1>2. QED
  BY <1>1 DEF Frames, SameFrame

Closing(frames) ==
  LET frame == Last(frames) rest == Front(frames) last == rest[Len(rest)]
  IN [rest EXCEPT ![Len(rest)] = [last EXCEPT !.outcomes = Append(last.outcomes, Report(frame))]]

LEMMA ClosedIs ==
  ASSUME NEW frames
  PROVE  Closed(frames) =
           IF Last(frames).element \in Outcomes /\ Front(frames) # <<>>
           THEN Closing(frames) ELSE Front(frames)
BY DEF Closed, Closing, Outcomes, Report

LEMMA ReportType ==
  ASSUME NEW f \in Frames, f.element \in Outcomes
  PROVE  Report(f) \in Reports
BY DEF Frames, Report, Reports

\* A child that closes leaves the frames around it, with its outcome in the last.
LEMMA ClosedFrames ==
  ASSUME NEW frames \in Seq(Frames), frames # <<>>
  PROVE  /\ Closed(frames) \in Seq(Frames)
         /\ SameFrames(Closed(frames), Front(frames))
<1> DEFINE rest == Front(frames) frame == Last(frames) last == rest[Len(rest)]
           new == [last EXCEPT !.outcomes = Append(last.outcomes, Report(frame))]
<1>1. rest \in Seq(Frames) /\ frame \in Frames
  BY FrontType
<1>2. Len(rest) \in Nat
  BY <1>1
<1>3. CASE frame.element \in Outcomes /\ rest # <<>>
  <2>1. Len(rest) \in 1 .. Len(rest)
    BY <1>1, <1>3, EmptySeq
  <2>2. last \in Frames
    BY <1>1, <2>1, ElementOfSeq
  <2>3. Report(frame) \in Reports
    BY <1>1, <1>3, ReportType
  <2>4. new \in Frames /\ SameFrame(new, last)
    BY <2>2, <2>3, FrameUpdates
  <2>5. Closed(frames) = [rest EXCEPT ![Len(rest)] = new]
    BY <1>3, ClosedIs DEF Closing
  <2> HIDE DEF new, rest, frame
  <2>6. /\ Closed(frames) \in Seq(Frames) /\ Len(Closed(frames)) = Len(rest)
        /\ \A i \in 1 .. Len(rest) : Closed(frames)[i] = IF i = Len(rest) THEN new ELSE rest[i]
    BY <1>1, <2>1, <2>4, <2>5, ExceptSeq
  <2>7. \A i \in 1 .. Len(rest) : SameFrame(Closed(frames)[i], rest[i])
    BY <2>4, <2>6 DEF SameFrame
  <2>8. QED
    BY <2>6, <2>7 DEF SameFrames, rest
<1>4. CASE ~ (frame.element \in Outcomes /\ rest # <<>>)
  <2>1. Closed(frames) = rest
    BY <1>4, ClosedIs
  <2>2. QED
    BY <1>1, <2>1 DEF SameFrames, SameFrame
<1>5. QED
  BY <1>3, <1>4

Pushes(f) ==
  /\ f \in Frames
  /\ f.element = "testcase" => f.attrs \in Attrs
  /\ f.element # "testsuite" => f.name = None /\ f.time = None
  /\ open' = Append(open, f.element)
  /\ tree' = Append(tree, f)

Pops ==
  /\ open # <<>>
  /\ open' = Front(open)
  /\ tree' \in Seq(Frames)
  /\ SameFrames(tree', Front(tree))

Stays ==
  /\ open' = open
  /\ tree' \in Seq(Frames)
  /\ SameFrames(tree', tree)

\* Where the frames and elements are after a step.
LEMMA PushedFrames ==
  ASSUME Types, Mirror, NEW f, Pushes(f)
  PROVE  /\ open' \in Seq(Elements) /\ tree' \in Seq(Frames)
         /\ Len(open) \in Nat /\ Len(tree) = Len(open)
         /\ Len(open') = Len(open) + 1 /\ Len(tree') = Len(open) + 1
         /\ open'[Len(open) + 1] = f.element /\ tree'[Len(open) + 1] = f
         /\ \A i \in 1 .. Len(open) : open'[i] = open[i] /\ tree'[i] = tree[i]
<1>1. open \in Seq(Elements) /\ tree \in Seq(Frames) /\ Len(tree) = Len(open)
  BY DEF Types, Mirror
<1>2. f \in Frames /\ f.element \in Elements
  BY DEF Pushes, Frames
<1>3. open' = Append(open, f.element) /\ tree' = Append(tree, f)
  BY DEF Pushes
<1>4. QED
  BY <1>1, <1>2, <1>3, AppendType

LEMMA PoppedFrames ==
  ASSUME Types, Mirror, Pops
  PROVE  /\ open' \in Seq(Elements) /\ tree' \in Seq(Frames)
         /\ Len(open) \in Nat \ {0} /\ Len(tree) = Len(open)
         /\ Len(open') = Len(open) - 1 /\ Len(tree') = Len(open) - 1
         /\ \A i \in 1 .. Len(open) - 1 : open'[i] = open[i] /\ SameFrame(tree'[i], tree[i])
<1>1. open \in Seq(Elements) /\ tree \in Seq(Frames) /\ Len(tree) = Len(open)
  BY DEF Types, Mirror
<1>2. open # <<>> /\ Len(open) \in Nat \ {0} /\ tree # <<>>
  BY <1>1, EmptySeq DEF Pops
<1>3. /\ Front(open) \in Seq(Elements) /\ Len(Front(open)) = Len(open) - 1
      /\ \A i \in 1 .. Len(open) - 1 : Front(open)[i] = open[i]
  BY <1>1, <1>2, FrontType
<1>4. /\ Len(Front(tree)) = Len(open) - 1
      /\ \A i \in 1 .. Len(open) - 1 : Front(tree)[i] = tree[i]
  BY <1>1, <1>2, FrontType
<1>5. /\ open' = Front(open) /\ tree' \in Seq(Frames) /\ Len(tree') = Len(Front(tree))
      /\ \A i \in 1 .. Len(Front(tree)) : SameFrame(tree'[i], Front(tree)[i])
  BY DEF Pops, SameFrames
<1>6. \A i \in 1 .. Len(open) - 1 : SameFrame(tree'[i], tree[i])
  BY <1>4, <1>5
<1>7. QED
  BY <1>1, <1>2, <1>3, <1>4, <1>5, <1>6

LEMMA StayingFrames ==
  ASSUME Types, Mirror, Stays
  PROVE  /\ open' = open /\ tree' \in Seq(Frames)
         /\ Len(open) \in Nat /\ Len(tree) = Len(open) /\ Len(tree') = Len(open)
         /\ \A i \in 1 .. Len(open) : SameFrame(tree'[i], tree[i])
BY DEF Types, Mirror, Stays, SameFrames

LEMMA MirrorIs ==
  ASSUME Types
  PROVE  Mirror <=>
           /\ Len(tree) = Len(open)
           /\ \A i \in 1 .. Len(open) :
                /\ tree[i].element = open[i]
                /\ open[i] = "testcase" => tree[i].attrs \in Attrs
                /\ open[i] # "testsuite" => tree[i].name = None /\ tree[i].time = None
BY DEF Types, Mirror

LEMMA MirrorAfter ==
  ASSUME tree' \in Seq(Frames), Len(tree') = Len(open'),
         \A i \in 1 .. Len(tree') :
                /\ tree'[i].element = open'[i]
                /\ open'[i] = "testcase" => tree'[i].attrs \in Attrs
                /\ open'[i] # "testsuite" => tree'[i].name = None /\ tree'[i].time = None
  PROVE  Mirror'
BY DEF Mirror

LEMMA MirrorKept ==
  ASSUME Types, Mirror, (\E f : Pushes(f)) \/ Pops \/ Stays
  PROVE  Mirror'
<1>1. /\ Len(tree) = Len(open)
      /\ \A i \in 1 .. Len(open) :
           /\ tree[i].element = open[i]
           /\ open[i] = "testcase" => tree[i].attrs \in Attrs
           /\ open[i] # "testsuite" => tree[i].name = None /\ tree[i].time = None
  BY MirrorIs
<1>2. ASSUME NEW f, Pushes(f)
      PROVE  Mirror'
  <2>1. /\ tree' \in Seq(Frames)
        /\ Len(open) \in Nat
        /\ Len(open') = Len(open) + 1 /\ Len(tree') = Len(open) + 1
        /\ open'[Len(open) + 1] = f.element /\ tree'[Len(open) + 1] = f
        /\ \A i \in 1 .. Len(open) : open'[i] = open[i] /\ tree'[i] = tree[i]
    BY <1>2, PushedFrames
  <2>2. /\ f.element = "testcase" => f.attrs \in Attrs
        /\ f.element # "testsuite" => f.name = None /\ f.time = None
    BY <1>2 DEF Pushes
  <2>3. QED
    BY <1>1, <2>1, <2>2, MirrorAfter
<1>3. ASSUME Pops
      PROVE  Mirror'
  <2>1. /\ tree' \in Seq(Frames)
        /\ Len(open) \in Nat \ {0}
        /\ Len(open') = Len(open) - 1 /\ Len(tree') = Len(open) - 1
        /\ \A i \in 1 .. Len(open) - 1 : open'[i] = open[i] /\ SameFrame(tree'[i], tree[i])
    BY <1>3, PoppedFrames
  <2>2. QED
    BY <1>1, <2>1, MirrorAfter DEF SameFrame
<1>4. ASSUME Stays
      PROVE  Mirror'
  <2>1. /\ open' = open /\ tree' \in Seq(Frames) /\ Len(tree') = Len(open)
        /\ \A i \in 1 .. Len(open) : SameFrame(tree'[i], tree[i])
    BY <1>4, StayingFrames
  <2>2. QED
    BY <1>1, <2>1, MirrorAfter DEF SameFrame
<1>5. QED
  BY <1>2, <1>3, <1>4

-----------------------------------------------------------------------------
(* The stacks.                                                             *)

LEMMA StackedIs ==
  ASSUME Types, Mirror, Stacked
  PROVE  /\ Len(testsuite_names) \in Nat
         /\ Len(testsuite_times) = Len(testsuite_names)
         /\ \E at :
              /\ at \in [1 .. Len(testsuite_names) -> 1 .. Len(open)]
              /\ \A m, n \in 1 .. Len(testsuite_names) : m < n => at[m] < at[n]
              /\ \A i \in 1 .. Len(open) :
                   open[i] = "testsuite" <=> \E n \in 1 .. Len(testsuite_names) : at[n] = i
              /\ \A n \in 1 .. Len(testsuite_names) :
                   /\ testsuite_names[n] = tree[at[n]].name
                   /\ testsuite_times[n] = tree[at[n]].time
<1>1. PICK at \in [DOMAIN testsuite_names -> DOMAIN tree] : StackedAt(at)
  BY DEF Stacked
<1>2. /\ DOMAIN testsuite_names = 1 .. Len(testsuite_names) /\ Len(testsuite_names) \in Nat
      /\ DOMAIN tree = 1 .. Len(open)
      /\ \A i \in 1 .. Len(open) : tree[i].element = open[i]
  <2>1. DOMAIN testsuite_names = 1 .. Len(testsuite_names) /\ Len(testsuite_names) \in Nat
    BY DEF Types
  <2>2. DOMAIN tree = 1 .. Len(tree)
    BY DEF Types
  <2>3. QED
    BY <2>1, <2>2, MirrorIs
<1>3. /\ at \in [1 .. Len(testsuite_names) -> 1 .. Len(open)]
      /\ \A m, n \in 1 .. Len(testsuite_names) : m < n => at[m] < at[n]
      /\ \A i \in 1 .. Len(open) :
           tree[i].element = "testsuite" <=> \E n \in 1 .. Len(testsuite_names) : at[n] = i
      /\ \A n \in 1 .. Len(testsuite_names) :
           /\ testsuite_names[n] = tree[at[n]].name
           /\ testsuite_times[n] = tree[at[n]].time
  BY <1>1, <1>2 DEF StackedAt
<1>4. Len(testsuite_times) = Len(testsuite_names)
  BY DEF Stacked
<1> HIDE DEF Stacked, Types, Mirror
<1>5. \A i \in 1 .. Len(open) :
        open[i] = "testsuite" <=> \E n \in 1 .. Len(testsuite_names) : at[n] = i
  BY <1>2, <1>3
<1>6. QED
  BY <1>2, <1>3, <1>4, <1>5

StackedWith(at) ==
  /\ at \in [1 .. Len(testsuite_names) -> 1 .. Len(open)]
  /\ \A m, n \in 1 .. Len(testsuite_names) : m < n => at[m] < at[n]
  /\ \A i \in 1 .. Len(open) :
       open[i] = "testsuite" <=> \E n \in 1 .. Len(testsuite_names) : at[n] = i
  /\ \A n \in 1 .. Len(testsuite_names) :
       /\ testsuite_names[n] = tree[at[n]].name
       /\ testsuite_times[n] = tree[at[n]].time
  /\ Len(testsuite_times) = Len(testsuite_names)
  /\ testsuite_names \in Seq(SuiteNames \cup {None})

LEMMA StackedAfter ==
  ASSUME Mirror', tree' \in Seq(Frames), open' \in Seq(Elements), NEW at, StackedWith(at)'
  PROVE  Stacked'
<1> DEFINE N == 1 .. Len(testsuite_names') I == 1 .. Len(open')
<1>0. /\ at \in [N -> I]
      /\ \A m, n \in N : m < n => at[m] < at[n]
      /\ \A i \in I : open'[i] = "testsuite" <=> \E n \in N : at[n] = i
      /\ \A n \in N : testsuite_names'[n] = tree'[at[n]].name /\ testsuite_times'[n] = tree'[at[n]].time
      /\ Len(testsuite_times') = Len(testsuite_names')
      /\ testsuite_names' \in Seq(SuiteNames \cup {None})
  BY DEF StackedWith
<1>1. /\ DOMAIN testsuite_names' = N
      /\ DOMAIN tree' = I
      /\ \A i \in I : tree'[i].element = open'[i]
  BY <1>0 DEF Mirror
<1>2. \A i \in I : tree'[i].element = "testsuite" <=> \E n \in N : at[n] = i
  <2>1. ASSUME NEW i \in I
        PROVE  tree'[i].element = "testsuite" <=> \E n \in N : at[n] = i
    <3>1. tree'[i].element = open'[i]
      BY <1>1
    <3>2. open'[i] = "testsuite" <=> \E n \in N : at[n] = i
      BY <1>0
    <3>3. QED
      BY <3>1, <3>2
  <2>2. QED
    BY <2>1
<1>3. StackedAt(at)'
  BY <1>0, <1>1, <1>2 DEF StackedAt
<1>4. QED
  BY <1>0, <1>1, <1>3 DEF Stacked

LEMMA StackedKept ==
  ASSUME Types, Mirror, Stacked, UNCHANGED <<testsuite_names, testsuite_times>>,
         \/ \E f : Pushes(f) /\ f.element # "testsuite"
         \/ Pops /\ Last(open) # "testsuite"
         \/ Stays
  PROVE  Stacked'
<1> DEFINE N == 1 .. Len(testsuite_names)
<1>1. PICK at :
        /\ at \in [N -> 1 .. Len(open)]
        /\ \A m, n \in N : m < n => at[m] < at[n]
        /\ \A i \in 1 .. Len(open) : open[i] = "testsuite" <=> \E n \in N : at[n] = i
        /\ \A n \in N : testsuite_names[n] = tree[at[n]].name /\ testsuite_times[n] = tree[at[n]].time
  BY StackedIs
<1>2. /\ Len(testsuite_times) = Len(testsuite_names)
      /\ testsuite_names \in Seq(SuiteNames \cup {None})
      /\ Len(testsuite_names) \in Nat
  BY StackedIs DEF Types
<1>3. Mirror'
  BY MirrorKept
<1>4. testsuite_names' = testsuite_names /\ testsuite_times' = testsuite_times
  OBVIOUS
<1>5. ASSUME NEW f, Pushes(f), f.element # "testsuite"
      PROVE  Stacked'
  <2>1. /\ tree' \in Seq(Frames) /\ open' \in Seq(Elements)
        /\ Len(open) \in Nat
        /\ Len(open') = Len(open) + 1
        /\ open'[Len(open) + 1] = f.element
        /\ \A i \in 1 .. Len(open) : open'[i] = open[i] /\ tree'[i] = tree[i]
    BY <1>5, PushedFrames
  <2>2. \A n \in N : at[n] \in 1 .. Len(open)
    BY <1>1
  <2>3. at \in [N -> 1 .. Len(open')]
    BY <1>1, <2>1
  <2>4. \A i \in 1 .. Len(open') : open'[i] = "testsuite" <=> \E n \in N : at[n] = i
    BY <1>1, <1>5, <2>1, <2>2
  <2>5. \A n \in N : testsuite_names[n] = tree'[at[n]].name /\ testsuite_times[n] = tree'[at[n]].time
    BY <1>1, <2>1, <2>2
  <2>6. StackedWith(at)'
    BY <1>1, <1>2, <1>4, <2>3, <2>4, <2>5 DEF StackedWith
  <2>7. QED
    BY <1>3, <2>1, <2>6, StackedAfter
<1>6. ASSUME Pops, Last(open) # "testsuite"
      PROVE  Stacked'
  <2>1. /\ tree' \in Seq(Frames) /\ open' \in Seq(Elements)
        /\ Len(open) \in Nat \ {0}
        /\ Len(open') = Len(open) - 1
        /\ \A i \in 1 .. Len(open) - 1 : open'[i] = open[i] /\ SameFrame(tree'[i], tree[i])
    BY <1>6, PoppedFrames
  <2>2. open[Len(open)] # "testsuite"
    BY <1>6 DEF Last
  <2>3. \A n \in N : at[n] \in 1 .. Len(open) - 1
    BY <1>1, <2>1, <2>2
  <2>4. at \in [N -> 1 .. Len(open')]
    BY <1>1, <2>1, <2>3
  <2>5. \A i \in 1 .. Len(open') : open'[i] = "testsuite" <=> \E n \in N : at[n] = i
    BY <1>1, <2>1
  <2>6. \A n \in N : testsuite_names[n] = tree'[at[n]].name /\ testsuite_times[n] = tree'[at[n]].time
    BY <1>1, <2>1, <2>3 DEF SameFrame
  <2>7. StackedWith(at)'
    BY <1>1, <1>2, <1>4, <2>4, <2>5, <2>6 DEF StackedWith
  <2>8. QED
    BY <1>3, <2>1, <2>7, StackedAfter
<1>7. ASSUME Stays
      PROVE  Stacked'
  <2>1. /\ open' = open /\ tree' \in Seq(Frames) /\ open \in Seq(Elements)
        /\ \A i \in 1 .. Len(open) : SameFrame(tree'[i], tree[i])
    BY <1>7, StayingFrames DEF Types
  <2>2. \A n \in N : testsuite_names[n] = tree'[at[n]].name /\ testsuite_times[n] = tree'[at[n]].time
    BY <1>1, <2>1 DEF SameFrame
  <2>3. StackedWith(at)'
    BY <1>1, <1>2, <1>4, <2>1, <2>2 DEF StackedWith
  <2>4. QED
    BY <1>3, <2>1, <2>3, StackedAfter
<1>8. QED
  BY <1>5, <1>6, <1>7

LEMMA StackedOpens ==
  ASSUME Types, Mirror, Stacked, NEW f, Pushes(f), f.element = "testsuite",
         testsuite_names' = Append(testsuite_names, f.name),
         testsuite_times' = Append(testsuite_times, f.time)
  PROVE  Stacked'
<1> DEFINE len == Len(testsuite_names)
           N == 1 .. len
<1>1. PICK at :
        /\ at \in [N -> 1 .. Len(open)]
        /\ \A m, n \in N : m < n => at[m] < at[n]
        /\ \A i \in 1 .. Len(open) : open[i] = "testsuite" <=> \E n \in N : at[n] = i
        /\ \A n \in N : testsuite_names[n] = tree[at[n]].name /\ testsuite_times[n] = tree[at[n]].time
  BY StackedIs
<1>2. /\ Len(testsuite_times) = len /\ len \in Nat
      /\ testsuite_names \in Seq(SuiteNames \cup {None})
      /\ testsuite_times \in Seq(SuiteTimes \cup {None})
  BY StackedIs DEF Types
<1>3. f.name \in SuiteNames \cup {None} /\ f.time \in SuiteTimes \cup {None}
  BY DEF Pushes, Frames
<1>4. /\ testsuite_names' \in Seq(SuiteNames \cup {None})
      /\ Len(testsuite_names') = len + 1 /\ Len(testsuite_times') = len + 1
      /\ testsuite_names'[len + 1] = f.name /\ testsuite_times'[len + 1] = f.time
      /\ \A n \in N : testsuite_names'[n] = testsuite_names[n] /\ testsuite_times'[n] = testsuite_times[n]
  <2>1. /\ testsuite_names' \in Seq(SuiteNames \cup {None})
        /\ Len(testsuite_names') = len + 1
        /\ testsuite_names'[len + 1] = f.name
        /\ \A n \in N : testsuite_names'[n] = testsuite_names[n]
    BY <1>2, <1>3, AppendType
  <2>2. /\ Len(testsuite_times') = len + 1
        /\ testsuite_times'[len + 1] = f.time
        /\ \A n \in N : testsuite_times'[n] = testsuite_times[n]
    BY <1>2, <1>3, AppendType
  <2>3. QED
    BY <2>1, <2>2
<1>5. Mirror'
  BY MirrorKept
<1>6. /\ tree' \in Seq(Frames) /\ open' \in Seq(Elements)
      /\ Len(open) \in Nat
      /\ Len(open') = Len(open) + 1
      /\ open'[Len(open) + 1] = f.element /\ tree'[Len(open) + 1] = f
      /\ \A i \in 1 .. Len(open) : open'[i] = open[i] /\ tree'[i] = tree[i]
  BY PushedFrames
<1>7. \A n \in N : at[n] \in 1 .. Len(open)
  BY <1>1
<1>8. PICK to :
        /\ to[len + 1] = Len(open) + 1
        /\ \A n \in N : to[n] = at[n]
        /\ to \in [1 .. len + 1 -> 1 .. Len(open')]
  <2> DEFINE extended == [n \in 1 .. len + 1 |-> IF n = len + 1 THEN Len(open) + 1 ELSE at[n]]
  <2>1. /\ extended[len + 1] = Len(open) + 1
        /\ \A n \in N : extended[n] = at[n]
        /\ extended \in [1 .. len + 1 -> 1 .. Len(open')]
    BY <1>2, <1>6, <1>7
  <2> HIDE DEF extended
  <2>2. QED
    BY <2>1
<1> HIDE DEF len
<1>9. \A m, n \in 1 .. len + 1 : m < n => to[m] < to[n]
  <2>1. ASSUME NEW m \in 1 .. len + 1, NEW n \in 1 .. len + 1, m < n
        PROVE  to[m] < to[n]
    <3>1. m \in N /\ to[m] = at[m] /\ at[m] \in 1 .. Len(open)
      BY <1>2, <1>7, <1>8, <2>1
    <3>2. CASE n = len + 1
      BY <1>6, <1>8, <3>1, <3>2
    <3>3. CASE n \in N
      BY <1>1, <1>8, <2>1, <3>1, <3>3
    <3>4. QED
      BY <1>2, <3>2, <3>3
  <2>2. QED
    BY <2>1
<1>10. \A i \in 1 .. Len(open') : open'[i] = "testsuite" <=> \E n \in 1 .. len + 1 : to[n] = i
  <2>1. ASSUME NEW i \in 1 .. Len(open)
        PROVE  open'[i] = "testsuite" <=> \E n \in 1 .. len + 1 : to[n] = i
    <3>1. open'[i] = open[i] /\ i # Len(open) + 1
      BY <1>6
    <3>2. open[i] = "testsuite" <=> \E n \in N : at[n] = i
      BY <1>1
    <3>3. (\E n \in N : at[n] = i) <=> \E n \in 1 .. len + 1 : to[n] = i
      <4>1. \A n \in 1 .. len + 1 : n \in N \/ n = len + 1
        BY <1>2
      <4>2. \A n \in N : n \in 1 .. len + 1
        BY <1>2
      <4>3. QED
        BY <1>8, <3>1, <4>1, <4>2
    <3>4. QED
      BY <3>1, <3>2, <3>3
  <2>2. open'[Len(open) + 1] = "testsuite" /\ \E n \in 1 .. len + 1 : to[n] = Len(open) + 1
    BY <1>2, <1>6, <1>8
  <2>3. QED
    BY <1>6, <2>1, <2>2
<1>11. \A n \in 1 .. len + 1 :
         testsuite_names'[n] = tree'[to[n]].name /\ testsuite_times'[n] = tree'[to[n]].time
  <2>1. \A n \in N :
         testsuite_names'[n] = tree'[to[n]].name /\ testsuite_times'[n] = tree'[to[n]].time
    <3>1. ASSUME NEW n \in N
          PROVE  testsuite_names'[n] = tree'[to[n]].name /\ testsuite_times'[n] = tree'[to[n]].time
      <4>1. to[n] = at[n] /\ tree'[at[n]] = tree[at[n]]
        BY <1>6, <1>7, <1>8
      <4>2. testsuite_names'[n] = testsuite_names[n] /\ testsuite_times'[n] = testsuite_times[n]
        BY <1>4
      <4>3. testsuite_names[n] = tree[at[n]].name /\ testsuite_times[n] = tree[at[n]].time
        BY <1>1
      <4>4. QED
        BY <4>1, <4>2, <4>3
    <3>2. QED
      BY <3>1
  <2>2. QED
    BY <1>2, <1>4, <1>6, <1>8, <2>1
<1>12. StackedWith(to)'
  BY <1>4, <1>8, <1>9, <1>10, <1>11 DEF StackedWith
<1>13. QED
  BY <1>5, <1>6, <1>12, StackedAfter

\* An open testsuite that closes is the last on the stacks.
LEMMA LastSuite ==
  ASSUME Types, Mirror, Stacked, open # <<>>, Last(open) = "testsuite"
  PROVE  testsuite_names # <<>> /\ testsuite_times # <<>>
<1>1. Len(open) \in Nat \ {0}
  BY EmptySeq DEF Types
<1>2. open[Len(open)] = "testsuite"
  BY DEF Last
<1>3. PICK at : \A i \in 1 .. Len(open) :
                  open[i] = "testsuite" <=> \E n \in 1 .. Len(testsuite_names) : at[n] = i
  BY StackedIs
<1>4. PICK n \in 1 .. Len(testsuite_names) : at[n] = Len(open)
  BY <1>1, <1>2, <1>3
<1>5. Len(testsuite_names) # 0 /\ Len(testsuite_times) # 0
  BY <1>4, StackedIs
<1>6. QED
  BY <1>5

LEMMA StackedCloses ==
  ASSUME Types, Mirror, Stacked, Pops, Last(open) = "testsuite",
         testsuite_names' = Front(testsuite_names),
         testsuite_times' = Front(testsuite_times)
  PROVE  Stacked'
<1> DEFINE len == Len(testsuite_names)
           N == 1 .. len
<1>1. PICK at :
        /\ at \in [N -> 1 .. Len(open)]
        /\ \A m, n \in N : m < n => at[m] < at[n]
        /\ \A i \in 1 .. Len(open) : open[i] = "testsuite" <=> \E n \in N : at[n] = i
        /\ \A n \in N : testsuite_names[n] = tree[at[n]].name /\ testsuite_times[n] = tree[at[n]].time
  BY StackedIs
<1>2. /\ Len(testsuite_times) = len /\ len \in Nat
      /\ testsuite_names \in Seq(SuiteNames \cup {None})
      /\ testsuite_times \in Seq(SuiteTimes \cup {None})
  BY StackedIs DEF Types
<1>3. /\ tree' \in Seq(Frames) /\ open' \in Seq(Elements)
      /\ Len(open) \in Nat \ {0}
      /\ Len(open') = Len(open) - 1
      /\ \A i \in 1 .. Len(open) - 1 : open'[i] = open[i] /\ SameFrame(tree'[i], tree[i])
  BY PoppedFrames
<1>4. open # <<>> /\ open[Len(open)] = "testsuite"
  BY DEF Last, Pops
<1>5. testsuite_names # <<>> /\ testsuite_times # <<>>
  BY <1>4, LastSuite
<1>6. /\ testsuite_names' \in Seq(SuiteNames \cup {None})
      /\ Len(testsuite_names') = len - 1 /\ Len(testsuite_times') = len - 1
      /\ \A n \in 1 .. len - 1 :
           testsuite_names'[n] = testsuite_names[n] /\ testsuite_times'[n] = testsuite_times[n]
  <2>1. /\ testsuite_names' \in Seq(SuiteNames \cup {None})
        /\ Len(testsuite_names') = len - 1
        /\ \A n \in 1 .. len - 1 : testsuite_names'[n] = testsuite_names[n]
    BY <1>2, <1>5, FrontType
  <2>2. /\ Len(testsuite_times') = len - 1
        /\ \A n \in 1 .. len - 1 : testsuite_times'[n] = testsuite_times[n]
    BY <1>2, <1>5, FrontType
  <2>3. QED
    BY <2>1, <2>2
<1>7. Mirror'
  BY MirrorKept
<1> HIDE DEF len
<1>8. \A n \in N : at[n] \in 1 .. Len(open)
  BY <1>1
<1>9. len \in N /\ at[len] = Len(open)
  <2>1. PICK n \in N : at[n] = Len(open)
    BY <1>1, <1>3, <1>4
  <2>2. n = len
    <3>1. len \in N /\ at[len] \in 1 .. Len(open)
      BY <1>2, <1>8, <2>1
    <3>2. n < len => at[n] < at[len]
      BY <1>1, <3>1
    <3>3. QED
      BY <1>2, <1>3, <2>1, <3>1, <3>2
  <2>3. QED
    BY <2>1, <2>2
<1>10. \A n \in 1 .. len - 1 : at[n] \in 1 .. Len(open')
  <2>1. ASSUME NEW n \in 1 .. len - 1
        PROVE  at[n] \in 1 .. Len(open')
    <3>1. n \in N /\ n < len
      BY <1>2
    <3>2. at[n] < at[len]
      BY <1>1, <1>9, <3>1
    <3>3. QED
      BY <1>3, <1>8, <1>9, <3>1, <3>2
  <2>2. QED
    BY <2>1
<1>11. PICK to :
         /\ \A n \in 1 .. len - 1 : to[n] = at[n]
         /\ to \in [1 .. len - 1 -> 1 .. Len(open')]
  <2> DEFINE shorter == [n \in 1 .. len - 1 |-> at[n]]
  <2>1. /\ \A n \in 1 .. len - 1 : shorter[n] = at[n]
        /\ shorter \in [1 .. len - 1 -> 1 .. Len(open')]
    BY <1>10
  <2> HIDE DEF shorter
  <2>2. QED
    BY <2>1
<1>12. \A m, n \in 1 .. len - 1 : m < n => to[m] < to[n]
  BY <1>1, <1>2, <1>11
<1>13. \A i \in 1 .. Len(open') : open'[i] = "testsuite" <=> \E n \in 1 .. len - 1 : to[n] = i
  <2>1. ASSUME NEW i \in 1 .. Len(open')
        PROVE  open'[i] = "testsuite" <=> \E n \in 1 .. len - 1 : to[n] = i
    <3>1. i \in 1 .. Len(open) /\ i # Len(open) /\ open'[i] = open[i]
      BY <1>3
    <3>2. open[i] = "testsuite" <=> \E n \in N : at[n] = i
      BY <1>1, <3>1
    <3>3. (\E n \in N : at[n] = i) <=> \E n \in 1 .. len - 1 : at[n] = i
      BY <1>2, <1>9, <3>1
    <3>4. QED
      BY <1>11, <3>1, <3>2, <3>3
  <2>2. QED
    BY <2>1
<1>14. \A n \in 1 .. len - 1 :
         testsuite_names'[n] = tree'[to[n]].name /\ testsuite_times'[n] = tree'[to[n]].time
  <2>1. ASSUME NEW n \in 1 .. len - 1
        PROVE  /\ testsuite_names'[n] = tree'[to[n]].name
               /\ testsuite_times'[n] = tree'[to[n]].time
    <3>1. n \in N /\ at[n] \in 1 .. Len(open) - 1
      BY <1>2, <1>3, <1>10
    <3>2. SameFrame(tree'[at[n]], tree[at[n]])
      BY <1>3, <3>1
    <3>3. QED
      BY <1>1, <1>6, <1>11, <3>1, <3>2 DEF SameFrame
  <2>2. QED
    BY <2>1
<1>15. StackedWith(to)'
  BY <1>6, <1>11, <1>12, <1>13, <1>14 DEF StackedWith
<1>16. QED
  BY <1>3, <1>7, <1>15, StackedAfter

-----------------------------------------------------------------------------
(* The saved run.                                                          *)

SavedAt(i) ==
  /\ i \in 1 .. Len(open)
  /\ open[i] = "testcase"
  /\ \A j \in 1 .. Len(open) : j > i => open[j] # "testcase"
  /\ saved_testrun = Skipped <=> tree[i].attrs.parsed # "Ok"

LEMMA SavedIs ==
  ASSUME Types, Mirror, Saved, saved_testrun # None
  PROVE  \E i : SavedAt(i)
<1>1. PICK i \in DOMAIN tree :
        /\ InnermostTestcase(i)
        /\ saved_testrun = Skipped <=> tree[i].attrs.parsed # "Ok"
  BY DEF Saved
<1>2. DOMAIN open = 1 .. Len(open)
  BY DEF Types
<1>3. SavedAt(i)
  BY <1>1, <1>2 DEF SavedAt, InnermostTestcase
<1>4. QED
  BY <1>3

LEMMA SavedAfter ==
  ASSUME Mirror', tree' \in Seq(Frames), open' \in Seq(Elements),
         saved_testrun' = None \/ \E i : SavedAt(i)'
  PROVE  Saved'
<1>1. CASE saved_testrun' = None
  BY <1>1 DEF Saved
<1>2. CASE \E i : SavedAt(i)'
  <2>1. PICK i : SavedAt(i)'
    BY <1>2
  <2>2. DOMAIN open' = 1 .. Len(open') /\ DOMAIN tree' = 1 .. Len(open')
    BY DEF Mirror
  <2>3. i \in DOMAIN tree' /\ InnermostTestcase(i)'
    BY <2>1, <2>2 DEF SavedAt, InnermostTestcase
  <2>4. saved_testrun' = Skipped <=> tree'[i].attrs.parsed # "Ok"
    BY <2>1 DEF SavedAt
  <2>5. QED
    BY <2>3, <2>4 DEF Saved
<1>3. QED
  BY <1>1, <1>2

LEMMA SavedOpens ==
  ASSUME Types, Mirror, NEW f, Pushes(f), f.element = "testcase",
         saved_testrun' = Skipped <=> f.attrs.parsed # "Ok"
  PROVE  Saved'
<1>1. Mirror'
  BY MirrorKept
<1>2. /\ tree' \in Seq(Frames) /\ open' \in Seq(Elements)
      /\ Len(open) \in Nat
      /\ Len(open') = Len(open) + 1
      /\ open'[Len(open) + 1] = "testcase" /\ tree'[Len(open) + 1] = f
  BY PushedFrames
<1>3. PICK i : i = Len(open) + 1
  OBVIOUS
<1>4. SavedAt(i)'
  <2>1. i \in 1 .. Len(open') /\ \A j \in 1 .. Len(open') : ~ (j > i)
    BY <1>2, <1>3
  <2>2. open'[i] = "testcase" /\ tree'[i] = f
    BY <1>2, <1>3
  <2>3. QED
    BY <2>1, <2>2 DEF SavedAt
<1>5. QED
  BY <1>1, <1>2, <1>4, SavedAfter

LEMMA SavedKept ==
  ASSUME Types, Mirror, Saved,
         saved_testrun' # None => saved_testrun # None,
         saved_testrun' = Skipped <=> saved_testrun = Skipped,
         \/ \E f : Pushes(f) /\ f.element # "testcase"
         \/ Pops /\ Last(open) # "testcase"
         \/ Stays
  PROVE  Saved'
<1>1. Mirror'
  BY MirrorKept
<1>2. CASE saved_testrun' = None
  BY <1>2 DEF Saved
<1>3. CASE saved_testrun' # None
  <2>1. PICK i : SavedAt(i)
    BY <1>3, SavedIs
  <2>2. /\ i \in 1 .. Len(open) /\ Len(open) \in Nat
        /\ open[i] = "testcase"
        /\ \A j \in 1 .. Len(open) : j > i => open[j] # "testcase"
        /\ saved_testrun = Skipped <=> tree[i].attrs.parsed # "Ok"
    BY <2>1 DEF SavedAt, Types
  <2>3. ASSUME NEW f, Pushes(f), f.element # "testcase"
        PROVE  SavedAt(i)' /\ tree' \in Seq(Frames) /\ open' \in Seq(Elements)
    <3>1. /\ tree' \in Seq(Frames) /\ open' \in Seq(Elements)
          /\ Len(open') = Len(open) + 1
          /\ open'[Len(open) + 1] # "testcase"
          /\ \A j \in 1 .. Len(open) : open'[j] = open[j] /\ tree'[j] = tree[j]
      BY <2>3, PushedFrames
    <3>2. i \in 1 .. Len(open') /\ open'[i] = "testcase" /\ tree'[i] = tree[i]
      BY <2>2, <3>1
    <3>3. \A j \in 1 .. Len(open') : j > i => open'[j] # "testcase"
      BY <2>2, <3>1
    <3>4. QED
      BY <2>2, <3>1, <3>2, <3>3 DEF SavedAt
  <2>4. ASSUME Pops, Last(open) # "testcase"
        PROVE  SavedAt(i)' /\ tree' \in Seq(Frames) /\ open' \in Seq(Elements)
    <3>1. /\ tree' \in Seq(Frames) /\ open' \in Seq(Elements)
          /\ Len(open') = Len(open) - 1
          /\ \A j \in 1 .. Len(open) - 1 : open'[j] = open[j] /\ SameFrame(tree'[j], tree[j])
      BY <2>4, PoppedFrames
    <3>2. i # Len(open)
      BY <2>2, <2>4 DEF Last
    <3>3. i \in 1 .. Len(open') /\ open'[i] = "testcase" /\ tree'[i].attrs = tree[i].attrs
      BY <2>2, <3>1, <3>2 DEF SameFrame
    <3>4. \A j \in 1 .. Len(open') : j > i => open'[j] # "testcase"
      BY <2>2, <3>1
    <3>5. QED
      BY <2>2, <3>1, <3>3, <3>4 DEF SavedAt
  <2>5. ASSUME Stays
        PROVE  SavedAt(i)' /\ tree' \in Seq(Frames) /\ open' \in Seq(Elements)
    <3>1. /\ open' = open /\ tree' \in Seq(Frames) /\ open \in Seq(Elements)
          /\ \A j \in 1 .. Len(open) : SameFrame(tree'[j], tree[j])
      BY <2>5, StayingFrames DEF Types
    <3>2. QED
      BY <2>2, <3>1 DEF SavedAt, SameFrame
  <2>6. QED
    BY <1>1, <2>3, <2>4, <2>5, SavedAfter
<1>4. QED
  BY <1>2, <1>3

-----------------------------------------------------------------------------
(* The flags.                                                              *)

LEMMA OpenElements ==
  ASSUME Types, Mirror, NEW x, x \in ToSet(open),
         (\E f : Pushes(f)) \/ (Pops /\ x # Last(open)) \/ Stays
  PROVE  x \in ToSet(open')
<1>1. PICK i \in 1 .. Len(open) : open[i] = x
  BY DEF ToSet, Types
<1>2. Len(open) \in Nat
  BY DEF Types
<1>3. ASSUME NEW f, Pushes(f)
      PROVE  x \in ToSet(open')
  <2>1. /\ open' \in Seq(Elements) /\ Len(open') = Len(open) + 1
        /\ \A j \in 1 .. Len(open) : open'[j] = open[j]
    BY <1>3, PushedFrames
  <2>2. i \in DOMAIN open' /\ open'[i] = x
    BY <1>1, <1>2, <2>1
  <2>3. QED
    BY <2>2 DEF ToSet
<1>4. ASSUME Pops, x # Last(open)
      PROVE  x \in ToSet(open')
  <2>1. /\ open' \in Seq(Elements) /\ Len(open') = Len(open) - 1
        /\ \A j \in 1 .. Len(open) - 1 : open'[j] = open[j]
    BY <1>4, PoppedFrames
  <2>2. i # Len(open)
    BY <1>1, <1>4 DEF Last
  <2>3. i \in DOMAIN open' /\ open'[i] = x
    BY <1>1, <1>2, <2>1, <2>2
  <2>4. QED
    BY <2>3 DEF ToSet
<1>5. CASE Stays
  BY <1>5, StayingFrames
<1>6. QED
  BY <1>3, <1>4, <1>5

LEMMA PushedElement ==
  ASSUME Types, Mirror, NEW f, Pushes(f)
  PROVE  f.element \in ToSet(open')
<1>1. /\ open' \in Seq(Elements) /\ Len(open) \in Nat /\ Len(open') = Len(open) + 1
      /\ open'[Len(open) + 1] = f.element
  BY PushedFrames
<1>2. Len(open) + 1 \in DOMAIN open'
  BY <1>1
<1>3. QED
  BY <1>1, <1>2 DEF ToSet

LEMMA FlagsKept ==
  ASSUME Types, Mirror, Flags,
         \/ /\ (\E f : Pushes(f)) \/ Stays
            /\ UNCHANGED <<in_failure, in_error>>
         \/ /\ Pops
            /\ in_failure' => in_failure /\ Last(open) # "failure"
            /\ in_error' => in_error /\ Last(open) # "error"
         \/ \E f : /\ Pushes(f)
                   /\ in_failure' = (in_failure \/ f.element = "failure")
                   /\ in_error' = (in_error \/ f.element = "error")
  PROVE  Flags'
<1>1. ASSUME in_failure'
      PROVE  "failure" \in ToSet(open')
  <2>1. CASE in_failure /\ ((\E f : Pushes(f)) \/ (Pops /\ Last(open) # "failure") \/ Stays)
    <3>1. "failure" \in ToSet(open)
      BY <2>1 DEF Flags
    <3>2. QED
      BY <2>1, <3>1, OpenElements
  <2>2. CASE \E f : Pushes(f) /\ f.element = "failure"
    BY <2>2, PushedElement
  <2>3. QED
    BY <1>1, <2>1, <2>2
<1>2. ASSUME in_error'
      PROVE  "error" \in ToSet(open')
  <2>1. CASE in_error /\ ((\E f : Pushes(f)) \/ (Pops /\ Last(open) # "error") \/ Stays)
    <3>1. "error" \in ToSet(open)
      BY <2>1 DEF Flags
    <3>2. QED
      BY <2>1, <3>1, OpenElements
  <2>2. CASE \E f : Pushes(f) /\ f.element = "error"
    BY <2>2, PushedElement
  <2>3. QED
    BY <1>2, <2>1, <2>2
<1>3. QED
  BY <1>1, <1>2 DEF Flags

-----------------------------------------------------------------------------
(* Types of what the parser and the document say of a test case.           *)

LEMMA InheritedType ==
  ASSUME NEW s \in Seq(Frames)
  PROVE  InheritedName(s) \in SuiteNames \cup {None} /\ InheritedTime(s) \in SuiteTimes \cup {None}
<1>1. Len(s) \in Nat /\ DOMAIN s = 1 .. Len(s)
  OBVIOUS
<1>2. \A i \in 1 .. Len(s) : s[i].name \in SuiteNames \cup {None} /\ s[i].time \in SuiteTimes \cup {None}
  <2>1. \A i \in 1 .. Len(s) : s[i] \in Frames
    BY ElementOfSeq
  <2>2. QED
    BY <2>1 DEF Frames
<1>3. InheritedName(s) \in SuiteNames \cup {None}
  BY <1>1, <1>2 DEF InheritedName, Inherited
<1>4. InheritedTime(s) \in SuiteTimes \cup {None}
  BY <1>1, <1>2 DEF InheritedTime, Inherited
<1>5. QED
  BY <1>3, <1>4

LEMMA AttributesType ==
  ASSUME NEW attrs \in Attrs
  PROVE  /\ attrs.parsed \in {"Ok", "AttrTooLong", "Err"}
         /\ attrs.name \in Nat
         /\ attrs.time \in TestTimes \cup {None}
         /\ attrs.hint \in Frameworks \cup {None}
BY AttrsAssumption DEF Attributes

LEMMA PopulateType ==
  ASSUME Types, NEW attrs \in Attrs
  PROVE  /\ PopulatedFramework(attrs) \in Frameworks \cup {None}
         /\ Populate(attrs) \in Testruns
         /\ Populate(attrs) # Skipped /\ Populate(attrs) # None
<1>1. LastSome(testsuite_names) \in SuiteNames \cup {None}
  BY LastSomeValue DEF Types
<1>2. LastSome(testsuite_times) \in SuiteTimes \cup {None}
  BY LastSomeValue DEF Types
<1>3. framework \in Frameworks \cup {None}
  BY DEF Types
<1>4. PopulatedFramework(attrs) \in Frameworks \cup {None}
  BY <1>1, <1>3, AttributesType DEF PopulatedFramework, TestrunFramework, Some
<1>5. ParseTime(Some(attrs.time, LastSome(testsuite_times))) \in SuiteTimes \cup TestTimes \cup {None}
  BY <1>2, AttributesType DEF ParseTime, Some
<1>6. attrs.name \in Nat
  BY AttributesType
<1>7. Populate(attrs) \in Testruns
  BY <1>1, <1>4, <1>5, <1>6 DEF Populate, Testruns
<1>8. QED
  BY <1>4, <1>7, SkippedAssumption

LEMMA PopulatedFrameworkHinted ==
  ASSUME Types, Mirror, Stacked, framework \in hinted \cup {None},
         NEW attrs \in Attrs, attrs.parsed = "Ok", TestcaseHints(attrs)
  PROVE  PopulatedFramework(attrs) \in hinted' \cup {None}
<1>1. hinted' = hinted \cup ({attrs.hint, InheritedName(tree)} \cap Frameworks)
  BY DEF TestcaseHints, Hints, InheritedName
<1>2. LastSome(testsuite_names) = InheritedName(tree)
  BY StacksInherit
<1>3. attrs.hint \in Frameworks \cup {None}
  BY AttributesType
<1>4. QED
  BY <1>1, <1>2, <1>3 DEF PopulatedFramework, TestrunFramework, Some

LEMMA HintsType ==
  ASSUME Types, NEW names, Hints(names)
  PROVE  hinted' \subseteq Frameworks /\ hinted \subseteq hinted'
BY DEF Types, Hints

LEMMA TestcaseHintsType ==
  ASSUME Types, NEW attrs, TestcaseHints(attrs)
  PROVE  hinted' \subseteq Frameworks /\ hinted \subseteq hinted'
BY HintsType DEF TestcaseHints

LEMMA OutcomeType ==
  ASSUME NEW element \in Outcomes
  PROVE  OutcomeOf(element) \in {"Skip", "Failure", "Error"}
BY DEF OutcomeOf, Outcomes

\* A saved run is none, one that is skipped or a run, and these are different.
LEMMA SavedKinds ==
  ASSUME Types
  PROVE  /\ saved_testrun \notin {None, Skipped} <=> saved_testrun \in Testruns
         /\ None # Skipped
BY SkippedAssumption DEF Types

LEMMA MarkType ==
  ASSUME Types, NEW element \in Outcomes, NEW message \in Messages \cup {None},
         Mark(element, message)
  PROVE  /\ saved_testrun # None
         /\ saved_testrun' \in Testruns \cup {None, Skipped}
         /\ saved_testrun' = Skipped <=> saved_testrun = Skipped
<1>1. CASE saved_testrun = Skipped
  BY <1>1, SavedKinds DEF Mark
<1>2. CASE saved_testrun # Skipped
  <2>1. saved_testrun # None /\ saved_testrun \in Testruns
    BY <1>2, SavedKinds DEF Mark
  <2> DEFINE new == [saved_testrun EXCEPT
               !.outcome = OutcomeOf(element),
               !.failure_message =
                 IF element = "skipped" THEN saved_testrun.failure_message ELSE message]
  <2>2. saved_testrun' = new
    BY <1>2 DEF Mark
  <2>3. new \in Testruns
    BY <2>1, OutcomeType DEF Testruns
  <2>4. QED
    BY <1>2, <2>1, <2>2, <2>3, SkippedAssumption
<1>3. QED
  BY <1>1, <1>2

LEMMA ExpectedMessageType ==
  ASSUME NEW outcomes \in Seq(Reports)
  PROVE  /\ ExpectedMessage(outcomes) \in Messages \cup {None}
         /\ ExpectedOutcome(outcomes) \in {"Pass", "Skip", "Failure", "Error"}
<1>1. \A i \in DOMAIN outcomes :
        /\ outcomes[i].element \in Outcomes
        /\ outcomes[i].text \in Messages \cup {None}
        /\ outcomes[i].message \in Messages \cup {None}
  <2>1. \A i \in DOMAIN outcomes : outcomes[i] \in Reports
    BY ElementOfSeq
  <2>2. QED
    BY <2>1 DEF Reports
<1>2. ExpectedMessage(outcomes) \in Messages \cup {None}
  BY <1>1 DEF ExpectedMessage, Some
<1>3. CASE outcomes # <<>>
  <2>1. Last(outcomes) \in Reports
    BY <1>3, FrontType
  <2>2. QED
    BY <1>2, <1>3, <2>1, OutcomeType DEF ExpectedOutcome, Reports
<1>4. CASE outcomes = <<>>
  BY <1>2, <1>4 DEF ExpectedOutcome
<1>5. QED
  BY <1>3, <1>4

ExpectedRun(frames, frame) ==
  [name |-> frame.attrs.name,
   testsuite |-> InheritedName(frames),
   duration |-> ParseTime(Some(frame.attrs.time, InheritedTime(frames))),
   outcome |-> ExpectedOutcome(frame.outcomes),
   failure_message |-> ExpectedMessage(frame.outcomes)]

LEMMA ExpectedRunsAre ==
  ASSUME NEW frames, NEW frame
  PROVE  ExpectedRuns(frames, frame) =
           IF frame.attrs.parsed # "Ok" THEN <<>> ELSE <<ExpectedRun(frames, frame)>>
BY DEF ExpectedRuns, ExpectedRun, InheritedName, InheritedTime

LEMMA ExpectedRunType ==
  ASSUME NEW frames \in Seq(Frames), NEW frame \in Frames, frame.attrs \in Attrs
  PROVE  ExpectedRun(frames, frame) \in ExpectedType
<1>1. InheritedName(frames) \in SuiteNames \cup {None}
  BY InheritedType
<1>2. InheritedTime(frames) \in SuiteTimes \cup {None}
  BY InheritedType
<1>3. /\ ExpectedMessage(frame.outcomes) \in Messages \cup {None}
      /\ ExpectedOutcome(frame.outcomes) \in {"Pass", "Skip", "Failure", "Error"}
  BY ExpectedMessageType DEF Frames
<1>4. ParseTime(Some(frame.attrs.time, InheritedTime(frames))) \in Durations
  BY <1>2, AttributesType DEF ParseTime, Some, Durations
<1>5. frame.attrs.name \in Nat
  BY AttributesType
<1>6. QED
  BY <1>1, <1>3, <1>4, <1>5 DEF ExpectedRun, ExpectedType

LEMMA ExpectedGrows ==
  ASSUME NEW runs \in Seq(ExpectedType), NEW frames \in Seq(Frames),
         NEW frame \in Frames, frame.attrs \in Attrs
  PROVE  /\ runs \o ExpectedRuns(frames, frame) \in Seq(ExpectedType)
         /\ Len(runs \o ExpectedRuns(frames, frame)) =
              IF frame.attrs.parsed = "Ok" THEN Len(runs) + 1 ELSE Len(runs)
         /\ frame.attrs.parsed # "Ok" => runs \o ExpectedRuns(frames, frame) = runs
<1>1. CASE frame.attrs.parsed = "Ok"
  <2> DEFINE new == <<ExpectedRun(frames, frame)>>
  <2>1. ExpectedRun(frames, frame) \in ExpectedType
    BY ExpectedRunType
  <2>2. new \in Seq(ExpectedType) /\ Len(new) = 1
    BY <2>1
  <2>3. ExpectedRuns(frames, frame) = new
    BY <1>1, ExpectedRunsAre
  <2> HIDE DEF new
  <2>4. runs \o new \in Seq(ExpectedType) /\ Len(runs \o new) = Len(runs) + Len(new)
    BY <2>2, ConcatProperties
  <2>5. QED
    BY <1>1, <2>2, <2>3, <2>4
<1>2. CASE frame.attrs.parsed # "Ok"
  <2>1. ExpectedRuns(frames, frame) = <<>>
    BY <1>2, ExpectedRunsAre
  <2>2. QED
    BY <1>2, <2>1, ConcatEmptySeq
<1>3. QED
  BY <1>1, <1>2

-----------------------------------------------------------------------------
(* Frames of new elements.                                                 *)

LEMMA FrameType ==
  ASSUME NEW element \in Elements
  PROVE  /\ Frame(element) \in Frames
         /\ Frame(element).element = element
         /\ Frame(element).name = None /\ Frame(element).time = None
         /\ Frame(element).outcomes = <<>>
BY DEF Frame, Frames

LEMMA TestcaseFrameType ==
  ASSUME NEW attrs \in Attrs
  PROVE  /\ TestcaseFrame(attrs) \in Frames
         /\ TestcaseFrame(attrs).element = "testcase"
         /\ TestcaseFrame(attrs).attrs = attrs
         /\ TestcaseFrame(attrs).name = None /\ TestcaseFrame(attrs).time = None
         /\ TestcaseFrame(attrs).outcomes = <<>>
<1> DEFINE f == Frame("testcase")
<1>1. /\ f \in Frames /\ f.element = "testcase"
      /\ f.name = None /\ f.time = None /\ f.outcomes = <<>>
  BY FrameType DEF Elements
<1>2. TestcaseFrame(attrs) = [f EXCEPT !.attrs = attrs]
  BY DEF TestcaseFrame
<1> HIDE DEF f
<1>3. QED
  BY <1>1, <1>2 DEF Frames

LEMMA OutcomeFrameType ==
  ASSUME NEW element \in Outcomes, NEW message \in Messages \cup {None}
  PROVE  /\ OutcomeFrame(element, message) \in Frames
         /\ OutcomeFrame(element, message).element = element
         /\ OutcomeFrame(element, message).name = None
         /\ OutcomeFrame(element, message).time = None
<1> DEFINE f == Frame(element)
<1>1. /\ f \in Frames /\ f.element = element
      /\ f.name = None /\ f.time = None
  BY FrameType DEF Elements, Outcomes
<1>2. OutcomeFrame(element, message) = [f EXCEPT !.message = message]
  BY DEF OutcomeFrame
<1> HIDE DEF f
<1>3. QED
  BY <1>1, <1>2 DEF Frames

SuiteFrame(name, time) == [Frame("testsuite") EXCEPT !.name = name, !.time = time]

LEMMA SuiteFrameType ==
  ASSUME NEW name \in SuiteNames \cup {None}, NEW time \in SuiteTimes \cup {None}
  PROVE  /\ SuiteFrame(name, time) \in Frames
         /\ SuiteFrame(name, time).element = "testsuite"
         /\ SuiteFrame(name, time).name = name
         /\ SuiteFrame(name, time).time = time
<1> DEFINE f == Frame("testsuite")
           g == [f EXCEPT !.name = name]
<1>1. f \in Frames /\ f.element = "testsuite"
  BY FrameType DEF Elements
<1>2. SuiteFrame(name, time) = [g EXCEPT !.time = time]
  BY DEF SuiteFrame
<1> HIDE DEF f
<1>3. g \in Frames /\ g.element = "testsuite" /\ g.name = name
  BY <1>1 DEF Frames
<1> HIDE DEF g
<1>4. QED
  BY <1>2, <1>3 DEF Frames

-----------------------------------------------------------------------------
(* What the events do to the frames.                                       *)

LEMMA ReadsPosition ==
  ASSUME Types, Reads
  PROVE  position \in Nat /\ position' = position + 1 /\ position' \in 0 .. MaxEvents
BY MaxEventsAssumption DEF Types, Reads

LEMMA WarningsKept ==
  ASSUME Types, WarningsOrdered, Reads,
         warnings' = warnings \/ \E w \in {StartOf(position), BufferPosition} :
                                   warnings' = Append(warnings, w)
  PROVE  WarningsOrdered' /\ warnings' \in Seq(Nat)
<1> DEFINE n == Len(warnings)
<1>1. position \in Nat /\ position' = position + 1
  BY ReadsPosition
<1>2. warnings \in Seq(Nat) /\ n \in Nat /\ DOMAIN warnings = 1 .. n
  BY DEF Types
<1>3. /\ \A i \in 2 .. n : warnings[i] >= warnings[i - 1]
      /\ \A i \in 1 .. n : warnings[i] \in Nat /\ warnings[i] < 2 * position + 1
  <2>1. \A i \in 1 .. n : warnings[i] \in Nat
    BY <1>2, ElementOfSeq
  <2>2. QED
    BY <1>2, <2>1 DEF WarningsOrdered, BufferPosition
<1>4. CASE warnings' = warnings
  <2>1. \A i \in 2 .. Len(warnings') : warnings'[i] >= warnings'[i - 1]
    BY <1>3, <1>4
  <2>2. \A i \in DOMAIN warnings' : warnings'[i] < 2 * position' + 1
    BY <1>1, <1>2, <1>3, <1>4
  <2>3. QED
    BY <1>2, <1>4, <2>1, <2>2 DEF WarningsOrdered, BufferPosition
<1>5. ASSUME NEW w \in {StartOf(position), BufferPosition}, warnings' = Append(warnings, w)
      PROVE  WarningsOrdered' /\ warnings' \in Seq(Nat)
  <2>1. w \in Nat /\ w >= 2 * position /\ w < 2 * position + 3
    BY <1>1 DEF StartOf, BufferPosition
  <2>2. /\ warnings' \in Seq(Nat) /\ Len(warnings') = n + 1 /\ warnings'[n + 1] = w
        /\ \A i \in 1 .. n : warnings'[i] = warnings[i]
    <3>1. warnings \in Seq(Nat) /\ w \in Nat
      BY <1>2, <2>1
    <3>2. /\ Append(warnings, w) \in Seq(Nat) /\ Len(Append(warnings, w)) = n + 1
          /\ Append(warnings, w)[n + 1] = w
          /\ \A i \in 1 .. n : Append(warnings, w)[i] = warnings[i]
      BY <3>1, AppendType
    <3>3. QED
      BY <1>5, <3>2
  <2> HIDE DEF n
  <2>3. \A i \in 2 .. n + 1 : warnings'[i] >= warnings'[i - 1]
    <3>1. ASSUME NEW i \in 2 .. n
          PROVE  warnings'[i] >= warnings'[i - 1]
      <4>1. i \in 1 .. n /\ i - 1 \in 1 .. n
        BY <1>2
      <4>2. QED
        BY <1>3, <2>2, <4>1
    <3>2. n + 1 \in 2 .. n + 1 => warnings'[n + 1] >= warnings'[n]
      <4>1. n + 1 \in 2 .. n + 1 => n \in 1 .. n
        BY <1>2
      <4>2. n \in 1 .. n => warnings'[n] = warnings[n] /\ warnings[n] \in Nat /\ warnings[n] < 2 * position + 1
        BY <1>3, <2>2
      <4>3. QED
        BY <1>1, <2>1, <2>2, <4>1, <4>2
    <3>3. \A i \in 2 .. n + 1 : i \in 2 .. n \/ (i = n + 1 /\ i - 1 = n)
      BY <1>2
    <3>4. QED
      BY <3>1, <3>2, <3>3
  <2>4. \A i \in 1 .. n + 1 : warnings'[i] < 2 * position' + 1
    <3>1. \A i \in 1 .. n + 1 : i \in 1 .. n \/ i = n + 1
      BY <1>2
    <3>2. QED
      BY <1>1, <1>3, <2>1, <2>2, <3>1
  <2>5. QED
    BY <2>2, <2>3, <2>4 DEF WarningsOrdered, BufferPosition
<1>6. QED
  BY <1>4, <1>5

LEMMA SameFramesReflexive ==
  ASSUME NEW s
  PROVE  SameFrames(s, s)
BY DEF SameFrames, SameFrame

LEMMA ClosesPops ==
  ASSUME Types, Mirror, NEW element, Closes(element), tree' \in {Closed(tree), Front(tree)}
  PROVE  Pops /\ Last(open) = element
<1>1. tree \in Seq(Frames) /\ open \in Seq(Elements) /\ Len(tree) = Len(open)
  BY DEF Types, Mirror
<1>2. open # <<>> /\ Last(open) = element /\ open' = Front(open)
  BY DEF Closes
<1>3. tree # <<>>
  BY <1>1, <1>2, EmptySeq
<1>4. Closed(tree) \in Seq(Frames) /\ SameFrames(Closed(tree), Front(tree))
  BY <1>1, <1>3, ClosedFrames
<1>5. Front(tree) \in Seq(Frames) /\ SameFrames(Front(tree), Front(tree))
  BY <1>1, <1>3, FrontType, SameFramesReflexive
<1>6. QED
  BY <1>2, <1>4, <1>5 DEF Pops

LEMMA UnchangedStays ==
  ASSUME Types, UNCHANGED <<open, tree>>
  PROVE  Stays
BY SameFramesReflexive DEF Types, Stays

LEMMA EmptyElementStays ==
  ASSUME Types, NEW f \in Frames, UNCHANGED open, tree' = Closed(Append(tree, f))
  PROVE  Stays
<1>1. tree \in Seq(Frames)
  BY DEF Types
<1>2. Append(tree, f) \in Seq(Frames) /\ Append(tree, f) # <<>> /\ Front(Append(tree, f)) = tree
  BY <1>1, AppendType
<1>3. tree' \in Seq(Frames) /\ SameFrames(tree', tree)
  BY <1>2, ClosedFrames
<1>4. QED
  BY <1>3 DEF Stays

LEMMA TextStays ==
  ASSUME Types, NEW message \in Messages, UNCHANGED open,
         tree' = IF tree = <<>> THEN tree ELSE [tree EXCEPT ![Len(tree)].text = message]
  PROVE  Stays
<1>1. tree \in Seq(Frames)
  BY DEF Types
<1>2. CASE tree = <<>>
  BY <1>2, UnchangedStays
<1>3. CASE tree # <<>>
  <2> DEFINE last == tree[Len(tree)]
             new == [last EXCEPT !.text = message]
  <2>1. Len(tree) \in 1 .. Len(tree) /\ last \in Frames
    BY <1>1, <1>3, EmptySeq, ElementOfSeq
  <2>2. new \in Frames /\ SameFrame(new, last)
    BY <2>1, FrameUpdates
  <2>3. tree' = [tree EXCEPT ![Len(tree)] = new]
    BY <1>3
  <2> HIDE DEF new
  <2>4. /\ tree' \in Seq(Frames) /\ Len(tree') = Len(tree)
        /\ \A i \in 1 .. Len(tree) : tree'[i] = IF i = Len(tree) THEN new ELSE tree[i]
    BY <1>1, <2>1, <2>2, <2>3, ExceptSeq
  <2>5. SameFrames(tree', tree)
    BY <2>2, <2>4 DEF SameFrames, SameFrame
  <2>6. QED
    BY <2>4, <2>5 DEF Stays
<1>4. QED
  BY <1>2, <1>3

LEMMA OpensPushes ==
  ASSUME NEW f \in Frames, Opens(f.element), tree' = Append(tree, f),
         f.element = "testcase" => f.attrs \in Attrs,
         f.element # "testsuite" => f.name = None /\ f.time = None
  PROVE  Pushes(f)
BY DEF Opens, Pushes

-----------------------------------------------------------------------------
(* The inductive invariant is one.                                         *)

LEMMA DocumentStep ==
  ASSUME DocumentInv, Reads, status' = status,
         (\E f : Pushes(f)) \/ Pops \/ Stays,
         in_failure' \in BOOLEAN, in_error' \in BOOLEAN,
         saved_testrun' \in Testruns \cup {None, Skipped},
         testruns' \in Seq(Testruns), expected' \in Seq(ExpectedType),
         Len(testruns') = Len(expected'),
         since' \in Nat, since' <= Len(testruns'),
         hinted' \subseteq Frameworks, framework' \in hinted' \cup {None},
         warnings' = warnings \/ \E w \in {StartOf(position), BufferPosition} :
                                   warnings' = Append(warnings, w),
         testsuite_names' \in Seq(SuiteNames \cup {None}),
         testsuite_times' \in Seq(SuiteTimes \cup {None}),
         Stacked', Saved', Flags'
  PROVE  DocumentInv'
<1>1. Types /\ Mirror /\ WarningsOrdered
  BY DEF DocumentInv
<1>2. Mirror'
  BY <1>1, MirrorKept
<1>3. WarningsOrdered' /\ warnings' \in Seq(Nat)
  BY <1>1, WarningsKept
<1>4. position' \in 0 .. MaxEvents
  BY <1>1, ReadsPosition
<1>5. open' \in Seq(Elements) /\ tree' \in Seq(Frames)
  <2>1. CASE \E f : Pushes(f)
    BY <1>1, <2>1, PushedFrames
  <2>2. CASE Pops
    BY <1>1, <2>2, PoppedFrames
  <2>3. CASE Stays
    BY <1>1, <2>3, StayingFrames DEF Types
  <2>4. QED
    BY <2>1, <2>2, <2>3
<1>6. status' \in {"reading", "done", "failed"}
  BY <1>1 DEF Types
<1>7. Types'
  BY <1>3, <1>4, <1>5, <1>6 DEF Types
<1>8. QED
  BY <1>2, <1>3, <1>7 DEF DocumentInv, SameLength

\* The stacks of an event that leaves the runs alone.
LEMMA SilentStep ==
  ASSUME DocumentInv, Reads, status' = status,
         \/ \E f : Pushes(f) /\ f.element \notin {"testsuite", "testcase"}
         \/ Pops /\ Last(open) \notin {"testsuite", "testcase"}
         \/ Stays,
         in_failure' \in BOOLEAN, in_error' \in BOOLEAN, Flags',
         saved_testrun' \in Testruns \cup {None, Skipped},
         saved_testrun' # None => saved_testrun # None,
         saved_testrun' = Skipped <=> saved_testrun = Skipped,
         UNCHANGED <<testruns, expected, testsuite_names, testsuite_times>>,
         since' = since \/ since' = Len(testruns),
         hinted' \subseteq Frameworks, framework' \in hinted' \cup {None},
         warnings' = warnings \/ \E w \in {StartOf(position), BufferPosition} :
                                   warnings' = Append(warnings, w)
  PROVE  DocumentInv'
<1>1. Types /\ Mirror /\ Stacked /\ Saved /\ SameLength
  BY DEF DocumentInv
<1>2. Stacked'
  BY <1>1, StackedKept
<1>3. Saved'
  BY <1>1, SavedKept
<1>4. /\ testruns' \in Seq(Testruns) /\ expected' \in Seq(ExpectedType)
      /\ Len(testruns') = Len(expected')
      /\ since' \in Nat /\ since' <= Len(testruns')
      /\ testsuite_names' \in Seq(SuiteNames \cup {None})
      /\ testsuite_times' \in Seq(SuiteTimes \cup {None})
  BY <1>1 DEF Types, SameLength
<1>5. QED
  BY <1>2, <1>3, <1>4, DocumentStep

LEMMA InvParts ==
  ASSUME DocumentInv
  PROVE  /\ Types /\ Mirror /\ Stacked /\ Saved /\ Flags /\ SameLength /\ WarningsOrdered
         /\ framework \in hinted \cup {None}
         /\ in_failure \in BOOLEAN /\ in_error \in BOOLEAN
         /\ saved_testrun \in Testruns \cup {None, Skipped}
         /\ testruns \in Seq(Testruns) /\ expected \in Seq(ExpectedType)
         /\ Len(testruns) = Len(expected)
         /\ since \in Nat /\ since <= Len(testruns)
         /\ hinted \subseteq Frameworks
         /\ testsuite_names \in Seq(SuiteNames \cup {None})
         /\ testsuite_times \in Seq(SuiteTimes \cup {None})
         /\ tree \in Seq(Frames) /\ open \in Seq(Elements) /\ Len(tree) = Len(open)
BY DEF DocumentInv, Types, SameLength, Mirror

LEMMA StartTestcaseKeeps ==
  ASSUME DocumentInv, NEW attrs \in Attrs, StartTestcase(attrs),
         tree' = Append(tree, TestcaseFrame(attrs)), TestcaseHints(attrs),
         UNCHANGED <<expected, since>>
  PROVE  DocumentInv'
<1> DEFINE f == TestcaseFrame(attrs)
<1>1. /\ f \in Frames /\ f.element = "testcase" /\ f.attrs = attrs
      /\ f.name = None /\ f.time = None
  BY TestcaseFrameType
<1>2. /\ Reads /\ status' = status
      /\ UNCHANGED <<in_failure, in_error, testsuite_names, testsuite_times, testruns>>
      /\ Opens("testcase")
  BY DEF StartTestcase, Opens
<1>3. Pushes(f)
  BY <1>1, <1>2, OpensPushes
<1> HIDE DEF f
<1>4. \/ /\ attrs.parsed = "Ok" /\ saved_testrun' = Populate(attrs)
         /\ framework' = PopulatedFramework(attrs) /\ warnings' = warnings
      \/ /\ attrs.parsed # "Ok" /\ saved_testrun' = Skipped
         /\ framework' = framework /\ warnings' = Append(warnings, StartOf(position))
  BY DEF StartTestcase
<1>5. /\ saved_testrun' \in Testruns \cup {None, Skipped}
      /\ saved_testrun' = Skipped <=> f.attrs.parsed # "Ok"
  BY <1>1, <1>4, InvParts, PopulateType
<1>6. hinted' \subseteq Frameworks /\ framework' \in hinted' \cup {None}
  <2>1. hinted' \subseteq Frameworks /\ hinted \subseteq hinted'
    BY InvParts, TestcaseHintsType
  <2>2. QED
    BY <1>4, <2>1, InvParts, PopulatedFrameworkHinted
<1>7. Stacked' /\ Saved' /\ Flags'
  <2>1. Stacked'
    BY <1>1, <1>2, <1>3, InvParts, StackedKept
  <2>2. Saved'
    BY <1>1, <1>3, <1>5, InvParts, SavedOpens
  <2>3. Flags'
    BY <1>2, <1>3, InvParts, FlagsKept
  <2>4. QED
    BY <2>1, <2>2, <2>3
<1>8. QED
  BY <1>2, <1>3, <1>4, <1>5, <1>6, <1>7, InvParts, DocumentStep

LEMMA EmptyTestcaseKeeps ==
  ASSUME DocumentInv, NEW attrs \in Attrs, EmptyTestcase(attrs),
         expected' = expected \o ExpectedRuns(tree, TestcaseFrame(attrs)), TestcaseHints(attrs),
         UNCHANGED <<tree, since>>
  PROVE  DocumentInv'
<1> DEFINE f == TestcaseFrame(attrs)
<1>1. f \in Frames /\ f.attrs = attrs
  BY TestcaseFrameType
<1>2. /\ Reads /\ status' = status /\ open' = open
      /\ UNCHANGED <<in_failure, in_error, testsuite_names, testsuite_times, saved_testrun>>
  BY DEF EmptyTestcase, Empties
<1>3. Stays
  BY <1>2, InvParts, UnchangedStays
<1> HIDE DEF f
<1>4. \/ /\ attrs.parsed = "Ok" /\ testruns' = Append(testruns, Populate(attrs))
         /\ framework' = PopulatedFramework(attrs) /\ warnings' = warnings
      \/ /\ attrs.parsed # "Ok" /\ testruns' = testruns
         /\ framework' = framework /\ warnings' = Append(warnings, StartOf(position))
  BY DEF EmptyTestcase
<1>5. /\ testruns' \in Seq(Testruns) /\ Len(testruns) \in Nat
      /\ Len(testruns') = IF attrs.parsed = "Ok" THEN Len(testruns) + 1 ELSE Len(testruns)
  <2>1. testruns \in Seq(Testruns) /\ Len(testruns) \in Nat /\ Populate(attrs) \in Testruns
    BY InvParts, PopulateType
  <2>2. /\ Append(testruns, Populate(attrs)) \in Seq(Testruns)
        /\ Len(Append(testruns, Populate(attrs))) = Len(testruns) + 1
    BY <2>1, AppendType
  <2>3. QED
    BY <1>4, <2>1, <2>2
<1>6. /\ expected' \in Seq(ExpectedType)
      /\ Len(expected') = IF attrs.parsed = "Ok" THEN Len(expected) + 1 ELSE Len(expected)
  BY <1>1, InvParts, ExpectedGrows DEF f
<1>7. Len(testruns') = Len(expected') /\ since' \in Nat /\ since' <= Len(testruns')
  <2>1. Len(testruns) = Len(expected) /\ since \in Nat /\ since <= Len(testruns) /\ since' = since
    BY InvParts
  <2>2. QED
    BY <1>5, <1>6, <2>1
<1>8. hinted' \subseteq Frameworks /\ framework' \in hinted' \cup {None}
  <2>1. hinted' \subseteq Frameworks /\ hinted \subseteq hinted'
    BY InvParts, TestcaseHintsType
  <2>2. QED
    BY <1>4, <2>1, InvParts, PopulatedFrameworkHinted
<1>9. Stacked' /\ Saved' /\ Flags'
  <2>1. Stacked'
    BY <1>2, <1>3, InvParts, StackedKept
  <2>2. Saved'
    BY <1>2, <1>3, InvParts, SavedKept
  <2>3. Flags'
    BY <1>2, <1>3, InvParts, FlagsKept
  <2>4. QED
    BY <2>1, <2>2, <2>3
<1>10. QED
  BY <1>2, <1>3, <1>4, <1>5, <1>6, <1>7, <1>8, <1>9, InvParts, DocumentStep

\* The run that is saved when a test case closes is that of this test case.
LEMMA SavedIsLast ==
  ASSUME DocumentInv, open # <<>>, Last(open) = "testcase"
  PROVE  /\ tree # <<>> /\ Last(tree) \in Frames /\ Front(tree) \in Seq(Frames)
         /\ Last(tree).element = "testcase" /\ Last(tree).attrs \in Attrs
         /\ saved_testrun # None => (saved_testrun = Skipped <=> Last(tree).attrs.parsed # "Ok")
<1>1. tree \in Seq(Frames) /\ open \in Seq(Elements) /\ Len(tree) = Len(open)
  BY InvParts
<1>2. Len(open) \in Nat \ {0} /\ open[Len(open)] = "testcase" /\ tree # <<>>
  BY <1>1, EmptySeq DEF Last
<1>3. /\ Last(tree) = tree[Len(open)] /\ Last(tree) \in Frames /\ Front(tree) \in Seq(Frames)
  BY <1>1, <1>2, FrontType
<1>4. tree[Len(open)].element = "testcase" /\ tree[Len(open)].attrs \in Attrs
  BY <1>2, InvParts, MirrorIs
<1>5. ASSUME saved_testrun # None
      PROVE  saved_testrun = Skipped <=> tree[Len(open)].attrs.parsed # "Ok"
  <2>1. PICK i : SavedAt(i)
    BY <1>5, InvParts, SavedIs
  <2>2. i = Len(open)
    BY <1>2, <2>1 DEF SavedAt
  <2>3. QED
    BY <2>1, <2>2 DEF SavedAt
<1>6. QED
  BY <1>2, <1>3, <1>4, <1>5

LEMMA EndTestcaseKeeps ==
  ASSUME DocumentInv, EndTestcase, tree' = Closed(tree),
         expected' = expected \o ExpectedRuns(Front(tree), Last(tree)),
         UNCHANGED <<since, hinted>>
  PROVE  DocumentInv'
<1>1. /\ Reads /\ status' = status /\ Closes("testcase")
      /\ saved_testrun # None /\ saved_testrun' = None
      /\ testruns' = IF saved_testrun = Skipped THEN testruns ELSE Append(testruns, saved_testrun)
      /\ UNCHANGED <<in_failure, in_error, framework, testsuite_names, testsuite_times, warnings>>
  BY DEF EndTestcase, Closes
<1>2. Pops /\ Last(open) = "testcase" /\ open # <<>>
  <2>1. tree' \in {Closed(tree), Front(tree)}
    OBVIOUS
  <2>2. QED
    BY <1>1, <2>1, InvParts, ClosesPops DEF Closes
<1> DEFINE f == Last(tree)
<1>3. /\ f \in Frames /\ Front(tree) \in Seq(Frames) /\ f.attrs \in Attrs
      /\ saved_testrun = Skipped <=> f.attrs.parsed # "Ok"
  BY <1>1, <1>2, SavedIsLast
<1> HIDE DEF f
<1>4. /\ expected' \in Seq(ExpectedType)
      /\ Len(expected') = IF f.attrs.parsed = "Ok" THEN Len(expected) + 1 ELSE Len(expected)
  BY <1>3, InvParts, ExpectedGrows DEF f
<1>5. /\ testruns' \in Seq(Testruns) /\ Len(testruns) \in Nat
      /\ Len(testruns') = IF f.attrs.parsed = "Ok" THEN Len(testruns) + 1 ELSE Len(testruns)
  <2>1. /\ testruns \in Seq(Testruns) /\ Len(testruns) \in Nat
        /\ saved_testrun # Skipped => saved_testrun \in Testruns
    BY <1>1, InvParts
  <2>2. QED
    BY <1>1, <1>3, <2>1, AppendType
<1>6. Len(testruns') = Len(expected') /\ since' \in Nat /\ since' <= Len(testruns')
  <2>1. Len(testruns) = Len(expected) /\ since \in Nat /\ since <= Len(testruns) /\ since' = since
    BY InvParts
  <2>2. QED
    BY <1>4, <1>5, <2>1
<1>7. Stacked' /\ Saved' /\ Flags'
  <2>1. Stacked'
    BY <1>1, <1>2, InvParts, StackedKept
  <2>2. Saved'
    BY <1>1 DEF Saved
  <2>3. Flags'
    BY <1>1, <1>2, InvParts, FlagsKept
  <2>4. QED
    BY <2>1, <2>2, <2>3
<1>8. hinted' \subseteq Frameworks /\ framework' \in hinted' \cup {None}
  BY <1>1, InvParts
<1>9. /\ in_failure' \in BOOLEAN /\ in_error' \in BOOLEAN
      /\ saved_testrun' \in Testruns \cup {None, Skipped}
      /\ testsuite_names' \in Seq(SuiteNames \cup {None})
      /\ testsuite_times' \in Seq(SuiteTimes \cup {None})
  BY <1>1, InvParts
<1>10. QED
  BY <1>1, <1>2, <1>4, <1>5, <1>6, <1>7, <1>8, <1>9, DocumentStep

LEMMA StartOutcomeKeeps ==
  ASSUME DocumentInv, NEW element \in Outcomes, NEW message \in Messages \cup {None},
         StartOutcome(element, message), NEW f \in Frames, f.element = element,
         f.name = None, f.time = None, Grows(f)
  PROVE  DocumentInv'
<1>1. /\ Reads /\ status' = status /\ Opens(element) /\ Mark(element, message)
      /\ in_failure' = (in_failure \/ element = "failure")
      /\ in_error' = (in_error \/ element = "error")
      /\ UNCHANGED <<framework, testsuite_names, testsuite_times, testruns, warnings>>
  BY DEF StartOutcome, Opens
<1>2. tree' = Append(tree, f) /\ UNCHANGED <<expected, since, hinted>>
  BY DEF Grows
<1>3. Pushes(f) /\ f.element \notin {"testsuite", "testcase"}
  BY <1>1, <1>2, OpensPushes DEF Outcomes
<1>4. /\ saved_testrun # None
      /\ saved_testrun' \in Testruns \cup {None, Skipped}
      /\ saved_testrun' = Skipped <=> saved_testrun = Skipped
  BY <1>1, InvParts, MarkType
<1>5. Flags'
  <2>1. /\ in_failure' = (in_failure \/ f.element = "failure")
        /\ in_error' = (in_error \/ f.element = "error")
    BY <1>1
  <2>2. QED
    BY <1>3, <2>1, InvParts, FlagsKept
<1>6. in_failure' \in BOOLEAN /\ in_error' \in BOOLEAN
  BY <1>1
<1>7. QED
  BY <1>1, <1>2, <1>3, <1>4, <1>5, <1>6, InvParts, SilentStep

LEMMA EmptyOutcomeKeeps ==
  ASSUME DocumentInv, NEW element \in Outcomes, NEW message \in Messages \cup {None},
         EmptyOutcome(element, message), NEW f \in Frames,
         tree' = Closed(Append(tree, f)), UNCHANGED <<expected, since, hinted>>
  PROVE  DocumentInv'
<1>1. /\ Reads /\ status' = status /\ open' = open /\ Mark(element, message)
      /\ UNCHANGED <<in_failure, in_error, framework, testsuite_names, testsuite_times, testruns,
                     warnings>>
  BY DEF EmptyOutcome, Empties
<1>2. Stays
  BY <1>1, InvParts, EmptyElementStays
<1>3. /\ saved_testrun # None
      /\ saved_testrun' \in Testruns \cup {None, Skipped}
      /\ saved_testrun' = Skipped <=> saved_testrun = Skipped
  BY <1>1, InvParts, MarkType
<1>4. Flags'
  BY <1>1, <1>2, InvParts, FlagsKept
<1>5. QED
  BY <1>1, <1>2, <1>3, <1>4, InvParts, SilentStep

LEMMA EndOutcomeKeeps ==
  ASSUME DocumentInv, NEW element \in Outcomes, EndOutcome(element), CloseFrame
  PROVE  DocumentInv'
<1>1. /\ Reads /\ status' = status /\ Closes(element)
      /\ in_failure' = (in_failure /\ element # "failure")
      /\ in_error' = (in_error /\ element # "error")
      /\ UNCHANGED <<saved_testrun, framework, testsuite_names, testsuite_times, testruns,
                     warnings>>
  BY DEF EndOutcome, Closes
<1>2. tree' = Closed(tree) /\ UNCHANGED <<expected, since, hinted>>
  BY DEF CloseFrame
<1>3. Pops /\ Last(open) = element
  <2>1. tree' \in {Closed(tree), Front(tree)}
    BY <1>2
  <2>2. QED
    BY <1>1, <2>1, InvParts, ClosesPops
<1>4. Last(open) \notin {"testsuite", "testcase"}
  BY <1>3 DEF Outcomes
<1>5. Flags'
  <2>1. /\ in_failure' => in_failure /\ Last(open) # "failure"
        /\ in_error' => in_error /\ Last(open) # "error"
    BY <1>1, <1>3
  <2>2. QED
    BY <1>3, <2>1, InvParts, FlagsKept
<1>6. in_failure' \in BOOLEAN /\ in_error' \in BOOLEAN
  BY <1>1
<1>7. QED
  BY <1>1, <1>2, <1>3, <1>4, <1>5, <1>6, InvParts, SilentStep

LEMMA TextKeeps ==
  ASSUME DocumentInv, NEW message \in Messages, Text(message),
         tree' = IF tree = <<>> THEN tree ELSE [tree EXCEPT ![Len(tree)].text = message],
         UNCHANGED <<expected, since, hinted>>
  PROVE  DocumentInv'
<1>1. /\ Reads /\ status' = status /\ open' = open
      /\ (in_failure \/ in_error) => saved_testrun # None
      /\ UNCHANGED <<in_failure, in_error, framework, testsuite_names, testsuite_times, testruns,
                     warnings>>
  BY DEF Text
<1>2. Stays
  BY <1>1, InvParts, TextStays
<1>3. /\ saved_testrun' \in Testruns \cup {None, Skipped}
      /\ saved_testrun' # None => saved_testrun # None
      /\ saved_testrun' = Skipped <=> saved_testrun = Skipped
  <2>1. CASE (in_failure \/ in_error) /\ saved_testrun # Skipped
    <3>1. saved_testrun \in Testruns /\ saved_testrun # None
      BY <1>1, <2>1, InvParts
    <3>2. saved_testrun' = [saved_testrun EXCEPT !.failure_message = message]
      BY <2>1 DEF Text
    <3>3. saved_testrun' \in Testruns
      BY <3>1, <3>2 DEF Testruns
    <3>4. QED
      BY <2>1, <3>1, <3>3, SkippedAssumption
  <2>2. CASE ~ ((in_failure \/ in_error) /\ saved_testrun # Skipped)
    <3>1. saved_testrun' = saved_testrun
      BY <2>2 DEF Text
    <3>2. QED
      BY <3>1, InvParts
  <2>3. QED
    BY <2>1, <2>2
<1>4. Flags'
  BY <1>1, <1>2, InvParts, FlagsKept
<1>5. QED
  BY <1>1, <1>2, <1>3, <1>4, InvParts, SilentStep

LEMMA StartTestsuiteKeeps ==
  ASSUME DocumentInv, NEW name \in SuiteNames \cup {None}, NEW time \in SuiteTimes \cup {None},
         StartTestsuite(name, time), Grows(SuiteFrame(name, time))
  PROVE  DocumentInv'
<1> DEFINE f == SuiteFrame(name, time)
<1>1. f \in Frames /\ f.element = "testsuite" /\ f.name = name /\ f.time = time
  BY SuiteFrameType
<1>2. /\ Reads /\ status' = status /\ Opens("testsuite")
      /\ testsuite_names' = Append(testsuite_names, name)
      /\ testsuite_times' = Append(testsuite_times, time)
      /\ UNCHANGED <<saved_testrun, in_failure, in_error, framework, testruns, warnings>>
  BY DEF StartTestsuite, Opens
<1>3. tree' = Append(tree, f) /\ UNCHANGED <<expected, since, hinted>>
  BY DEF Grows
<1> HIDE DEF f
<1>4. Pushes(f)
  BY <1>1, <1>2, <1>3, OpensPushes
<1>5. /\ testsuite_names' \in Seq(SuiteNames \cup {None})
      /\ testsuite_times' \in Seq(SuiteTimes \cup {None})
  <2>1. testsuite_names' \in Seq(SuiteNames \cup {None})
    BY <1>2, InvParts, AppendType
  <2>2. testsuite_times' \in Seq(SuiteTimes \cup {None})
    BY <1>2, InvParts, AppendType
  <2>3. QED
    BY <2>1, <2>2
<1>6. Stacked'
  BY <1>1, <1>2, <1>4, InvParts, StackedOpens
<1>7. Saved'
  BY <1>1, <1>2, <1>4, InvParts, SavedKept
<1>8. Flags'
  BY <1>2, <1>4, InvParts, FlagsKept
<1>9. QED
  BY <1>2, <1>3, <1>4, <1>5, <1>6, <1>7, <1>8, InvParts, DocumentStep

LEMMA EndTestsuiteKeeps ==
  ASSUME DocumentInv, EndTestsuite, CloseFrame
  PROVE  DocumentInv'
<1>1. /\ Reads /\ status' = status /\ Closes("testsuite")
      /\ testsuite_names' = Front(testsuite_names)
      /\ testsuite_times' = Front(testsuite_times)
      /\ UNCHANGED <<saved_testrun, in_failure, in_error, framework, testruns, warnings>>
  BY DEF EndTestsuite, Closes
<1>2. tree' = Closed(tree) /\ UNCHANGED <<expected, since, hinted>>
  BY DEF CloseFrame
<1>3. Pops /\ Last(open) = "testsuite" /\ open # <<>>
  <2>1. tree' \in {Closed(tree), Front(tree)}
    BY <1>2
  <2>2. QED
    BY <1>1, <2>1, InvParts, ClosesPops DEF Closes
<1>4. testsuite_names # <<>> /\ testsuite_times # <<>>
  BY <1>3, InvParts, LastSuite
<1>5. /\ testsuite_names' \in Seq(SuiteNames \cup {None})
      /\ testsuite_times' \in Seq(SuiteTimes \cup {None})
  <2>1. testsuite_names' \in Seq(SuiteNames \cup {None})
    BY <1>1, <1>4, InvParts, FrontType
  <2>2. testsuite_times' \in Seq(SuiteTimes \cup {None})
    BY <1>1, <1>4, InvParts, FrontType
  <2>3. QED
    BY <2>1, <2>2
<1>6. Stacked'
  BY <1>1, <1>3, InvParts, StackedCloses
<1>7. Saved'
  BY <1>1, <1>3, InvParts, SavedKept
<1>8. Flags'
  BY <1>1, <1>3, InvParts, FlagsKept
<1>9. QED
  BY <1>1, <1>2, <1>3, <1>5, <1>6, <1>7, <1>8, InvParts, DocumentStep

LEMMA StartTestsuitesKeeps ==
  ASSUME DocumentInv, NEW name \in SuiteNames \cup {None}, StartTestsuites(name),
         tree' = Append(tree, Frame("testsuites")), since' = Len(testruns),
         Hints({name}), UNCHANGED expected
  PROVE  DocumentInv'
<1> DEFINE f == Frame("testsuites")
<1>1. f \in Frames /\ f.element = "testsuites" /\ f.name = None /\ f.time = None
  BY FrameType DEF Elements
<1>2. /\ Reads /\ status' = status /\ Opens("testsuites")
      /\ framework' = CheckTestsuitesName(name)
      /\ UNCHANGED <<saved_testrun, in_failure, in_error, testsuite_names, testsuite_times,
                     testruns, warnings>>
  BY DEF StartTestsuites, Opens
<1> HIDE DEF f
<1>3. Pushes(f) /\ f.element \notin {"testsuite", "testcase"}
  BY <1>1, <1>2, OpensPushes DEF f
<1>4. hinted' \subseteq Frameworks /\ framework' \in hinted' \cup {None}
  <2>1. hinted' \subseteq Frameworks
    BY InvParts, HintsType
  <2>2. framework' \in hinted' \cup {None}
    BY <1>2 DEF Hints, CheckTestsuitesName
  <2>3. QED
    BY <2>1, <2>2
<1>5. Flags'
  BY <1>2, <1>3, InvParts, FlagsKept
<1>6. QED
  BY <1>2, <1>3, <1>4, <1>5, InvParts, SilentStep

LEMMA PropertyKeeps ==
  ASSUME DocumentInv, NEW valid, Property(valid),
         tree' = IF open' = open THEN tree ELSE Append(tree, Frame("property")),
         UNCHANGED <<expected, since, hinted>>
  PROVE  DocumentInv'
<1> DEFINE f == Frame("property")
<1>1. f \in Frames /\ f.element = "property" /\ f.name = None /\ f.time = None
  BY FrameType DEF Elements
<1>2. /\ Reads /\ status' = status
      /\ warnings' = warnings \/ warnings' = Append(warnings, BufferPosition)
      /\ Opens("property") \/ open' = open
      /\ UNCHANGED <<saved_testrun, in_failure, in_error, framework, testsuite_names,
                     testsuite_times, testruns>>
  BY DEF Property, Opens, Empties
<1> HIDE DEF f
<1>3. (Pushes(f) /\ f.element \notin {"testsuite", "testcase"}) \/ Stays
  <2>1. CASE open' = open
    BY <2>1, InvParts, UnchangedStays
  <2>2. CASE open' # open
    BY <1>1, <1>2, <2>2, OpensPushes DEF f
  <2>3. QED
    BY <2>1, <2>2
<1>4. Flags'
  BY <1>2, <1>3, InvParts, FlagsKept
<1>5. QED
  BY <1>2, <1>3, <1>4, InvParts, SilentStep

LEMMA IgnoredKeeps ==
  ASSUME DocumentInv, Ignored,
         tree' = CASE Len(open') > Len(open) -> Append(tree, Frame("other"))
                   [] Len(open') < Len(open) -> Front(tree)
                   [] OTHER -> tree,
         UNCHANGED <<expected, since, hinted>>
  PROVE  DocumentInv'
<1> DEFINE f == Frame("other")
<1>1. f \in Frames /\ f.element = "other" /\ f.name = None /\ f.time = None
  BY FrameType DEF Elements
<1>2. /\ Reads /\ status' = status
      /\ \/ open' = open
         \/ Opens("other")
         \/ \E element \in {"other", "property", "testsuites"} : Closes(element)
      /\ UNCHANGED <<saved_testrun, in_failure, in_error, framework, testsuite_names,
                     testsuite_times, testruns, warnings>>
  BY DEF Ignored, Opens, Empties, Closes, parser
<1>3. open \in Seq(Elements) /\ Len(open) \in Nat
  BY InvParts
<1> HIDE DEF f
<1>4. \/ Pushes(f) /\ f.element \notin {"testsuite", "testcase"}
      \/ Pops /\ Last(open) \in {"other", "property", "testsuites"}
      \/ Stays
  <2>1. CASE open' = open
    <3>1. tree' = tree
      BY <1>3, <2>1
    <3>2. QED
      BY <2>1, <3>1, InvParts, UnchangedStays
  <2>2. CASE Opens("other")
    <3>1. Len(open') = Len(open) + 1
      <4>1. open' = Append(open, "other") /\ "other" \in Elements
        BY <2>2 DEF Opens, Elements
      <4>2. QED
        BY <1>3, <4>1, AppendType
    <3>2. tree' = Append(tree, f)
      BY <1>3, <3>1 DEF f
    <3>3. QED
      BY <1>1, <2>2, <3>2, OpensPushes
  <2>3. ASSUME NEW element \in {"other", "property", "testsuites"}, Closes(element)
        PROVE  Pops /\ Last(open) = element
    <3>1. open # <<>> /\ open' = Front(open)
      BY <2>3 DEF Closes
    <3>2. Len(open') < Len(open)
      BY <1>3, <3>1, FrontType
    <3>3. tree' = Front(tree)
      BY <1>3, <3>1, <3>2, FrontType
    <3>4. tree' \in {Closed(tree), Front(tree)}
      BY <3>3
    <3>5. QED
      BY <2>3, <3>4, InvParts, ClosesPops
  <2>4. QED
    BY <1>2, <2>1, <2>2, <2>3
<1>5. Flags'
  BY <1>2, <1>4, InvParts, FlagsKept
<1>6. QED
  BY <1>2, <1>4, <1>5, InvParts, SilentStep

LEMMA EmptyDocument ==
  ASSUME NoDocument, NoTree, status' \in {"reading", "done", "failed"}
  PROVE  DocumentInv'
<1>1. /\ open' = <<>> /\ position' = 0 /\ saved_testrun' = None
      /\ in_failure' = FALSE /\ in_error' = FALSE /\ framework' = None
      /\ testsuite_names' = <<>> /\ testsuite_times' = <<>> /\ testruns' = <<>>
      /\ warnings' = <<>>
  BY DEF NoDocument, NewParser
<1>2. tree' = <<>> /\ expected' = <<>> /\ since' = 0 /\ hinted' = {}
  BY DEF NoTree
<1>3. 0 \in 0 .. MaxEvents
  BY MaxEventsAssumption
<1>4. Types'
  <2>1. /\ open' \in Seq(Elements) /\ testsuite_names' \in Seq(SuiteNames \cup {None})
        /\ testsuite_times' \in Seq(SuiteTimes \cup {None}) /\ testruns' \in Seq(Testruns)
        /\ warnings' \in Seq(Nat) /\ tree' \in Seq(Frames) /\ expected' \in Seq(ExpectedType)
    BY <1>1, <1>2, EmptySeq
  <2>2. since' \in Nat /\ since' <= Len(testruns')
    BY <1>1, <1>2, EmptySeq
  <2>3. QED
    BY <1>1, <1>2, <1>3, <2>1, <2>2 DEF Types
<1>5. Mirror'
  BY <1>1, <1>2 DEF Mirror
<1>6. Stacked'
  <2>1. testsuite_names' = <<>> /\ tree' = <<>> /\ testsuite_times' = <<>>
    BY <1>1, <1>2
  <2>2. [n \in {} |-> n] \in [{} -> {}]
    OBVIOUS
  <2>3. DOMAIN testsuite_names' = {} /\ DOMAIN tree' = {} /\ Len(testsuite_times') = Len(testsuite_names')
    BY <2>1
  <2>4. PICK at : at \in [DOMAIN testsuite_names' -> DOMAIN tree']
    BY <2>2, <2>3
  <2>5. StackedAt(at)'
    BY <2>3, <2>4 DEF StackedAt
  <2>6. QED
    BY <2>3, <2>4, <2>5 DEF Stacked
<1>7. Saved' /\ Flags' /\ SameLength'
  BY <1>1, <1>2 DEF Saved, Flags, SameLength
<1>8. WarningsOrdered'
  BY <1>1 DEF WarningsOrdered
<1>9. QED
  BY <1>1, <1>4, <1>5, <1>6, <1>7, <1>8 DEF DocumentInv

LEMMA EventKeeps ==
  ASSUME DocumentInv, EventD
  PROVE  DocumentInv'
<1>1. ASSUME NEW attrs \in Attrs, StartTestcase(attrs),
             tree' = Append(tree, TestcaseFrame(attrs)), TestcaseHints(attrs),
             UNCHANGED <<expected, since>>
      PROVE  DocumentInv'
  BY <1>1, StartTestcaseKeeps
<1>2. ASSUME NEW attrs \in Attrs, EmptyTestcase(attrs),
             expected' = expected \o ExpectedRuns(tree, TestcaseFrame(attrs)),
             TestcaseHints(attrs), UNCHANGED <<tree, since>>
      PROVE  DocumentInv'
  BY <1>2, EmptyTestcaseKeeps
<1>3. ASSUME NEW attrs \in Attrs, BadTestcase(attrs), NoTree
      PROVE  DocumentInv'
  BY <1>3, EmptyDocument DEF BadTestcase, Fails
<1>4. ASSUME EndTestcase, tree' = Closed(tree),
             expected' = expected \o ExpectedRuns(Front(tree), Last(tree)),
             UNCHANGED <<since, hinted>>
      PROVE  DocumentInv'
  BY <1>4, EndTestcaseKeeps
<1>5. ASSUME NEW element \in {"failure", "error"}, NEW message \in Messages \cup {None},
             StartOutcome(element, message), Grows(OutcomeFrame(element, message))
      PROVE  DocumentInv'
  <2>1. element \in Outcomes
    BY DEF Outcomes
  <2>2. QED
    BY <1>5, <2>1, OutcomeFrameType, StartOutcomeKeeps
<1>6. ASSUME NEW element \in {"failure", "error"}, NEW message \in Messages \cup {None},
             EmptyOutcome(element, message),
             tree' = Closed(Append(tree, OutcomeFrame(element, message))),
             UNCHANGED <<expected, since, hinted>>
      PROVE  DocumentInv'
  <2>1. element \in Outcomes
    BY DEF Outcomes
  <2>2. QED
    BY <1>6, <2>1, OutcomeFrameType, EmptyOutcomeKeeps
<1>7. ASSUME StartOutcome("skipped", None), Grows(Frame("skipped"))
      PROVE  DocumentInv'
  <2>1. "skipped" \in Outcomes /\ "skipped" \in Elements
    BY DEF Outcomes, Elements
  <2>2. QED
    BY <1>7, <2>1, FrameType, StartOutcomeKeeps
<1>8. ASSUME EmptyOutcome("skipped", None), tree' = Closed(Append(tree, Frame("skipped"))),
             UNCHANGED <<expected, since, hinted>>
      PROVE  DocumentInv'
  <2>1. "skipped" \in Outcomes /\ "skipped" \in Elements
    BY DEF Outcomes, Elements
  <2>2. QED
    BY <1>8, <2>1, FrameType, EmptyOutcomeKeeps
<1>9. ASSUME NEW element \in {"skipped", "failure", "error"}, EndOutcome(element), CloseFrame
      PROVE  DocumentInv'
  <2>1. element \in Outcomes
    BY DEF Outcomes
  <2>2. QED
    BY <1>9, <2>1, EndOutcomeKeeps
<1>10. ASSUME NEW message \in Messages, Text(message),
              tree' = IF tree = <<>> THEN tree ELSE [tree EXCEPT ![Len(tree)].text = message],
              UNCHANGED <<expected, since, hinted>>
       PROVE  DocumentInv'
  BY <1>10, TextKeeps
<1>11. ASSUME NEW name \in SuiteNames \cup {None}, NEW time \in SuiteTimes \cup {None},
              StartTestsuite(name, time), Grows(SuiteFrame(name, time))
       PROVE  DocumentInv'
  BY <1>11, StartTestsuiteKeeps
<1>12. ASSUME EndTestsuite, CloseFrame
       PROVE  DocumentInv'
  BY <1>12, EndTestsuiteKeeps
<1>13. ASSUME NEW name \in SuiteNames \cup {None}, StartTestsuites(name),
              tree' = Append(tree, Frame("testsuites")), since' = Len(testruns),
              Hints({name}), UNCHANGED expected
       PROVE  DocumentInv'
  BY <1>13, StartTestsuitesKeeps
<1>14. ASSUME NEW valid \in BOOLEAN, Property(valid),
              tree' = IF open' = open THEN tree ELSE Append(tree, Frame("property")),
              UNCHANGED <<expected, since, hinted>>
       PROVE  DocumentInv'
  BY <1>14, PropertyKeeps
<1>15. ASSUME Ignored,
              tree' = CASE Len(open') > Len(open) -> Append(tree, Frame("other"))
                        [] Len(open') < Len(open) -> Front(tree)
                        [] OTHER -> tree,
              UNCHANGED <<expected, since, hinted>>
       PROVE  DocumentInv'
  BY <1>15, IgnoredKeeps
<1>16. ASSUME NoTestrun \/ Malformed, NoTree
       PROVE  DocumentInv'
  BY <1>16, EmptyDocument DEF NoTestrun, Malformed, Fails
<1>17. ASSUME Eof, UNCHANGED <<tree, expected, since, hinted>>
       PROVE  DocumentInv'
  <2>1. status' = "done" /\ UNCHANGED <<open, position, parser>>
    BY <1>17 DEF Eof
  <2>2. Types'
    BY <1>17, <2>1, InvParts DEF Types, parser
  <2>3. QED
    BY <1>17, <2>1, <2>2
       DEF DocumentInv, parser, Mirror, Stacked, StackedAt, Saved, InnermostTestcase, Flags,
           SameLength, WarningsOrdered, BufferPosition
<1>18. QED
  BY <1>1, <1>2, <1>3, <1>4, <1>5, <1>6, <1>7, <1>8, <1>9, <1>10, <1>11, <1>12, <1>13, <1>14,
     <1>15, <1>16, <1>17 DEF EventD, SuiteFrame

LEMMA InitDocument ==
  InitD => DocumentInv
<1> SUFFICES ASSUME InitD
             PROVE  DocumentInv
  OBVIOUS
<1>1. /\ open = <<>> /\ position = 0 /\ saved_testrun = None
      /\ in_failure = FALSE /\ in_error = FALSE /\ framework = None
      /\ testsuite_names = <<>> /\ testsuite_times = <<>> /\ testruns = <<>>
      /\ warnings = <<>> /\ status = "done"
      /\ tree = <<>> /\ expected = <<>> /\ since = 0 /\ hinted = {}
  BY DEF InitD, Init, NewParser
<1>2. Types
  <2>1. /\ open \in Seq(Elements) /\ testsuite_names \in Seq(SuiteNames \cup {None})
        /\ testsuite_times \in Seq(SuiteTimes \cup {None}) /\ testruns \in Seq(Testruns)
        /\ warnings \in Seq(Nat) /\ tree \in Seq(Frames) /\ expected \in Seq(ExpectedType)
    BY <1>1, EmptySeq
  <2>2. since \in Nat /\ since <= Len(testruns)
    BY <1>1, EmptySeq
  <2>3. 0 \in 0 .. MaxEvents
    BY MaxEventsAssumption
  <2>4. QED
    BY <1>1, <2>1, <2>2, <2>3 DEF Types
<1>3. Mirror
  BY <1>1 DEF Mirror
<1>4. Stacked
  <2>1. [n \in {} |-> n] \in [{} -> {}]
    OBVIOUS
  <2>2. DOMAIN testsuite_names = {} /\ DOMAIN tree = {} /\ Len(testsuite_times) = Len(testsuite_names)
    BY <1>1
  <2>3. PICK at : at \in [DOMAIN testsuite_names -> DOMAIN tree]
    BY <2>1, <2>2
  <2>4. StackedAt(at)
    BY <2>2, <2>3 DEF StackedAt
  <2>5. QED
    BY <2>2, <2>3, <2>4 DEF Stacked
<1>5. Saved /\ Flags /\ SameLength
  BY <1>1 DEF Saved, Flags, SameLength
<1>6. WarningsOrdered
  BY <1>1 DEF WarningsOrdered
<1>7. QED
  BY <1>1, <1>2, <1>3, <1>4, <1>5, <1>6 DEF DocumentInv

LEMMA UseReaderKeeps ==
  ASSUME UseReaderD
  PROVE  DocumentInv'
BY EmptyDocument DEF UseReaderD, UseReader

LEMMA StutterKeeps ==
  ASSUME DocumentInv, UNCHANGED dvars
  PROVE  DocumentInv'
<1>1. /\ UNCHANGED <<status, open, position, tree, expected, since, hinted>>
      /\ UNCHANGED <<saved_testrun, in_failure, in_error, framework, testsuite_names,
                     testsuite_times, testruns, warnings>>
  BY DEF dvars, vars, parser
<1>2. Types'
  BY <1>1, InvParts DEF Types
<1>3. QED
  BY <1>1, <1>2
     DEF DocumentInv, Mirror, Stacked, StackedAt, Saved, InnermostTestcase, Flags, SameLength,
         WarningsOrdered, BufferPosition

(***************************************************************************)
(* DocumentInv holds whatever is nested in whatever: the stacks of         *)
(* use_reader have the names and times of the open testsuites, a run is    *)
(* saved only while its test case is open and is not another's, a flag is  *)
(* set only inside its element, there are as many runs as test cases have  *)
(* ended, warnings are in order and the framework is a hinted one.         *)
(***************************************************************************)
THEOREM ParserFollowsDocument == SpecD => []DocumentInv
<1>1. DocumentInv /\ [NextD]_dvars => DocumentInv'
  BY EventKeeps, UseReaderKeeps, StutterKeeps DEF NextD
<1>2. QED
  BY InitDocument, <1>1, PTL DEF SpecD

LEMMA SuitesCounted ==
  ASSUME Types, Mirror, Stacked
  PROVE  /\ Cardinality({i \in DOMAIN open : open[i] = "testsuite"}) = Len(testsuite_names)
         /\ Len(testsuite_times) = Len(testsuite_names)
<1> DEFINE suites == {i \in DOMAIN open : open[i] = "testsuite"}
           N == 1 .. Len(testsuite_names)
<1>1. PICK at :
        /\ at \in [N -> 1 .. Len(open)]
        /\ \A m, n \in N : m < n => at[m] < at[n]
        /\ \A i \in 1 .. Len(open) : open[i] = "testsuite" <=> \E n \in N : at[n] = i
  BY StackedIs
<1>2. Len(testsuite_names) \in Nat /\ Len(testsuite_times) = Len(testsuite_names)
  BY StackedIs
<1>3. suites = {i \in 1 .. Len(open) : open[i] = "testsuite"} /\ Len(open) \in Nat
  BY DEF Types
<1>4. at \in [N -> suites] /\ \A i \in suites : \E n \in N : at[n] = i
  BY <1>1, <1>3
<1>5. \A m, n \in N : at[m] = at[n] => m = n
  <2>1. ASSUME NEW m \in N, NEW n \in N, at[m] = at[n]
        PROVE  m = n
    <3>1. at[m] \in 1 .. Len(open) /\ at[n] \in 1 .. Len(open)
      BY <1>1
    <3>2. ~ (m < n) /\ ~ (n < m)
      BY <1>1, <1>3, <2>1, <3>1
    <3>3. QED
      BY <1>2, <3>2
  <2>2. QED
    BY <2>1
<1> HIDE DEF suites
<1>6. ExistsBijection(N, suites)
  BY <1>4, <1>5 DEF ExistsBijection, Bijection, Injection, Surjection, IsInjective
<1>7. IsFiniteSet(N) /\ Cardinality(N) = Len(testsuite_names)
  <2> DEFINE n == Len(testsuite_names)
  <2>1. 1 \in Int /\ n \in Int
    BY <1>2
  <2> HIDE DEF n
  <2>2. IsFiniteSet(1 .. n) /\ Cardinality(1 .. n) = IF 1 > n THEN 0 ELSE n - 1 + 1
    BY <2>1, FS_Interval
  <2>3. QED
    BY <1>2, <2>2 DEF n
<1> HIDE DEF N
<1>8. Cardinality(suites) = Cardinality(N)
  BY <1>6, <1>7, FS_Bijection
<1>9. QED
  BY <1>2, <1>7, <1>8 DEF suites

(***************************************************************************)
(* TypeOK holds of every document: in particular, the ends of testsuites   *)
(* pop what their starts have pushed, whether or not a suite has a name.   *)
(***************************************************************************)
THEOREM TypesCorrect == SpecD => []TypeOK
<1>1. DocumentInv => TypeOK
  <2> SUFFICES ASSUME DocumentInv
               PROVE  TypeOK
    OBVIOUS
  <2>1. /\ Cardinality({i \in DOMAIN open : open[i] = "testsuite"}) = Len(testsuite_names)
        /\ Len(testsuite_times) = Len(testsuite_names)
    BY InvParts, SuitesCounted
  <2>2. QED
    BY <2>1 DEF DocumentInv, Types, TypeOK
<1>2. QED
  BY <1>1, ParserFollowsDocument, PTL

(***************************************************************************)
(* FlagsMatchElements holds of every document: neither flag outlives its   *)
(* elements, so text is taken for a message only inside an open failure or *)
(* error.                                                                  *)
(***************************************************************************)
THEOREM FlagsEndWithElements == SpecD => []FlagsMatchElements
<1>1. DocumentInv => FlagsMatchElements
  BY DEF DocumentInv, Flags, FlagsMatchElements
<1>2. QED
  BY <1>1, ParserFollowsDocument, PTL

(***************************************************************************)
(* WarningsOrdered holds of every document, as the comment above           *)
(* format_warnings says, and every warning is before where the reader is.  *)
(***************************************************************************)
THEOREM WarningsStayOrdered == SpecD => []WarningsOrdered
<1>1. DocumentInv => WarningsOrdered
  BY DEF DocumentInv
<1>2. QED
  BY <1>1, ParserFollowsDocument, PTL

-----------------------------------------------------------------------------
(* Documents that follow the schema: where elements are.                   *)

Suites == {"testsuite", "testsuites"}

LeavesAt(i) ==
  /\ open[i] \in Outcomes => i = Len(open) /\ i > 1 /\ open[i - 1] = "testcase"
  /\ open[i] \in {"testcase", "testsuite", "testsuites"} =>
       \A j \in 1 .. Len(open) : j < i => open[j] \in Suites

LEMMA LeavesAre ==
  ASSUME open \in Seq(Elements)
  PROVE  Leaves <=> \A i \in 1 .. Len(open) : LeavesAt(i)
<1>1. DOMAIN open = 1 .. Len(open)
  OBVIOUS
<1>2. QED
  BY <1>1 DEF Leaves, LeavesAt, Suites

LEMMA LeavesAfter ==
  ASSUME open' \in Seq(Elements), \A i \in 1 .. Len(open') : LeavesAt(i)'
  PROVE  Leaves'
<1>1. DOMAIN open' = 1 .. Len(open')
  OBVIOUS
<1>2. QED
  BY <1>1 DEF Leaves, LeavesAt, Suites

LEMMA ParentIs ==
  ASSUME open \in Seq(Elements)
  PROVE  \/ open = <<>> /\ Parent = "document"
         \/ open # <<>> /\ Len(open) \in Nat \ {0} /\ Parent = open[Len(open)]
BY EmptySeq DEF Parent, Last

LEMMA SchemaIs ==
  ASSUME FollowsSchema, NEW element, Nested(element)
  PROVE  /\ Parent \notin Outcomes
         /\ element \in Outcomes => Parent = "testcase"
         /\ element \in {"testcase", "testsuite"} => Parent \in {"document", "testsuites", "testsuite"}
         /\ element = "testsuites" => Parent = "document"
<1> DEFINE pair == <<Parent, element>>
<1>1. pair \in Nesting /\ pair[1] = Parent /\ pair[2] = element
  BY DEF Nested
<1> HIDE DEF pair
<1>2. /\ pair[1] \notin {"skipped", "failure", "error"}
      /\ pair[2] \in {"skipped", "failure", "error"} => pair[1] = "testcase"
      /\ pair[2] \in {"testcase", "testsuite"} => pair[1] \in {"document", "testsuites", "testsuite"}
      /\ pair[2] = "testsuites" => pair[1] = "document"
  BY <1>1 DEF FollowsSchema
<1>3. QED
  BY <1>1, <1>2 DEF Outcomes

\* No outcome is open around an element, and only suites around a suite or test case.
LEMMA SchemaParents ==
  ASSUME FollowsSchema, open \in Seq(Elements), Leaves, NEW element, Nested(element)
  PROVE  /\ \A i \in 1 .. Len(open) : open[i] \notin Outcomes
         /\ element \in {"testcase", "testsuite", "testsuites"} =>
              \A i \in 1 .. Len(open) : open[i] \in Suites
         /\ element \in Outcomes => Len(open) \in Nat \ {0} /\ open[Len(open)] = "testcase"
<1>1. \A i \in 1 .. Len(open) : LeavesAt(i)
  BY LeavesAre
<1>2. Len(open) \in Nat
  OBVIOUS
<1>3. /\ Parent \notin Outcomes
      /\ element \in Outcomes => Parent = "testcase"
      /\ element \in {"testcase", "testsuite"} => Parent \in {"document", "testsuites", "testsuite"}
      /\ element = "testsuites" => Parent = "document"
  BY SchemaIs
<1>4. CASE open = <<>>
  <2>1. Parent = "document" /\ Len(open) = 0
    BY <1>4 DEF Parent
  <2>2. QED
    BY <1>3, <2>1
<1>5. CASE open # <<>>
  <2>1. Len(open) \in Nat \ {0} /\ Parent = open[Len(open)]
    BY <1>5, ParentIs
  <2>2. LeavesAt(Len(open))
    BY <1>1, <2>1
  <2>3. ASSUME NEW i \in 1 .. Len(open)
        PROVE  open[i] \notin Outcomes
    <3>1. i = Len(open) \/ open[i] \notin Outcomes
      BY <1>1 DEF LeavesAt
    <3>2. QED
      BY <1>3, <2>1, <3>1
  <2>4. ASSUME element \in {"testcase", "testsuite", "testsuites"}, NEW i \in 1 .. Len(open)
        PROVE  open[i] \in Suites
    <3>1. Parent # "document"
      BY <2>1, ElementOfSeq DEF Elements
    <3>2. open[Len(open)] \in Suites
      BY <1>3, <2>1, <2>4, <3>1 DEF Suites
    <3>3. \A j \in 1 .. Len(open) : j < Len(open) => open[j] \in Suites
      BY <2>2, <3>2 DEF LeavesAt, Suites
    <3>4. i = Len(open) \/ i < Len(open)
      BY <1>2
    <3>5. QED
      BY <3>2, <3>3, <3>4
  <2>5. QED
    BY <1>3, <2>1, <2>3, <2>4
<1>6. QED
  BY <1>4, <1>5

LEMMA LeavesKept ==
  ASSUME FollowsSchema, Types, Mirror, Leaves,
         (\E f : Pushes(f) /\ Nested(f.element)) \/ Pops \/ Stays
  PROVE  Leaves'
<1>1. open \in Seq(Elements) /\ Len(open) \in Nat /\ \A i \in 1 .. Len(open) : LeavesAt(i)
  BY LeavesAre DEF Types
<1>2. ASSUME NEW f, Pushes(f), Nested(f.element)
      PROVE  Leaves'
  <2>1. /\ open' \in Seq(Elements) /\ Len(open') = Len(open) + 1
        /\ open'[Len(open) + 1] = f.element
        /\ \A i \in 1 .. Len(open) : open'[i] = open[i]
    BY <1>2, PushedFrames
  <2>2. /\ \A i \in 1 .. Len(open) : open[i] \notin Outcomes
        /\ f.element \in {"testcase", "testsuite", "testsuites"} =>
             \A i \in 1 .. Len(open) : open[i] \in Suites
        /\ f.element \in Outcomes => Len(open) \in Nat \ {0} /\ open[Len(open)] = "testcase"
    BY <1>1, <1>2, SchemaParents
  <2>3. ASSUME NEW i \in 1 .. Len(open')
        PROVE  LeavesAt(i)'
    <3>1. CASE i = Len(open) + 1
      <4>1. open'[i] \in Outcomes => i = Len(open') /\ i > 1 /\ open'[i - 1] = "testcase"
        BY <1>1, <2>1, <2>2, <3>1
      <4>2. open'[i] \in {"testcase", "testsuite", "testsuites"} =>
              \A j \in 1 .. Len(open') : j < i => open'[j] \in Suites
        BY <1>1, <2>1, <2>2, <3>1
      <4>3. QED
        BY <4>1, <4>2 DEF LeavesAt
    <3>2. CASE i \in 1 .. Len(open)
      <4>1. open'[i] = open[i] /\ open'[i] \notin Outcomes /\ LeavesAt(i)
        BY <1>1, <2>1, <2>2, <3>2
      <4>2. \A j \in 1 .. Len(open') : j < i => j \in 1 .. Len(open) /\ open'[j] = open[j]
        BY <1>1, <2>1, <3>2
      <4>3. QED
        BY <4>1, <4>2 DEF LeavesAt
    <3>3. QED
      BY <1>1, <2>1, <3>1, <3>2
  <2>4. QED
    BY <2>1, <2>3, LeavesAfter
<1>3. ASSUME Pops
      PROVE  Leaves'
  <2>1. /\ open' \in Seq(Elements) /\ Len(open') = Len(open) - 1 /\ Len(open) \in Nat \ {0}
        /\ \A i \in 1 .. Len(open) - 1 : open'[i] = open[i]
    BY <1>3, PoppedFrames
  <2>2. ASSUME NEW i \in 1 .. Len(open')
        PROVE  LeavesAt(i)'
    <3>1. i \in 1 .. Len(open) /\ i # Len(open) /\ open'[i] = open[i] /\ LeavesAt(i)
      BY <1>1, <2>1
    <3>2. \A j \in 1 .. Len(open') : j \in 1 .. Len(open) /\ open'[j] = open[j]
      BY <2>1
    <3>3. QED
      BY <3>1, <3>2 DEF LeavesAt
  <2>3. QED
    BY <2>1, <2>2, LeavesAfter
<1>4. ASSUME Stays
      PROVE  Leaves'
  <2>1. open' = open
    BY <1>4 DEF Stays
  <2>2. QED
    BY <2>1 DEF Leaves
<1>5. QED
  BY <1>2, <1>3, <1>4

LEMMA FlagsExactAre ==
  ASSUME open \in Seq(Elements)
  PROVE  FlagsExact <=>
           /\ in_failure <=> Len(open) # 0 /\ open[Len(open)] = "failure"
           /\ in_error <=> Len(open) # 0 /\ open[Len(open)] = "error"
BY EmptySeq DEF FlagsExact, Last

LEMMA FlagsExactAfter ==
  ASSUME open' \in Seq(Elements),
         in_failure' <=> Len(open') # 0 /\ open'[Len(open')] = "failure",
         in_error' <=> Len(open') # 0 /\ open'[Len(open')] = "error"
  PROVE  FlagsExact'
BY EmptySeq DEF FlagsExact, Last

LEMMA FlagsExactKept ==
  ASSUME FollowsSchema, Types, Mirror, Leaves, FlagsExact,
         \/ Stays /\ UNCHANGED <<in_failure, in_error>>
         \/ \E f : /\ Pushes(f) /\ Nested(f.element)
                   /\ in_failure' = (in_failure \/ f.element = "failure")
                   /\ in_error' = (in_error \/ f.element = "error")
         \/ /\ Pops
            /\ in_failure' = (in_failure /\ Last(open) # "failure")
            /\ in_error' = (in_error /\ Last(open) # "error")
  PROVE  FlagsExact'
<1>1. open \in Seq(Elements) /\ Len(open) \in Nat /\ \A i \in 1 .. Len(open) : LeavesAt(i)
  BY LeavesAre DEF Types
<1>2. /\ in_failure <=> Len(open) # 0 /\ open[Len(open)] = "failure"
      /\ in_error <=> Len(open) # 0 /\ open[Len(open)] = "error"
  BY <1>1, FlagsExactAre
<1>3. ASSUME Stays, UNCHANGED <<in_failure, in_error>>
      PROVE  FlagsExact'
  BY <1>3 DEF FlagsExact, Stays
<1>4. ASSUME NEW f, Pushes(f), Nested(f.element),
             in_failure' = (in_failure \/ f.element = "failure"),
             in_error' = (in_error \/ f.element = "error")
      PROVE  FlagsExact'
  <2>1. /\ open' \in Seq(Elements) /\ Len(open') = Len(open) + 1
        /\ open'[Len(open) + 1] = f.element
    BY <1>4, PushedFrames
  <2>2. \A i \in 1 .. Len(open) : open[i] \notin Outcomes
    BY <1>1, <1>4, SchemaParents
  <2>3. ~ in_failure /\ ~ in_error
    BY <1>1, <1>2, <2>2 DEF Outcomes
  <2>4. Len(open') # 0 /\ open'[Len(open')] = f.element
    BY <1>1, <2>1
  <2>5. (in_failure' <=> f.element = "failure") /\ (in_error' <=> f.element = "error")
    BY <1>4, <2>3, Zenon
  <2>6. QED
    BY <2>1, <2>4, <2>5, FlagsExactAfter
<1>5. ASSUME Pops,
             in_failure' = (in_failure /\ Last(open) # "failure"),
             in_error' = (in_error /\ Last(open) # "error")
      PROVE  FlagsExact'
  <2>1. /\ open' \in Seq(Elements) /\ Len(open') = Len(open) - 1 /\ Len(open) \in Nat \ {0}
        /\ \A i \in 1 .. Len(open) - 1 : open'[i] = open[i]
    BY <1>5, PoppedFrames
  <2>2. ~ in_failure' /\ ~ in_error'
    BY <1>2, <1>5 DEF Last
  <2>3. Len(open') # 0 => open'[Len(open')] \notin Outcomes
    <3>1. ASSUME Len(open') # 0
          PROVE  open'[Len(open')] \notin Outcomes
      <4>1. Len(open) - 1 \in 1 .. Len(open) /\ Len(open) - 1 # Len(open)
        BY <2>1, <3>1
      <4>2. LeavesAt(Len(open) - 1)
        BY <1>1, <4>1
      <4>3. open[Len(open) - 1] \notin Outcomes
        BY <4>1, <4>2 DEF LeavesAt
      <4>4. QED
        BY <2>1, <3>1, <4>1, <4>3
    <3>2. QED
      BY <3>1
  <2>4. QED
    BY <2>1, <2>2, <2>3, FlagsExactAfter DEF Outcomes
<1>6. QED
  BY <1>3, <1>4, <1>5

-----------------------------------------------------------------------------
(* What a document says of a test case.                                    *)

LEMMA PrefixInherits ==
  ASSUME NEW s \in Seq(Frames), NEW t \in Seq(Frames), NEW k \in Nat,
         k <= Len(s), k <= Len(t), \A j \in 1 .. k : SameFrame(s[j], t[j])
  PROVE  /\ InheritedName(SubSeq(s, 1, k)) = InheritedName(SubSeq(t, 1, k))
         /\ InheritedTime(SubSeq(s, 1, k)) = InheritedTime(SubSeq(t, 1, k))
<1> DEFINE a == SubSeq(s, 1, k) b == SubSeq(t, 1, k)
<1>1. \A j \in 1 .. k : s[j] \in Frames /\ t[j] \in Frames
  BY ElementOfSeq
<1>2. a \in Seq(Frames) /\ Len(a) = k /\ \A j \in 1 .. k : a[j] = s[j]
  BY <1>1, SubSeqProperties
<1>3. b \in Seq(Frames) /\ Len(b) = k /\ \A j \in 1 .. k : b[j] = t[j]
  BY <1>1, SubSeqProperties
<1> HIDE DEF a, b
<1>4. SameFrames(a, b)
  BY <1>2, <1>3 DEF SameFrames
<1>5. QED
  BY <1>2, <1>3, <1>4, SameInheritance DEF a, b

LEMMA LastFailedIsOne ==
  ASSUME NEW outcomes \in Seq(Reports)
  PROVE  /\ \A i \in 1 .. Len(outcomes) :
              LastFailed(outcomes, i) =>
                ExpectedMessage(outcomes) = Some(outcomes[i].text, outcomes[i].message)
         /\ (\A i \in 1 .. Len(outcomes) : ~ LastFailed(outcomes, i)) =>
              ExpectedMessage(outcomes) = None
<1>1. DOMAIN outcomes = 1 .. Len(outcomes) /\ Len(outcomes) \in Nat
  OBVIOUS
<1>2. ASSUME NEW i \in 1 .. Len(outcomes), LastFailed(outcomes, i)
      PROVE  ExpectedMessage(outcomes) = Some(outcomes[i].text, outcomes[i].message)
  <2>1. \A k \in DOMAIN outcomes : LastFailed(outcomes, k) => k = i
    BY <1>1, <1>2 DEF LastFailed
  <2>2. (CHOOSE k \in DOMAIN outcomes : LastFailed(outcomes, k)) = i
    BY <1>1, <1>2, <2>1
  <2>3. QED
    BY <1>1, <1>2, <2>2 DEF ExpectedMessage
<1>3. ASSUME \A i \in 1 .. Len(outcomes) : ~ LastFailed(outcomes, i)
      PROVE  ExpectedMessage(outcomes) = None
  BY <1>1, <1>3 DEF ExpectedMessage
<1>4. QED
  BY <1>2, <1>3

\* One more outcome counts, and its message or text if it is no skip.
LEMMA OneMoreOutcome ==
  ASSUME NEW outcomes \in Seq(Reports), NEW report \in Reports
  PROVE  /\ ExpectedOutcome(Append(outcomes, report)) = OutcomeOf(report.element)
         /\ ExpectedMessage(Append(outcomes, report)) =
              IF report.element = "skipped" THEN ExpectedMessage(outcomes)
              ELSE Some(report.text, report.message)
<1> DEFINE more == Append(outcomes, report) n == Len(outcomes)
<1>1. /\ more \in Seq(Reports) /\ more # <<>> /\ n \in Nat /\ Len(more) = n + 1
      /\ more[n + 1] = report /\ \A i \in 1 .. n : more[i] = outcomes[i]
      /\ Last(more) = report
  BY AppendType
<1>2. DOMAIN outcomes = 1 .. n
  OBVIOUS
<1> HIDE DEF more, n
<1>3. DOMAIN more = 1 .. n + 1
  BY <1>1
<1>4. ExpectedOutcome(more) = OutcomeOf(report.element)
  BY <1>1 DEF ExpectedOutcome
<1>5. CASE report.element # "skipped"
  <2>1. LastFailed(more, n + 1)
    BY <1>1, <1>3, <1>5 DEF LastFailed
  <2>2. n + 1 \in 1 .. Len(more)
    BY <1>1
  <2>3. ExpectedMessage(more) = Some(more[n + 1].text, more[n + 1].message)
    BY <1>1, <2>1, <2>2, LastFailedIsOne
  <2>4. QED
    BY <1>1, <1>4, <1>5, <2>3 DEF more
<1>6. CASE report.element = "skipped"
  <2>1. \A i \in 1 .. n : LastFailed(more, i) <=> LastFailed(outcomes, i)
    BY <1>1, <1>2, <1>3, <1>6 DEF LastFailed
  <2>2. ~ LastFailed(more, n + 1)
    BY <1>1, <1>6 DEF LastFailed
  <2>3. CASE \E i \in 1 .. n : LastFailed(outcomes, i)
    <3>1. PICK i \in 1 .. n : LastFailed(outcomes, i)
      BY <2>3
    <3>2. ExpectedMessage(outcomes) = Some(outcomes[i].text, outcomes[i].message)
      BY <3>1, LastFailedIsOne DEF n
    <3>3. i \in 1 .. Len(more) /\ LastFailed(more, i) /\ more[i] = outcomes[i]
      BY <1>1, <2>1, <3>1
    <3>4. ExpectedMessage(more) = Some(more[i].text, more[i].message)
      BY <1>1, <3>3, LastFailedIsOne
    <3>5. QED
      BY <1>4, <1>6, <3>2, <3>3, <3>4 DEF more
  <2>4. CASE \A i \in 1 .. n : ~ LastFailed(outcomes, i)
    <3>1. ExpectedMessage(outcomes) = None
      BY <2>4, LastFailedIsOne DEF n
    <3>2. \A i \in 1 .. Len(more) : ~ LastFailed(more, i)
      BY <1>1, <2>1, <2>2, <2>4
    <3>3. ExpectedMessage(more) = None
      BY <1>1, <3>2, LastFailedIsOne
    <3>4. QED
      BY <1>4, <1>6, <3>1, <3>3 DEF more
  <2>5. QED
    BY <2>3, <2>4
<1>7. QED
  BY <1>5, <1>6

\* Before there are any outcomes.
LEMMA NoOutcome ==
  ExpectedOutcome(<<>>) = "Pass" /\ ExpectedMessage(<<>>) = None
<1>1. \A i : ~ LastFailed(<<>>, i)
  BY DEF LastFailed
<1>2. QED
  BY <1>1 DEF ExpectedOutcome, ExpectedMessage

-----------------------------------------------------------------------------
(* What closing an element adds to the frame around it.                    *)

LEMMA ClosedOutcome ==
  ASSUME NEW frames \in Seq(Frames), NEW k \in Nat \ {0}, Len(frames) = k + 1,
         Last(frames).element \in Outcomes
  PROVE  /\ Len(Closed(frames)) = k
         /\ Closed(frames)[k].outcomes = Append(frames[k].outcomes, Report(Last(frames)))
<1> DEFINE rest == Front(frames) frame == Last(frames) last == rest[k]
           new == [last EXCEPT !.outcomes = Append(last.outcomes, Report(frame))]
<1>1. frames # <<>>
  BY EmptySeq
<1>2. /\ rest \in Seq(Frames) /\ Len(rest) = k /\ frame \in Frames
      /\ \A i \in 1 .. k : rest[i] = frames[i]
  BY <1>1, FrontType
<1>3. rest # <<>> /\ k \in 1 .. k /\ last = frames[k] /\ last \in Frames
  <2>1. k \in 1 .. k
    OBVIOUS
  <2>2. rest # <<>>
    BY <1>2, EmptySeq
  <2>3. QED
    BY <1>2, <2>1, <2>2, ElementOfSeq
<1>4. Report(frame) \in Reports
  BY <1>2, ReportType
<1>5. new \in Frames /\ new.outcomes = Append(last.outcomes, Report(frame))
  BY <1>3, <1>4, FrameUpdates
<1>6. Closed(frames) = [rest EXCEPT ![k] = new]
  BY <1>2, <1>3, ClosedIs DEF Closing
<1> HIDE DEF new, rest, frame
<1>7. /\ Len([rest EXCEPT ![k] = new]) = k
      /\ \A i \in 1 .. k : [rest EXCEPT ![k] = new][i] = IF i = k THEN new ELSE rest[i]
  BY <1>2, <1>3, <1>5, ExceptSeq
<1>8. QED
  BY <1>3, <1>5, <1>6, <1>7 DEF frame

LEMMA ClosedOther ==
  ASSUME NEW frames, Last(frames).element \notin Outcomes
  PROVE  Closed(frames) = Front(frames)
BY ClosedIs

-----------------------------------------------------------------------------
(* The saved run after a step.                                             *)

LEMMA ReportedType ==
  ASSUME Types, NEW i \in 1 .. Len(tree)
  PROVE  Reported(i) \in Seq(Reports) /\ tree[i].outcomes \in Seq(Reports)
<1>1. \A j \in 1 .. Len(tree) : tree[j] \in Frames
  BY ElementOfSeq DEF Types
<1>2. tree[i].outcomes \in Seq(Reports)
  BY <1>1 DEF Frames
<1>3. CASE i < Len(tree) /\ tree[i + 1].element \in Outcomes
  <2>1. i + 1 \in 1 .. Len(tree)
    BY <1>3 DEF Types
  <2>2. Report(tree[i + 1]) \in Reports
    BY <1>1, <1>3, <2>1, ReportType
  <2>3. Append(tree[i].outcomes, Report(tree[i + 1])) \in Seq(Reports)
    BY <1>2, <2>2, AppendType
  <2>4. QED
    BY <1>2, <1>3, <2>3 DEF Reported
<1>4. CASE ~ (i < Len(tree) /\ tree[i + 1].element \in Outcomes)
  BY <1>2, <1>4 DEF Reported
<1>5. QED
  BY <1>3, <1>4

SamePrefix(i) == \A j \in 1 .. i : SameFrame(tree'[j], tree[j])

LEMMA StepPrefix ==
  ASSUME Types, Mirror, (\E f : Pushes(f)) \/ Pops \/ Stays,
         NEW i \in 1 .. Len(tree), i \in 1 .. Len(tree')
  PROVE  SamePrefix(i)
<1>1. Len(tree) = Len(open) /\ Len(open) \in Nat
  BY DEF Types, Mirror
<1>2. ASSUME NEW f, Pushes(f)
      PROVE  SamePrefix(i)
  <2>1. \A j \in 1 .. Len(open) : tree'[j] = tree[j]
    BY <1>2, PushedFrames
  <2>2. QED
    BY <1>1, <2>1 DEF SamePrefix, SameFrame
<1>3. ASSUME Pops
      PROVE  SamePrefix(i)
  <2>1. Len(tree') = Len(open) - 1 /\ \A j \in 1 .. Len(open) - 1 : SameFrame(tree'[j], tree[j])
    BY <1>3, PoppedFrames
  <2>2. QED
    BY <1>1, <2>1 DEF SamePrefix
<1>4. ASSUME Stays
      PROVE  SamePrefix(i)
  <2>1. \A j \in 1 .. Len(open) : SameFrame(tree'[j], tree[j])
    BY <1>4, StayingFrames
  <2>2. QED
    BY <1>1, <2>1 DEF SamePrefix
<1>5. QED
  BY <1>2, <1>3, <1>4

SavedMatchesAt(i) ==
  tree[i].element = "testcase" =>
    Says(i, saved_testrun) /\ saved_testrun.computed_by = framework

LEMMA SavedMatchesAre ==
  ASSUME tree \in Seq(Frames)
  PROVE  SavedMatches <=> (saved_testrun \in Testruns => \A i \in 1 .. Len(tree) : SavedMatchesAt(i))
<1>1. DOMAIN tree = 1 .. Len(tree)
  OBVIOUS
<1>2. QED
  BY <1>1 DEF SavedMatches, SavedMatchesAt

LEMMA SavedMatchesAfter ==
  ASSUME tree' \in Seq(Frames),
         saved_testrun' \in Testruns => \A i \in 1 .. Len(tree') : SavedMatchesAt(i)'
  PROVE  SavedMatches'
<1>1. DOMAIN tree' = 1 .. Len(tree')
  OBVIOUS
<1>2. QED
  BY <1>1 DEF SavedMatches, SavedMatchesAt

SameTestrun ==
  /\ saved_testrun \in Testruns
  /\ saved_testrun'.name = saved_testrun.name
  /\ saved_testrun'.testsuite = saved_testrun.testsuite
  /\ saved_testrun'.duration = saved_testrun.duration
  /\ saved_testrun'.computed_by = saved_testrun.computed_by

\* A test case stays the same test case, and its run as the document says it is.
LEMMA SavedMatchesKept ==
  ASSUME Types, Mirror, Types', SavedMatches, framework' = framework,
         (\E f : Pushes(f)) \/ Pops \/ Stays,
         saved_testrun' \in Testruns => SameTestrun,
         \A i \in 1 .. Len(tree') :
           saved_testrun' \in Testruns /\ tree'[i].element = "testcase" =>
             /\ i \in 1 .. Len(tree)
             /\ SavedMatchesAt(i) =>
                  /\ saved_testrun'.outcome = ExpectedOutcome(Reported(i)')
                  /\ saved_testrun'.failure_message = ExpectedMessage(Reported(i)')
  PROVE  SavedMatches'
<1>1. tree \in Seq(Frames) /\ tree' \in Seq(Frames) /\ Len(tree) \in Nat /\ Len(tree') \in Nat
  BY DEF Types
<1>2. ASSUME saved_testrun' \in Testruns, NEW i \in 1 .. Len(tree'), tree'[i].element = "testcase"
      PROVE  SavedMatchesAt(i)'
  <2>1. SameTestrun /\ i \in 1 .. Len(tree)
    BY <1>2
  <2>2. SavedMatchesAt(i)
    BY <1>1, <2>1, SavedMatchesAre DEF SameTestrun
  <2>3. SamePrefix(i)
    BY <2>1, StepPrefix
  <2>4. SameFrame(tree'[i], tree[i])
    BY <1>1, <2>1, <2>3 DEF SamePrefix
  <2>5. Says(i, saved_testrun) /\ saved_testrun.computed_by = framework
    BY <1>2, <2>2, <2>4 DEF SavedMatchesAt, SameFrame
  <2>6. /\ InheritedName(Around(i)') = InheritedName(Around(i))
        /\ InheritedTime(Around(i)') = InheritedTime(Around(i))
    <3>1. PICK k \in Nat : k = i - 1
      BY <2>1
    <3>2. k <= Len(tree) /\ k <= Len(tree') /\ \A j \in 1 .. k : SameFrame(tree'[j], tree[j])
      BY <1>1, <2>1, <2>3, <3>1 DEF SamePrefix
    <3>3. /\ InheritedName(SubSeq(tree', 1, k)) = InheritedName(SubSeq(tree, 1, k))
          /\ InheritedTime(SubSeq(tree', 1, k)) = InheritedTime(SubSeq(tree, 1, k))
      BY <1>1, <3>2, PrefixInherits
    <3>4. QED
      BY <3>1, <3>3 DEF Around
  <2>7. /\ saved_testrun'.outcome = ExpectedOutcome(Reported(i)')
        /\ saved_testrun'.failure_message = ExpectedMessage(Reported(i)')
    BY <1>2, <2>2
  <2>8. Says(i, saved_testrun)'
    BY <2>1, <2>4, <2>5, <2>6, <2>7 DEF Says, SameTestrun, SameFrame
  <2>9. QED
    BY <2>1, <2>5, <2>8 DEF SavedMatchesAt, SameTestrun
<1>3. saved_testrun' \in Testruns => \A i \in 1 .. Len(tree') : SavedMatchesAt(i)'
  BY <1>2 DEF SavedMatchesAt
<1>4. QED
  BY <1>1, <1>3, SavedMatchesAfter

-----------------------------------------------------------------------------
(* The runs.                                                               *)

LEMMA RunsGrow ==
  ASSUME Types, RunsMatch, NEW r \in Testruns, testruns' = Append(testruns, r),
         expected' = expected \o <<Without(r)>>
  PROVE  RunsMatch'
<1> DEFINE n == Len(testruns)
           matched == [i \in 1 .. n |-> Without(testruns[i])]
<1>1. testruns \in Seq(Testruns) /\ n \in Nat /\ DOMAIN testruns = 1 .. n
  BY DEF Types
<1>2. expected = matched /\ expected \in Seq(ExpectedType) /\ Len(expected) = n
  <2>1. expected = matched
    BY <1>1 DEF RunsMatch
  <2>2. expected \in Seq(ExpectedType) /\ DOMAIN expected = 1 .. n
    BY <2>1 DEF Types
  <2>3. QED
    BY <1>1, <2>1, <2>2
<1>3. Without(r) \in ExpectedType
  BY DEF Without, Testruns, ExpectedType, Durations
<1>4. /\ testruns' \in Seq(Testruns) /\ Len(testruns') = n + 1 /\ testruns'[n + 1] = r
      /\ \A i \in 1 .. n : testruns'[i] = testruns[i]
  BY <1>1, AppendType
<1>5. /\ expected' \in Seq(ExpectedType) /\ Len(expected') = n + 1
      /\ \A i \in 1 .. n : expected'[i] = expected[i]
      /\ expected'[n + 1] = Without(r)
  <2> DEFINE w == <<Without(r)>>
  <2>1. w \in Seq(ExpectedType) /\ Len(w) = 1 /\ w[1] = Without(r)
    BY <1>3
  <2> HIDE DEF w
  <2>2. /\ expected \o w \in Seq(ExpectedType) /\ Len(expected \o w) = n + 1
        /\ \A i \in 1 .. n + 1 : (expected \o w)[i] = IF i <= n THEN expected[i] ELSE w[i - n]
    <3>1. /\ expected \o w \in Seq(ExpectedType)
          /\ Len(expected \o w) = Len(expected) + Len(w)
          /\ \A i \in 1 .. Len(expected) + Len(w) :
               (expected \o w)[i] =
                 IF i <= Len(expected) THEN expected[i] ELSE w[i - Len(expected)]
      <4>1. expected \in Seq(ExpectedType) /\ w \in Seq(ExpectedType)
        BY <1>2, <2>1
      <4> HIDE DEF n, matched
      <4>2. QED
        BY <4>1, ConcatProperties
    <3>2. Len(expected) = n /\ Len(w) = 1
      BY <1>2, <2>1
    <3> HIDE DEF n
    <3>3. QED
      BY <3>1, <3>2
  <2>3. expected' = expected \o w
    BY DEF w
  <2>4. \A i \in 1 .. n : i \in 1 .. n + 1 /\ i <= n
    BY <1>1
  <2>5. n + 1 \in 1 .. n + 1 /\ ~ (n + 1 <= n) /\ (n + 1) - n = 1
    BY <1>1
  <2> HIDE DEF n
  <2>6. QED
    BY <2>1, <2>2, <2>3, <2>4, <2>5
<1> HIDE DEF n
<1>6. \A i \in 1 .. n : expected[i] = Without(testruns[i])
  BY <1>2
<1> HIDE DEF matched
<1>7. \A i \in 1 .. n + 1 : expected'[i] = Without(testruns'[i])
  <2>1. \A i \in 1 .. n + 1 : i \in 1 .. n \/ i = n + 1
    BY <1>1
  <2>2. QED
    BY <1>4, <1>5, <1>6, <2>1
<1>8. DOMAIN testruns' = 1 .. n + 1
  BY <1>4
<1>9. expected' = [i \in 1 .. n + 1 |-> expected'[i]]
  BY <1>5
<1>10. expected' = [i \in DOMAIN testruns' |-> Without(testruns'[i])]
  BY <1>7, <1>8, <1>9
<1>11. QED
  BY <1>10 DEF RunsMatch

LEMMA FrameworkIs ==
  ASSUME FrameworkOfRuns, NEW i \in since + 1 .. Len(testruns)
  PROVE  /\ testruns[i].computed_by \in {None, framework}
         /\ \A j \in i .. Len(testruns) :
              testruns[i].computed_by # None => testruns[j].computed_by = testruns[i].computed_by
BY DEF FrameworkOfRuns

LEMMA FrameworkKept ==
  ASSUME FrameworkOfRuns, UNCHANGED <<testruns, since>>,
         framework # None => framework' = framework
  PROVE  FrameworkOfRuns'
<1>1. ASSUME NEW i \in since + 1 .. Len(testruns)
      PROVE  testruns[i].computed_by \in {None, framework'}
  BY FrameworkIs
<1>2. QED
  BY <1>1 DEF FrameworkOfRuns

LEMMA FrameworkGrows ==
  ASSUME Types, FrameworkOfRuns, NEW r \in Testruns, testruns' = Append(testruns, r),
         since' = since, framework # None => framework' = framework,
         r.computed_by = framework'
  PROVE  FrameworkOfRuns'
<1> DEFINE n == Len(testruns)
<1>1. testruns \in Seq(Testruns) /\ n \in Nat /\ since \in Nat
  BY DEF Types
<1>2. /\ Len(testruns') = n + 1 /\ testruns'[n + 1] = r
      /\ \A i \in 1 .. n : testruns'[i] = testruns[i]
  BY <1>1, AppendType
<1>3. ASSUME NEW i \in since + 1 .. n
      PROVE  /\ testruns[i].computed_by \in {None, framework}
             /\ \A j \in i .. n :
                  testruns[i].computed_by # None => testruns[j].computed_by = testruns[i].computed_by
             /\ testruns'[i] = testruns[i]
  BY <1>1, <1>2, FrameworkIs
<1> HIDE DEF n
<1>4. ASSUME NEW i \in since + 1 .. n + 1
      PROVE  testruns'[i].computed_by \in {None, framework'}
  <2>1. i \in since + 1 .. n \/ i = n + 1
    BY <1>1
  <2>2. QED
    BY <1>2, <1>3, <2>1
<1>5. ASSUME NEW i \in since + 1 .. n + 1, NEW j \in i .. n + 1, testruns'[i].computed_by # None
      PROVE  testruns'[j].computed_by = testruns'[i].computed_by
  <2>1. (i \in since + 1 .. n \/ i = n + 1) /\ (j \in i .. n \/ j = n + 1)
    BY <1>1
  <2>2. CASE j = n + 1
    BY <1>2, <1>4, <1>5, <2>2
  <2>3. CASE j \in i .. n
    <3>1. i \in since + 1 .. n /\ j \in since + 1 .. n
      BY <1>1, <2>3
    <3>2. QED
      BY <1>3, <1>5, <2>3, <3>1
  <2>4. QED
    BY <2>1, <2>2, <2>3
<1>6. ASSUME NEW i \in since' + 1 .. Len(testruns')
      PROVE  /\ testruns'[i].computed_by \in {None, framework'}
             /\ \A j \in i .. Len(testruns') :
                  testruns'[i].computed_by # None =>
                    testruns'[j].computed_by = testruns'[i].computed_by
  <2>1. i \in since + 1 .. n + 1 /\ Len(testruns') = n + 1
    BY <1>2, <1>6
  <2>2. QED
    BY <1>4, <1>5, <2>1
<1>7. QED
  BY <1>6 DEF FrameworkOfRuns

LEMMA FrameworkStartsAnew ==
  ASSUME Types, UNCHANGED testruns, since' = Len(testruns)
  PROVE  FrameworkOfRuns'
<1>1. Len(testruns) \in Nat
  BY DEF Types
<1>2. since' + 1 .. Len(testruns') = {}
  BY <1>1
<1>3. QED
  BY <1>2 DEF FrameworkOfRuns

LEMMA PopulatedFrameworkKeeps ==
  ASSUME NEW attrs, framework # None
  PROVE  PopulatedFramework(attrs) = framework
BY DEF PopulatedFramework, Some

-----------------------------------------------------------------------------
(* The second invariant, event by event.                                   *)

LEMMA SchemaStep ==
  ASSUME FollowsSchema, DocumentInv, DocumentInv', SchemaInv,
         \/ \E f : Pushes(f) /\ Nested(f.element)
         \/ Pops
         \/ Stays,
         FlagsExact', SavedMatches', RunsMatch', FrameworkOfRuns'
  PROVE  SchemaInv'
<1>1. Leaves'
  BY InvParts, LeavesKept DEF SchemaInv
<1>2. QED
  BY <1>1 DEF SchemaInv

LEMMA AttrsAgree ==
  ASSUME DocumentInv, NEW attrs \in Attrs
  PROVE  Without(Populate(attrs)) = ExpectedRun(tree, TestcaseFrame(attrs))
<1>1. /\ LastSome(testsuite_names) = InheritedName(tree)
      /\ LastSome(testsuite_times) = InheritedTime(tree)
  BY InvParts, StacksInherit
<1>2. TestcaseFrame(attrs).attrs = attrs /\ TestcaseFrame(attrs).outcomes = <<>>
  BY TestcaseFrameType
<1>3. QED
  BY <1>1, <1>2, NoOutcome DEF Without, Populate, ExpectedRun

LEMMA AppendedPrefix ==
  ASSUME NEW S, NEW s \in Seq(S), NEW x \in S
  PROVE  SubSeq(Append(s, x), 1, Len(s)) = s
<1>1. Front(Append(s, x)) = s /\ Len(Append(s, x)) = Len(s) + 1 /\ Len(s) \in Nat
  BY AppendType
<1>2. (Len(s) + 1) - 1 = Len(s)
  BY <1>1
<1>3. QED
  BY <1>1, <1>2 DEF Front

LEMMA StartTestcaseFollows ==
  ASSUME FollowsSchema, DocumentInv, DocumentInv', SchemaInv,
         NEW attrs \in Attrs, StartTestcase(attrs),
         tree' = Append(tree, TestcaseFrame(attrs)), UNCHANGED <<expected, since>>
  PROVE  SchemaInv'
<1> DEFINE f == TestcaseFrame(attrs)
<1>1. /\ f \in Frames /\ f.element = "testcase" /\ f.attrs = attrs
      /\ f.name = None /\ f.time = None /\ f.outcomes = <<>>
  BY TestcaseFrameType
<1>2. /\ status' = status
      /\ UNCHANGED <<in_failure, in_error, testsuite_names, testsuite_times, testruns>>
      /\ Opens("testcase") /\ Nested("testcase")
  BY DEF StartTestcase, Opens
<1>3. Pushes(f)
  BY <1>1, <1>2, OpensPushes
<1> HIDE DEF f
<1>4. /\ Types /\ Mirror /\ Stacked /\ Types' /\ Mirror'
      /\ Leaves /\ FlagsExact /\ SavedMatches /\ RunsMatch /\ FrameworkOfRuns
      /\ open \in Seq(Elements)
  BY DEF DocumentInv, SchemaInv, Types
<1>5. \/ /\ attrs.parsed = "Ok" /\ saved_testrun' = Populate(attrs)
         /\ framework' = PopulatedFramework(attrs)
      \/ /\ saved_testrun' = Skipped /\ framework' = framework
  BY DEF StartTestcase
<1>6. FlagsExact'
  <2>1. /\ in_failure' = (in_failure \/ f.element = "failure")
        /\ in_error' = (in_error \/ f.element = "error")
    BY <1>1, <1>2, <1>4 DEF Types
  <2>2. QED
    BY <1>1, <1>2, <1>3, <1>4, <2>1, FlagsExactKept
<1>7. SavedMatches'
  <2>1. CASE saved_testrun' = Skipped
    <3>1. saved_testrun' \notin Testruns
      BY <2>1, SkippedAssumption
    <3>2. QED
      BY <3>1 DEF SavedMatches
  <2>2. CASE saved_testrun' = Populate(attrs) /\ framework' = PopulatedFramework(attrs)
    <3>1. /\ tree' \in Seq(Frames) /\ open' \in Seq(Elements)
          /\ Len(open) \in Nat /\ Len(tree) = Len(open)
          /\ Len(tree') = Len(open) + 1 /\ tree'[Len(open) + 1] = f
          /\ \A i \in 1 .. Len(open) : tree'[i] = tree[i]
      BY <1>3, <1>4, PushedFrames
    <3>2. \A i \in 1 .. Len(open) : open[i] \in Suites
      BY <1>2, <1>4, SchemaParents
    <3>3. \A i \in 1 .. Len(open) : tree'[i].element # "testcase"
      BY <1>4, <3>1, <3>2, MirrorIs DEF Suites
    <3>4. PICK k : k = Len(open) + 1
      OBVIOUS
    <3>5. tree'[k] = f /\ k \in 1 .. Len(tree') /\ ~ (k < Len(tree')) /\ k - 1 = Len(tree)
      BY <3>1, <3>4
    <3>6. Reported(k)' = <<>>
      BY <1>1, <3>5 DEF Reported
    <3>7. Around(k)' = tree
      <4>1. tree' = Append(tree, f) /\ tree \in Seq(Frames)
        BY <1>4 DEF f, Types
      <4>2. QED
        BY <1>1, <3>5, <4>1, AppendedPrefix DEF Around
    <3>8. /\ LastSome(testsuite_names) = InheritedName(tree)
          /\ LastSome(testsuite_times) = InheritedTime(tree)
      BY <1>4, StacksInherit
    <3>9. Says(k, saved_testrun)'
      BY <1>1, <2>2, <3>5, <3>6, <3>7, <3>8, NoOutcome DEF Says, Populate
    <3>10. saved_testrun'.computed_by = framework'
      BY <2>2 DEF Populate
    <3>11. SavedMatchesAt(k)'
      BY <3>9, <3>10 DEF SavedMatchesAt
    <3>12. \A i \in 1 .. Len(tree') : i \in 1 .. Len(open) \/ i = k
      BY <3>1, <3>4
    <3>13. \A i \in 1 .. Len(tree') : SavedMatchesAt(i)'
      BY <3>3, <3>11, <3>12 DEF SavedMatchesAt
    <3>14. QED
      BY <3>1, <3>13, SavedMatchesAfter
  <2>3. QED
    BY <1>5, <2>1, <2>2
<1>8. RunsMatch'
  BY <1>2, <1>4 DEF RunsMatch
<1>9. FrameworkOfRuns'
  BY <1>2, <1>4, <1>5, PopulatedFrameworkKeeps, FrameworkKept
<1>10. QED
  BY <1>1, <1>2, <1>3, <1>6, <1>7, <1>8, <1>9, SchemaStep

LEMMA EmptyTestcaseFollows ==
  ASSUME FollowsSchema, DocumentInv, DocumentInv', SchemaInv,
         NEW attrs \in Attrs, EmptyTestcase(attrs),
         expected' = expected \o ExpectedRuns(tree, TestcaseFrame(attrs)),
         UNCHANGED <<tree, since>>
  PROVE  SchemaInv'
<1>1. /\ status' = status /\ open' = open /\ Nested("testcase")
      /\ UNCHANGED <<in_failure, in_error, testsuite_names, testsuite_times, saved_testrun>>
  BY DEF EmptyTestcase, Empties
<1>2. /\ Types /\ Mirror /\ Types'
      /\ Leaves /\ FlagsExact /\ SavedMatches /\ RunsMatch /\ FrameworkOfRuns
      /\ open \in Seq(Elements) /\ tree \in Seq(Frames)
      /\ expected \in Seq(ExpectedType)
  BY DEF DocumentInv, SchemaInv, Types
<1>3. Stays
  BY <1>1, <1>2, UnchangedStays
<1>4. \/ /\ attrs.parsed = "Ok" /\ testruns' = Append(testruns, Populate(attrs))
         /\ framework' = PopulatedFramework(attrs)
      \/ /\ attrs.parsed # "Ok" /\ testruns' = testruns /\ framework' = framework
  BY DEF EmptyTestcase
<1>5. FlagsExact'
  BY <1>1, <1>2 DEF FlagsExact
<1>6. SavedMatches'
  <2>1. \A i \in 1 .. Len(open) : open[i] \in Suites
    BY <1>1, <1>2, SchemaParents
  <2>2. \A i \in 1 .. Len(tree) : tree[i].element # "testcase"
    BY <1>2, <2>1, MirrorIs DEF Suites
  <2>3. DOMAIN tree = 1 .. Len(tree)
    BY <1>2
  <2>4. QED
    BY <2>2, <2>3 DEF SavedMatches
<1>7. TestcaseFrame(attrs).attrs = attrs
  BY TestcaseFrameType
<1>8. CASE attrs.parsed = "Ok"
  <2>1. Populate(attrs) \in Testruns
    BY <1>2, PopulateType
  <2>2. ExpectedRuns(tree, TestcaseFrame(attrs)) = <<Without(Populate(attrs))>>
    BY <1>7, <1>8, AttrsAgree, ExpectedRunsAre
  <2>3. RunsMatch'
    BY <1>2, <1>4, <1>8, <2>1, <2>2, RunsGrow
  <2>4. Populate(attrs).computed_by = PopulatedFramework(attrs)
    BY DEF Populate
  <2>5. FrameworkOfRuns'
    <3>1. framework # None => framework' = framework
      BY <1>4, <1>8, PopulatedFrameworkKeeps
    <3>2. PICK r \in Testruns : r = Populate(attrs)
      BY <2>1
    <3>3. testruns' = Append(testruns, r) /\ r.computed_by = framework' /\ since' = since
      BY <1>4, <1>8, <2>4, <3>2
    <3>4. QED
      BY <1>2, <3>1, <3>3, FrameworkGrows
  <2>6. QED
    BY <1>3, <1>5, <1>6, <2>3, <2>5, SchemaStep
<1>9. CASE attrs.parsed # "Ok"
  <2>1. ExpectedRuns(tree, TestcaseFrame(attrs)) = <<>>
    BY <1>7, <1>9, ExpectedRunsAre
  <2>2. expected' = expected
    BY <1>2, <2>1, ConcatEmptySeq
  <2>3. RunsMatch' /\ FrameworkOfRuns'
    BY <1>2, <1>4, <1>9, <2>2, FrameworkKept DEF RunsMatch
  <2>4. QED
    BY <1>3, <1>5, <1>6, <2>3, SchemaStep
<1>10. QED
  BY <1>8, <1>9

LEMMA EndTestcaseFollows ==
  ASSUME FollowsSchema, DocumentInv, DocumentInv', SchemaInv,
         EndTestcase, tree' = Closed(tree),
         expected' = expected \o ExpectedRuns(Front(tree), Last(tree)),
         UNCHANGED since
  PROVE  SchemaInv'
<1>1. /\ status' = status /\ Closes("testcase")
      /\ saved_testrun # None /\ saved_testrun' = None
      /\ testruns' = IF saved_testrun = Skipped THEN testruns ELSE Append(testruns, saved_testrun)
      /\ UNCHANGED <<in_failure, in_error, framework>>
  BY DEF EndTestcase
<1>2. /\ Types /\ Mirror /\ Types'
      /\ Leaves /\ FlagsExact /\ SavedMatches /\ RunsMatch /\ FrameworkOfRuns
      /\ open \in Seq(Elements) /\ tree \in Seq(Frames)
      /\ expected \in Seq(ExpectedType)
      /\ saved_testrun \in Testruns \cup {None, Skipped}
      /\ in_failure \in BOOLEAN /\ in_error \in BOOLEAN
      /\ Len(tree) = Len(open)
  BY DEF DocumentInv, SchemaInv, Types, Mirror
<1>3. Pops /\ Last(open) = "testcase" /\ open # <<>>
  <2>1. tree' \in {Closed(tree), Front(tree)}
    OBVIOUS
  <2>2. QED
    BY <1>1, <1>2, <2>1, ClosesPops DEF Closes
<1>4. FlagsExact'
  <2>1. /\ in_failure' = (in_failure /\ Last(open) # "failure")
        /\ in_error' = (in_error /\ Last(open) # "error")
    BY <1>1, <1>2, <1>3
  <2>2. QED
    BY <1>2, <1>3, <2>1, FlagsExactKept
<1>5. SavedMatches'
  <2>1. saved_testrun' \notin Testruns
    BY <1>1, SkippedAssumption
  <2>2. QED
    BY <2>1 DEF SavedMatches
<1>6. /\ tree # <<>> /\ Last(tree).element = "testcase"
      /\ saved_testrun = Skipped <=> Last(tree).attrs.parsed # "Ok"
  BY <1>1, <1>3, SavedIsLast
<1>7. CASE saved_testrun = Skipped
  <2>1. ExpectedRuns(Front(tree), Last(tree)) = <<>>
    BY <1>6, <1>7, ExpectedRunsAre
  <2>2. expected' = expected /\ testruns' = testruns
    BY <1>1, <1>2, <1>7, <2>1, ConcatEmptySeq
  <2>3. RunsMatch' /\ FrameworkOfRuns'
    BY <1>1, <1>2, <2>2, FrameworkKept DEF RunsMatch
  <2>4. QED
    BY <1>3, <1>4, <1>5, <2>3, SchemaStep
<1>8. CASE saved_testrun \in Testruns
  <2>1. saved_testrun # Skipped
    BY <1>8, SkippedAssumption
  <2>2. PICK k : k = Len(tree)
    OBVIOUS
  <2>3. k \in Nat \ {0} /\ k \in 1 .. Len(tree) /\ Last(tree) = tree[k]
    BY <1>2, <1>6, <2>2, EmptySeq DEF Last
  <2>4. SavedMatchesAt(k)
    BY <1>2, <1>8, <2>3, SavedMatchesAre
  <2>5. Says(k, saved_testrun) /\ saved_testrun.computed_by = framework
    BY <1>6, <2>3, <2>4 DEF SavedMatchesAt
  <2>6. Reported(k) = tree[k].outcomes
    BY <2>2, <2>3 DEF Reported
  <2>7. Around(k) = Front(tree)
    BY <2>2 DEF Around, Front
  <2>8. Without(saved_testrun) = ExpectedRun(Front(tree), Last(tree))
    BY <2>3, <2>5, <2>6, <2>7 DEF Says, Without, ExpectedRun
  <2>9. ExpectedRuns(Front(tree), Last(tree)) = <<Without(saved_testrun)>>
    BY <1>6, <2>1, <2>8, ExpectedRunsAre
  <2>10. testruns' = Append(testruns, saved_testrun)
    BY <1>1, <2>1
  <2>11. RunsMatch'
    BY <1>2, <1>8, <2>9, <2>10, RunsGrow
  <2>12. FrameworkOfRuns'
    <3>1. PICK r \in Testruns : r = saved_testrun
      BY <1>8
    <3>2. testruns' = Append(testruns, r) /\ r.computed_by = framework' /\ since' = since
      BY <1>1, <2>5, <2>10, <3>1
    <3>3. QED
      BY <1>1, <1>2, <3>2, FrameworkGrows
  <2>13. QED
    BY <1>3, <1>4, <1>5, <2>11, <2>12, SchemaStep
<1>9. QED
  BY <1>1, <1>2, <1>7, <1>8

FlagsFollow ==
  \/ Stays /\ UNCHANGED <<in_failure, in_error>>
  \/ \E f : /\ Pushes(f) /\ Nested(f.element)
            /\ in_failure' = (in_failure \/ f.element = "failure")
            /\ in_error' = (in_error \/ f.element = "error")
  \/ /\ Pops
     /\ in_failure' = (in_failure /\ Last(open) # "failure")
     /\ in_error' = (in_error /\ Last(open) # "error")

\* An event that leaves the runs alone, and changes no more than the outcome of the saved one.
LEMMA QuietFollows ==
  ASSUME FollowsSchema, DocumentInv, DocumentInv', SchemaInv, FlagsFollow,
         UNCHANGED <<framework, testruns, expected, since>>,
         saved_testrun' \in Testruns => SameTestrun,
         \A i \in 1 .. Len(tree') :
           saved_testrun' \in Testruns /\ tree'[i].element = "testcase" =>
             /\ i \in 1 .. Len(tree)
             /\ SavedMatchesAt(i) =>
                  /\ saved_testrun'.outcome = ExpectedOutcome(Reported(i)')
                  /\ saved_testrun'.failure_message = ExpectedMessage(Reported(i)')
  PROVE  SchemaInv'
<1>1. /\ Types /\ Mirror /\ Types' /\ Leaves /\ FlagsExact /\ SavedMatches
      /\ RunsMatch /\ FrameworkOfRuns
  BY DEF DocumentInv, SchemaInv
<1>2. (\E f : Pushes(f) /\ Nested(f.element)) \/ Pops \/ Stays
  BY DEF FlagsFollow
<1>3. FlagsExact'
  BY <1>1, FlagsExactKept DEF FlagsFollow
<1>4. SavedMatches'
  BY <1>1, <1>2, SavedMatchesKept
<1>5. RunsMatch' /\ FrameworkOfRuns'
  BY <1>1, FrameworkKept DEF RunsMatch
<1>6. QED
  BY <1>2, <1>3, <1>4, <1>5, SchemaStep

LEMMA SilentFollows ==
  ASSUME FollowsSchema, DocumentInv, DocumentInv', SchemaInv, FlagsFollow,
         UNCHANGED <<framework, testruns, expected, since, saved_testrun>>,
         \A i \in 1 .. Len(tree') :
           tree'[i].element = "testcase" => i \in 1 .. Len(tree) /\ Reported(i)' = Reported(i)
  PROVE  SchemaInv'
<1>1. saved_testrun' \in Testruns => SameTestrun
  BY DEF SameTestrun
<1>2. ASSUME NEW i \in 1 .. Len(tree'), saved_testrun' \in Testruns, tree'[i].element = "testcase",
             SavedMatchesAt(i)
      PROVE  /\ saved_testrun'.outcome = ExpectedOutcome(Reported(i)')
             /\ saved_testrun'.failure_message = ExpectedMessage(Reported(i)')
  <2>1. i \in 1 .. Len(tree) /\ Reported(i)' = Reported(i)
    BY <1>2
  <2>2. SamePrefix(i)
    BY <2>1, InvParts, StepPrefix DEF FlagsFollow
  <2>3. tree[i].element = "testcase"
    BY <1>2, <2>1, <2>2 DEF SamePrefix, SameFrame
  <2>4. QED
    BY <1>2, <2>1, <2>3 DEF SavedMatchesAt, Says
<1>3. QED
  BY <1>1, <1>2, QuietFollows

\* Only one test case is open.
LEMMA OnlyTestcase ==
  ASSUME Types, Mirror, Leaves, NEW k \in 1 .. Len(open), open[k] = "testcase",
         NEW i \in 1 .. Len(open), open[i] = "testcase"
  PROVE  i = k
<1>1. LeavesAt(i) /\ LeavesAt(k) /\ Len(open) \in Nat
  BY LeavesAre DEF Types
<1>2. ~ (i < k) /\ ~ (k < i)
  BY <1>1 DEF LeavesAt, Suites
<1>3. QED
  BY <1>1, <1>2

\* The kinds of pushes that are no test cases.
LEMMA PushedTestcases ==
  ASSUME Types, Mirror, NEW f, Pushes(f), f.element # "testcase",
         NEW i \in 1 .. Len(tree'), tree'[i].element = "testcase"
  PROVE  /\ i \in 1 .. Len(open) /\ open[i] = "testcase"
         /\ i \in 1 .. Len(tree) /\ tree'[i] = tree[i]
         /\ Len(tree') = Len(open) + 1 /\ tree'[Len(open) + 1] = f
         /\ \A j \in 1 .. Len(open) : tree'[j] = tree[j]
<1>1. /\ Len(open) \in Nat /\ Len(tree) = Len(open) /\ Len(tree') = Len(open) + 1
      /\ tree'[Len(open) + 1] = f
      /\ \A j \in 1 .. Len(open) : tree'[j] = tree[j]
  BY PushedFrames
<1>2. i # Len(open) + 1
  BY <1>1
<1>3. i \in 1 .. Len(open)
  BY <1>1, <1>2
<1>4. QED
  BY <1>1, <1>3, MirrorIs

LEMMA PushFollows ==
  ASSUME FollowsSchema, DocumentInv, DocumentInv', SchemaInv,
         NEW f, Pushes(f), Nested(f.element), f.element \notin Outcomes \cup {"testcase"},
         UNCHANGED <<in_failure, in_error, framework, testruns, expected, since, saved_testrun>>
  PROVE  SchemaInv'
<1>1. Types /\ Mirror /\ in_failure \in BOOLEAN /\ in_error \in BOOLEAN
  BY InvParts
<1>2. FlagsFollow
  <2>1. f.element # "failure" /\ f.element # "error"
    BY DEF Outcomes
  <2>2. /\ in_failure' = (in_failure \/ f.element = "failure")
        /\ in_error' = (in_error \/ f.element = "error")
    BY <1>1, <2>1
  <2>3. QED
    BY <2>2 DEF FlagsFollow
<1>3. ASSUME NEW i \in 1 .. Len(tree'), tree'[i].element = "testcase"
      PROVE  i \in 1 .. Len(tree) /\ Reported(i)' = Reported(i)
  <2>1. /\ i \in 1 .. Len(open) /\ i \in 1 .. Len(tree) /\ tree'[i] = tree[i]
        /\ Len(tree') = Len(open) + 1 /\ tree'[Len(open) + 1] = f
        /\ \A j \in 1 .. Len(open) : tree'[j] = tree[j]
    BY <1>1, <1>3, PushedTestcases
  <2>2. Len(open) \in Nat /\ Len(tree) = Len(open)
    BY <1>1 DEF Types, Mirror
  <2>3. CASE i = Len(open)
    <3>1. Reported(i)' = tree'[i].outcomes
      BY <2>1, <2>2, <2>3 DEF Reported
    <3>2. Reported(i) = tree[i].outcomes
      BY <2>2, <2>3 DEF Reported
    <3>3. QED
      BY <2>1, <3>1, <3>2
  <2>4. CASE i < Len(open)
    <3>1. tree'[i + 1] = tree[i + 1] /\ i < Len(tree') /\ i < Len(tree)
      BY <2>1, <2>2, <2>4
    <3>2. QED
      BY <2>1, <3>1 DEF Reported
  <2>5. QED
    BY <2>1, <2>2, <2>3, <2>4
<1>4. QED
  BY <1>2, <1>3, SilentFollows

LEMMA PopFollows ==
  ASSUME FollowsSchema, DocumentInv, DocumentInv', SchemaInv,
         NEW element, element \notin Outcomes \cup {"testcase"}, Closes(element),
         tree' \in {Closed(tree), Front(tree)},
         UNCHANGED <<in_failure, in_error, framework, testruns, expected, since, saved_testrun>>
  PROVE  SchemaInv'
<1>1. /\ Types /\ Mirror /\ in_failure \in BOOLEAN /\ in_error \in BOOLEAN
      /\ tree \in Seq(Frames) /\ Len(tree) = Len(open) /\ Len(open) \in Nat
  BY InvParts
<1>2. Pops /\ Last(open) = element /\ open # <<>>
  <2>1. Pops /\ Last(open) = element
    BY <1>1, ClosesPops
  <2>2. QED
    BY <2>1 DEF Pops
<1>3. FlagsFollow
  <2>1. /\ in_failure' = (in_failure /\ Last(open) # "failure")
        /\ in_error' = (in_error /\ Last(open) # "error")
    BY <1>1, <1>2 DEF Outcomes
  <2>2. QED
    BY <1>2, <2>1 DEF FlagsFollow
<1>4. Len(open) # 0 /\ tree # <<>> /\ open[Len(open)] = element
  BY <1>1, <1>2, InvParts, EmptySeq DEF Last
<1>5. tree[Len(tree)].element \notin Outcomes
  BY <1>1, <1>4, MirrorIs
<1>6. tree' = Front(tree)
  BY <1>5, ClosedOther DEF Last
<1>7. Len(tree') = Len(tree) - 1 /\ \A i \in 1 .. Len(tree) - 1 : tree'[i] = tree[i]
  BY <1>1, <1>4, <1>6, FrontType
<1>8. ASSUME NEW i \in 1 .. Len(tree'), tree'[i].element = "testcase"
      PROVE  i \in 1 .. Len(tree) /\ Reported(i)' = Reported(i)
  <2>1. i \in 1 .. Len(tree) - 1 /\ tree'[i] = tree[i]
    BY <1>1, <1>7
  <2>2. CASE i = Len(tree) - 1
    <3>1. Reported(i)' = tree'[i].outcomes
      BY <1>1, <1>7, <2>2 DEF Reported
    <3>2. Reported(i) = tree[i].outcomes
      BY <1>1, <1>5, <2>2 DEF Reported
    <3>3. QED
      BY <1>1, <2>1, <3>1, <3>2
  <2>3. CASE i < Len(tree) - 1
    <3>1. tree'[i + 1] = tree[i + 1] /\ i < Len(tree') /\ i < Len(tree)
      BY <1>1, <1>7, <2>1, <2>3
    <3>2. QED
      BY <1>1, <2>1, <3>1 DEF Reported
  <2>4. QED
    BY <1>1, <2>1, <2>2, <2>3
<1>9. QED
  BY <1>3, <1>8, SilentFollows

LEMMA SameFollows ==
  ASSUME FollowsSchema, DocumentInv, DocumentInv', SchemaInv,
         UNCHANGED <<open, tree, in_failure, in_error, framework, testruns, expected, since,
                     saved_testrun>>
  PROVE  SchemaInv'
BY DEF SchemaInv, Leaves, FlagsExact, SavedMatches, Says, Around, Reported, RunsMatch,
       FrameworkOfRuns

LEMMA MarkSays ==
  ASSUME Types, NEW element \in Outcomes, NEW message \in Messages \cup {None},
         Mark(element, message), saved_testrun' \in Testruns
  PROVE  /\ SameTestrun
         /\ saved_testrun'.outcome = OutcomeOf(element)
         /\ saved_testrun'.failure_message =
              IF element = "skipped" THEN saved_testrun.failure_message ELSE message
<1>1. saved_testrun # Skipped /\ saved_testrun # None
  BY SkippedAssumption DEF Mark
<1>2. saved_testrun \in Testruns
  BY <1>1, SavedKinds
<1> DEFINE new == [saved_testrun EXCEPT
               !.outcome = OutcomeOf(element),
               !.failure_message =
                 IF element = "skipped" THEN saved_testrun.failure_message ELSE message]
<1>3. saved_testrun' = new
  BY <1>1 DEF Mark
<1>4. /\ new.name = saved_testrun.name /\ new.testsuite = saved_testrun.testsuite
      /\ new.duration = saved_testrun.duration /\ new.computed_by = saved_testrun.computed_by
      /\ new.outcome = OutcomeOf(element)
      /\ new.failure_message = IF element = "skipped" THEN saved_testrun.failure_message ELSE message
  BY <1>2 DEF Testruns
<1> HIDE DEF new
<1>5. QED
  BY <1>2, <1>3, <1>4 DEF SameTestrun

LEMMA NewReports ==
  /\ \A element, message :
       Report(OutcomeFrame(element, message)) =
         [element |-> element, message |-> message, text |-> None]
  /\ Report(Frame("skipped")) = [element |-> "skipped", message |-> None, text |-> None]
BY DEF Report, OutcomeFrame, Frame

\* What the document says of a test case with one more outcome is what Mark makes of its run.
LEMMA MarkedRun ==
  ASSUME Types, NEW element \in Outcomes, NEW message \in Messages \cup {None},
         Mark(element, message), saved_testrun' \in Testruns,
         NEW k \in 1 .. Len(tree), tree[k].element = "testcase",
         Reported(k) = tree[k].outcomes, SavedMatchesAt(k),
         NEW report, report = [element |-> element, message |-> message, text |-> None],
         Reported(k)' = Append(tree[k].outcomes, report)
  PROVE  /\ saved_testrun'.outcome = ExpectedOutcome(Reported(k)')
         /\ saved_testrun'.failure_message = ExpectedMessage(Reported(k)')
<1>1. tree[k].outcomes \in Seq(Reports)
  BY ReportedType
<1>2. /\ report \in Reports /\ report.element = element
      /\ Some(report.text, report.message) = message
  BY DEF Reports, Some
<1>3. /\ ExpectedOutcome(Reported(k)') = OutcomeOf(element)
      /\ ExpectedMessage(Reported(k)') =
           IF element = "skipped" THEN ExpectedMessage(tree[k].outcomes) ELSE message
  <2>1. /\ ExpectedOutcome(Append(tree[k].outcomes, report)) = OutcomeOf(report.element)
        /\ ExpectedMessage(Append(tree[k].outcomes, report)) =
             IF report.element = "skipped" THEN ExpectedMessage(tree[k].outcomes)
             ELSE Some(report.text, report.message)
    BY <1>1, <1>2, OneMoreOutcome
  <2>2. QED
    BY <1>2, <2>1
<1>4. saved_testrun.failure_message = ExpectedMessage(tree[k].outcomes)
  BY DEF SavedMatchesAt, Says
<1>5. QED
  BY <1>3, <1>4, MarkSays

LEMMA StartOutcomeFollows ==
  ASSUME FollowsSchema, DocumentInv, DocumentInv', SchemaInv,
         NEW element \in Outcomes, NEW message \in Messages \cup {None},
         StartOutcome(element, message), NEW f \in Frames, f.element = element,
         f.name = None, f.time = None, Grows(f),
         Report(f) = [element |-> element, message |-> message, text |-> None]
  PROVE  SchemaInv'
<1>1. /\ Opens(element) /\ Nested(element) /\ Mark(element, message)
      /\ in_failure' = (in_failure \/ element = "failure")
      /\ in_error' = (in_error \/ element = "error")
      /\ UNCHANGED <<framework, testruns>>
  BY DEF StartOutcome, Opens
<1>2. tree' = Append(tree, f) /\ UNCHANGED <<expected, since>>
  BY DEF Grows
<1>3. Pushes(f)
  BY <1>1, <1>2, OpensPushes DEF Outcomes
<1>4. FlagsFollow
  <2>1. /\ in_failure' = (in_failure \/ f.element = "failure")
        /\ in_error' = (in_error \/ f.element = "error")
    BY <1>1
  <2>2. QED
    BY <1>1, <1>3, <2>1 DEF FlagsFollow
<1>5. /\ Types /\ Mirror /\ Leaves /\ open \in Seq(Elements)
      /\ Len(open) \in Nat /\ Len(tree) = Len(open)
  BY InvParts DEF SchemaInv
<1>6. Len(open) # 0 /\ open[Len(open)] = "testcase"
  BY <1>1, <1>5, SchemaParents
<1>7. PICK k \in 1 .. Len(open) : k = Len(open)
  BY <1>5, <1>6
<1>8. ASSUME NEW i \in 1 .. Len(tree'), saved_testrun' \in Testruns, tree'[i].element = "testcase"
      PROVE  /\ i \in 1 .. Len(tree)
             /\ SavedMatchesAt(i) =>
                  /\ saved_testrun'.outcome = ExpectedOutcome(Reported(i)')
                  /\ saved_testrun'.failure_message = ExpectedMessage(Reported(i)')
  <2>1. /\ i \in 1 .. Len(open) /\ open[i] = "testcase" /\ tree'[i] = tree[i]
        /\ Len(tree') = Len(open) + 1 /\ tree'[Len(open) + 1] = f
    BY <1>3, <1>5, <1>8, PushedTestcases DEF Outcomes
  <2>2. i = k
    BY <1>5, <1>6, <1>7, <2>1, OnlyTestcase
  <2>3. Reported(k) = tree[k].outcomes
    BY <1>5, <1>7 DEF Reported
  <2>4. k < Len(tree') /\ tree'[k + 1] = f /\ tree'[k] = tree[k]
    BY <1>5, <1>7, <2>1, <2>2
  <2>5. Reported(k)' = Append(tree[k].outcomes, Report(f))
    BY <2>4 DEF Reported
  <2>6. tree[k].element = "testcase" /\ k \in 1 .. Len(tree)
    BY <1>5, <1>7, <1>8, <2>1, <2>2
  <2>7. ASSUME SavedMatchesAt(k)
        PROVE  /\ saved_testrun'.outcome = ExpectedOutcome(Reported(k)')
               /\ saved_testrun'.failure_message = ExpectedMessage(Reported(k)')
    <3>1. PICK report : report = [element |-> element, message |-> message, text |-> None]
      OBVIOUS
    <3>2. Reported(k)' = Append(tree[k].outcomes, report)
      BY <2>5, <3>1
    <3>3. QED
      BY <1>1, <1>5, <1>8, <2>3, <2>6, <2>7, <3>1, <3>2, MarkedRun
  <2>8. QED
    BY <2>2, <2>6, <2>7
<1>9. saved_testrun' \in Testruns => SameTestrun
  BY <1>1, <1>5, MarkSays
<1>10. QED
  BY <1>1, <1>2, <1>4, <1>8, <1>9, QuietFollows

LEMMA EmptyOutcomeFollows ==
  ASSUME FollowsSchema, DocumentInv, DocumentInv', SchemaInv,
         NEW element \in Outcomes, NEW message \in Messages \cup {None},
         EmptyOutcome(element, message), NEW f \in Frames, f.element = element,
         tree' = Closed(Append(tree, f)), UNCHANGED <<expected, since>>,
         Report(f) = [element |-> element, message |-> message, text |-> None]
  PROVE  SchemaInv'
<1>1. /\ Nested(element) /\ Mark(element, message) /\ open' = open
      /\ UNCHANGED <<framework, testruns, in_failure, in_error>>
  BY DEF EmptyOutcome, Empties
<1>2. /\ Types /\ Mirror /\ Leaves /\ open \in Seq(Elements) /\ tree \in Seq(Frames)
      /\ Len(open) \in Nat /\ Len(tree) = Len(open)
  BY InvParts DEF SchemaInv
<1>3. Stays
  BY <1>1, <1>2, EmptyElementStays
<1>4. FlagsFollow
  BY <1>1, <1>3 DEF FlagsFollow
<1>5. Len(open) # 0 /\ open[Len(open)] = "testcase"
  BY <1>1, <1>2, SchemaParents
<1>6. PICK k \in 1 .. Len(open) : k = Len(open)
  BY <1>2, <1>5
<1>7. Len(tree') = k /\ tree'[k].outcomes = Append(tree[k].outcomes, Report(f))
  <2> DEFINE frames == Append(tree, f)
  <2>1. /\ frames \in Seq(Frames) /\ Len(frames) = k + 1 /\ Last(frames) = f
        /\ frames[k] = tree[k] /\ k \in Nat \ {0}
    BY <1>2, <1>6, AppendType
  <2>2. tree' = Closed(frames)
    OBVIOUS
  <2> HIDE DEF frames
  <2>3. /\ Len(Closed(frames)) = k
        /\ Closed(frames)[k].outcomes = Append(frames[k].outcomes, Report(Last(frames)))
    BY <2>1, ClosedOutcome
  <2>4. QED
    BY <2>1, <2>2, <2>3
<1>8. ASSUME NEW i \in 1 .. Len(tree'), saved_testrun' \in Testruns, tree'[i].element = "testcase"
      PROVE  /\ i \in 1 .. Len(tree)
             /\ SavedMatchesAt(i) =>
                  /\ saved_testrun'.outcome = ExpectedOutcome(Reported(i)')
                  /\ saved_testrun'.failure_message = ExpectedMessage(Reported(i)')
  <2>1. i \in 1 .. Len(open) /\ SameFrame(tree'[i], tree[i])
    BY <1>2, <1>3, StayingFrames
  <2>2. open[i] = "testcase"
    BY <1>2, <1>8, <2>1, MirrorIs DEF SameFrame
  <2>3. i = k
    BY <1>2, <1>5, <1>6, <2>1, <2>2, OnlyTestcase
  <2>4. Reported(k) = tree[k].outcomes
    BY <1>2, <1>6 DEF Reported
  <2>5. Reported(k)' = Append(tree[k].outcomes, Report(f))
    BY <1>6, <1>7 DEF Reported
  <2>6. tree[k].element = "testcase" /\ k \in 1 .. Len(tree)
    BY <1>2, <1>6, <1>8, <2>1, <2>3 DEF SameFrame
  <2>7. ASSUME SavedMatchesAt(k)
        PROVE  /\ saved_testrun'.outcome = ExpectedOutcome(Reported(k)')
               /\ saved_testrun'.failure_message = ExpectedMessage(Reported(k)')
    <3>1. PICK report : report = [element |-> element, message |-> message, text |-> None]
      OBVIOUS
    <3>2. Reported(k)' = Append(tree[k].outcomes, report)
      BY <2>5, <3>1
    <3>3. QED
      BY <1>1, <1>2, <1>8, <2>4, <2>6, <2>7, <3>1, <3>2, MarkedRun
  <2>8. QED
    BY <2>3, <2>6, <2>7
<1>9. saved_testrun' \in Testruns => SameTestrun
  BY <1>1, <1>2, MarkSays
<1>10. QED
  BY <1>1, <1>4, <1>8, <1>9, QuietFollows

\* An open outcome is the child of the open test case.
LEMMA OpenOutcome ==
  ASSUME Types, Mirror, Leaves, NEW j \in 1 .. Len(open), open[j] \in Outcomes
  PROVE  /\ j = Len(open) /\ j - 1 \in 1 .. Len(open) /\ open[j - 1] = "testcase"
         /\ \A i \in 1 .. Len(open) : open[i] = "testcase" => i = j - 1
<1>1. LeavesAt(j) /\ Len(open) \in Nat
  BY LeavesAre DEF Types
<1>2. j = Len(open) /\ j > 1 /\ open[j - 1] = "testcase"
  BY <1>1 DEF LeavesAt
<1>3. PICK k \in 1 .. Len(open) : k = j - 1
  BY <1>1, <1>2
<1>4. \A i \in 1 .. Len(open) : open[i] = "testcase" => i = k
  BY <1>2, <1>3, OnlyTestcase
<1>5. QED
  BY <1>2, <1>3, <1>4

LEMMA EndOutcomeFollows ==
  ASSUME FollowsSchema, DocumentInv, DocumentInv', SchemaInv,
         NEW element \in Outcomes, EndOutcome(element), CloseFrame
  PROVE  SchemaInv'
<1>1. /\ Closes(element)
      /\ in_failure' = (in_failure /\ element # "failure")
      /\ in_error' = (in_error /\ element # "error")
      /\ UNCHANGED <<saved_testrun, framework, testruns>>
  BY DEF EndOutcome
<1>2. tree' = Closed(tree) /\ UNCHANGED <<expected, since>>
  BY DEF CloseFrame
<1>3. /\ Types /\ Mirror /\ Leaves /\ open \in Seq(Elements) /\ tree \in Seq(Frames)
      /\ Len(open) \in Nat /\ Len(tree) = Len(open)
  BY InvParts DEF SchemaInv
<1>4. Pops /\ Last(open) = element /\ open # <<>>
  <2>1. tree' \in {Closed(tree), Front(tree)}
    BY <1>2
  <2>2. QED
    BY <1>1, <1>3, <2>1, ClosesPops DEF Closes
<1>5. FlagsFollow
  <2>1. /\ in_failure' = (in_failure /\ Last(open) # "failure")
        /\ in_error' = (in_error /\ Last(open) # "error")
    BY <1>1, <1>4
  <2>2. QED
    BY <1>4, <2>1 DEF FlagsFollow
<1>6. Len(open) # 0 /\ open[Len(open)] = element
  BY <1>3, <1>4, EmptySeq DEF Last
<1>7. PICK j \in 1 .. Len(open) : j = Len(open)
  BY <1>3, <1>6
<1>8. /\ j - 1 \in 1 .. Len(open)
      /\ \A i \in 1 .. Len(open) : open[i] = "testcase" => i = j - 1
  BY <1>3, <1>6, <1>7, OpenOutcome
<1>9. PICK k \in Nat \ {0} : k = j - 1
  BY <1>8
<1>10. tree[k + 1].element = element /\ Last(tree) = tree[k + 1] /\ Len(tree) = k + 1
  <2>1. k + 1 = Len(open) /\ k + 1 \in 1 .. Len(open)
    BY <1>3, <1>7, <1>9
  <2>2. QED
    BY <1>3, <1>6, <2>1, MirrorIs DEF Last
<1>11. Len(tree') = k /\ tree'[k].outcomes = Append(tree[k].outcomes, Report(tree[k + 1]))
  BY <1>2, <1>3, <1>10, ClosedOutcome
<1>12. ASSUME NEW i \in 1 .. Len(tree'), tree'[i].element = "testcase"
       PROVE  i \in 1 .. Len(tree) /\ Reported(i)' = Reported(i)
  <2>1. i \in 1 .. Len(open) - 1 /\ SameFrame(tree'[i], tree[i])
    BY <1>3, <1>4, <1>12, PoppedFrames
  <2>2. i \in 1 .. Len(open) /\ open[i] = "testcase"
    BY <1>3, <1>12, <2>1, MirrorIs DEF SameFrame
  <2>3. i = k
    BY <1>8, <1>9, <2>2
  <2>4. Reported(k)' = tree'[k].outcomes
    BY <1>11 DEF Reported
  <2>5. k < Len(tree)
    BY <1>10
  <2>6. Reported(k) = Append(tree[k].outcomes, Report(tree[k + 1]))
    BY <1>10, <2>5 DEF Reported
  <2>7. QED
    BY <1>3, <1>11, <2>2, <2>3, <2>4, <2>6
<1>13. QED
  BY <1>1, <1>2, <1>5, <1>12, SilentFollows

\* Text changes the last frame, and of that only the text.
LEMMA TextFrame ==
  ASSUME Types, Mirror, NEW message \in Messages, tree # <<>>,
         tree' = IF tree = <<>> THEN tree ELSE [tree EXCEPT ![Len(tree)].text = message]
  PROVE  /\ Len(tree) \in Nat \ {0} /\ Len(tree') = Len(tree)
         /\ \A i \in 1 .. Len(tree) :
              /\ tree[i] \in Frames /\ tree'[i] \in Frames
              /\ tree'[i].element = tree[i].element
              /\ tree'[i].outcomes = tree[i].outcomes
              /\ i = Len(tree) => tree'[i].text = message
              /\ i < Len(tree) => tree'[i] = tree[i]
<1> DEFINE last == tree[Len(tree)]
           new == [last EXCEPT !.text = message]
<1>1. tree \in Seq(Frames) /\ Len(tree) \in Nat \ {0} /\ Len(tree) \in 1 .. Len(tree)
      /\ \A i \in 1 .. Len(tree) : tree[i] \in Frames
  BY EmptySeq, ElementOfSeq DEF Types
<1>2. last \in Frames
  BY <1>1
<1>3. /\ new \in Frames /\ new.text = message /\ new.element = last.element
      /\ new.outcomes = last.outcomes
  BY <1>2 DEF Frames
<1>4. tree' = [tree EXCEPT ![Len(tree)] = new]
  OBVIOUS
<1> HIDE DEF new
<1>5. /\ Len(tree') = Len(tree)
      /\ \A i \in 1 .. Len(tree) : tree'[i] = IF i = Len(tree) THEN new ELSE tree[i]
  BY <1>1, <1>3, <1>4, ExceptSeq
<1>6. QED
  BY <1>1, <1>3, <1>5

LEMMA TextFollows ==
  ASSUME FollowsSchema, DocumentInv, DocumentInv', SchemaInv,
         NEW message \in Messages, Text(message),
         tree' = IF tree = <<>> THEN tree ELSE [tree EXCEPT ![Len(tree)].text = message],
         UNCHANGED <<expected, since>>
  PROVE  SchemaInv'
<1>1. /\ open' = open /\ UNCHANGED <<in_failure, in_error, framework, testruns>>
      /\ saved_testrun' =
           IF (in_failure \/ in_error) /\ saved_testrun # Skipped
           THEN [saved_testrun EXCEPT !.failure_message = message]
           ELSE saved_testrun
      /\ (in_failure \/ in_error) => saved_testrun # None
  BY DEF Text
<1>2. /\ Types /\ Mirror /\ Leaves /\ FlagsExact
      /\ open \in Seq(Elements) /\ tree \in Seq(Frames)
      /\ Len(open) \in Nat /\ Len(tree) = Len(open)
      /\ saved_testrun \in Testruns \cup {None, Skipped}
  BY InvParts DEF SchemaInv
<1>3. Stays /\ FlagsFollow
  BY <1>1, <1>2, TextStays DEF FlagsFollow
<1>4. /\ in_failure <=> Len(open) # 0 /\ open[Len(open)] = "failure"
      /\ in_error <=> Len(open) # 0 /\ open[Len(open)] = "error"
  BY <1>2, FlagsExactAre
<1>5. CASE (in_failure \/ in_error) /\ saved_testrun = Skipped
  <2>1. saved_testrun' \notin Testruns
    BY <1>1, <1>5, SkippedAssumption
  <2>2. QED
    BY <1>1, <1>3, <2>1, QuietFollows
<1>6. CASE (in_failure \/ in_error) /\ saved_testrun # Skipped
  <2>1. saved_testrun \in Testruns
    BY <1>1, <1>2, <1>6
  <2> DEFINE new == [saved_testrun EXCEPT !.failure_message = message]
  <2>2. /\ new.name = saved_testrun.name /\ new.testsuite = saved_testrun.testsuite
        /\ new.duration = saved_testrun.duration /\ new.computed_by = saved_testrun.computed_by
        /\ new.outcome = saved_testrun.outcome /\ new.failure_message = message
    BY <2>1 DEF Testruns
  <2>3. saved_testrun' = new
    BY <1>1, <1>6
  <2> HIDE DEF new
  <2>4. SameTestrun
    BY <2>1, <2>2, <2>3 DEF SameTestrun
  <2>5. PICK element \in {"failure", "error"} : Len(open) # 0 /\ open[Len(open)] = element
    BY <1>4, <1>6
  <2>6. PICK j \in 1 .. Len(open) : j = Len(open)
    BY <1>2, <2>5
  <2>7. /\ j - 1 \in 1 .. Len(open)
        /\ \A i \in 1 .. Len(open) : open[i] = "testcase" => i = j - 1
    BY <1>2, <2>5, <2>6, OpenOutcome DEF Outcomes
  <2>8. PICK k \in 1 .. Len(open) : k = j - 1
    BY <2>7
  <2>9. tree # <<>>
    BY <1>2, <2>5
  <2>10. /\ k < Len(tree) /\ Len(tree') = Len(tree) /\ tree'[k] = tree[k]
         /\ k + 1 = Len(tree) /\ k + 1 \in 1 .. Len(tree)
    BY <1>2, <2>6, <2>8, <2>9, TextFrame
  <2>11. /\ tree[k + 1] \in Frames /\ tree'[k + 1] \in Frames
         /\ tree'[k + 1].element = tree[k + 1].element /\ tree'[k + 1].text = message
    BY <1>2, <2>9, <2>10, TextFrame
  <2>12. tree[k + 1].element = element /\ element \in Outcomes /\ element # "skipped"
    BY <1>2, <2>5, <2>10, MirrorIs DEF Outcomes
  <2>13. PICK before : before = Report(tree[k + 1])
    OBVIOUS
  <2>14. PICK after : after = Report(tree'[k + 1])
    OBVIOUS
  <2>15. /\ before \in Reports /\ after \in Reports /\ before.element = element
         /\ after.element = element /\ after.text = message
    <3>1. before \in Reports /\ after \in Reports
      BY <2>11, <2>12, <2>13, <2>14, ReportType
    <3>2. QED
      BY <2>11, <2>12, <2>13, <2>14, <3>1 DEF Report
  <2>16. PICK outcomes \in Seq(Reports) : outcomes = tree[k].outcomes
    BY <1>2, ReportedType
  <2>17. Reported(k) = Append(outcomes, before)
    BY <2>10, <2>12, <2>13, <2>16 DEF Reported
  <2>18. Reported(k)' = Append(outcomes, after)
    BY <2>10, <2>11, <2>12, <2>14, <2>16 DEF Reported
  <2>19. /\ ExpectedOutcome(Append(outcomes, before)) = OutcomeOf(element)
         /\ ExpectedOutcome(Append(outcomes, after)) = OutcomeOf(element)
         /\ ExpectedMessage(Append(outcomes, after)) = Some(message, after.message)
    BY <2>12, <2>15, OneMoreOutcome
  <2>20. Some(message, after.message) = message
    BY NoneAssumption DEF Some
  <2>21. tree[k].element = "testcase" \/ \A i \in 1 .. Len(open) : open[i] # "testcase"
    BY <1>2, <2>7, <2>8, MirrorIs
  <2>22. ASSUME NEW i \in 1 .. Len(tree'), tree'[i].element = "testcase"
         PROVE  /\ i \in 1 .. Len(tree)
                /\ SavedMatchesAt(i) =>
                     /\ saved_testrun'.outcome = ExpectedOutcome(Reported(i)')
                     /\ saved_testrun'.failure_message = ExpectedMessage(Reported(i)')
    <3>1. i \in 1 .. Len(tree) /\ tree[i].element = "testcase"
      BY <1>2, <2>9, <2>10, <2>22, TextFrame
    <3>2. i = k
      BY <1>2, <2>7, <2>8, <3>1, MirrorIs
    <3>3. ASSUME SavedMatchesAt(k)
          PROVE  saved_testrun.outcome = ExpectedOutcome(Reported(k))
      BY <3>1, <3>2, <3>3 DEF SavedMatchesAt, Says
    <3>4. QED
      BY <2>2, <2>3, <2>17, <2>18, <2>19, <2>20, <3>1, <3>2, <3>3
  <2>23. QED
    BY <1>1, <1>3, <2>4, <2>22, QuietFollows
<1>7. CASE ~ (in_failure \/ in_error)
  <2>1. saved_testrun' = saved_testrun
    BY <1>1, <1>7
  <2>2. saved_testrun' \in Testruns => SameTestrun
    BY <2>1 DEF SameTestrun
  <2>3. ASSUME NEW i \in 1 .. Len(tree'), tree'[i].element = "testcase"
        PROVE  /\ i \in 1 .. Len(tree) /\ tree[i].element = "testcase"
               /\ ExpectedOutcome(Reported(i)') = ExpectedOutcome(Reported(i))
               /\ ExpectedMessage(Reported(i)') = ExpectedMessage(Reported(i))
    <3>1. tree # <<>>
      BY <1>2, <1>3, <2>3, StayingFrames
    <3>2. /\ Len(tree) \in Nat \ {0} /\ Len(tree') = Len(tree) /\ i \in 1 .. Len(tree)
          /\ tree[i].element = "testcase" /\ tree'[i].outcomes = tree[i].outcomes
      BY <1>2, <2>3, <3>1, TextFrame
    <3>3. PICK outcomes \in Seq(Reports) : outcomes = tree[i].outcomes
      BY <1>2, <3>2, ReportedType
    <3>4. CASE i < Len(tree) /\ tree[i + 1].element \in Outcomes
      <4>1. PICK k \in 1 .. Len(tree) : k = i + 1
        BY <3>2, <3>4
      <4>2. /\ tree[k] \in Frames /\ tree'[k] \in Frames
            /\ tree'[k].element = tree[k].element
        BY <1>2, <3>1, TextFrame
      <4>3. open[k] \in Outcomes /\ k \in 1 .. Len(open) /\ open[k] = tree[k].element
        BY <1>2, <3>4, <4>1, MirrorIs
      <4>4. k = Len(open)
        BY <1>2, <4>3, OpenOutcome
      <4>5. tree[k].element = "skipped"
        BY <1>2, <1>4, <1>7, <3>2, <4>3, <4>4 DEF Outcomes
      <4>6. Reported(i) = Append(outcomes, Report(tree[k]))
        BY <3>3, <3>4, <4>1 DEF Reported
      <4>7. Reported(i)' = Append(outcomes, Report(tree'[k]))
        BY <3>2, <3>3, <3>4, <4>1, <4>2 DEF Reported
      <4>8. /\ Report(tree[k]) \in Reports /\ Report(tree[k]).element = "skipped"
            /\ Report(tree'[k]) \in Reports /\ Report(tree'[k]).element = "skipped"
        <5>1. "skipped" \in Outcomes
          BY DEF Outcomes
        <5>2. Report(tree[k]) \in Reports /\ Report(tree'[k]) \in Reports
          BY <4>2, <4>5, <5>1, ReportType
        <5>3. QED
          BY <4>2, <4>5, <5>2 DEF Report
      <4>9. PICK before \in Reports : before = Report(tree[k])
        BY <4>8
      <4>10. PICK after \in Reports : after = Report(tree'[k])
        BY <4>8
      <4>11. /\ ExpectedOutcome(Append(outcomes, before)) = OutcomeOf("skipped")
             /\ ExpectedOutcome(Append(outcomes, after)) = OutcomeOf("skipped")
             /\ ExpectedMessage(Append(outcomes, before)) = ExpectedMessage(outcomes)
             /\ ExpectedMessage(Append(outcomes, after)) = ExpectedMessage(outcomes)
        BY <4>8, <4>9, <4>10, OneMoreOutcome
      <4>12. QED
        BY <3>2, <4>6, <4>7, <4>9, <4>10, <4>11
    <3>5. CASE ~ (i < Len(tree) /\ tree[i + 1].element \in Outcomes)
      <4>1. i < Len(tree) => tree'[i + 1].element = tree[i + 1].element
        <5>1. i < Len(tree) => i + 1 \in 1 .. Len(tree)
          BY <3>2
        <5>2. QED
          BY <1>2, <3>1, <5>1, TextFrame
      <4>2. Reported(i) = tree[i].outcomes
        BY <3>5 DEF Reported
      <4>3. ~ (i < Len(tree') /\ tree'[i + 1].element \in Outcomes)
        BY <3>2, <3>5, <4>1
      <4>4. Reported(i)' = tree'[i].outcomes
        BY <4>3 DEF Reported
      <4>5. QED
        BY <3>2, <4>2, <4>4
    <3>6. QED
      BY <3>4, <3>5
  <2>4. ASSUME NEW i \in 1 .. Len(tree'), tree'[i].element = "testcase", SavedMatchesAt(i)
        PROVE  /\ saved_testrun'.outcome = ExpectedOutcome(Reported(i)')
               /\ saved_testrun'.failure_message = ExpectedMessage(Reported(i)')
    BY <2>1, <2>3, <2>4 DEF SavedMatchesAt, Says
  <2>5. QED
    BY <1>1, <1>3, <2>2, <2>3, <2>4, QuietFollows
<1>8. QED
  BY <1>5, <1>6, <1>7

LEMMA StartTestsuiteFollows ==
  ASSUME FollowsSchema, DocumentInv, DocumentInv', SchemaInv,
         NEW name \in SuiteNames \cup {None}, NEW time \in SuiteTimes \cup {None},
         StartTestsuite(name, time), Grows(SuiteFrame(name, time))
  PROVE  SchemaInv'
<1> DEFINE f == SuiteFrame(name, time)
<1>1. f \in Frames /\ f.element = "testsuite"
  BY SuiteFrameType
<1>2. /\ Opens("testsuite") /\ Nested("testsuite")
      /\ UNCHANGED <<saved_testrun, in_failure, in_error, framework, testruns>>
  BY DEF StartTestsuite, Opens
<1>3. tree' = Append(tree, f) /\ UNCHANGED <<expected, since>>
  BY DEF Grows
<1> HIDE DEF f
<1>4. Pushes(f)
  BY <1>1, <1>2, <1>3, OpensPushes
<1>5. f.element \notin Outcomes \cup {"testcase"}
  BY <1>1 DEF Outcomes
<1>6. QED
  BY <1>1, <1>2, <1>3, <1>4, <1>5, PushFollows

LEMMA EndTestsuiteFollows ==
  ASSUME FollowsSchema, DocumentInv, DocumentInv', SchemaInv, EndTestsuite, CloseFrame
  PROVE  SchemaInv'
<1>1. /\ Closes("testsuite")
      /\ UNCHANGED <<saved_testrun, in_failure, in_error, framework, testruns>>
  BY DEF EndTestsuite
<1>2. tree' \in {Closed(tree), Front(tree)} /\ UNCHANGED <<expected, since>>
  BY DEF CloseFrame
<1>3. "testsuite" \notin Outcomes \cup {"testcase"}
  BY DEF Outcomes
<1>4. QED
  BY <1>1, <1>2, <1>3, PopFollows

\* By the schema it is the root, so that no test case is open.
LEMMA StartTestsuitesFollows ==
  ASSUME FollowsSchema, DocumentInv, DocumentInv', SchemaInv,
         NEW name \in SuiteNames \cup {None}, StartTestsuites(name),
         tree' = Append(tree, Frame("testsuites")), since' = Len(testruns), UNCHANGED expected
  PROVE  SchemaInv'
<1> DEFINE f == Frame("testsuites")
<1>1. f \in Frames /\ f.element = "testsuites" /\ f.name = None /\ f.time = None
  BY FrameType DEF Elements
<1>2. /\ Opens("testsuites") /\ Nested("testsuites")
      /\ UNCHANGED <<saved_testrun, in_failure, in_error, testruns>>
  BY DEF StartTestsuites, Opens
<1> HIDE DEF f
<1>3. Pushes(f) /\ Nested(f.element) /\ f.element # "testcase"
  BY <1>1, <1>2, OpensPushes DEF f
<1>4. /\ Types /\ Mirror /\ Types' /\ Leaves /\ FlagsExact /\ RunsMatch
      /\ open \in Seq(Elements) /\ tree' \in Seq(Frames)
      /\ in_failure \in BOOLEAN /\ in_error \in BOOLEAN
  BY DEF DocumentInv, SchemaInv, Types
<1>5. FlagsExact'
  <2>1. /\ in_failure' = (in_failure \/ f.element = "failure")
        /\ in_error' = (in_error \/ f.element = "error")
    BY <1>1, <1>2, <1>4
  <2>2. QED
    BY <1>3, <1>4, <2>1, FlagsExactKept
<1>6. \A i \in 1 .. Len(open) : open[i] # "testcase"
  <2>1. \A i \in 1 .. Len(open) : open[i] \in Suites
    BY <1>2, <1>4, SchemaParents
  <2>2. QED
    BY <2>1 DEF Suites
<1>7. \A i \in 1 .. Len(tree') : tree'[i].element # "testcase"
  BY <1>3, <1>4, <1>6, PushedTestcases
<1>8. SavedMatches'
  BY <1>4, <1>7, SavedMatchesAfter DEF SavedMatchesAt
<1>9. RunsMatch' /\ FrameworkOfRuns'
  BY <1>2, <1>4, FrameworkStartsAnew DEF RunsMatch
<1>10. QED
  BY <1>3, <1>5, <1>8, <1>9, SchemaStep

LEMMA PropertyFollows ==
  ASSUME FollowsSchema, DocumentInv, DocumentInv', SchemaInv, NEW valid, Property(valid),
         tree' = IF open' = open THEN tree ELSE Append(tree, Frame("property")),
         UNCHANGED <<expected, since>>
  PROVE  SchemaInv'
<1> DEFINE f == Frame("property")
<1>1. f \in Frames /\ f.element = "property" /\ f.name = None /\ f.time = None
  BY FrameType DEF Elements
<1>2. /\ (Opens("property") /\ Nested("property")) \/ open' = open
      /\ UNCHANGED <<saved_testrun, in_failure, in_error, framework, testruns>>
  BY DEF Property, Opens, Empties
<1> HIDE DEF f
<1>3. CASE open' = open
  BY <1>2, <1>3, SameFollows
<1>4. CASE open' # open
  <2>1. Pushes(f) /\ Nested(f.element)
    BY <1>1, <1>2, <1>4, OpensPushes DEF f
  <2>2. f.element \notin Outcomes \cup {"testcase"}
    BY <1>1 DEF Outcomes
  <2>3. QED
    BY <1>2, <2>1, <2>2, PushFollows
<1>5. QED
  BY <1>3, <1>4

LEMMA IgnoredFollows ==
  ASSUME FollowsSchema, DocumentInv, DocumentInv', SchemaInv, Ignored,
         tree' = CASE Len(open') > Len(open) -> Append(tree, Frame("other"))
                   [] Len(open') < Len(open) -> Front(tree)
                   [] OTHER -> tree,
         UNCHANGED <<expected, since>>
  PROVE  SchemaInv'
<1> DEFINE f == Frame("other")
<1>1. f \in Frames /\ f.element = "other" /\ f.name = None /\ f.time = None
  BY FrameType DEF Elements
<1>2. /\ \/ open' = open
         \/ Opens("other")
         \/ \E element \in {"other", "property", "testsuites"} : Closes(element)
      /\ UNCHANGED <<saved_testrun, in_failure, in_error, framework, testruns>>
  BY DEF Ignored, Opens, Empties, Closes, parser
<1>3. open \in Seq(Elements) /\ Len(open) \in Nat
  BY InvParts
<1> HIDE DEF f
<1>4. CASE open' = open
  <2>1. tree' = tree
    BY <1>3, <1>4
  <2>2. QED
    BY <1>2, <1>4, <2>1, SameFollows
<1>5. CASE Opens("other")
  <2>1. Len(open') = Len(open) + 1
    <3>1. open' = Append(open, "other") /\ "other" \in Elements
      BY <1>5 DEF Opens, Elements
    <3>2. QED
      BY <1>3, <3>1, AppendType
  <2>2. tree' = Append(tree, f)
    BY <1>3, <2>1 DEF f
  <2>3. Pushes(f) /\ Nested(f.element)
    BY <1>1, <1>5, <2>2, OpensPushes DEF Opens
  <2>4. f.element \notin Outcomes \cup {"testcase"}
    BY <1>1 DEF Outcomes
  <2>5. QED
    BY <1>2, <2>3, <2>4, PushFollows
<1>6. ASSUME NEW element \in {"other", "property", "testsuites"}, Closes(element)
      PROVE  SchemaInv'
  <2>1. open # <<>> /\ open' = Front(open)
    BY <1>6 DEF Closes
  <2>2. Len(open') < Len(open)
    BY <1>3, <2>1, FrontType
  <2>3. tree' \in {Closed(tree), Front(tree)}
    BY <1>3, <2>1, <2>2, FrontType
  <2>4. element \notin Outcomes \cup {"testcase"}
    BY DEF Outcomes
  <2>5. QED
    BY <1>2, <1>6, <2>3, <2>4, PopFollows
<1>7. QED
  BY <1>2, <1>4, <1>5, <1>6

LEMMA EmptyDocumentFollows ==
  ASSUME NoDocument, NoTree
  PROVE  SchemaInv'
<1>1. /\ open' = <<>> /\ saved_testrun' = None /\ in_failure' = FALSE /\ in_error' = FALSE
      /\ testruns' = <<>> /\ tree' = <<>> /\ expected' = <<>> /\ since' = 0
  BY DEF NoDocument, NewParser, NoTree
<1>2. Leaves' /\ FlagsExact' /\ SavedMatches' /\ RunsMatch'
  BY <1>1, SkippedAssumption DEF Leaves, FlagsExact, SavedMatches, RunsMatch
<1>3. FrameworkOfRuns'
  BY <1>1 DEF FrameworkOfRuns
<1>4. QED
  BY <1>2, <1>3 DEF SchemaInv

LEMMA InitFollows ==
  ASSUME InitD
  PROVE  SchemaInv
<1>1. /\ open = <<>> /\ saved_testrun = None /\ in_failure = FALSE /\ in_error = FALSE
      /\ testruns = <<>> /\ tree = <<>> /\ expected = <<>> /\ since = 0
  BY DEF InitD, Init, NewParser
<1>2. Leaves /\ FlagsExact /\ SavedMatches /\ RunsMatch
  BY <1>1, SkippedAssumption DEF Leaves, FlagsExact, SavedMatches, RunsMatch
<1>3. FrameworkOfRuns
  BY <1>1 DEF FrameworkOfRuns
<1>4. QED
  BY <1>2, <1>3 DEF SchemaInv

LEMMA StutterFollows ==
  ASSUME SchemaInv, UNCHANGED dvars
  PROVE  SchemaInv'
BY DEF SchemaInv, Leaves, FlagsExact, SavedMatches, Says, Around, Reported, RunsMatch,
       FrameworkOfRuns, dvars, vars, parser

LEMMA EventFollows ==
  ASSUME FollowsSchema, DocumentInv, DocumentInv', SchemaInv, EventD
  PROVE  SchemaInv'
<1>1. ASSUME NEW attrs \in Attrs, StartTestcase(attrs),
             tree' = Append(tree, TestcaseFrame(attrs)), UNCHANGED <<expected, since>>
      PROVE  SchemaInv'
  BY <1>1, StartTestcaseFollows
<1>2. ASSUME NEW attrs \in Attrs, EmptyTestcase(attrs),
             expected' = expected \o ExpectedRuns(tree, TestcaseFrame(attrs)),
             UNCHANGED <<tree, since>>
      PROVE  SchemaInv'
  BY <1>2, EmptyTestcaseFollows
<1>3. ASSUME NEW attrs \in Attrs, BadTestcase(attrs), NoTree
      PROVE  SchemaInv'
  BY <1>3, EmptyDocumentFollows DEF BadTestcase, Fails
<1>4. ASSUME EndTestcase, tree' = Closed(tree),
             expected' = expected \o ExpectedRuns(Front(tree), Last(tree)),
             UNCHANGED <<since, hinted>>
      PROVE  SchemaInv'
  BY <1>4, EndTestcaseFollows
<1>5. ASSUME NEW element \in {"failure", "error"}, NEW message \in Messages \cup {None},
             StartOutcome(element, message), Grows(OutcomeFrame(element, message))
      PROVE  SchemaInv'
  <2>1. element \in Outcomes
    BY DEF Outcomes
  <2>2. QED
    BY <1>5, <2>1, OutcomeFrameType, NewReports, StartOutcomeFollows
<1>6. ASSUME NEW element \in {"failure", "error"}, NEW message \in Messages \cup {None},
             EmptyOutcome(element, message),
             tree' = Closed(Append(tree, OutcomeFrame(element, message))),
             UNCHANGED <<expected, since, hinted>>
      PROVE  SchemaInv'
  <2>1. element \in Outcomes
    BY DEF Outcomes
  <2>2. QED
    BY <1>6, <2>1, OutcomeFrameType, NewReports, EmptyOutcomeFollows
<1>7. ASSUME StartOutcome("skipped", None), Grows(Frame("skipped"))
      PROVE  SchemaInv'
  <2>1. "skipped" \in Outcomes /\ "skipped" \in Elements
    BY DEF Outcomes, Elements
  <2>2. QED
    BY <1>7, <2>1, FrameType, NewReports, StartOutcomeFollows
<1>8. ASSUME EmptyOutcome("skipped", None), tree' = Closed(Append(tree, Frame("skipped"))),
             UNCHANGED <<expected, since, hinted>>
      PROVE  SchemaInv'
  <2>1. "skipped" \in Outcomes /\ "skipped" \in Elements
    BY DEF Outcomes, Elements
  <2>2. QED
    BY <1>8, <2>1, FrameType, NewReports, EmptyOutcomeFollows
<1>9. ASSUME NEW element \in {"skipped", "failure", "error"}, EndOutcome(element), CloseFrame
      PROVE  SchemaInv'
  <2>1. element \in Outcomes
    BY DEF Outcomes
  <2>2. QED
    BY <1>9, <2>1, EndOutcomeFollows
<1>10. ASSUME NEW message \in Messages, Text(message),
              tree' = IF tree = <<>> THEN tree ELSE [tree EXCEPT ![Len(tree)].text = message],
              UNCHANGED <<expected, since, hinted>>
       PROVE  SchemaInv'
  BY <1>10, TextFollows
<1>11. ASSUME NEW name \in SuiteNames \cup {None}, NEW time \in SuiteTimes \cup {None},
              StartTestsuite(name, time), Grows(SuiteFrame(name, time))
       PROVE  SchemaInv'
  BY <1>11, StartTestsuiteFollows
<1>12. ASSUME EndTestsuite, CloseFrame
       PROVE  SchemaInv'
  BY <1>12, EndTestsuiteFollows
<1>13. ASSUME NEW name \in SuiteNames \cup {None}, StartTestsuites(name),
              tree' = Append(tree, Frame("testsuites")), since' = Len(testruns),
              UNCHANGED expected
       PROVE  SchemaInv'
  BY <1>13, StartTestsuitesFollows
<1>14. ASSUME NEW valid \in BOOLEAN, Property(valid),
              tree' = IF open' = open THEN tree ELSE Append(tree, Frame("property")),
              UNCHANGED <<expected, since, hinted>>
       PROVE  SchemaInv'
  BY <1>14, PropertyFollows
<1>15. ASSUME Ignored,
              tree' = CASE Len(open') > Len(open) -> Append(tree, Frame("other"))
                        [] Len(open') < Len(open) -> Front(tree)
                        [] OTHER -> tree,
              UNCHANGED <<expected, since, hinted>>
       PROVE  SchemaInv'
  BY <1>15, IgnoredFollows
<1>16. ASSUME NoTestrun \/ Malformed, NoTree
       PROVE  SchemaInv'
  BY <1>16, EmptyDocumentFollows DEF NoTestrun, Malformed, Fails
<1>17. ASSUME Eof, UNCHANGED <<tree, expected, since, hinted>>
       PROVE  SchemaInv'
  <2>1. UNCHANGED <<open, in_failure, in_error, framework, testruns, saved_testrun>>
    BY <1>17 DEF Eof, parser
  <2>2. QED
    BY <1>17, <2>1, SameFollows
<1>18. QED
  BY <1>1, <1>2, <1>3, <1>4, <1>5, <1>6, <1>7, <1>8, <1>9, <1>10, <1>11, <1>12, <1>13, <1>14,
     <1>15, <1>16, <1>17 DEF EventD, SuiteFrame

LEMMA DocumentFollows ==
  ASSUME FollowsSchema
  PROVE  SpecD => [](DocumentInv /\ SchemaInv)
<1>1. InitD => DocumentInv /\ SchemaInv
  BY InitDocument, InitFollows
<1>2. DocumentInv /\ SchemaInv /\ [NextD]_dvars => (DocumentInv /\ SchemaInv)'
  <2>1. DocumentInv /\ [NextD]_dvars => DocumentInv'
    BY EventKeeps, UseReaderKeeps, StutterKeeps DEF NextD
  <2>2. UseReaderD => SchemaInv'
    BY EmptyDocumentFollows DEF UseReaderD, UseReader
  <2>3. QED
    BY <2>1, <2>2, EventFollows, StutterFollows DEF NextD
<1>3. QED
  BY <1>1, <1>2, PTL DEF SpecD

(***************************************************************************)
(* RunsMatchDocument holds of documents that follow the schema, however    *)
(* deep and long: every run has the name, suite, time, outcome and message *)
(* of its own test case.                                                   *)
(***************************************************************************)
THEOREM RunsAlwaysMatch ==
  ASSUME FollowsSchema
  PROVE  SpecD => []RunsMatchDocument
<1>1. DocumentInv /\ SchemaInv => RunsMatchDocument
  BY DEF SchemaInv, RunsMatch, RunsMatchDocument
<1>2. QED
  BY <1>1, DocumentFollows, PTL

(***************************************************************************)
(* OneFramework holds of documents that follow the schema: the framework   *)
(* use_reader returns is None or one that something in the document        *)
(* belongs to.  The names of the runs since the last testsuites are        *)
(* computed without a framework up to some run, and from there on all by   *)
(* the one that is returned.                                               *)
(***************************************************************************)
THEOREM OneFrameworkForAll ==
  ASSUME FollowsSchema
  PROVE  SpecD => []OneFramework
<1>1. DocumentInv /\ SchemaInv => OneFramework
  BY DEF DocumentInv, SchemaInv, OneFramework
<1>2. QED
  BY <1>1, DocumentFollows, PTL

(***************************************************************************)
(* SchemaInv holds of documents that follow the schema: test cases are in  *)
(* suites or alone and outcomes are their leaves; a flag is set exactly    *)
(* while the last open element is of its kind; and the saved run already   *)
(* says what the document so far says of the open test case, as the runs   *)
(* given say it of theirs.                                                 *)
(***************************************************************************)
THEOREM ParserFollowsSchema ==
  ASSUME FollowsSchema
  PROVE  SpecD => []SchemaInv
<1>1. DocumentInv /\ SchemaInv => SchemaInv
  OBVIOUS
<1>2. QED
  BY <1>1, DocumentFollows, PTL

-----------------------------------------------------------------------------
(* What a run is given, whatever elements are nested in others.            *)

InnermostAt(i) == open[i] = "testcase" /\ \A j \in 1 .. Len(open) : j > i => open[j] # "testcase"

\* Name, suite and time of the test case of this frame.
Meant(i) ==
  [name |-> tree[i].attrs.name,
   testsuite |-> InheritedName(Around(i)),
   duration |-> ParseTime(Some(tree[i].attrs.time, InheritedTime(Around(i))))]

SavedGiven ==
  saved_testrun \in Testruns =>
    \A i \in 1 .. Len(open) : InnermostAt(i) => Given(saved_testrun) = Meant(i)

GivenInv == SavedGiven /\ NoTestcaseLost

\* No test case is opened or closed.
Inside ==
  \/ \E f : Pushes(f) /\ f.element # "testcase"
  \/ Pops /\ Last(open) # "testcase"
  \/ Stays

LEMMA InsideInnermost ==
  ASSUME Types, Mirror, Inside, NEW i \in 1 .. Len(open'), InnermostAt(i)'
  PROVE  i \in 1 .. Len(open) /\ i \in 1 .. Len(tree) /\ i \in 1 .. Len(tree') /\ InnermostAt(i)
<1>1. /\ i \in 1 .. Len(open') /\ open'[i] = "testcase"
      /\ \A j \in 1 .. Len(open') : j > i => open'[j] # "testcase"
  BY DEF InnermostAt
<1>2. ASSUME NEW f, Pushes(f), f.element # "testcase"
      PROVE  i \in 1 .. Len(open) /\ i \in 1 .. Len(tree) /\ i \in 1 .. Len(tree') /\ InnermostAt(i)
  <2>1. /\ Len(open) \in Nat /\ Len(tree) = Len(open)
        /\ Len(open') = Len(open) + 1 /\ Len(tree') = Len(open) + 1
        /\ open'[Len(open) + 1] # "testcase"
        /\ \A j \in 1 .. Len(open) : open'[j] = open[j]
    BY <1>2, PushedFrames
  <2>2. i # Len(open) + 1
    BY <1>1, <2>1
  <2>3. i \in 1 .. Len(open)
    BY <1>1, <2>1, <2>2
  <2>4. QED
    BY <1>1, <2>1, <2>3 DEF InnermostAt
<1>3. ASSUME Pops, Last(open) # "testcase"
      PROVE  i \in 1 .. Len(open) /\ i \in 1 .. Len(tree) /\ i \in 1 .. Len(tree') /\ InnermostAt(i)
  <2>1. /\ Len(open) \in Nat \ {0} /\ Len(tree) = Len(open)
        /\ Len(open') = Len(open) - 1 /\ Len(tree') = Len(open) - 1
        /\ \A j \in 1 .. Len(open) - 1 : open'[j] = open[j]
    BY <1>3, PoppedFrames
  <2>2. i \in 1 .. Len(open) /\ i \in 1 .. Len(open) - 1
    BY <1>1, <2>1
  <2>3. open[Len(open)] # "testcase"
    BY <1>3 DEF Last
  <2>4. \A j \in 1 .. Len(open) : j = Len(open) \/ j \in 1 .. Len(open) - 1
    BY <2>1
  <2>5. QED
    BY <1>1, <2>1, <2>2, <2>3, <2>4 DEF InnermostAt
<1>4. ASSUME Stays
      PROVE  i \in 1 .. Len(open) /\ i \in 1 .. Len(tree) /\ i \in 1 .. Len(tree') /\ InnermostAt(i)
  <2>1. open' = open /\ Len(tree) = Len(open) /\ Len(tree') = Len(open)
    BY <1>4, StayingFrames
  <2>2. QED
    BY <1>1, <2>1 DEF InnermostAt
<1>5. QED
  BY <1>2, <1>3, <1>4 DEF Inside

LEMMA MeantKept ==
  ASSUME tree \in Seq(Frames), tree' \in Seq(Frames),
         NEW i \in 1 .. Len(tree), i \in 1 .. Len(tree'), SamePrefix(i)
  PROVE  Meant(i)' = Meant(i)
<1>1. Len(tree) \in Nat /\ Len(tree') \in Nat /\ i \in 1 .. i
  OBVIOUS
<1>2. tree'[i].attrs = tree[i].attrs
  BY <1>1 DEF SamePrefix, SameFrame
<1>3. PICK k \in Nat : k = i - 1
  OBVIOUS
<1>4. k <= Len(tree) /\ k <= Len(tree') /\ \A j \in 1 .. k : SameFrame(tree'[j], tree[j])
  BY <1>1, <1>3 DEF SamePrefix
<1>5. /\ InheritedName(SubSeq(tree', 1, k)) = InheritedName(SubSeq(tree, 1, k))
      /\ InheritedTime(SubSeq(tree', 1, k)) = InheritedTime(SubSeq(tree, 1, k))
  BY <1>4, PrefixInherits
<1>6. /\ InheritedName(Around(i)') = InheritedName(Around(i))
      /\ InheritedTime(Around(i)') = InheritedTime(Around(i))
  BY <1>3, <1>5 DEF Around
<1>7. QED
  BY <1>2, <1>6 DEF Meant

LEMMA SavedGivenKept ==
  ASSUME DocumentInv, DocumentInv', SavedGiven, Inside,
         saved_testrun' \in Testruns => SameTestrun
  PROVE  SavedGiven'
<1>1. ASSUME saved_testrun' \in Testruns, NEW i \in 1 .. Len(open'), InnermostAt(i)'
      PROVE  Given(saved_testrun)' = Meant(i)'
  <2>1. SameTestrun
    BY <1>1
  <2>2. i \in 1 .. Len(open) /\ i \in 1 .. Len(tree) /\ i \in 1 .. Len(tree') /\ InnermostAt(i)
    BY <1>1, InvParts, InsideInnermost
  <2>3. Given(saved_testrun) = Meant(i)
    BY <2>1, <2>2 DEF SavedGiven, SameTestrun
  <2>4. SamePrefix(i)
    BY <2>2, InvParts, StepPrefix DEF Inside
  <2>5. tree \in Seq(Frames) /\ tree' \in Seq(Frames)
    BY DEF DocumentInv, Types
  <2>6. Meant(i)' = Meant(i)
    BY <2>2, <2>4, <2>5, MeantKept
  <2>7. QED
    BY <2>1, <2>3, <2>6 DEF Given, SameTestrun
<1>2. QED
  BY <1>1 DEF SavedGiven

LEMMA QuietGives ==
  ASSUME DocumentInv, DocumentInv', GivenInv, Inside,
         saved_testrun' \in Testruns => SameTestrun,
         UNCHANGED <<testruns, expected>>
  PROVE  GivenInv'
<1>1. SavedGiven'
  BY SavedGivenKept DEF GivenInv
<1>2. NoTestcaseLost'
  BY DEF GivenInv, NoTestcaseLost
<1>3. QED
  BY <1>1, <1>2 DEF GivenInv

LEMMA SameSaved ==
  ASSUME UNCHANGED saved_testrun
  PROVE  saved_testrun' \in Testruns => SameTestrun
BY DEF SameTestrun

\* Runs and test cases that agree, and one more of each.
Agree(runs, cases) ==
  [i \in DOMAIN runs |-> Given(runs[i])] = [i \in DOMAIN cases |-> Given(cases[i])]

LEMMA SameInterval ==
  ASSUME NEW m \in Nat, NEW n \in Nat, 1 .. m = 1 .. n
  PROVE  m = n
<1>1. ~ (m < n)
  <2>1. ASSUME m < n
        PROVE  FALSE
    <3>1. n \in 1 .. n /\ n \notin 1 .. m
      BY <2>1
    <3>2. QED
      BY <3>1
  <2>2. QED
    BY <2>1
<1>2. ~ (n < m)
  <2>1. ASSUME n < m
        PROVE  FALSE
    <3>1. m \in 1 .. m /\ m \notin 1 .. n
      BY <2>1
    <3>2. QED
      BY <3>1
  <2>2. QED
    BY <2>1
<1>3. QED
  BY <1>1, <1>2

LEMMA AgreeIs ==
  ASSUME NEW S, NEW T, NEW runs \in Seq(S), NEW cases \in Seq(T)
  PROVE  Agree(runs, cases) <=>
           /\ Len(runs) = Len(cases)
           /\ \A i \in 1 .. Len(runs) : Given(runs[i]) = Given(cases[i])
<1> DEFINE a == [i \in DOMAIN runs |-> Given(runs[i])]
           b == [i \in DOMAIN cases |-> Given(cases[i])]
<1>1. /\ DOMAIN runs = 1 .. Len(runs) /\ Len(runs) \in Nat
      /\ DOMAIN cases = 1 .. Len(cases) /\ Len(cases) \in Nat
  OBVIOUS
<1>2. /\ DOMAIN a = DOMAIN runs /\ \A i \in DOMAIN runs : a[i] = Given(runs[i])
      /\ DOMAIN b = DOMAIN cases /\ \A i \in DOMAIN cases : b[i] = Given(cases[i])
  OBVIOUS
<1>3. ASSUME Len(runs) = Len(cases), \A i \in 1 .. Len(runs) : Given(runs[i]) = Given(cases[i])
      PROVE  a = b
  BY <1>1, <1>3
<1>4. Agree(runs, cases) <=> a = b
  BY DEF Agree
<1> HIDE DEF a, b
<1>5. ASSUME a = b
      PROVE  /\ Len(runs) = Len(cases)
             /\ \A i \in 1 .. Len(runs) : Given(runs[i]) = Given(cases[i])
  <2>1. 1 .. Len(runs) = 1 .. Len(cases)
    BY <1>1, <1>2, <1>5
  <2>2. Len(runs) = Len(cases)
    BY <1>1, <2>1, SameInterval
  <2>3. QED
    BY <1>1, <1>2, <1>5, <2>2
<1>6. QED
  BY <1>3, <1>4, <1>5

LEMMA OneMoreAgrees ==
  ASSUME NEW S, NEW T, NEW runs \in Seq(S), NEW cases \in Seq(T), Agree(runs, cases),
         NEW r \in S, NEW x \in T, Given(r) = Given(x)
  PROVE  Agree(Append(runs, r), cases \o <<x>>)
<1>1. PICK n \in Nat : n = Len(runs)
  OBVIOUS
<1>2. Len(cases) = n /\ \A i \in 1 .. n : Given(runs[i]) = Given(cases[i])
  BY <1>1, AgreeIs
<1>3. PICK more \in Seq(S) : more = Append(runs, r)
  BY AppendType
<1>4. PICK all \in Seq(T) : all = Append(cases, x) /\ all = cases \o <<x>>
  BY AppendType, AppendIsConcat
<1>5. Len(more) = n + 1 /\ more[n + 1] = r /\ \A i \in 1 .. n : more[i] = runs[i]
  BY <1>1, <1>3, AppendType
<1>6. Len(all) = n + 1 /\ all[n + 1] = x /\ \A i \in 1 .. n : all[i] = cases[i]
  <2>1. all = Append(cases, x)
    BY <1>4
  <2>2. Len(cases) = n
    BY <1>2
  <2>3. QED
    BY <2>1, <2>2, AppendType
<1>7. \A i \in 1 .. n + 1 : i \in 1 .. n \/ i = n + 1
  OBVIOUS
<1>8. \A i \in 1 .. n + 1 : Given(more[i]) = Given(all[i])
  BY <1>2, <1>5, <1>6, <1>7
<1>9. Agree(more, all)
  BY <1>5, <1>6, <1>8, AgreeIs
<1>10. QED
  BY <1>3, <1>4, <1>9

LEMMA ExpectedIsGiven ==
  ASSUME NEW frames, NEW frame, NEW run,
         Given(run) = [name |-> frame.attrs.name, testsuite |-> InheritedName(frames),
                       duration |-> ParseTime(Some(frame.attrs.time, InheritedTime(frames)))]
  PROVE  Given(run) = Given(ExpectedRun(frames, frame))
BY DEF Given, ExpectedRun

LEMMA PopulateIsGiven ==
  ASSUME DocumentInv, NEW attrs \in Attrs
  PROVE  Given(Populate(attrs)) =
           [name |-> attrs.name, testsuite |-> InheritedName(tree),
            duration |-> ParseTime(Some(attrs.time, InheritedTime(tree)))]
<1>1. /\ LastSome(testsuite_names) = InheritedName(tree)
      /\ LastSome(testsuite_times) = InheritedTime(tree)
  BY InvParts, StacksInherit
<1>2. QED
  BY <1>1 DEF Given, Populate

LEMMA StartTestcaseGives ==
  ASSUME DocumentInv, DocumentInv', GivenInv, NEW attrs \in Attrs, StartTestcase(attrs),
         tree' = Append(tree, TestcaseFrame(attrs)), UNCHANGED expected
  PROVE  GivenInv'
<1> DEFINE f == TestcaseFrame(attrs)
<1>1. /\ f \in Frames /\ f.element = "testcase" /\ f.attrs = attrs
      /\ f.name = None /\ f.time = None
  BY TestcaseFrameType
<1>2. Opens("testcase") /\ UNCHANGED testruns
  BY DEF StartTestcase
<1>3. Pushes(f)
  BY <1>1, <1>2, OpensPushes
<1>4. tree' = Append(tree, f)
  OBVIOUS
<1> HIDE DEF f
<1>5. NoTestcaseLost'
  BY <1>2 DEF GivenInv, NoTestcaseLost
<1>6. ASSUME saved_testrun' \in Testruns, NEW i \in 1 .. Len(open'), InnermostAt(i)'
      PROVE  Given(saved_testrun)' = Meant(i)'
  <2>1. /\ Len(open) \in Nat /\ Len(tree) = Len(open)
        /\ Len(open') = Len(open) + 1 /\ Len(tree') = Len(open) + 1
        /\ open'[Len(open) + 1] = "testcase" /\ tree'[Len(open) + 1] = f
    BY <1>1, <1>3, InvParts, PushedFrames
  <2>2. i = Len(open) + 1
    BY <1>6, <2>1 DEF InnermostAt
  <2>3. tree'[i] = f /\ i - 1 = Len(tree)
    BY <2>1, <2>2
  <2>4. Around(i)' = tree
    BY <1>1, <1>4, <2>3, InvParts, AppendedPrefix DEF Around
  <2>5. saved_testrun' = Populate(attrs)
    BY <1>6, SkippedAssumption DEF StartTestcase
  <2>6. Meant(i)' = Given(Populate(attrs))
    BY <1>1, <2>3, <2>4, PopulateIsGiven DEF Meant
  <2>7. QED
    BY <2>5, <2>6
<1>7. SavedGiven'
  BY <1>6 DEF SavedGiven
<1>8. QED
  BY <1>5, <1>7 DEF GivenInv

LEMMA EmptyTestcaseGives ==
  ASSUME DocumentInv, DocumentInv', GivenInv, NEW attrs \in Attrs, EmptyTestcase(attrs),
         expected' = expected \o ExpectedRuns(tree, TestcaseFrame(attrs)), UNCHANGED tree
  PROVE  GivenInv'
<1> DEFINE f == TestcaseFrame(attrs)
<1>1. f \in Frames /\ f.attrs = attrs
  BY TestcaseFrameType
<1>2. UNCHANGED <<open, saved_testrun>>
  BY DEF EmptyTestcase, Empties
<1>3. Inside
  BY <1>2, InvParts, UnchangedStays DEF Inside
<1>4. SavedGiven'
  BY <1>2, <1>3, SameSaved, SavedGivenKept DEF GivenInv
<1> HIDE DEF f
<1>5. CASE attrs.parsed = "Ok"
  <2>1. testruns' = Append(testruns, Populate(attrs))
    BY <1>5 DEF EmptyTestcase
  <2>2. expected' = expected \o <<ExpectedRun(tree, f)>>
    BY <1>1, <1>5, ExpectedRunsAre DEF f
  <2>3. Populate(attrs) \in Testruns /\ ExpectedRun(tree, f) \in ExpectedType
    BY <1>1, InvParts, PopulateType, ExpectedRunType
  <2>4. Given(Populate(attrs)) = Given(ExpectedRun(tree, f))
    BY <1>1, PopulateIsGiven, ExpectedIsGiven
  <2>5. Agree(testruns, expected)
    BY DEF GivenInv, NoTestcaseLost, Agree
  <2>6. Agree(testruns', expected')
    BY <2>1, <2>2, <2>3, <2>4, <2>5, InvParts, OneMoreAgrees
  <2>7. QED
    BY <1>4, <2>6 DEF GivenInv, NoTestcaseLost, Agree
<1>6. CASE attrs.parsed # "Ok"
  <2>1. testruns' = testruns
    BY <1>6 DEF EmptyTestcase
  <2>2. ExpectedRuns(tree, f) = <<>>
    BY <1>1, <1>6, ExpectedRunsAre
  <2>3. expected' = expected
    BY <2>2, InvParts, ConcatEmptySeq DEF f
  <2>4. QED
    BY <1>4, <2>1, <2>3 DEF GivenInv, NoTestcaseLost
<1>7. QED
  BY <1>5, <1>6

LEMMA EndTestcaseGives ==
  ASSUME DocumentInv, DocumentInv', GivenInv, EndTestcase,
         expected' = expected \o ExpectedRuns(Front(tree), Last(tree))
  PROVE  GivenInv'
<1>1. /\ open # <<>> /\ Last(open) = "testcase"
      /\ saved_testrun # None /\ saved_testrun' = None
      /\ testruns' = IF saved_testrun = Skipped THEN testruns ELSE Append(testruns, saved_testrun)
  BY DEF EndTestcase, Closes
<1>2. SavedGiven'
  BY <1>1, SkippedAssumption DEF SavedGiven
<1>3. /\ tree # <<>> /\ Last(tree) \in Frames /\ Front(tree) \in Seq(Frames)
      /\ Last(tree).attrs \in Attrs
      /\ saved_testrun = Skipped <=> Last(tree).attrs.parsed # "Ok"
  BY <1>1, SavedIsLast
<1>4. CASE saved_testrun = Skipped
  <2>1. ExpectedRuns(Front(tree), Last(tree)) = <<>>
    BY <1>3, <1>4, ExpectedRunsAre
  <2>2. expected' = expected /\ testruns' = testruns
    BY <1>1, <1>4, <2>1, InvParts, ConcatEmptySeq
  <2>3. QED
    BY <1>2, <2>2 DEF GivenInv, NoTestcaseLost
<1>5. CASE saved_testrun # Skipped
  <2>1. saved_testrun \in Testruns
    BY <1>1, <1>5, InvParts
  <2>2. PICK k : k = Len(open)
    OBVIOUS
  <2>3. k \in 1 .. Len(open) /\ k = Len(tree) /\ open[k] = "testcase"
    BY <1>1, <2>2, InvParts, EmptySeq DEF Last
  <2>4. InnermostAt(k)
    BY <2>2, <2>3 DEF InnermostAt
  <2>5. Given(saved_testrun) = Meant(k)
    BY <2>1, <2>3, <2>4 DEF GivenInv, SavedGiven
  <2>6. tree[k] = Last(tree) /\ Around(k) = Front(tree)
    BY <2>3 DEF Last, Around, Front
  <2>7. Given(saved_testrun) = Given(ExpectedRun(Front(tree), Last(tree)))
    BY <2>5, <2>6, ExpectedIsGiven DEF Meant
  <2>8. testruns' = Append(testruns, saved_testrun)
    BY <1>1, <1>5
  <2>9. expected' = expected \o <<ExpectedRun(Front(tree), Last(tree))>>
    BY <1>3, <1>5, ExpectedRunsAre
  <2>10. ExpectedRun(Front(tree), Last(tree)) \in ExpectedType
    BY <1>3, ExpectedRunType
  <2>11. Agree(testruns, expected)
    BY DEF GivenInv, NoTestcaseLost, Agree
  <2>12. Agree(testruns', expected')
    BY <2>1, <2>7, <2>8, <2>9, <2>10, <2>11, InvParts, OneMoreAgrees
  <2>13. QED
    BY <1>2, <2>12 DEF GivenInv, NoTestcaseLost, Agree
<1>6. QED
  BY <1>4, <1>5

LEMMA TextGives ==
  ASSUME DocumentInv, DocumentInv', GivenInv, NEW message \in Messages, Text(message),
         tree' = IF tree = <<>> THEN tree ELSE [tree EXCEPT ![Len(tree)].text = message],
         UNCHANGED expected
  PROVE  GivenInv'
<1>1. UNCHANGED <<open, testruns>>
  BY DEF Text
<1>2. Inside
  BY <1>1, InvParts, TextStays DEF Inside
<1>3. saved_testrun' \in Testruns => SameTestrun
  <2>1. CASE (in_failure \/ in_error) /\ saved_testrun # Skipped
    <3>1. saved_testrun \in Testruns
      BY <2>1, InvParts DEF Text
    <3>2. saved_testrun' = [saved_testrun EXCEPT !.failure_message = message]
      BY <2>1 DEF Text
    <3>3. QED
      BY <3>1, <3>2 DEF Testruns, SameTestrun
  <2>2. CASE ~ ((in_failure \/ in_error) /\ saved_testrun # Skipped)
    <3>1. UNCHANGED saved_testrun
      BY <2>2 DEF Text
    <3>2. QED
      BY <3>1, SameSaved
  <2>3. QED
    BY <2>1, <2>2
<1>4. QED
  BY <1>1, <1>2, <1>3, QuietGives

LEMMA StartOutcomeGives ==
  ASSUME DocumentInv, DocumentInv', GivenInv,
         NEW element \in Outcomes, NEW message \in Messages \cup {None},
         StartOutcome(element, message), NEW f \in Frames, f.element = element,
         f.name = None, f.time = None, Grows(f)
  PROVE  GivenInv'
<1>1. Opens(element) /\ Mark(element, message) /\ UNCHANGED testruns
  BY DEF StartOutcome
<1>2. tree' = Append(tree, f) /\ UNCHANGED expected
  BY DEF Grows
<1>3. Pushes(f) /\ f.element # "testcase"
  BY <1>1, <1>2, OpensPushes DEF Outcomes
<1>4. saved_testrun' \in Testruns => SameTestrun
  BY <1>1, InvParts, MarkSays
<1>5. QED
  BY <1>1, <1>2, <1>3, <1>4, QuietGives DEF Inside

LEMMA EmptyOutcomeGives ==
  ASSUME DocumentInv, DocumentInv', GivenInv,
         NEW element \in Outcomes, NEW message \in Messages \cup {None},
         EmptyOutcome(element, message), NEW f \in Frames,
         tree' = Closed(Append(tree, f)), UNCHANGED expected
  PROVE  GivenInv'
<1>1. UNCHANGED <<open, testruns>> /\ Mark(element, message)
  BY DEF EmptyOutcome, Empties
<1>2. Inside
  BY <1>1, InvParts, EmptyElementStays DEF Inside
<1>3. saved_testrun' \in Testruns => SameTestrun
  BY <1>1, InvParts, MarkSays
<1>4. QED
  BY <1>1, <1>2, <1>3, QuietGives

LEMMA CloseGives ==
  ASSUME DocumentInv, DocumentInv', GivenInv, NEW element, element # "testcase",
         Closes(element), tree' \in {Closed(tree), Front(tree)},
         UNCHANGED <<saved_testrun, testruns, expected>>
  PROVE  GivenInv'
<1>1. Pops /\ Last(open) = element
  BY InvParts, ClosesPops
<1>2. QED
  BY <1>1, SameSaved, QuietGives DEF Inside

LEMMA OpenGives ==
  ASSUME DocumentInv, DocumentInv', GivenInv, NEW f \in Frames, f.element # "testcase",
         Opens(f.element), tree' = Append(tree, f),
         f.element # "testsuite" => f.name = None /\ f.time = None,
         UNCHANGED <<saved_testrun, testruns, expected>>
  PROVE  GivenInv'
<1>1. Pushes(f)
  BY OpensPushes
<1>2. QED
  BY <1>1, SameSaved, QuietGives DEF Inside

LEMMA SameGives ==
  ASSUME DocumentInv, DocumentInv', GivenInv,
         UNCHANGED <<open, tree, saved_testrun, testruns, expected>>
  PROVE  GivenInv'
<1>1. Inside
  BY InvParts, UnchangedStays DEF Inside
<1>2. QED
  BY <1>1, SameSaved, QuietGives

LEMMA IgnoredGives ==
  ASSUME DocumentInv, DocumentInv', GivenInv, Ignored,
         tree' = CASE Len(open') > Len(open) -> Append(tree, Frame("other"))
                   [] Len(open') < Len(open) -> Front(tree)
                   [] OTHER -> tree,
         UNCHANGED expected
  PROVE  GivenInv'
<1>1. /\ \/ open' = open
         \/ Opens("other")
         \/ \E element \in {"other", "property", "testsuites"} : Closes(element)
      /\ UNCHANGED <<saved_testrun, testruns>>
  BY DEF Ignored, Opens, Empties, Closes, parser
<1>2. open \in Seq(Elements) /\ Len(open) \in Nat
  BY InvParts
<1>3. CASE open' = open
  <2>1. tree' = tree
    BY <1>2, <1>3
  <2>2. QED
    BY <1>1, <1>3, <2>1, SameGives
<1>4. CASE Opens("other")
  <2> DEFINE f == Frame("other")
  <2>1. f \in Frames /\ f.element = "other" /\ f.name = None /\ f.time = None
    BY FrameType DEF Elements
  <2>2. Len(open') = Len(open) + 1
    <3>1. open' = Append(open, "other") /\ "other" \in Elements
      BY <1>4 DEF Opens, Elements
    <3>2. QED
      BY <1>2, <3>1, AppendType
  <2>3. tree' = Append(tree, f)
    BY <1>2, <2>2
  <2> HIDE DEF f
  <2>4. QED
    BY <1>1, <1>4, <2>1, <2>3, OpenGives
<1>5. ASSUME NEW element \in {"other", "property", "testsuites"}, Closes(element)
      PROVE  GivenInv'
  <2>1. open # <<>> /\ open' = Front(open)
    BY <1>5 DEF Closes
  <2>2. tree' = Front(tree)
    BY <1>2, <2>1, FrontType
  <2>3. element # "testcase" /\ tree' \in {Closed(tree), Front(tree)}
    BY <2>2
  <2>4. QED
    BY <1>1, <1>5, <2>3, CloseGives
<1>6. QED
  BY <1>1, <1>3, <1>4, <1>5

LEMMA EmptyDocumentGives ==
  ASSUME NoDocument, NoTree
  PROVE  GivenInv'
<1>1. open' = <<>> /\ saved_testrun' = None /\ testruns' = <<>> /\ expected' = <<>>
  BY DEF NoDocument, NewParser, NoTree
<1>2. QED
  BY <1>1, SkippedAssumption DEF GivenInv, SavedGiven, NoTestcaseLost

LEMMA InitGives ==
  ASSUME InitD
  PROVE  GivenInv
<1>1. open = <<>> /\ saved_testrun = None /\ testruns = <<>> /\ expected = <<>>
  BY DEF InitD, Init, NewParser
<1>2. QED
  BY <1>1, SkippedAssumption DEF GivenInv, SavedGiven, NoTestcaseLost

LEMMA EventGives ==
  ASSUME DocumentInv, DocumentInv', GivenInv, EventD
  PROVE  GivenInv'
<1>1. ASSUME NEW attrs \in Attrs, StartTestcase(attrs),
             tree' = Append(tree, TestcaseFrame(attrs)), UNCHANGED expected
      PROVE  GivenInv'
  BY <1>1, StartTestcaseGives
<1>2. ASSUME NEW attrs \in Attrs, EmptyTestcase(attrs),
             expected' = expected \o ExpectedRuns(tree, TestcaseFrame(attrs)), UNCHANGED tree
      PROVE  GivenInv'
  BY <1>2, EmptyTestcaseGives
<1>3. ASSUME NEW attrs \in Attrs, BadTestcase(attrs), NoTree
      PROVE  GivenInv'
  BY <1>3, EmptyDocumentGives DEF BadTestcase, Fails
<1>4. ASSUME EndTestcase, expected' = expected \o ExpectedRuns(Front(tree), Last(tree))
      PROVE  GivenInv'
  BY <1>4, EndTestcaseGives
<1>5. ASSUME NEW element \in {"failure", "error"}, NEW message \in Messages \cup {None},
             StartOutcome(element, message), Grows(OutcomeFrame(element, message))
      PROVE  GivenInv'
  <2>1. element \in Outcomes
    BY DEF Outcomes
  <2>2. QED
    BY <1>5, <2>1, OutcomeFrameType, StartOutcomeGives
<1>6. ASSUME NEW element \in {"failure", "error"}, NEW message \in Messages \cup {None},
             EmptyOutcome(element, message),
             tree' = Closed(Append(tree, OutcomeFrame(element, message))), UNCHANGED expected
      PROVE  GivenInv'
  <2>1. element \in Outcomes
    BY DEF Outcomes
  <2>2. QED
    BY <1>6, <2>1, OutcomeFrameType, EmptyOutcomeGives
<1>7. ASSUME StartOutcome("skipped", None), Grows(Frame("skipped"))
      PROVE  GivenInv'
  <2>1. "skipped" \in Outcomes /\ "skipped" \in Elements
    BY DEF Outcomes, Elements
  <2>2. QED
    BY <1>7, <2>1, FrameType, StartOutcomeGives
<1>8. ASSUME EmptyOutcome("skipped", None), tree' = Closed(Append(tree, Frame("skipped"))),
             UNCHANGED expected
      PROVE  GivenInv'
  <2>1. "skipped" \in Outcomes /\ "skipped" \in Elements
    BY DEF Outcomes, Elements
  <2>2. QED
    BY <1>8, <2>1, FrameType, EmptyOutcomeGives
<1>9. ASSUME NEW element \in {"skipped", "failure", "error"}, EndOutcome(element), CloseFrame
      PROVE  GivenInv'
  <2>1. Closes(element) /\ element # "testcase" /\ UNCHANGED <<saved_testrun, testruns>>
    BY <1>9 DEF EndOutcome
  <2>2. tree' \in {Closed(tree), Front(tree)} /\ UNCHANGED expected
    BY <1>9 DEF CloseFrame
  <2>3. QED
    BY <2>1, <2>2, CloseGives
<1>10. ASSUME NEW message \in Messages, Text(message),
              tree' = IF tree = <<>> THEN tree ELSE [tree EXCEPT ![Len(tree)].text = message],
              UNCHANGED expected
       PROVE  GivenInv'
  BY <1>10, TextGives
<1>11. ASSUME NEW name \in SuiteNames \cup {None}, NEW time \in SuiteTimes \cup {None},
              StartTestsuite(name, time), Grows(SuiteFrame(name, time))
       PROVE  GivenInv'
  <2> DEFINE f == SuiteFrame(name, time)
  <2>1. f \in Frames /\ f.element = "testsuite"
    BY SuiteFrameType
  <2>2. tree' = Append(tree, f) /\ UNCHANGED expected
    BY <1>11 DEF Grows
  <2> HIDE DEF f
  <2>3. Opens(f.element) /\ UNCHANGED <<saved_testrun, testruns>>
    BY <1>11, <2>1 DEF StartTestsuite
  <2>4. QED
    BY <2>1, <2>2, <2>3, OpenGives
<1>12. ASSUME EndTestsuite, CloseFrame
       PROVE  GivenInv'
  <2>1. Closes("testsuite") /\ UNCHANGED <<saved_testrun, testruns>>
    BY <1>12 DEF EndTestsuite
  <2>2. tree' \in {Closed(tree), Front(tree)} /\ UNCHANGED expected
    BY <1>12 DEF CloseFrame
  <2>3. QED
    BY <2>1, <2>2, CloseGives
<1>13. ASSUME NEW name \in SuiteNames \cup {None}, StartTestsuites(name),
              tree' = Append(tree, Frame("testsuites")), UNCHANGED expected
       PROVE  GivenInv'
  <2> DEFINE f == Frame("testsuites")
  <2>1. f \in Frames /\ f.element = "testsuites" /\ f.name = None /\ f.time = None
    BY FrameType DEF Elements
  <2>2. tree' = Append(tree, f)
    BY <1>13
  <2> HIDE DEF f
  <2>3. Opens(f.element) /\ UNCHANGED <<saved_testrun, testruns>>
    BY <1>13, <2>1 DEF StartTestsuites
  <2>4. QED
    BY <1>13, <2>1, <2>2, <2>3, OpenGives
<1>14. ASSUME NEW valid \in BOOLEAN, Property(valid),
              tree' = IF open' = open THEN tree ELSE Append(tree, Frame("property")),
              UNCHANGED expected
       PROVE  GivenInv'
  <2> DEFINE f == Frame("property")
  <2>1. f \in Frames /\ f.element = "property" /\ f.name = None /\ f.time = None
    BY FrameType DEF Elements
  <2>2. UNCHANGED <<saved_testrun, testruns>> /\ (Opens("property") \/ open' = open)
    BY <1>14 DEF Property, Empties
  <2>3. CASE open' = open
    BY <1>14, <2>2, <2>3, SameGives
  <2>4. CASE open' # open
    <3>1. tree' = Append(tree, f)
      BY <1>14, <2>4
    <3> HIDE DEF f
    <3>2. QED
      BY <1>14, <2>1, <2>2, <2>4, <3>1, OpenGives
  <2>5. QED
    BY <2>3, <2>4
<1>15. ASSUME Ignored,
              tree' = CASE Len(open') > Len(open) -> Append(tree, Frame("other"))
                        [] Len(open') < Len(open) -> Front(tree)
                        [] OTHER -> tree,
              UNCHANGED expected
       PROVE  GivenInv'
  BY <1>15, IgnoredGives
<1>16. ASSUME NoTestrun \/ Malformed, NoTree
       PROVE  GivenInv'
  BY <1>16, EmptyDocumentGives DEF NoTestrun, Malformed, Fails
<1>17. ASSUME Eof, UNCHANGED <<tree, expected>>
       PROVE  GivenInv'
  <2>1. UNCHANGED <<open, testruns, saved_testrun>>
    BY <1>17 DEF Eof, parser
  <2>2. QED
    BY <1>17, <2>1, SameGives
<1>18. QED
  BY <1>1, <1>2, <1>3, <1>4, <1>5, <1>6, <1>7, <1>8, <1>9, <1>10, <1>11, <1>12, <1>13, <1>14,
     <1>15, <1>16, <1>17 DEF EventD, SuiteFrame

(***************************************************************************)
(* NoTestcaseLost holds of every document, whatever it nests: at every     *)
(* point there is one run for each test case that has ended, in their      *)
(* order, with its own name and the suite and time around it.              *)
(***************************************************************************)
THEOREM NoTestcaseIsLost == SpecD => []NoTestcaseLost
<1>1. InitD => DocumentInv /\ GivenInv
  BY InitDocument, InitGives
<1>2. DocumentInv /\ GivenInv /\ [NextD]_dvars => (DocumentInv /\ GivenInv)'
  <2>1. DocumentInv /\ [NextD]_dvars => DocumentInv'
    BY EventKeeps, UseReaderKeeps, StutterKeeps DEF NextD
  <2>2. UseReaderD => GivenInv'
    BY EmptyDocumentGives DEF UseReaderD, UseReader
  <2>3. UNCHANGED dvars => UNCHANGED <<open, tree, saved_testrun, testruns, expected>>
    BY DEF dvars, vars, parser
  <2>4. QED
    BY <2>1, <2>2, <2>3, EventGives, SameGives DEF NextD
<1>3. DocumentInv /\ GivenInv => NoTestcaseLost
  BY DEF GivenInv
<1>4. QED
  BY <1>1, <1>2, <1>3, PTL DEF SpecD

-----------------------------------------------------------------------------
(* Uploads.                                                                *)

Files == [filename : Filenames, data : Data]

Results == [framework : Frameworks \cup {None}, testruns : Seq(Testruns), warnings : Seq(Nat)]
Documents == [runs : Seq(ExpectedType), hinted : SUBSET Frameworks]

UploadTypes ==
  /\ call \in {"none", "files", "parsing", "ok", "error"}
  /\ test_results_files \in Seq(Files)
  /\ results \in Seq(Results)
  /\ readable_files \in Seq(Filenames)
  /\ documents \in Seq(Documents)

\* The results are those of the first files, each of which could be read.
Collected ==
  /\ Len(readable_files) = Len(results)
  /\ Len(documents) = Len(results)
  /\ Len(results) <= Len(test_results_files)
  /\ \A i \in 1 .. Len(results) :
       /\ test_results_files[i].data = "xml"
       /\ readable_files[i] = test_results_files[i].filename

Progress ==
  /\ call = "none" => results = <<>>
  /\ call = "parsing" => Len(results) < Len(test_results_files) /\ File.data = "xml"
  /\ call = "ok" => Len(results) = Len(test_results_files)

UploadInv == UploadTypes /\ Collected /\ Progress

LEMMA UploadsAreFiles ==
  ASSUME NEW files \in Uploads
  PROVE  files \in Seq(Files)
<1>1. PICK n \in 0 .. MaxUpload : files \in [1 .. n -> Files]
  BY DEF Uploads, Files
<1>2. n \in Nat
  BY <1>1, UploadAssumption
<1>3. QED
  BY <1>1, <1>2

LEMMA InitUpload ==
  ASSUME InitU
  PROVE  UploadInv
<1>1. /\ call = "none" /\ test_results_files = <<>> /\ results = <<>>
      /\ readable_files = <<>> /\ documents = <<>>
  BY DEF InitU
<1>2. UploadTypes
  BY <1>1 DEF UploadTypes
<1>3. Collected /\ Progress
  BY <1>1 DEF Collected, Progress
<1>4. QED
  BY <1>2, <1>3 DEF UploadInv

\* With no results all that is left is the kind of the call.
LEMMA NoResults ==
  ASSUME UploadInv, test_results_files' \in Seq(Files), results' = <<>>,
         readable_files' = <<>>, documents' = <<>>, call' \in {"none", "files", "error"}
  PROVE  UploadInv'
<1>1. UploadTypes'
  BY DEF UploadTypes
<1>2. Len(test_results_files') \in Nat /\ Len(results') = 0
  OBVIOUS
<1>3. Collected'
  BY <1>2 DEF Collected
<1>4. Progress'
  BY DEF Progress
<1>5. QED
  BY <1>1, <1>3, <1>4 DEF UploadInv

LEMMA SameUpload ==
  ASSUME UploadInv, UNCHANGED upload, call' \in {"none", "files", "parsing", "ok", "error"},
         Progress'
  PROVE  UploadInv'
BY DEF UploadInv, UploadTypes, Collected, upload

LEMMA FileParsedUpload ==
  ASSUME DocumentInv, UploadInv, FileParsed
  PROVE  UploadInv'
<1> DEFINE n == Len(results)
           result == [framework |-> framework, testruns |-> testruns, warnings |-> warnings]
           document == [runs |-> expected, hinted |-> hinted]
<1>1. /\ call = "parsing" /\ call' = "files" /\ UNCHANGED test_results_files
      /\ results' = Append(results, result)
      /\ readable_files' = Append(readable_files, File.filename)
      /\ documents' = Append(documents, document)
  BY DEF FileParsed
<1>2. /\ test_results_files \in Seq(Files) /\ results \in Seq(Results)
      /\ readable_files \in Seq(Filenames) /\ documents \in Seq(Documents)
      /\ n \in Nat /\ Len(readable_files) = n /\ Len(documents) = n
      /\ n < Len(test_results_files) /\ Len(test_results_files) \in Nat
      /\ File.data = "xml"
  BY <1>1 DEF UploadInv, UploadTypes, Collected, Progress
<1>3. result \in Results /\ document \in Documents
  BY InvParts DEF Results, Documents, DocumentInv, Types
<1>4. PICK k \in 1 .. Len(test_results_files) : k = n + 1
  BY <1>2
<1>5. test_results_files[k] \in Files /\ File = test_results_files[k]
  BY <1>2, <1>4, ElementOfSeq DEF File
<1>6. File.filename \in Filenames
  BY <1>5 DEF Files
<1> HIDE DEF result, document
<1>7. results' \in Seq(Results) /\ Len(results') = n + 1
  BY <1>1, <1>2, <1>3, AppendType
<1>8. /\ readable_files' \in Seq(Filenames) /\ Len(readable_files') = n + 1
      /\ readable_files'[n + 1] = File.filename
      /\ \A i \in 1 .. n : readable_files'[i] = readable_files[i]
  BY <1>1, <1>2, <1>6, AppendType
<1>9. documents' \in Seq(Documents) /\ Len(documents') = n + 1
  BY <1>1, <1>2, <1>3, AppendType
<1>10. \A i \in 1 .. n : /\ test_results_files[i].data = "xml"
                         /\ readable_files[i] = test_results_files[i].filename
  BY DEF UploadInv, Collected
<1> HIDE DEF n
<1>11. \A i \in 1 .. n + 1 : /\ test_results_files[i].data = "xml"
                             /\ readable_files'[i] = test_results_files[i].filename
  <2>1. \A i \in 1 .. n + 1 : i \in 1 .. n \/ i = k
    BY <1>2, <1>4
  <2>2. QED
    BY <1>2, <1>4, <1>5, <1>8, <1>10, <2>1
<1>12. Collected'
  BY <1>1, <1>2, <1>7, <1>8, <1>9, <1>11 DEF Collected
<1>13. UploadTypes' /\ Progress'
  BY <1>1, <1>2, <1>7, <1>8, <1>9 DEF UploadTypes, Progress
<1>14. QED
  BY <1>12, <1>13 DEF UploadInv

LEMMA CallKeeps ==
  ASSUME DocumentInv, UploadInv, [NextU]_uvars
  PROVE  UploadInv'
<1>1. UploadTypes /\ Collected /\ Progress
  BY DEF UploadInv
<1>2. ASSUME NEW files \in Uploads, ParseRawUpload(files)
      PROVE  UploadInv'
  <2>1. files \in Seq(Files)
    BY UploadsAreFiles
  <2>2. results = <<>> /\ readable_files = <<>> /\ documents = <<>>
    <3>1. results = <<>>
      BY <1>1, <1>2 DEF ParseRawUpload, Progress
    <3>2. Len(readable_files) = 0 /\ Len(documents) = 0
      BY <1>1, <3>1 DEF Collected
    <3>3. QED
      BY <1>1, <3>1, <3>2, EmptySeq DEF UploadTypes
  <2>3. QED
    BY <1>2, <2>1, <2>2, NoResults DEF ParseRawUpload
<1>3. ASSUME DataInvalid \/ FileFailed
      PROVE  UploadInv'
  BY <1>1, <1>3, NoResults DEF DataInvalid, FileFailed, Error, UploadTypes
<1>4. ASSUME ReadFile
      PROVE  UploadInv'
  <2>1. call' = "parsing" /\ UNCHANGED upload
    BY <1>4 DEF ReadFile
  <2>2. Progress'
    BY <1>4, <2>1 DEF ReadFile, Progress, File, upload
  <2>3. QED
    BY <2>1, <2>2, SameUpload
<1>5. ASSUME ReadEvent
      PROVE  UploadInv'
  <2>1. call' = "parsing" /\ call = "parsing" /\ UNCHANGED upload
    BY <1>5 DEF ReadEvent
  <2>2. Progress'
    BY <1>1, <2>1 DEF Progress, File, upload
  <2>3. QED
    BY <2>1, <2>2, SameUpload
<1>6. ASSUME FileParsed
      PROVE  UploadInv'
  BY <1>6, FileParsedUpload
<1>7. ASSUME Return
      PROVE  UploadInv'
  <2>1. call' = "ok" /\ UNCHANGED upload /\ Len(results) = Len(test_results_files)
    BY <1>7 DEF Return
  <2>2. Progress'
    BY <2>1 DEF Progress, upload
  <2>3. QED
    BY <2>1, <2>2, SameUpload
<1>8. ASSUME Again
      PROVE  UploadInv'
  BY <1>8, NoResults, EmptySeq DEF Again
<1>9. ASSUME UNCHANGED uvars
      PROVE  UploadInv'
  BY <1>1, <1>9, SameUpload DEF uvars, upload, UploadTypes, Progress, File
<1>10. QED
  BY <1>2, <1>3, <1>4, <1>5, <1>6, <1>7, <1>8, <1>9 DEF NextU, Running

\* What a call does to the document that is being read.
LEMMA CallReads ==
  ASSUME [NextU]_uvars
  PROVE  \/ UNCHANGED dvars
         \/ EventD
         \/ NoDocument /\ NoTree /\ status' \in {"reading", status}
BY DEF NextU, Running, ParseRawUpload, DataInvalid, ReadFile, ReadEvent, FileFailed, FileParsed,
       Return, Again, ParserIdle, UseReaderD, UseReader, uvars

LEMMA CallKeepsDocument ==
  ASSUME DocumentInv, [NextU]_uvars
  PROVE  DocumentInv'
<1>1. status \in {"reading", "done", "failed"}
  BY DEF DocumentInv, Types
<1>2. QED
  BY <1>1, CallReads, EventKeeps, StutterKeeps, EmptyDocument

LEMMA CallFollows ==
  ASSUME FollowsSchema, DocumentInv, SchemaInv, [NextU]_uvars
  PROVE  SchemaInv'
BY CallReads, CallKeepsDocument, EventFollows, StutterFollows, EmptyDocumentFollows

(***************************************************************************)
(* AllOrNothing holds of uploads of any size, with any files in them: a    *)
(* call that succeeds has a result for every file, in their order.         *)
(***************************************************************************)
THEOREM UploadsAreAllOrNothing == SpecU => []AllOrNothing
<1>1. InitU => DocumentInv /\ UploadInv
  BY InitDocument, InitUpload DEF InitU
<1>2. (DocumentInv /\ UploadInv) /\ [NextU]_uvars => (DocumentInv /\ UploadInv)'
  BY CallKeepsDocument, CallKeeps
<1>3. DocumentInv /\ UploadInv => AllOrNothing
  <2> SUFFICES ASSUME UploadInv, call = "ok"
               PROVE  /\ \A i \in DOMAIN test_results_files : test_results_files[i].data = "xml"
                      /\ readable_files =
                           [i \in DOMAIN test_results_files |-> test_results_files[i].filename]
                      /\ Len(results) = Len(readable_files)
    BY DEF AllOrNothing
  <2>1. /\ test_results_files \in Seq(Files) /\ readable_files \in Seq(Filenames)
        /\ Len(results) = Len(test_results_files) /\ Len(readable_files) = Len(results)
    BY DEF UploadInv, UploadTypes, Collected, Progress
  <2>2. DOMAIN test_results_files = 1 .. Len(results) /\ DOMAIN readable_files = 1 .. Len(results)
    BY <2>1
  <2>3. \A i \in 1 .. Len(results) :
          /\ test_results_files[i].data = "xml"
          /\ readable_files[i] = test_results_files[i].filename
    BY DEF UploadInv, Collected
  <2>4. readable_files = [i \in 1 .. Len(results) |-> readable_files[i]]
    BY <2>1, <2>2
  <2>5. QED
    BY <2>1, <2>2, <2>3, <2>4
<1>4. QED
  BY <1>1, <1>2, <1>3, PTL DEF SpecU

LEMMA FileParsedApart ==
  ASSUME FollowsSchema, DocumentInv, SchemaInv, UploadInv, FilesApart, FileParsed
  PROVE  FilesApart'
<1> DEFINE n == Len(results)
           result == [framework |-> framework, testruns |-> testruns, warnings |-> warnings]
           document == [runs |-> expected, hinted |-> hinted]
<1>1. results' = Append(results, result) /\ documents' = Append(documents, document)
  BY DEF FileParsed
<1>2. /\ results \in Seq(Results) /\ documents \in Seq(Documents)
      /\ n \in Nat /\ Len(documents) = n /\ DOMAIN results = 1 .. n
  BY DEF UploadInv, UploadTypes, Collected
<1>3. result \in Results /\ document \in Documents
  BY InvParts DEF Results, Documents, DocumentInv, Types
<1>4. /\ [j \in DOMAIN result.testruns |-> Without(result.testruns[j])] = document.runs
      /\ result.framework \in document.hinted \cup {None}
  BY DEF DocumentInv, SchemaInv, RunsMatch
<1> HIDE DEF result, document
<1>5. /\ results' \in Seq(Results) /\ Len(results') = n + 1 /\ results'[n + 1] = result
      /\ \A i \in 1 .. n : results'[i] = results[i]
  BY <1>1, <1>2, <1>3, AppendType
<1>6. /\ Len(documents') = n + 1 /\ documents'[n + 1] = document
      /\ \A i \in 1 .. n : documents'[i] = documents[i]
  BY <1>1, <1>2, <1>3, AppendType
<1>7. \A i \in 1 .. n :
        /\ [j \in DOMAIN results[i].testruns |-> Without(results[i].testruns[j])]
             = documents[i].runs
        /\ results[i].framework \in documents[i].hinted \cup {None}
  BY <1>2 DEF FilesApart
<1> HIDE DEF n
<1>8. DOMAIN results' = 1 .. n + 1
  BY <1>2, <1>5
<1>9. \A i \in 1 .. n + 1 : i \in 1 .. n \/ i = n + 1
  BY <1>2
<1>10. \A i \in 1 .. n + 1 :
         /\ [j \in DOMAIN results'[i].testruns |-> Without(results'[i].testruns[j])]
              = documents'[i].runs
         /\ results'[i].framework \in documents'[i].hinted \cup {None}
  <2>1. ASSUME NEW i \in 1 .. n + 1
        PROVE  /\ [j \in DOMAIN results'[i].testruns |-> Without(results'[i].testruns[j])]
                    = documents'[i].runs
               /\ results'[i].framework \in documents'[i].hinted \cup {None}
    <3>1. CASE i \in 1 .. n
      <4>1. results'[i] = results[i] /\ documents'[i] = documents[i]
        BY <1>5, <1>6, <3>1
      <4>2. QED
        BY <1>7, <3>1, <4>1
    <3>2. CASE i = n + 1
      <4>1. results'[i] = result /\ documents'[i] = document
        BY <1>5, <1>6, <3>2
      <4>2. QED
        BY <1>4, <4>1
    <3>3. QED
      BY <1>9, <3>1, <3>2
  <2>2. QED
    BY <2>1
<1>11. QED
  BY <1>5, <1>6, <1>8, <1>10 DEF FilesApart

LEMMA CallKeepsApart ==
  ASSUME FollowsSchema, DocumentInv, SchemaInv, UploadInv, FilesApart, [NextU]_uvars
  PROVE  FilesApart'
<1>1. ASSUME UNCHANGED <<results, documents>>
      PROVE  FilesApart'
  BY <1>1 DEF FilesApart
<1>2. ASSUME results' = <<>>, documents' = <<>>
      PROVE  FilesApart'
  BY <1>2 DEF FilesApart
<1>3. ASSUME FileParsed
      PROVE  FilesApart'
  BY <1>3, FileParsedApart
<1>4. QED
  BY <1>1, <1>2, <1>3
     DEF NextU, Running, ParseRawUpload, DataInvalid, ReadFile, ReadEvent, FileFailed, Return,
         Again, Error, uvars, upload

(***************************************************************************)
(* FilesApart holds of uploads of any size with documents that follow the  *)
(* schema: nothing of one file is found in the result of another.          *)
(***************************************************************************)
THEOREM FilesStayApart ==
  ASSUME FollowsSchema
  PROVE  SpecU => []FilesApart
<1> DEFINE Inv == DocumentInv /\ SchemaInv /\ UploadInv /\ FilesApart
<1>1. InitU => Inv
  <2>1. InitU => FilesApart
    BY DEF InitU, FilesApart
  <2>2. QED
    BY <2>1, InitDocument, InitFollows, InitUpload DEF InitU
<1>2. Inv /\ [NextU]_uvars => Inv'
  BY CallKeepsDocument, CallFollows, CallKeeps, CallKeepsApart
<1>3. QED
  BY <1>1, <1>2, PTL DEF SpecU
=============================================================================
