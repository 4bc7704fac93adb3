------------------------------ MODULE PartsProofs ------------------------------
(***************************************************************************)
(* Proofs about the day arithmetic (DaysPassing), the names of tests       *)
(* (ComputedNames), the fences of failure messages (FailureMessages), the  *)
(* lines and columns of warnings (WarningPositions), the layout of a file  *)
(* (AnalyticsFile) and the answers of a reader (TestAggregates), for       *)
(* records, class names, repositories, messages, files and tables of any   *)
(* size.                                                                   *)
(***************************************************************************)
EXTENDS DaysPassing, ComputedNames, FailureMessages, WarningPositions, AnalyticsFile,
        TestAggregates, TimestampsProofs, SequenceTheorems, FiniteSetTheorems,
        WellFoundedInduction

(* Days *)

DInv ==
  /\ IsRange(data_range) /\ data_range.end <= Buckets
  /\ IsRange(desired_range)
  /\ off \in Nat

THEOREM DInvHolds == SpecDays => []DInv
<1>1. InitDays => DInv
  BY BoundsAssumption DEF InitDays, DInv, Ranges, IsRange
<1>2. DInv /\ [UsedAgain]_dvars => DInv'
  BY BoundsAssumption DEF DInv, UsedAgain, dvars
<1> QED  BY <1>1, <1>2, PTL DEF SpecDays

\* What shift_data leaves in each bucket.
LEMMA ShiftedValue ==
  ASSUME DInv, NEW days \in Nat
  PROVE  /\ DOMAIN Shifted(days) = 1 .. Buckets
         /\ \A b \in 1 .. Buckets :
              Shifted(days)[b] = IF b \notin Indices(data_range) THEN b
                                 ELSE IF b - data_range.start <= days THEN 0
                                 ELSE b - days
<1>1. ASSUME NEW b \in 1 .. Buckets, b \in Indices(data_range),
             ~ (b - data_range.start <= days)
      PROVE  b - days \in 1 .. Buckets
  BY <1>1, BoundsAssumption DEF DInv, IsRange, Indices
<1> QED  BY <1>1 DEF Shifted, ShiftData, Data, Indices

\* The reader finds exactly the days it asks for.
THEOREM SelectionAlwaysByDay == SpecDays => []SelectionByDay
<1>1. DInv => SelectionByDay
  BY SelectionIsByDay DEF DInv, SelectionByDay
<1> QED  BY <1>1, DInvHolds, PTL

\* The writer may shift a record, or leave it to the reader to skip days.
THEOREM ShiftAlwaysMatchesSelection == SpecDays => []ShiftMatchesSelection
<1>1. DInv => ShiftMatchesSelection
  <2> SUFFICES ASSUME DInv, desired_range.end <= data_range.end - data_range.start
               PROVE  {Shifted(off)[b] :
                         b \in Indices(AdjustSelectionRange(data_range, desired_range, 0))}
                        \ {0} = Indices(AdjustSelectionRange(data_range, desired_range, off))
    BY DEF ShiftMatchesSelection
  <2> DEFINE now == Indices(AdjustSelectionRange(data_range, desired_range, 0))
             later == Indices(AdjustSelectionRange(data_range, desired_range, off))
  <2>1. /\ IsRange(data_range) /\ data_range.end <= Buckets /\ IsRange(desired_range)
        /\ off \in Nat /\ 0 \in Nat
    BY DEF DInv
  <2>2. /\ SelectsTheDays(data_range, desired_range, 0)
        /\ SelectsTheDays(data_range, desired_range, off)
        /\ now \subseteq Indices(data_range) /\ later \subseteq Indices(data_range)
    <3>1. /\ IsRange(AdjustSelectionRange(data_range, desired_range, 0))
          /\ data_range.start <= AdjustSelectionRange(data_range, desired_range, 0).start
          /\ AdjustSelectionRange(data_range, desired_range, 0).end <= data_range.end
          /\ IsRange(AdjustSelectionRange(data_range, desired_range, off))
          /\ data_range.start <= AdjustSelectionRange(data_range, desired_range, off).start
          /\ AdjustSelectionRange(data_range, desired_range, off).end <= data_range.end
      BY <2>1, SelectionInData
    <3> QED  BY <2>1, <3>1, SelectionIsByDay DEF Indices, IsRange
  <2> HIDE DEF now, later
  <2>3. \A b \in Indices(data_range) :
          /\ b \in Nat /\ b \in 1 .. Buckets
          /\ b \in now <=> b - 1 - data_range.start
                             \in desired_range.start .. desired_range.end - 1
          /\ b \in later <=> b - 1 - data_range.start + off
                               \in desired_range.start .. desired_range.end - 1
    <3>1. Indices(data_range) \subseteq 1 .. Buckets
      BY <2>1, BoundsAssumption DEF Indices, IsRange
    <3> QED  BY <2>1, <2>2, <3>1 DEF SelectsTheDays, now, later, IsRange, Indices
  <2>4. \A b \in Indices(data_range) :
          Shifted(off)[b] = IF b - data_range.start <= off THEN 0 ELSE b - off
    BY <2>1, <2>3, ShiftedValue
  <2>5. ASSUME NEW b \in now, Shifted(off)[b] # 0
        PROVE  Shifted(off)[b] \in later
    <3>1. b \in Indices(data_range) /\ ~ (b - data_range.start <= off)
          /\ Shifted(off)[b] = b - off
      BY <2>2, <2>4, <2>5
    <3>2. b - off \in Indices(data_range)  BY <2>1, <3>1 DEF Indices, IsRange
    <3>3. (b - off) - 1 - data_range.start + off = b - 1 - data_range.start
      BY <2>1, <2>3, <3>1 DEF IsRange
    <3> QED  BY <2>3, <3>1, <3>2, <3>3
  <2>6. ASSUME NEW c \in later
        PROVE  c # 0 /\ \E b \in now : Shifted(off)[b] = c
    <3>1. c \in Indices(data_range) /\ c \in Nat
          /\ c - 1 - data_range.start + off
               \in desired_range.start .. desired_range.end - 1
      BY <2>2, <2>3
    <3>2. c + off \in Indices(data_range) /\ c # 0
      BY <2>1, <3>1 DEF Indices, IsRange
    <3>3. c + off \in now
      <4>1. (c + off) - 1 - data_range.start = c - 1 - data_range.start + off
        BY <2>1, <3>1 DEF IsRange
      <4> QED  BY <2>3, <3>1, <3>2, <4>1
    <3>4. Shifted(off)[c + off] = c
      <4>1. /\ ~ ((c + off) - data_range.start <= off) /\ (c + off) - off = c
        BY <2>1, <3>1 DEF Indices, IsRange
      <4> QED  BY <2>4, <3>2, <4>1
    <3> QED  BY <3>2, <3>3, <3>4
  <2> QED  BY <2>5, <2>6 DEF now, later
<1> QED  BY <1>1, DInvHolds, PTL

\* The order of the sessions of successive days does not matter to what stays
\* in the window, and no shift reaches another record.
THEOREM ShiftsAlwaysAddUp == SpecDays => []ShiftsAddUp
<1>1. DInv => ShiftsAddUp
  <2> SUFFICES ASSUME DInv PROVE ShiftsAddUp  OBVIOUS
  <2> DEFINE twice == ShiftData(Shifted(off), data_range, 1, 0)
  <2>1. /\ data_range.start \in Nat /\ data_range.end \in Nat /\ off \in Nat
        /\ off + 1 \in Nat /\ Buckets \in Nat
    BY BoundsAssumption DEF DInv, IsRange
  <2>2. /\ DOMAIN Shifted(off) = 1 .. Buckets
        /\ DOMAIN Shifted(off + 1) = 1 .. Buckets
        /\ \A b \in 1 .. Buckets :
             /\ Shifted(off)[b] = IF b \notin Indices(data_range) THEN b
                                  ELSE IF b - data_range.start <= off THEN 0
                                  ELSE b - off
             /\ Shifted(off + 1)[b] = IF b \notin Indices(data_range) THEN b
                                      ELSE IF b - data_range.start <= off + 1 THEN 0
                                      ELSE b - (off + 1)
    BY <2>1, ShiftedValue
  <2>3. twice = [b \in 1 .. Buckets |->
                   IF b \notin Indices(data_range) THEN Shifted(off)[b]
                   ELSE IF b - data_range.start <= 1 THEN 0
                   ELSE Shifted(off)[b - 1]]
    BY <2>2 DEF ShiftData, Indices
  <2>4. ASSUME NEW b \in 1 .. Buckets
        PROVE  twice[b] = Shifted(off + 1)[b]
    <3> HIDE DEF twice
    <3>1. CASE b \notin Indices(data_range) \/ b - data_range.start <= 1
      BY <2>1, <2>2, <2>3, <3>1 DEF Indices
    <3>2. CASE b \in Indices(data_range) /\ ~ (b - data_range.start <= 1)
      <4>1. b - 1 \in 1 .. Buckets /\ b - 1 \in Indices(data_range)
        BY <2>1, <3>2 DEF Indices
      <4>2. twice[b] = IF (b - 1) - data_range.start <= off THEN 0 ELSE (b - 1) - off
        BY <2>2, <2>3, <3>2, <4>1
      <4>3. Shifted(off + 1)[b] = IF b - data_range.start <= off + 1 THEN 0
                                  ELSE b - (off + 1)
        BY <2>2, <3>2
      <4> QED  BY <2>1, <4>2, <4>3
    <3> QED  BY <3>1, <3>2
  <2>5. Shifted(off + 1) = [b \in 1 .. Buckets |-> Shifted(off + 1)[b]]
    BY <2>2 DEF Shifted, ShiftData
  <2>6. twice = Shifted(off + 1)  BY <2>3, <2>4, <2>5
  <2>7. \A b \in DOMAIN Data \ Indices(data_range) : Shifted(off)[b] = b
    BY <2>2 DEF Data
  <2> QED  BY <2>6, <2>7 DEF ShiftsAddUp
<1> QED  BY <1>1, DInvHolds, PTL

(* Names *)

IsClassname == classname \in Seq(STRING) /\ classname # <<>>

\* None of the longer prefixes is a path of the repository.
LongerNotFound ==
  \A k \in 0 .. path_component_count - 1 : SubSeq(classname, 1, Start - k) \notin network

NamesInv ==
  /\ IsClassname
  /\ filename \in Filenames \cup {NoFilename}
  /\ path_component_count \in 0 .. Start
  /\ UsesNetwork => LongerNotFound
  /\ LongestPathFound

LEMMA PathsOfClassname ==
  ASSUME IsClassname
  PROVE  /\ Start \in Nat \ {0}
         /\ \A l \in 1 .. Start : SubSeq(classname, 1, l) \in PathsOf(classname)
                                  /\ Len(SubSeq(classname, 1, l)) = l
         /\ \A p \in PathsOf(classname) :
              \E l \in 1 .. Start : p = SubSeq(classname, 1, l) /\ Len(p) = l
<1>1. Start \in Nat \ {0}
  BY DEF IsClassname, Start
<1>2. ASSUME NEW l \in 1 .. Start
      PROVE  SubSeq(classname, 1, l) \in PathsOf(classname) /\ Len(SubSeq(classname, 1, l)) = l
  <2>1. Len(SubSeq(classname, 1, l)) = l
    BY <1>1 DEF IsClassname, Start
  <2> QED BY <1>1, <2>1 DEF PathsOf, Prefixes, Start
<1>3. ASSUME NEW p \in PathsOf(classname)
      PROVE  \E l \in 1 .. Start : p = SubSeq(classname, 1, l) /\ Len(p) = l
  <2>1. PICK l \in 0 .. Start : p = SubSeq(classname, 1, l) /\ p # <<>>
    BY DEF PathsOf, Prefixes, Start
  <2>2. l # 0
    BY <2>1 DEF IsClassname
  <2> QED BY <1>1, <1>2, <2>1, <2>2
<1> QED
  BY <1>1, <1>2, <1>3

\* A path in front of a class name and the rest after it are the class name.
LEMMA PathAndRest ==
  ASSUME IsClassname, NEW l \in 1 .. Start
  PROVE  SubSeq(classname, 1, l) \o Skip(classname, l) = classname
<1>1. /\ classname \in Seq(STRING) /\ Start = Len(classname) /\ Start \in Nat
  BY DEF IsClassname, Start
<1> QED
  BY <1>1 DEF Skip

LEMMA NamesInitOk == InitName => NamesInv
<1> SUFFICES ASSUME InitName PROVE NamesInv
  OBVIOUS
<1>1. IsClassname
  BY ClassnamesAssumption DEF InitName, IsClassname
<1>2. Start \in Nat
  BY <1>1 DEF IsClassname, Start
<1> QED
  BY <1>1, <1>2 DEF InitName, NamesInv, LongerNotFound, LongestPathFound

\* The inputs never change.
LEMMA NamesKept ==
  ASSUME NamesInv, UNCHANGED <<classname, framework, filename, network, path_component_count>>,
         LongestPathFound'
  PROVE  NamesInv'
BY DEF NamesInv, IsClassname, Start, UsesNetwork, LongerNotFound

LEMMA NamesOthersOk ==
  ASSUME NamesInv, ComputeJest \/ ComputeVitest \/ ComputePlain \/ UNCHANGED name_vars
  PROVE  NamesInv'
<1>1. CASE UNCHANGED name_vars
  BY <1>1, NamesKept DEF name_vars, NamesInv, LongestPathFound, KnownPaths, IsNameIn, PathsOf
<1>2. CASE ComputeJest \/ ComputeVitest \/ ComputePlain
  <2>1. /\ framework' = "Pytest" => filename' = NoFilename /\ network' = NoNetwork
        /\ UNCHANGED <<classname, framework, filename, network, path_component_count>>
    BY <1>2 DEF ComputeJest, ComputeVitest, ComputePlain, Computed
  <2>2. LongestPathFound'
    BY <2>1 DEF LongestPathFound
  <2> QED BY <2>1, <2>2, NamesKept
<1> QED
  BY <1>1, <1>2

LEMMA UsingFilenameOk ==
  ASSUME NamesInv, ComputePytestUsingFilename
  PROVE  NamesInv'
<1>1. /\ filename \in Filenames /\ filename # NoFilename /\ IsClassname
      /\ computed' = Name(filename, Skip(classname, Len(filename)), "::")
      /\ UNCHANGED <<classname, framework, filename, network, path_component_count>>
  BY DEF NamesInv, ComputePytestUsingFilename, Computed
<1>2. filename \in Seq(STRING) /\ Len(filename) \in Nat \ {0}
  BY <1>1, ClassnamesAssumption
<1>3. ASSUME IsPrefix(filename, classname)
      PROVE  IsNameIn(Name(filename, Skip(classname, Len(filename)), "::"), {filename})
  <2>1. Len(filename) \in 1 .. Start /\ filename = SubSeq(classname, 1, Len(filename))
    BY <1>1, <1>2, <1>3 DEF IsPrefix, IsClassname, Start
  <2>2. filename \in PathsOf(classname)
    BY <1>1, <2>1, PathsOfClassname
  <2>3. filename \o Skip(classname, Len(filename)) = classname
    BY <1>1, <2>1, PathAndRest
  <2> QED BY <1>2, <2>2, <2>3 DEF IsNameIn, Name
<1>4. LongestPathFound'
  BY <1>1, <1>3 DEF LongestPathFound, KnownPaths, IsNameIn, PathsOf
<1> QED
  BY <1>1, <1>4, NamesKept

\* The first prefix that is found is the longest.
LEMMA PathFoundOk ==
  ASSUME NamesInv, PathFound
  PROVE  NamesInv'
<1>1. /\ IsClassname /\ Start \in Nat /\ path_component_count \in 0 .. Start - 1
      /\ UsesNetwork /\ LongerNotFound /\ Prefix \in network
      /\ computed' = Name(Prefix, Skip(classname, Start - path_component_count), "::")
      /\ UNCHANGED <<classname, framework, filename, network, path_component_count>>
  BY PathsOfClassname DEF NamesInv, PathFound, Computed
<1> DEFINE l == Start - path_component_count
<1>2. l \in 1 .. Start /\ Prefix = SubSeq(classname, 1, l)
  BY <1>1 DEF Prefix
<1>3. Prefix \in PathsOf(classname) /\ Len(Prefix) = l
  BY <1>1, <1>2, PathsOfClassname
<1>4. Prefix \o Skip(classname, l) = classname
  BY <1>1, <1>2, PathAndRest
<1>5. ASSUME NEW p \in network \cap PathsOf(classname)
      PROVE  Len(p) <= l
  <2>1. PICK m \in 1 .. Start : p = SubSeq(classname, 1, m) /\ Len(p) = m
    BY <1>1, PathsOfClassname
  <2>2. SUFFICES ASSUME m > l PROVE FALSE
    BY <1>1, <2>1
  <2>3. Start - m \in 0 .. path_component_count - 1 /\ Start - (Start - m) = m
    BY <1>1, <2>2
  <2>4. SubSeq(classname, 1, m) \notin network
    BY <1>1, <2>3 DEF LongerNotFound
  <2> QED BY <2>1, <2>4
<1>6. IsNameIn(Name(Prefix, Skip(classname, l), "::"), network)
  BY <1>1, <1>3, <1>4, <1>5 DEF IsNameIn, Name
<1>7. LongestPathFound'
  <2>1. filename = NoFilename
    BY <1>1 DEF UsesNetwork
  <2>2. IsNameIn(computed', network)
    BY <1>1, <1>6
  <2> QED BY <1>1, <2>1, <2>2 DEF LongestPathFound, KnownPaths, IsNameIn, PathsOf
<1> QED
  BY <1>1, <1>7, NamesKept

LEMMA PathNotFoundOk ==
  ASSUME NamesInv, PathNotFound
  PROVE  NamesInv'
<1>1. /\ IsClassname /\ Start \in Nat /\ path_component_count \in 0 .. Start - 1
      /\ UsesNetwork /\ LongerNotFound /\ Prefix \notin network
      /\ computed = NotComputed /\ path_component_count' = path_component_count + 1
      /\ UNCHANGED <<classname, framework, filename, network, computed>>
  BY PathsOfClassname DEF NamesInv, PathNotFound
<1>2. LongestPathFound'
  BY <1>1 DEF LongestPathFound
<1>3. LongerNotFound'
  <2>1. ASSUME NEW k \in 0 .. path_component_count
        PROVE  SubSeq(classname, 1, Start - k) \notin network
    <3>1. CASE k = path_component_count
      BY <3>1, <1>1 DEF Prefix
    <3>2. CASE k \in 0 .. path_component_count - 1
      BY <3>2, <1>1 DEF LongerNotFound
    <3> QED BY <3>1, <3>2, <1>1
  <2>2. path_component_count' - 1 = path_component_count /\ Start' = Start
    BY <1>1 DEF Start
  <2> QED BY <1>1, <2>1, <2>2 DEF LongerNotFound
<1>4. path_component_count' \in 0 .. Start' /\ IsClassname'
  BY <1>1 DEF Start, IsClassname
<1> QED
  BY <1>1, <1>2, <1>3, <1>4 DEF NamesInv

LEMMA NoPrefixFoundOk ==
  ASSUME NamesInv, NoPrefixFound
  PROVE  NamesInv'
<1>1. /\ IsClassname /\ Start \in Nat /\ path_component_count = Start
      /\ UsesNetwork /\ LongerNotFound
      /\ computed' = Name(NoPath, classname, ".")
      /\ UNCHANGED <<classname, framework, filename, network, path_component_count>>
  BY PathsOfClassname DEF NamesInv, NoPrefixFound, Computed
<1>2. network \cap PathsOf(classname) = {}
  <2> SUFFICES ASSUME NEW p \in network, p \in PathsOf(classname) PROVE FALSE
    OBVIOUS
  <2>1. PICK m \in 1 .. Start : p = SubSeq(classname, 1, m)
    BY <1>1, PathsOfClassname
  <2>2. Start - m \in 0 .. path_component_count - 1 /\ Start - (Start - m) = m
    BY <1>1
  <2> QED BY <1>1, <2>1, <2>2 DEF LongerNotFound
<1>3. IsNameIn(Name(NoPath, classname, "."), network)
  BY <1>2 DEF IsNameIn
<1>4. LongestPathFound'
  <2>1. filename = NoFilename
    BY <1>1 DEF UsesNetwork
  <2>2. IsNameIn(computed', network)
    BY <1>1, <1>3
  <2> QED BY <1>1, <2>1, <2>2 DEF LongestPathFound, KnownPaths, IsNameIn, PathsOf
<1> QED
  BY <1>1, <1>4, NamesKept

\* compute_name finds the longest of the repository's paths that a class name
\* begins with, whatever the class name, the file and the repository are.
THEOREM LongestPathAlwaysFound == SpecName => []LongestPathFound
<1>1. NamesInv /\ [NextName]_name_vars => NamesInv'
  BY NamesOthersOk, UsingFilenameOk, PathFoundOk, PathNotFoundOk, NoPrefixFoundOk DEF NextName
<1>2. NamesInv => LongestPathFound
  BY DEF NamesInv
<1> QED
  BY <1>1, <1>2, NamesInitOk, PTL DEF SpecName

(* Fences *)

\* What the loop knows after c characters of t: the run it is in, back to a
\* character that is none, and a longest run of all.
Scan(t, c, current, longest) ==
  /\ c \in 0 .. Len(t) /\ current \in 0 .. c /\ longest \in Nat
  /\ IsRun(t, c - current, c)
  /\ current < c => t[c - current] # Tick
  /\ \A from, to \in 0 .. c : IsRun(t, from, to) => to - from <= longest
  /\ \E from \in 0 .. c : from + longest <= c /\ IsRun(t, from, from + longest)

LEMMA ScanStart ==
  ASSUME NEW t \in Seq(STRING)
  PROVE  Scan(t, 0, 0, 0)
<1>1. Len(t) \in Nat
  OBVIOUS
<1>2. IsRun(t, 0, 0)
  BY <1>1 DEF IsRun
<1> QED
  BY <1>1, <1>2 DEF Scan

LEMMA ScanBacktick ==
  ASSUME NEW t \in Seq(STRING), NEW c, NEW current, NEW longest,
         Scan(t, c, current, longest), c < Len(t), t[c + 1] = Tick
  PROVE  Scan(t, c + 1, current + 1, IF current + 1 > longest THEN current + 1 ELSE longest)
<1>1. /\ Len(t) \in Nat /\ c \in Nat /\ current \in Nat /\ longest \in Nat
      /\ current <= c /\ c + 1 <= Len(t)
  BY DEF Scan
<1> DEFINE most == IF current + 1 > longest THEN current + 1 ELSE longest
<1>2. most \in Nat /\ most >= longest /\ most >= current + 1
  BY <1>1
<1>3. IsRun(t, c - current, c + 1)
  <2>1. \A i \in c - current + 1 .. c : t[i] = Tick
    BY DEF Scan, IsRun
  <2> QED BY <1>1, <2>1 DEF IsRun
<1>4. current + 1 < c + 1 => t[c - current] # Tick
  BY <1>1 DEF Scan
<1>5. ASSUME NEW from \in 0 .. c + 1, NEW to \in 0 .. c + 1, IsRun(t, from, to)
      PROVE  to - from <= most
  <2>1. CASE to <= c
    <3>1. from <= to
      BY <1>5 DEF IsRun
    <3> QED BY <1>1, <1>2, <1>5, <2>1, <3>1 DEF Scan
  <2>2. CASE to = c + 1 /\ from >= c - current
    BY <1>1, <1>2, <2>2
  <2>3. CASE to = c + 1 /\ from < c - current
    <3>1. c - current \in from + 1 .. to /\ current < c
      BY <1>1, <2>3
    <3>2. t[c - current] = Tick
      BY <1>5, <3>1 DEF IsRun
    <3> QED BY <3>1, <3>2 DEF Scan
  <2> QED BY <1>1, <2>1, <2>2, <2>3
<1>6. \E from \in 0 .. c + 1 : from + most <= c + 1 /\ IsRun(t, from, from + most)
  <2>1. CASE current + 1 > longest
    <3>1. c - current \in 0 .. c + 1 /\ c - current + most = c + 1
      BY <1>1, <2>1
    <3> QED BY <1>1, <1>3, <3>1
  <2>2. CASE ~ (current + 1 > longest)
    <3>1. PICK from \in 0 .. c : from + longest <= c /\ IsRun(t, from, from + longest)
      BY DEF Scan
    <3> QED BY <1>1, <2>2, <3>1
  <2> QED BY <2>1, <2>2
<1> QED
  <2>1. c + 1 - (current + 1) = c - current
    BY <1>1
  <2> HIDE DEF most
  <2>2. Scan(t, c + 1, current + 1, most)
    BY <1>1, <1>2, <1>3, <1>4, <1>5, <1>6, <2>1 DEF Scan
  <2> QED BY <2>2 DEF most

LEMMA ScanOther ==
  ASSUME NEW t \in Seq(STRING), NEW c, NEW current, NEW longest,
         Scan(t, c, current, longest), c < Len(t), t[c + 1] # Tick
  PROVE  Scan(t, c + 1, 0, longest)
<1>1. /\ Len(t) \in Nat /\ c \in Nat /\ longest \in Nat /\ c + 1 <= Len(t)
  BY DEF Scan
<1>2. IsRun(t, c + 1 - 0, c + 1) /\ c + 1 - 0 = c + 1
  BY <1>1 DEF IsRun
<1>3. ASSUME NEW from \in 0 .. c + 1, NEW to \in 0 .. c + 1, IsRun(t, from, to)
      PROVE  to - from <= longest
  <2>1. from <= to
    BY <1>3 DEF IsRun
  <2>2. CASE to <= c
    BY <1>1, <1>3, <2>1, <2>2 DEF Scan
  <2>3. CASE to = c + 1
    <3>1. from = c + 1
      BY <1>1, <1>3, <2>1, <2>3 DEF IsRun
    <3> QED BY <1>1, <2>3, <3>1
  <2> QED BY <1>1, <2>2, <2>3
<1>4. \E from \in 0 .. c + 1 : from + longest <= c + 1 /\ IsRun(t, from, from + longest)
  <2>1. PICK from \in 0 .. c : from + longest <= c /\ IsRun(t, from, from + longest)
    BY DEF Scan
  <2> QED BY <1>1, <2>1
<1> QED
  BY <1>1, <1>2, <1>3, <1>4 DEF Scan

LEMMA ScanEnd ==
  ASSUME NEW t \in Seq(STRING), NEW current, NEW longest, Scan(t, Len(t), current, longest)
  PROVE  FenceOf(t, IF longest + 1 > 3 THEN longest + 1 ELSE 3)
<1>1. Len(t) \in Nat /\ longest \in Nat
  BY DEF Scan
<1>2. \A from, to \in 0 .. Len(t) : IsRun(t, from, to) => to - from <= longest
  BY DEF Scan
<1>3. PICK first \in 0 .. Len(t) : IsRun(t, first, first + longest)
  BY DEF Scan
<1>4. CASE longest + 1 > 3
  <2>1. first + (longest + 1) - 1 = first + longest
    BY <1>1
  <2> QED BY <1>1, <1>2, <1>3, <1>4, <2>1 DEF FenceOf
<1>5. CASE ~ (longest + 1 > 3)
  BY <1>1, <1>2, <1>5 DEF FenceOf
<1> QED
  BY <1>4, <1>5

\* The fences so far are right, and the loop is in the next message.
MessageInv ==
  /\ failures \in Seq(Failures)
  /\ top \in Seq(DOMAIN failures)
  /\ num_backticks \in Seq(Nat)
  /\ Len(num_backticks) <= Len(top)
  /\ FencesHold
  /\ stage = "called" => top = <<>> /\ num_backticks = <<>>
  /\ ~ Formatting => char = 0 /\ current_length = 0 /\ max_length = 0
  /\ Formatting => Scan(Trace, char, current_length, max_length)

LEMMA TracesAreText ==
  ASSUME NEW f \in Seq(Failures), NEW shown \in Seq(DOMAIN f), NEW k \in 1 .. Len(shown)
  PROVE  f[shown[k]].trace \in Seq(STRING)
<1>1. shown[k] \in DOMAIN f
  OBVIOUS
<1>2. f[shown[k]] \in Failures
  BY <1>1
<1> QED
  BY <1>2, TracesAssumption DEF Failures

LEMMA MessageInitOk == InitMessage => MessageInv
<1> SUFFICES ASSUME InitMessage PROVE MessageInv
  OBVIOUS
<1>1. failures \in Seq(Failures)
  <2>1. PICK n \in 0 .. MaxFailures : failures \in [1 .. n -> Failures]
    BY DEF InitMessage, Payloads
  <2>2. n \in Nat
    BY TracesAssumption
  <2> QED BY <2>1, <2>2
<1>2. top = <<>> /\ num_backticks = <<>> /\ stage = "called"
      /\ char = 0 /\ current_length = 0 /\ max_length = 0
  BY DEF InitMessage
<1> QED
  BY <1>1, <1>2 DEF MessageInv, FencesHold, Formatting

\* Between two messages the loop starts again.
LEMMA NextMessageOk ==
  ASSUME failures \in Seq(Failures), failures' = failures,
         top' \in Seq(DOMAIN failures), num_backticks' \in Seq(Nat),
         Len(num_backticks') <= Len(top'), FencesHold', stage' # "called",
         char' = 0, current_length' = 0, max_length' = 0
  PROVE  MessageInv'
<1>1. PICK f, shown, fences : f = failures' /\ shown = top' /\ fences = num_backticks'
  OBVIOUS
<1>2. ASSUME Formatting'
      PROVE  Scan(Trace, char, current_length, max_length)'
  <2>1. Len(fences) + 1 \in 1 .. Len(shown)
    BY <1>1, <1>2 DEF Formatting
  <2>2. f[shown[Len(fences) + 1]].trace \in Seq(STRING)
    BY <1>1, <2>1, TracesAreText
  <2>3. Scan(f[shown[Len(fences) + 1]].trace, 0, 0, 0)
    BY <2>2, ScanStart
  <2> QED BY <1>1, <2>3 DEF Trace, Scan, IsRun
<1> QED
  BY <1>2 DEF MessageInv

LEMMA SortOk ==
  ASSUME MessageInv, Sort
  PROVE  MessageInv'
<1>1. PICK first \in [1 .. Shown -> DOMAIN failures] : top' = first
  BY DEF Sort, Firsts
<1>2. Shown \in Nat
  BY DEF MessageInv, Shown
<1>3. top' \in Seq(DOMAIN failures)
  BY <1>1, <1>2
<1>4. /\ stage' = "formatting" /\ ~ Formatting /\ num_backticks = <<>>
      /\ UNCHANGED <<failures, num_backticks, char, current_length, max_length>>
  BY DEF Sort, Formatting, MessageInv
<1>5. FencesHold' /\ Len(num_backticks') <= Len(top')
  BY <1>3, <1>4 DEF FencesHold
<1> QED
  BY <1>3, <1>4, <1>5, NextMessageOk DEF MessageInv

LEMMA SeeOk ==
  ASSUME MessageInv, SeeBacktick \/ SeeOther
  PROVE  MessageInv'
<1>1. /\ Formatting /\ char < Len(Trace)
      /\ UNCHANGED <<stage, failures, top, num_backticks>>
  BY DEF SeeBacktick, SeeOther
<1>2. Trace \in Seq(STRING)
  <2>1. Len(num_backticks) + 1 \in 1 .. Len(top)
    BY <1>1 DEF MessageInv, Formatting
  <2> QED BY <2>1, TracesAreText DEF MessageInv, Trace
<1>3. Scan(Trace, char, current_length, max_length)
  BY <1>1 DEF MessageInv
<1>4. Scan(Trace, char', current_length', max_length')
  <2>1. CASE SeeBacktick
    <3>1. /\ Trace[char + 1] = Tick /\ char' = char + 1
          /\ current_length' = current_length + 1
          /\ max_length' = IF current_length + 1 > max_length THEN current_length + 1 ELSE max_length
      BY <2>1 DEF SeeBacktick
    <3> QED BY <1>1, <1>2, <1>3, <3>1, ScanBacktick
  <2>2. CASE SeeOther
    <3>1. /\ Trace[char + 1] # Tick /\ char' = char + 1
          /\ current_length' = 0 /\ max_length' = max_length
      BY <2>2 DEF SeeOther
    <3> QED BY <1>1, <1>2, <1>3, <3>1, ScanOther
  <2> QED BY <2>1, <2>2
<1>5. Formatting' /\ Trace' = Trace
  BY <1>1 DEF Formatting, Trace
<1>6. FencesHold'
  BY <1>1 DEF MessageInv, FencesHold
<1>7. Scan(Trace, char, current_length, max_length)'
  BY <1>4, <1>5 DEF Scan, IsRun
<1> QED
  BY <1>1, <1>5, <1>6, <1>7 DEF MessageInv, Formatting

LEMMA FormatFailureOk ==
  ASSUME MessageInv, FormatFailure
  PROVE  MessageInv'
<1>1. /\ failures \in Seq(Failures) /\ top \in Seq(DOMAIN failures)
      /\ num_backticks \in Seq(Nat) /\ Len(num_backticks) < Len(top)
      /\ stage # "called"
  BY DEF MessageInv, FormatFailure, Formatting
<1> DEFINE k == Len(num_backticks) + 1
<1>2. k \in 1 .. Len(top)
  BY <1>1
<1>3. Trace \in Seq(STRING) /\ Trace = failures[top[k]].trace
  BY <1>1, <1>2, TracesAreText DEF Trace
<1>4. Scan(Trace, Len(Trace), current_length, max_length)
  BY DEF MessageInv, FormatFailure
<1>5. FenceOf(Trace, Fence) /\ Fence \in Nat
  <2>1. max_length \in Nat
    BY <1>4 DEF Scan
  <2>2. Fence \in Nat
    BY <2>1 DEF Fence
  <2>3. FenceOf(Trace, IF max_length + 1 > 3 THEN max_length + 1 ELSE 3)
    BY <1>3, <1>4, ScanEnd
  <2> QED BY <2>2, <2>3 DEF Fence
<1>6. num_backticks' = Append(num_backticks, Fence)
      /\ UNCHANGED <<failures, top, stage>>
      /\ char' = 0 /\ current_length' = 0 /\ max_length' = 0
  BY DEF FormatFailure
<1>7. num_backticks' \in Seq(Nat) /\ Len(num_backticks') = k /\ num_backticks'[k] = Fence
      /\ \A j \in DOMAIN num_backticks : num_backticks'[j] = num_backticks[j]
      /\ DOMAIN num_backticks' = DOMAIN num_backticks \cup {k}
  BY <1>1, <1>5, <1>6
<1>8. FencesHold'
  <2>1. PICK fences : fences = num_backticks'
    OBVIOUS
  <2>2. ASSUME NEW j \in DOMAIN fences
        PROVE  FenceOf(failures[top[j]].trace, fences[j])
    <3>1. CASE j \in DOMAIN num_backticks
      <4>1. fences[j] = num_backticks[j]
        BY <1>7, <2>1, <3>1
      <4>2. FenceOf(failures[top[j]].trace, num_backticks[j])
        BY <3>1 DEF MessageInv, FencesHold
      <4> QED BY <4>1, <4>2
    <3>2. CASE j = k
      <4>1. fences[j] = Fence /\ failures[top[j]].trace = Trace
        BY <1>3, <1>7, <2>1, <3>2
      <4> HIDE DEF k
      <4> QED BY <1>5, <4>1
    <3>3. j \in DOMAIN num_backticks \/ j = k
      <4>1. /\ DOMAIN fences = 1 .. k
            /\ DOMAIN num_backticks = 1 .. k - 1 /\ k \in Nat
        BY <1>1, <1>7, <2>1
      <4> QED BY <4>1
    <3> QED BY <3>1, <3>2, <3>3
  <2> QED BY <1>6, <2>1, <2>2 DEF FencesHold
<1> QED
  BY <1>1, <1>2, <1>6, <1>7, <1>8, NextMessageOk

LEMMA MessageOthersOk ==
  ASSUME MessageInv, SortPanics \/ Render \/ UNCHANGED message_vars
  PROVE  MessageInv'
<1>1. CASE UNCHANGED message_vars
  BY <1>1 DEF message_vars, MessageInv, FencesHold, Formatting, Trace
<1>2. CASE SortPanics \/ Render
  <2>1. /\ ~ Formatting /\ stage' \notin {"called", "formatting"}
        /\ UNCHANGED <<failures, top, num_backticks, char, current_length, max_length>>
    BY <1>2 DEF SortPanics, Render, Formatting
  <2> QED BY <2>1 DEF MessageInv, FencesHold, Formatting
<1> QED
  BY <1>1, <1>2

\* The fence around a message is longer than any run of backticks in it, and
\* no longer than needed, for messages of any length.
THEOREM FencesAlwaysHold == SpecMessage => []FencesHold
<1>1. MessageInv /\ [NextMessage]_message_vars => MessageInv'
  BY SortOk, SeeOk, FormatFailureOk, MessageOthersOk DEF NextMessage
<1>2. MessageInv => FencesHold
  BY DEF MessageInv
<1> QED
  BY <1>1, <1>2, MessageInitOk, PTL DEF SpecMessage

-----------------------------------------------------------------------------
(* Lines and columns of a prefix that grows.                               *)

\* Newlines of a longer prefix are those of the shorter one and of the rest.
LEMMA NewlinesGrow ==
  ASSUME NEW from \in Nat, NEW to \in Nat, from <= to
  PROVE  /\ Newlines(0, to) = Newlines(0, from) \cup Newlines(from, to)
         /\ Newlines(0, from) \cap Newlines(from, to) = {}
         /\ IsFiniteSet(Newlines(0, from))
         /\ IsFiniteSet(Newlines(from, to))
<1>1. Newlines(0, to) = Newlines(0, from) \cup Newlines(from, to)
  BY DEF Newlines
<1>2. Newlines(0, from) \cap Newlines(from, to) = {}
  BY DEF Newlines
<1>3. IsFiniteSet(1 .. to)
  BY FS_Interval
<1>4. Newlines(0, from) \subseteq 1 .. to /\ Newlines(from, to) \subseteq 1 .. to
  BY DEF Newlines
<1>5. QED
  BY <1>1, <1>2, <1>3, <1>4, FS_Subset

\* Lines are counted correctly in two parts.
LEMMA LinesAdd ==
  ASSUME NEW from \in Nat, NEW to \in Nat, from <= to
  PROVE  /\ Cardinality(Newlines(0, from)) \in Nat
         /\ Cardinality(Newlines(from, to)) \in Nat
         /\ Cardinality(Newlines(0, to))
              = Cardinality(Newlines(0, from)) + Cardinality(Newlines(from, to))
<1>1. /\ Cardinality(Newlines(0, from)) \in Nat
      /\ Cardinality(Newlines(from, to)) \in Nat
  BY NewlinesGrow, FS_CardinalityType
<1>2. Cardinality(Newlines(0, from) \cap Newlines(from, to)) = 0
  BY NewlinesGrow, FS_EmptySet
<1>3. Cardinality(Newlines(0, from) \cup Newlines(from, to))
        = Cardinality(Newlines(0, from)) + Cardinality(Newlines(from, to))
            - Cardinality(Newlines(0, from) \cap Newlines(from, to))
  BY NewlinesGrow, FS_Union
<1>4. Cardinality(Newlines(0, to))
        = Cardinality(Newlines(0, from)) + Cardinality(Newlines(from, to)) - 0
  BY <1>2, <1>3, NewlinesGrow, Zenon
<1>5. QED
  BY <1>1, <1>4

\* The last newline is in the part that was added, if that has one.
LEMMA LastNewlineInRest ==
  ASSUME NEW from \in Nat, NEW to \in Nat, from <= to, Newlines(from, to) # {}
  PROVE  LastNewline(to) = LastOf(Newlines(from, to))
<1>1. Newlines(0, to) # {}
  BY NewlinesGrow
<1>2. ASSUME NEW i
      PROVE  (i \in Newlines(0, to) /\ \A j \in Newlines(0, to) : j <= i)
               <=> (i \in Newlines(from, to) /\ \A j \in Newlines(from, to) : j <= i)
  BY DEF Newlines
<1>3. LastOf(Newlines(0, to)) = LastOf(Newlines(from, to))
  BY <1>2 DEF LastOf
<1>4. QED
  BY <1>1, <1>3 DEF LastNewline

\* A bounded set of numbers that is not empty has a last one.
LEMMA LastOfBounded ==
  ASSUME NEW max \in Nat, NEW S \in SUBSET (0 .. max), S # {}
  PROVE  LastOf(S) \in S
<1> DEFINE T == {max - i : i \in S}
<1>1. T \subseteq Nat /\ T # {}
  <2>1. \A i \in S : max - i \in Nat
    OBVIOUS
  <2>2. QED
    BY <2>1, Zenon
<1>2. PICK x \in T : \A y \in T : ~ (<<y, x>> \in OpToRel(<, Nat))
  BY <1>1, NatLessThanWellFounded, WFMin
<1>3. PICK i \in S : x = max - i
  BY <1>2
<1>4. ASSUME NEW j \in S
      PROVE  j <= i
  <2>1. ~ (<<max - j, x>> \in OpToRel(<, Nat))
    BY <1>2
  <2>2. ~ (max - j < x)
    BY <1>1, <2>1 DEF OpToRel
  <2>3. QED
    BY <1>3, <2>2
<1>5. QED
  BY <1>3, <1>4 DEF LastOf

\* LastNewline is a position of the file.
LEMMA LastNewlineType ==
  ASSUME NEW to \in Nat
  PROVE  LastNewline(to) \in 0 .. to
<1>1. Newlines(0, to) \in SUBSET (0 .. to)
  BY DEF Newlines
<1>2. CASE Newlines(0, to) = {}
  BY <1>2 DEF LastNewline
<1>3. CASE Newlines(0, to) # {}
  <2>1. LastOf(Newlines(0, to)) \in Newlines(0, to)
    BY <1>1, <1>3, LastOfBounded
  <2>2. QED
    BY <1>1, <1>3, <2>1 DEF LastNewline
<1>4. QED
  BY <1>2, <1>3

\* Without a newline in the rest, the last one stays the last one.
LEMMA LastNewlineBefore ==
  ASSUME NEW from \in Nat, NEW to \in Nat, from <= to, Newlines(from, to) = {}
  PROVE  LastNewline(to) = LastNewline(from)
BY NewlinesGrow DEF LastNewline

-----------------------------------------------------------------------------
(* The strengthening.  It says where the iterator stands and what offset   *)
(* is: both are the last location until the second warning is formatted,   *)
(* which is why two warnings go well and a third does not.                 *)

PositionsTypeOK ==
  /\ input \in Inputs
  /\ \E n \in 0 .. MaxWarnings : locations \in Ascending(n, Len(input))
  /\ result \in Seq([line : Int, col : Int])
  /\ Len(result) <= Len(locations)
  /\ consumed \in 0 .. Len(input)
  /\ offset \in Nat

IteratorAtLastWarning ==
  /\ line = 1 + Cardinality(Newlines(0, consumed))
  /\ col = consumed - LastNewline(consumed)
  /\ Len(result) < 2 => offset = consumed
  /\ Len(result) = 0 => consumed = 0
  /\ Len(result) > 0 => consumed = locations[Len(result)]

PInv == PositionsTypeOK /\ IteratorAtLastWarning /\ WarningsAtLocations

\* The locations of a file are a sequence in ascending order.
LEMMA LocationsAreSequences ==
  ASSUME NEW n \in Nat, NEW max \in Nat, NEW l \in Ascending(n, max)
  PROVE  /\ l \in Seq(0 .. max)
         /\ Len(l) = n
         /\ \A i, j \in 1 .. n : i < j => l[i] <= l[j]
BY DEF Ascending

\* Before the first warning, the iterator is at the start of the file.
LEMMA InitPInv == Init /\ MaxWarnings \in Nat => PInv
<1> SUFFICES ASSUME Init, MaxWarnings \in Nat PROVE PInv
  OBVIOUS
<1>1. Len(input) \in Nat
  BY InputsAssumption DEF Init
<1>2. PositionsTypeOK
  <2>1. PICK n \in 0 .. MaxWarnings : locations \in Ascending(n, Len(input))
    BY DEF Init
  <2>2. Len(locations) \in Nat
    BY <1>1, <2>1, LocationsAreSequences
  <2>3. QED
    BY <1>1, <2>1, <2>2 DEF Init, PositionsTypeOK
<1>3. Newlines(0, 0) = {}
  BY DEF Newlines
<1>4. IteratorAtLastWarning
  <2>1. Cardinality(Newlines(0, 0)) = 0 /\ LastNewline(0) = 0
    BY <1>3, FS_EmptySet DEF LastNewline
  <2>2. QED
    BY <2>1 DEF Init, IteratorAtLastWarning
<1>5. WarningsAtLocations
  BY DEF Init, WarningsAtLocations
<1>6. QED
  BY <1>2, <1>4, <1>5 DEF PInv

\* Positions of a file fit into a u64.
LEMMA InputsBelowU64 ==
  ASSUME PInv, NEW n \in 0 .. Len(input)
  PROVE  n % U64 = n
<1>1. Len(input) \in Nat /\ Len(input) < U64 /\ U64 \in Nat
  BY InputsAssumption, U64Assumption DEF PInv, PositionsTypeOK
<1>2. QED
  BY <1>1

\* The iterator stops exactly at the location of the next warning.
LEMMA StopsAtLocation ==
  ASSUME PInv, MaxWarnings \in 0 .. 2, Len(result) < Len(locations)
  PROVE  /\ Location \in consumed .. Len(input)
         /\ Taken = Location
<1>1. /\ Len(input) \in Nat /\ Len(input) < U64 /\ U64 \in Nat
      /\ Len(result) \in Nat
  BY InputsAssumption, U64Assumption DEF PInv, PositionsTypeOK
<1>2. PICK n \in 0 .. MaxWarnings : locations \in Ascending(n, Len(input))
  BY DEF PInv, PositionsTypeOK
<1>3. /\ Len(locations) = n
      /\ \A i \in 1 .. n : locations[i] \in 0 .. Len(input)
      /\ \A i, j \in 1 .. n : i < j => locations[i] <= locations[j]
  BY <1>1, <1>2, LocationsAreSequences
<1>4. Location \in 0 .. Len(input)
  BY <1>1, <1>3 DEF Location
<1>5. consumed <= Location
  <2>1. CASE Len(result) = 0
    BY <1>4, <2>1 DEF PInv, IteratorAtLastWarning
  <2>2. CASE Len(result) > 0
    BY <1>1, <1>3, <2>2 DEF PInv, IteratorAtLastWarning, Location
  <2>3. QED
    BY <1>1, <2>1, <2>2
<1>6. offset = consumed /\ consumed \in Nat
  BY <1>1, <1>3 DEF PInv, IteratorAtLastWarning, PositionsTypeOK
<1>7. (Location - offset) % U64 = Location - consumed
  BY <1>1, <1>4, <1>5, <1>6, InputsBelowU64
<1>8. QED
  BY <1>1, <1>4, <1>5, <1>6, <1>7 DEF Taken

\* Formatting a warning keeps the strengthening.
LEMMA FormatWarningPInv ==
  ASSUME PInv, MaxWarnings \in 0 .. 2, FormatWarning
  PROVE  PInv'
<1> DEFINE here == [line |-> line', col |-> col']
<1>1. Len(result) < Len(locations)
  BY DEF FormatWarning
<1>2. /\ Location \in consumed .. Len(input)
      /\ Taken = Location
  BY <1>1, StopsAtLocation
<1>3. /\ Len(input) \in Nat /\ consumed \in Nat /\ offset \in Nat
      /\ Location \in Nat /\ consumed <= Location
  BY <1>2, InputsAssumption DEF PInv, PositionsTypeOK
<1>4. /\ line' = 1 + Cardinality(Newlines(0, Location))
      /\ Cardinality(Newlines(0, Location)) \in Nat
  <2>1. line' = line + Cardinality(Newlines(consumed, Location))
    BY <1>2 DEF FormatWarning
  <2>2. line = 1 + Cardinality(Newlines(0, consumed))
    BY DEF PInv, IteratorAtLastWarning
  <2>3. /\ Cardinality(Newlines(0, consumed)) \in Nat
        /\ Cardinality(Newlines(consumed, Location)) \in Nat
        /\ Cardinality(Newlines(0, Location))
             = Cardinality(Newlines(0, consumed)) + Cardinality(Newlines(consumed, Location))
    BY <1>3, LinesAdd
  <2>4. QED
    BY <2>1, <2>2, <2>3
<1>5. col' = Location - LastNewline(Location)
  <2>1. CASE Newlines(consumed, Location) = {}
    <3>1. LastNewline(Location) = LastNewline(consumed)
      BY <1>3, <2>1, LastNewlineBefore
    <3>2. col' = col + (Location - consumed)
      BY <1>2, <2>1 DEF FormatWarning, ColumnAt
    <3>3. col = consumed - LastNewline(consumed) /\ LastNewline(consumed) \in 0 .. consumed
      BY <1>3, LastNewlineType DEF PInv, IteratorAtLastWarning
    <3>4. QED
      BY <1>3, <3>1, <3>2, <3>3
  <2>2. CASE Newlines(consumed, Location) # {}
    <3>1. LastNewline(Location) = LastOf(Newlines(consumed, Location))
      BY <1>3, <2>2, LastNewlineInRest
    <3>2. col' = Location - LastOf(Newlines(consumed, Location))
      BY <1>2, <2>2 DEF FormatWarning, ColumnAt
    <3>3. QED
      BY <3>1, <3>2
  <2>3. QED
    BY <2>1, <2>2
<1>6. here \in [line : Int, col : Int]
  <2>1. LastNewline(Location) \in 0 .. Location
    BY <1>3, LastNewlineType
  <2>2. QED
    BY <1>3, <1>4, <1>5, <2>1
<1>7. /\ result' = Append(result, here)
      /\ result \in Seq([line : Int, col : Int])
  BY DEF FormatWarning, PInv, PositionsTypeOK
<1>8. PositionsTypeOK'
  BY <1>1, <1>2, <1>3, <1>6, <1>7, U64Assumption
  DEF FormatWarning, PInv, PositionsTypeOK
<1>9. IteratorAtLastWarning'
  <2>1. consumed' = Location /\ input' = input /\ locations' = locations
    BY <1>2 DEF FormatWarning
  <2>2. line' = 1 + Cardinality(Newlines(0, consumed))'
    BY <1>4, <2>1 DEF Newlines
  <2>3. (col = consumed - LastNewline(consumed))'
    BY <1>5, <2>1 DEF Newlines, LastNewline, LastOf
  <2>4. Len(result') = Len(result) + 1 /\ Len(result) \in Nat
    BY <1>7
  <2>5. consumed' = locations'[Len(result')]
    BY <2>1, <2>4 DEF Location
  <2>6. Len(result') < 2 => offset' = consumed'
    <3>1. SUFFICES ASSUME Len(result') < 2 PROVE offset' = consumed'
      OBVIOUS
    <3>2. Len(result) = 0
      BY <2>4, <3>1
    <3>3. offset = 0
      BY <3>2 DEF PInv, IteratorAtLastWarning
    <3>4. offset' = Location % U64
      BY <1>3, <3>3 DEF FormatWarning
    <3>5. QED
      BY <1>2, <1>3, <2>1, <3>4, InputsBelowU64
  <2>7. QED
    BY <2>2, <2>3, <2>4, <2>5, <2>6 DEF IteratorAtLastWarning
<1>10. WarningsAtLocations'
  <2>1. Len(result') = Len(result) + 1 /\ Len(result) \in Nat
    BY <1>7
  <2>2. input' = input /\ locations' = locations
    BY DEF FormatWarning
  <2>3. \A p : GetPositionInfo(p)' = GetPositionInfo(p)
    BY <2>2 DEF GetPositionInfo, Newlines, LastNewline, LastOf
  <2>4. SUFFICES ASSUME NEW i \in DOMAIN result'
                 PROVE  result'[i] = [line |-> GetPositionInfo(locations[i]).line,
                                      col |-> GetPositionInfo(locations[i]).column - 1]
    BY <2>2, <2>3 DEF WarningsAtLocations
  <2>5. CASE i \in DOMAIN result
    BY <1>7, <2>5 DEF PInv, WarningsAtLocations
  <2>6. CASE i = Len(result) + 1
    <3>1. result'[i] = here /\ locations[i] = Location
      BY <1>7, <2>6 DEF Location
    <3>2. GetPositionInfo(Location).column - 1 = Location - LastNewline(Location)
      BY <1>3, LastNewlineType DEF GetPositionInfo
    <3>3. QED
      BY <1>4, <1>5, <3>1, <3>2 DEF GetPositionInfo
  <2>7. QED
    BY <1>7, <2>1, <2>5, <2>6
<1>11. QED
  BY <1>8, <1>9, <1>10 DEF PInv

(***************************************************************************)
(* format_warnings places up to two warnings correctly in every file, of   *)
(* any length.  The run third_warning shows that three are too many.       *)
(***************************************************************************)
THEOREM TwoWarningsPlaced ==
  ASSUME MaxWarnings \in 0 .. 2
  PROVE  Spec => []WarningsAtLocations
<1>1. Init => PInv
  BY InitPInv
<1>2. PInv /\ [Next]_vars => PInv'
  <2>1. SUFFICES ASSUME PInv, [Next]_vars PROVE PInv'
    OBVIOUS
  <2>2. CASE FormatWarning
    BY <2>1, <2>2, FormatWarningPInv
  <2>3. CASE UNCHANGED vars
    <3>1. \A p : GetPositionInfo(p)' = GetPositionInfo(p)
      BY <2>3 DEF vars, GetPositionInfo, Newlines, LastNewline, LastOf
    <3>2. WarningsAtLocations'
      BY <2>1, <2>3, <3>1 DEF vars, PInv, WarningsAtLocations
    <3>3. PositionsTypeOK'
      BY <2>1, <2>3 DEF vars, PInv, PositionsTypeOK, Ascending
    <3>4. IteratorAtLastWarning'
      BY <2>1, <2>3 DEF vars, PInv, IteratorAtLastWarning, Newlines, LastNewline, LastOf
    <3>5. QED
      BY <3>2, <3>3, <3>4 DEF PInv
  <2>4. QED
    BY <2>1, <2>2, <2>3 DEF Next, Finished
<1>3. PInv => WarningsAtLocations
  BY DEF PInv
<1>4. QED
  BY <1>1, <1>2, <1>3, PTL DEF Spec

-----------------------------------------------------------------------------
(* The layout of a file, and the answers of a reader *)

USE DEF SECTIONS

ByteRanges == [start: Nat, end: Nat]

\* The end of the first k sections.
EndOf(k) == IF k = 0 THEN 0 ELSE written[k].end

\* The sections in the sink follow each other.
Contiguous ==
  \A k \in 1 .. Len(written) :
    written[k] = [start |-> EndOf(k - 1), end |-> EndOf(k - 1) + Size(k - 1)]

\* The sink has all sections, or ends before the end of the next one.
Ends ==
  \/ Len(written) = SECTIONS /\ EndOf(SECTIONS) <= length
  \/ Len(written) < SECTIONS /\ length < EndOf(Len(written)) + Size(Len(written))

FileTypes ==
  /\ tables \in [tests: Nat, num_days: Nat, testdata: Nat, flags_set: Nat,
                 commithashes: Nat, strings: Nat]
  /\ tables.testdata = tables.tests * tables.num_days
  /\ written \in Seq(ByteRanges) /\ Len(written) <= SECTIONS
  /\ length \in Nat
  /\ taken \in Seq(ByteRanges)

\* What parse has found so far is what serialize has written there.
TakenWritten ==
  /\ Len(taken) <= Len(written)
  /\ \A k \in 1 .. Len(taken) : taken[k] = written[k]

FileInv ==
  /\ FileTypes
  /\ Contiguous
  /\ written # <<>> => header = HeaderOf(tables)
  /\ TakenWritten
  /\ doing = "serializing" => length = EndOf(Len(written)) /\ taken = <<>>
  /\ doing # "serializing" => Ends
  /\ doing = "written" => Len(written) = SECTIONS
  /\ doing = "parsed" => Len(taken) = SECTIONS

LEMMA SizeInNat ==
  ASSUME FileTypes, NEW k \in Nat
  PROVE  Size(k) \in Nat
<1>1. /\ tables.tests \in Nat /\ tables.testdata \in Nat /\ tables.flags_set \in Nat
      /\ tables.commithashes \in Nat /\ tables.strings \in Nat
  BY DEF FileTypes
<1> QED
  BY <1>1 DEF Size

LEMMA EndInNat ==
  ASSUME FileTypes, NEW k \in 0 .. Len(written)
  PROVE  EndOf(k) \in Nat
<1>1. CASE k = 0
  BY <1>1 DEF EndOf
<1>2. CASE k # 0
  <2>1. k \in 1 .. Len(written) /\ written \in Seq(ByteRanges)
    BY <1>2 DEF FileTypes
  <2>2. written[k] \in ByteRanges
    BY <2>1
  <2> QED BY <1>2, <2>2 DEF EndOf, ByteRanges
<1> QED
  BY <1>1, <1>2

\* parse counts with the header as serialize does with the tables.
LEMMA ClaimedIsSize ==
  ASSUME FileTypes, NEW k \in Nat, k = 0 \/ header = HeaderOf(tables)
  PROVE  Claimed(k) = Size(k)
BY DEF FileTypes, Claimed, Size, HeaderOf

LEMMA FileInitOk == InitFile => FileInv
<1> SUFFICES ASSUME InitFile PROVE FileInv
  OBVIOUS
<1>1. PICK n, d, f, c, s \in Lengths :
        tables = [tests |-> n, num_days |-> d, testdata |-> n * d, flags_set |-> f,
                  commithashes |-> c, strings |-> s]
  BY DEF InitFile, Tables
<1>2. n * d \in Nat /\ n \in Nat /\ d \in Nat /\ f \in Nat /\ c \in Nat /\ s \in Nat
  BY LengthsAssumption
<1>3. written = <<>> /\ taken = <<>> /\ length = 0 /\ doing = "serializing"
  BY DEF InitFile
<1>4. FileTypes
  BY <1>1, <1>2, <1>3 DEF FileTypes, SECTIONS
<1> QED
  BY <1>3, <1>4 DEF FileInv, Contiguous, TakenWritten, EndOf

LEMMA WriteSectionOk ==
  ASSUME FileInv, WriteSection
  PROVE  FileInv'
<1>0. PICK n \in Nat : n = Len(written)
  BY DEF FileInv, FileTypes
<1>9. PICK new : new = [start |-> length, end |-> length + Size(n)]
  OBVIOUS
<1>1. /\ FileTypes /\ Contiguous /\ n \in Nat /\ n < SECTIONS
      /\ doing = "serializing" /\ length = EndOf(n) /\ taken = <<>> /\ length \in Nat
      /\ written \in Seq(ByteRanges)
  BY <1>0 DEF FileInv, FileTypes, WriteSection
<1>11. Size(n) \in Nat
  BY <1>1, SizeInNat
<1>2. Size(n) \in Nat /\ new \in ByteRanges
  BY <1>1, <1>9, <1>11 DEF ByteRanges
<1>3. /\ written' = Append(written, new) /\ length' = length + Size(n)
      /\ header' = HeaderOf(tables) /\ UNCHANGED <<doing, tables, taken>>
  BY <1>0, <1>9 DEF WriteSection
<1>4. /\ written' \in Seq(ByteRanges) /\ Len(written') = n + 1
      /\ written'[n + 1] = new /\ \A k \in 1 .. n : written'[k] = written[k]
  BY <1>0, <1>1, <1>2, <1>3
<1>5. FileTypes'
  BY <1>1, <1>2, <1>3, <1>4 DEF FileTypes, SECTIONS
<1>6. \A k \in 0 .. n : EndOf(k)' = EndOf(k)
  BY <1>1, <1>4 DEF EndOf
<1>7. \A k \in Nat : Size(k)' = Size(k)
  BY <1>3 DEF Size
<1>8. Contiguous'
  <2>1. ASSUME NEW k \in 1 .. n + 1
        PROVE  written'[k] = [start |-> EndOf(k - 1)', end |-> EndOf(k - 1)' + Size(k - 1)']
    <3>1. CASE k = n + 1
      <4>1. EndOf(n)' = EndOf(n) /\ Size(n)' = Size(n) /\ k - 1 = n
        BY <3>1, <1>6, <1>7
      <4> QED BY <3>1, <4>1, <1>1, <1>4, <1>9
    <3>2. CASE k \in 1 .. n
      <4>1. /\ EndOf(k - 1)' = EndOf(k - 1) /\ Size(k - 1)' = Size(k - 1)
            /\ k - 1 \in 0 .. n
        BY <3>2, <1>6, <1>7
      <4>2. written[k] = [start |-> EndOf(k - 1), end |-> EndOf(k - 1) + Size(k - 1)]
        BY <3>2, <1>0, <1>1 DEF Contiguous
      <4> QED BY <3>2, <4>1, <4>2, <1>4
    <3> QED BY <3>1, <3>2, <1>1
  <2> QED BY <2>1, <1>4 DEF Contiguous
<1>10. EndOf(n + 1)' = length'
  BY <1>1, <1>3, <1>4, <1>9 DEF EndOf
<1> QED
  BY <1>0, <1>1, <1>3, <1>4, <1>5, <1>8, <1>10 DEF FileInv, TakenWritten, HeaderOf

LEMMA SinkFailsOk ==
  ASSUME FileInv, NEW n \in 0 .. Size(Len(written)), SinkFails(n)
  PROVE  FileInv'
<1>1. /\ FileTypes /\ length = EndOf(Len(written)) /\ taken = <<>>
      /\ Len(written) \in Nat /\ length \in Nat /\ Len(written) < SECTIONS
  BY DEF FileInv, FileTypes, SinkFails
<1>2. Size(Len(written)) \in Nat /\ n \in Nat /\ n < Size(Len(written))
  BY <1>1, SizeInNat DEF SinkFails
<1>3. /\ length' = length + n /\ doing' = "failed"
      /\ UNCHANGED <<tables, header, written, taken>>
  BY DEF SinkFails
<1>4. length' < EndOf(Len(written)) + Size(Len(written))
  BY <1>1, <1>2, <1>3
<1>5. Ends'
  BY <1>1, <1>3, <1>4 DEF Ends, EndOf, Size
<1>6. FileTypes'
  BY <1>1, <1>2, <1>3 DEF FileTypes
<1> QED
  BY <1>3, <1>5, <1>6 DEF FileInv, Contiguous, TakenWritten, EndOf, Size, HeaderOf

LEMMA StartParseOk ==
  ASSUME FileInv, NEW b \in Buffers, NEW trailing \in Trailing \cup {0}, StartParse(b, trailing)
  PROVE  FileInv'
<1>1. /\ FileTypes /\ Ends /\ trailing \in Nat /\ length \in Nat
      /\ doing \in {"written", "failed"} /\ Len(written) \in Nat
      /\ doing = "failed" => trailing = 0
      /\ doing = "written" => Len(written) = SECTIONS
  BY LengthsAssumption DEF FileInv, FileTypes, StartParse
<1>2. /\ doing' = "parsing" /\ length' = length + trailing
      /\ UNCHANGED <<tables, header, written, taken>>
  BY DEF StartParse
<1>3. EndOf(Len(written)) \in Nat
  BY <1>1, EndInNat DEF FileTypes
<1>4. Ends'
  <2>1. /\ EndOf(SECTIONS)' = EndOf(SECTIONS) /\ EndOf(Len(written))' = EndOf(Len(written))
        /\ Size(Len(written))' = Size(Len(written))
    BY <1>2 DEF EndOf, Size
  <2>2. CASE Len(written) = SECTIONS
    <3>1. EndOf(SECTIONS) \in Nat /\ EndOf(SECTIONS) <= length
      BY <1>1, <1>3, <2>2 DEF Ends
    <3> QED BY <1>1, <1>2, <2>1, <2>2, <3>1 DEF Ends
  <2>3. CASE Len(written) < SECTIONS
    <3>2. doing = "failed" /\ trailing = 0
      <4>2. PICK n \in Nat : n = Len(written)
        BY <1>1
      <4>3. n < SECTIONS
        BY <4>2, <2>3
      <4>4. n # SECTIONS
        BY <4>3
      <4>1. Len(written) # SECTIONS
        BY <4>2, <4>4
      <4> QED BY <4>1, <1>1
    <3>1. trailing = 0 /\ length' = length
      BY <1>1, <1>2, <3>2
    <3> QED BY <1>1, <1>2, <2>1, <3>1 DEF Ends
  <2> QED BY <1>1, <2>2, <2>3 DEF Ends
<1>5. FileTypes'
  BY <1>1, <1>2 DEF FileTypes
<1> QED
  BY <1>2, <1>4, <1>5 DEF FileInv, Contiguous, TakenWritten, EndOf, Size, HeaderOf

\* Only a section that was written completely fits.
LEMMA TakeSectionOk ==
  ASSUME FileInv, TakeSection
  PROVE  FileInv'
<1> DEFINE n == Len(taken)
           new == [start |-> Position, end |-> Position + Claimed(n)]
<1>1. /\ FileTypes /\ Contiguous /\ TakenWritten /\ Ends /\ doing = "parsing"
      /\ n \in Nat /\ n < SECTIONS /\ n <= Len(written) /\ Len(written) \in Nat
      /\ taken \in Seq(ByteRanges) /\ length \in Nat
      /\ Position + Claimed(n) <= length
  BY DEF FileInv, FileTypes, TakenWritten, TakeSection, Parsing, Fits
<1>2. Position = EndOf(n)
  BY <1>1 DEF Position, EndOf, TakenWritten
<1>3. EndOf(n) \in Nat
  BY <1>1, EndInNat
<1>4. Claimed(n) = Size(n) /\ Size(n) \in Nat
  <2>1. n = 0 \/ header = HeaderOf(tables)
    BY <1>1 DEF FileInv
  <2> QED BY <2>1, <1>1, ClaimedIsSize, SizeInNat
<1>5. n + 1 <= Len(written)
  <2>1. SUFFICES ASSUME Len(written) = n PROVE FALSE
    BY <1>1
  <2>2. length < EndOf(n) + Size(n)
    BY <1>1, <2>1 DEF Ends
  <2> QED BY <1>1, <1>2, <1>3, <1>4, <2>2
<1>6. written[n + 1] = new
  BY <1>1, <1>2, <1>4, <1>5 DEF Contiguous
<1>7. /\ taken' = Append(taken, new)
      /\ UNCHANGED <<doing, tables, header, written, length>>
  BY DEF TakeSection
<1>8. /\ new \in ByteRanges /\ taken' \in Seq(ByteRanges) /\ Len(taken') = n + 1
      /\ \A k \in 1 .. n : taken'[k] = taken[k] /\ taken'[n + 1] = new
  BY <1>1, <1>2, <1>3, <1>4, <1>7 DEF ByteRanges
<1>9. TakenWritten'
  <2>1. taken'[n + 1] = new
    BY <1>1, <1>7, <1>8
  <2> QED BY <2>1, <1>1, <1>5, <1>6, <1>7, <1>8 DEF TakenWritten
<1>10. FileTypes'
  BY <1>1, <1>7, <1>8 DEF FileTypes
<1> QED
  BY <1>1, <1>7, <1>9, <1>10 DEF FileInv, Contiguous, Ends, EndOf, Size, HeaderOf

LEMMA FileOthersOk ==
  ASSUME FileInv,
         \/ Written \/ Parsed \/ UNCHANGED file_vars
         \/ InvalidHeader \/ InvalidMagic \/ OtherVersion \/ InvalidTables
         \/ UnexpectedStringBytes
  PROVE  FileInv'
<1>1. UNCHANGED <<tables, header, written, length, taken>>
  BY DEF Written, Parsed, InvalidHeader, InvalidMagic, OtherVersion, InvalidTables,
         UnexpectedStringBytes, Refuses, file_vars
<1>2. /\ FileTypes' /\ Contiguous' /\ TakenWritten' /\ Ends' = Ends
      /\ EndOf(Len(written))' = EndOf(Len(written)) /\ HeaderOf(tables)' = HeaderOf(tables)
  BY <1>1 DEF FileInv, FileTypes, Contiguous, TakenWritten, Ends, EndOf, Size, HeaderOf
<1>3. CASE Written
  <2>1. /\ Len(written) = SECTIONS /\ length = EndOf(SECTIONS) /\ length \in Nat
        /\ doing' = "written"
    BY <1>3 DEF Written, FileInv, FileTypes
  <2> QED BY <2>1, <1>1, <1>2 DEF FileInv, Ends
<1>4. CASE Parsed
  BY <1>1, <1>2, <1>4 DEF FileInv, Parsed
<1>5. CASE UNCHANGED file_vars
  BY <1>1, <1>2, <1>5 DEF FileInv, file_vars
<1>6. CASE doing = "parsing" /\ doing' = "refused"
  BY <1>1, <1>2, <1>6 DEF FileInv
<1> QED
  BY <1>3, <1>4, <1>5, <1>6 DEF InvalidHeader, InvalidMagic, OtherVersion, InvalidTables,
     UnexpectedStringBytes, Refuses, Parsing

THEOREM FileInvariant == SpecFile => []FileInv
<1>1. FileInv /\ [NextFile]_file_vars => FileInv'
  BY WriteSectionOk, SinkFailsOk, StartParseOk, TakeSectionOk, FileOthersOk DEF NextFile
<1> QED
  BY <1>1, FileInitOk, PTL DEF SpecFile

\* parse never takes a file that was cut for a whole one, and finds every
\* section of a whole one where serialize has written it.
THEOREM CutFilesRefused == SpecFile => []ParsedAsWritten
<1>1. FileInv => ParsedAsWritten
  <2> SUFFICES ASSUME FileInv, doing = "parsed"
               PROVE  /\ Len(written) = SECTIONS /\ taken = written
                      /\ written[SECTIONS].end <= length
    BY DEF ParsedAsWritten
  <2>1. /\ Len(taken) = SECTIONS /\ Len(written) = SECTIONS
        /\ taken \in Seq(ByteRanges) /\ written \in Seq(ByteRanges)
        /\ \A k \in 1 .. SECTIONS : taken[k] = written[k]
      <3>1. /\ Len(taken) = SECTIONS /\ Len(taken) <= Len(written) /\ Len(written) <= SECTIONS
          /\ taken \in Seq(ByteRanges) /\ written \in Seq(ByteRanges)
          /\ \A k \in 1 .. Len(taken) : taken[k] = written[k]
      BY DEF FileInv, FileTypes, TakenWritten
    <3>2. Len(written) \in Nat
      BY <3>1
    <3> QED BY <3>1, <3>2
  <2>2. taken = written
    BY <2>1, SeqEqual
  <2>3. EndOf(SECTIONS) <= length
    BY <2>1 DEF FileInv, Ends
  <2> QED BY <2>1, <2>2, <2>3 DEF EndOf, SECTIONS
<1> QED
  BY <1>1, FileInvariant, PTL

-----------------------------------------------------------------------------
(* The answers of a reader. *)

EntriesOk == entries \in Seq(Entries)

\* The buckets of the next entry that are read, and the set that is kept.
ReadSoFar ==
  /\ bucket \in Nat
  /\ bucket # 0 => entry < Len(entries) /\ Selected(Test) /\ bucket <= Len(Test.data)
  /\ \A b \in 1 .. bucket : Test.data[b].readable
  /\ call = "iterating" =>
       all_failing_commits = UNION {Test.data[b].failing_commits : b \in 1 .. bucket}

AnswerOf(item) ==
  LET test == entries[item.entry]
  IN /\ item.entry \in 1 .. entry
     /\ Selected(test) /\ test.resolves
     /\ \A b \in DOMAIN test.data : test.data[b].readable
     /\ item.failing_commits = Cardinality(CommitsOf(test))

Items == {collected_tests[k].entry : k \in DOMAIN collected_tests}

AnswersSoFar ==
  /\ \E n \in Nat : DOMAIN collected_tests = 1 .. n
  /\ \A k \in DOMAIN collected_tests : AnswerOf(collected_tests[k])
  /\ \A k, l \in DOMAIN collected_tests :
       k < l => collected_tests[k].entry < collected_tests[l].entry
  /\ Items = {e \in 1 .. entry : Selected(entries[e])}

ReaderInv ==
  /\ EntriesOk
  /\ entry \in 0 .. Len(entries)
  /\ ReadSoFar
  /\ AnswersSoFar
  /\ call = "returned" => entry = Len(entries)

LEMMA ReaderInitOk == InitAggregates => ReaderInv
<1> SUFFICES ASSUME InitAggregates PROVE ReaderInv
  OBVIOUS
<1>1. EntriesOk
  BY AggregatesAssumption DEF InitAggregates, EntriesOk
<1>2. ReadSoFar
  BY DEF InitAggregates, ReadSoFar
<1>3. AnswersSoFar
  BY DEF InitAggregates, AnswersSoFar, Items
<1> QED
  BY <1>1, <1>2, <1>3 DEF InitAggregates, ReaderInv, EntriesOk

LEMMA AnswerStays ==
  ASSUME NEW item, AnswerOf(item), entry \in Nat, entry' \in Nat, entry <= entry',
         UNCHANGED entries
  PROVE  AnswerOf(item)'
<1>1. item.entry \in 1 .. entry'
  BY DEF AnswerOf
<1> QED
  BY <1>1 DEF AnswerOf, Selected, CommitsOf

LEMMA AnswersStay ==
  ASSUME AnswersSoFar, entry \in Nat, UNCHANGED <<entries, entry, collected_tests>>
  PROVE  AnswersSoFar'
<1>1. ASSUME NEW k \in DOMAIN collected_tests PROVE AnswerOf(collected_tests[k])'
  <2>1. PICK item : item = collected_tests[k]
    OBVIOUS
  <2>2. AnswerOf(item)
    BY <2>1 DEF AnswersSoFar
  <2>3. AnswerOf(item)'
    BY <2>2, AnswerStays
  <2> QED BY <2>1, <2>3
<1>2. Items' = Items /\ \A e : Selected(entries[e])' = Selected(entries[e])
  BY DEF Items, Selected
<1> QED
  BY <1>1, <1>2 DEF AnswersSoFar

LEMMA SkipTestOk ==
  ASSUME ReaderInv, SkipTest
  PROVE  ReaderInv'
<1>1. /\ entry \in Nat /\ entry < Len(entries) /\ Len(entries) \in Nat /\ ~ Selected(Test)
      /\ call = "iterating" /\ entry' = entry + 1
      /\ UNCHANGED <<entries, call, bucket, all_failing_commits, collected_tests>>
  BY DEF ReaderInv, EntriesOk, SkipTest, Iterating
<1>2. bucket = 0
  BY <1>1 DEF ReaderInv, ReadSoFar
<1>3. ReadSoFar'
  BY <1>1, <1>2 DEF ReaderInv, ReadSoFar
<1>4. {e \in 1 .. entry + 1 : Selected(entries[e])} = {e \in 1 .. entry : Selected(entries[e])}
  BY <1>1 DEF Test
<1>5. AnswersSoFar'
  <2>1. ASSUME NEW k \in DOMAIN collected_tests PROVE AnswerOf(collected_tests[k])'
    <3>1. PICK item : item = collected_tests[k]
      OBVIOUS
    <3>2. AnswerOf(item)
      BY <3>1 DEF ReaderInv, AnswersSoFar
    <3>3. AnswerOf(item)'
      BY <1>1, <3>2, AnswerStays
    <3> QED BY <1>1, <3>1, <3>3
  <2>2. Items' = {e \in 1 .. entry' : Selected(entries[e])'}
    BY <1>1, <1>4 DEF ReaderInv, AnswersSoFar, Items, Selected
  <2> QED BY <1>1, <2>1, <2>2 DEF ReaderInv, AnswersSoFar
<1> QED
  BY <1>1, <1>3, <1>5 DEF ReaderInv, EntriesOk

LEMMA ReadBucketOk ==
  ASSUME ReaderInv, ReadBucket
  PROVE  ReaderInv'
<1>1. /\ entry < Len(entries) /\ Selected(Test) /\ bucket < Len(Test.data)
      /\ Test.data[bucket + 1].readable /\ call = "iterating"
      /\ bucket \in Nat /\ bucket' = bucket + 1
      /\ all_failing_commits' = all_failing_commits \cup Test.data[bucket + 1].failing_commits
      /\ UNCHANGED <<entries, call, entry, collected_tests>>
  BY DEF ReaderInv, ReadSoFar, ReadBucket, Iterating
<1>2. Test' = Test /\ Selected(Test)' = Selected(Test)
  BY <1>1 DEF Test, Selected
<1>3. Len(Test.data) \in Nat
  BY <1>1 DEF ReaderInv, EntriesOk, Entries, Test
<1>4. ReadSoFar'
  <2>1. UNION {Test.data[b].failing_commits : b \in 1 .. bucket + 1}
          = (UNION {Test.data[b].failing_commits : b \in 1 .. bucket})
              \cup Test.data[bucket + 1].failing_commits
    <3>1. 1 .. bucket + 1 = (1 .. bucket) \cup {bucket + 1}
      BY <1>1
    <3> QED BY <3>1
  <2>2. \A b \in 1 .. bucket + 1 : Test.data[b].readable
    <3>1. ASSUME NEW b \in 1 .. bucket + 1 PROVE b = bucket + 1 \/ b \in 1 .. bucket
      BY <1>1
    <3> QED BY <3>1, <1>1 DEF ReaderInv, ReadSoFar
  <2>3. all_failing_commits = UNION {Test.data[b].failing_commits : b \in 1 .. bucket}
    BY <1>1 DEF ReaderInv, ReadSoFar
  <2>4. bucket + 1 <= Len(Test.data) /\ bucket + 1 \in Nat
    BY <1>1, <1>3
  <2> QED BY <1>1, <1>2, <2>1, <2>2, <2>3, <2>4 DEF ReadSoFar
<1>5. AnswersSoFar'
  BY <1>1, AnswersStay DEF ReaderInv, EntriesOk
<1> QED
  BY <1>1, <1>4, <1>5 DEF ReaderInv, EntriesOk

\* The new item is about the buckets of this entry alone.
LEMMA CollectOk ==
  ASSUME ReaderInv, Collect
  PROVE  ReaderInv'
<1>1. PICK n \in Nat : DOMAIN collected_tests = 1 .. n
  BY DEF ReaderInv, AnswersSoFar
<1>2. PICK new : new = [entry |-> entry + 1,
                        failing_commits |-> Cardinality(all_failing_commits)]
  OBVIOUS
<1>3. /\ entry \in Nat /\ entry < Len(entries) /\ Len(entries) \in Nat
      /\ Selected(Test) /\ Test.resolves /\ bucket = Len(Test.data) /\ bucket \in Nat
      /\ call = "iterating"
      /\ all_failing_commits' = {} /\ bucket' = 0 /\ entry' = entry + 1
      /\ UNCHANGED <<entries, call>>
  BY DEF ReaderInv, EntriesOk, ReadSoFar, Collect, FromDataDone, Iterating
<1>4. collected_tests' = Append(collected_tests, new)
  BY <1>2 DEF Collect
<1>5. /\ DOMAIN collected_tests' = 1 .. n + 1 /\ collected_tests'[n + 1] = new
      /\ \A k \in 1 .. n : collected_tests'[k] = collected_tests[k]
  <2>1. Len(collected_tests) = n
    BY <1>1
  <2> QED BY <1>1, <1>4, <2>1
<1>6. ReadSoFar'
  BY <1>3 DEF ReadSoFar
<1>7. CommitsOf(Test) = all_failing_commits /\ \A b \in DOMAIN Test.data : Test.data[b].readable
  <2>1. DOMAIN Test.data = 1 .. bucket
    BY <1>3 DEF ReaderInv, EntriesOk, Entries, Test
  <2> QED BY <1>3, <2>1 DEF ReaderInv, ReadSoFar, CommitsOf
<1>8. AnswerOf(new)'
  <2>1. new.entry = entry + 1 /\ new.failing_commits = Cardinality(CommitsOf(Test))
    BY <1>2, <1>7
  <2>2. entries'[new.entry] = Test /\ new.entry \in 1 .. entry'
    BY <1>3, <2>1 DEF Test
  <2> QED BY <1>3, <1>7, <2>1, <2>2 DEF AnswerOf, Selected, CommitsOf
<1>9. ASSUME NEW k \in 1 .. n
      PROVE  AnswerOf(collected_tests[k])' /\ collected_tests[k].entry \in 1 .. entry
  <2>1. PICK item : item = collected_tests[k]
    OBVIOUS
  <2>2. AnswerOf(item)
    BY <1>1, <2>1 DEF ReaderInv, AnswersSoFar
  <2>3. AnswerOf(item)'
    BY <1>3, <2>2, AnswerStays
  <2> QED BY <1>5, <2>1, <2>2, <2>3 DEF AnswerOf
<1>10. \A k \in 1 .. n + 1 : k = n + 1 \/ k \in 1 .. n
  BY <1>1
<1>11. Items' = {e \in 1 .. entry' : Selected(entries[e])'}
  <2>1. Items' = Items \cup {entry + 1}
    <3>1. 1 .. n + 1 = (1 .. n) \cup {n + 1}
      BY <1>1
    <3>2. new.entry = entry + 1
      BY <1>2
    <3> QED BY <1>1, <1>5, <3>1, <3>2 DEF Items
  <2>2. 1 .. entry' = (1 .. entry) \cup {entry + 1}
    BY <1>3
  <2>3. Selected(entries[entry + 1])
    BY <1>3 DEF Test
  <2>4. Items = {e \in 1 .. entry : Selected(entries[e])}
    BY DEF ReaderInv, AnswersSoFar
  <2> QED BY <1>3, <2>1, <2>2, <2>3, <2>4 DEF Selected
<1>12. AnswersSoFar'
  <2>1. \A k \in 1 .. n + 1 : AnswerOf(collected_tests[k])'
    BY <1>5, <1>8, <1>9, <1>10 DEF AnswerOf
  <2>2. ASSUME NEW k \in 1 .. n + 1, NEW l \in 1 .. n + 1, k < l
        PROVE  collected_tests'[k].entry < collected_tests'[l].entry
    <3>1. k \in 1 .. n /\ collected_tests'[k].entry = collected_tests[k].entry
      BY <1>1, <1>5, <2>2
    <3>2. CASE l = n + 1
      <4>1. collected_tests'[l].entry = entry + 1
        BY <1>2, <1>5, <3>2
      <4> QED BY <1>3, <1>9, <3>1, <4>1
    <3>3. CASE l \in 1 .. n
      BY <1>1, <1>5, <2>2, <3>1, <3>3 DEF ReaderInv, AnswersSoFar
    <3> QED BY <1>10, <3>2, <3>3
  <2> QED BY <1>5, <1>11, <2>1, <2>2 DEF AnswersSoFar
<1> QED
  BY <1>3, <1>6, <1>12 DEF ReaderInv, EntriesOk

LEMMA ReaderOthersOk ==
  ASSUME ReaderInv, BucketFails \/ Unresolved \/ ReturnTests \/ UNCHANGED aggregate_vars
  PROVE  ReaderInv'
<1>1. /\ UNCHANGED <<entries, entry, bucket, collected_tests>>
      /\ call' = "iterating" => call = "iterating" /\ UNCHANGED all_failing_commits
      /\ call' = "returned" => entry = Len(entries)
  BY DEF BucketFails, Unresolved, FromDataDone, ReturnTests, aggregate_vars, ReaderInv
<1>2. Test' = Test /\ Selected(Test)' = Selected(Test)
  BY <1>1 DEF Test, Selected
<1>3. ReadSoFar'
  BY <1>1, <1>2 DEF ReaderInv, ReadSoFar
<1>4. AnswersSoFar'
  BY <1>1, AnswersStay DEF ReaderInv, EntriesOk
<1> QED
  BY <1>1, <1>3, <1>4 DEF ReaderInv, EntriesOk

\* What one test leaves behind never counts for the next, in files of any size.
THEOREM EachAnswerIsItsOwn == SpecAggregates => []AnswersApart
<1>1. ReaderInv /\ [NextAggregates]_aggregate_vars => ReaderInv'
  BY SkipTestOk, ReadBucketOk, CollectOk, ReaderOthersOk DEF NextAggregates
<1>2. ReaderInv => AnswersApart
  BY DEF ReaderInv, EntriesOk, AnswersSoFar, AnswerOf, Items, AnswersApart
<1> QED
  BY <1>1, <1>2, ReaderInitOk, PTL DEF SpecAggregates
=============================================================================
