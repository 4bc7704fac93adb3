--------------------------- MODULE RunHistoryProofs ---------------------------
(***************************************************************************)
(* The history only watches: a behaviour of RunHistory is one of           *)
(* TestAnalytics, whose theorems therefore hold of it.  The invariant of   *)
(* the history follows what the buckets say of a test on a day through     *)
(* every step, and with it that no run is invented and none is forgotten.  *)
(***************************************************************************)
EXTENDS RunHistory, TestAnalyticsProofs

LEMMA InitWatches == InitH => Init
  BY DEF InitH

LEMMA StepWatches == NextH => Next
<1> SUFFICES ASSUME NextH PROVE Next  OBVIOUS
<1>1. ASSUME NEW num_days \in Windows, NewH(num_days) PROVE Next
  BY <1>1 DEF NewH, Next
<1>2. ASSUME NEW f \in DOMAIN files, NEW now \in ClockTimes, OpenH(f, now) PROVE Next
  BY <1>2 DEF OpenH, Next
<1>3. CASE SerializeH  BY <1>3 DEF SerializeH, Next
<1>4. ASSUME NEW timestamp \in Times, NEW commit \in Commits, NEW flags \in FlagSets,
             StartSessionH(timestamp, commit, flags)
      PROVE  Next
  BY <1>4 DEF StartSessionH, Next
<1>5. ASSUME NEW test \in Tests, NEW outcome \in Outcomes,
             \/ InsertNewH(test, outcome)
             \/ InsertNewerH(test, outcome)
             \/ InsertHistoricH(test, outcome)
             \/ InsertExpiredH(test, outcome)
      PROVE  Next
  BY <1>5 DEF InsertNewH, InsertNewerH, InsertHistoricH, InsertExpiredH, Next
<1>6. ASSUME NEW f \in DOMAIN files, NEW g \in DOMAIN files, NEW now \in ClockTimes,
             MergeBeginH(f, g, now)
      PROVE  Next
  BY <1>6 DEF MergeBeginH, Next
<1>7. CASE MergeRecordH  BY <1>7 DEF MergeRecordH, Next
<1>8. CASE StepH(MergePanics) \/ StepH(MergeEnd)  BY <1>8 DEF StepH, Next
<1>9. CASE UnwindH  BY <1>9 DEF UnwindH, Next
<1>10. ASSUME NEW num_days \in Windows, NEW timestamp \in ClockTimes,
              NEW threshold \in Thresholds \cup {DefaultThreshold},
              \/ StepH(RewriteSkip(num_days, timestamp, threshold))
              \/ RewriteBeginH(num_days, timestamp, threshold)
       PROVE  Next
  BY <1>10 DEF StepH, RewriteBeginH, Next
<1>11. CASE StepH(RewriteDead) \/ StepH(RewriteLive) \/ StepH(RewriteEnd)
  BY <1>11 DEF StepH, Next
<1> QED
  BY <1>1, <1>2, <1>3, <1>4, <1>5, <1>6, <1>7, <1>8, <1>9, <1>10, <1>11 DEF NextH

\* Watching the writer does not restrict or change what it does.
THEOREM HistoryWatches == SpecH => Spec
<1>1. [NextH]_hvars => [Next]_vars  BY StepWatches DEF hvars
<1> QED  BY <1>1, InitWatches, PTL DEF SpecH, Spec

\* The inductive invariant of the writer holds whatever its history.
THEOREM InvariantWithHistory == SpecH => []IInv
  BY HistoryWatches, Invariant, PTL

-----------------------------------------------------------------------------
(* Bucket by bucket: what the steps of insert, merge and rewrite do to the  *)
(* buckets of the record they are about.                                    *)

\* Bucket j of record i; 0 is the newest.
BucketAt(t, i, j) == t.testdata[RecordRange(t, i).start + j + 1]

LEMMA BucketInData ==
  ASSUME NEW t, GoodTable(t), NEW i \in DOMAIN t.tests, NEW j \in 0 .. t.num_days - 1
  PROVE  /\ RecordRange(t, i).start + j + 1 \in DOMAIN t.testdata
         /\ RecordRange(t, i).start + j + 1 \in Indices(RecordRange(t, i))
         /\ BucketAt(t, i, j) \in TestData
<1>1. /\ RecordRange(t, i).start \in Nat
      /\ RecordRange(t, i).end = RecordRange(t, i).start + t.num_days
      /\ RecordRange(t, i).end <= Len(t.testdata)
  BY RecordInData
<1>2. /\ t.testdata \in Seq(TestData) /\ t.num_days \in Nat /\ Len(t.testdata) \in Nat
      /\ DOMAIN t.testdata = 1 .. Len(t.testdata)
  BY DEF GoodTable, Table
<1>3. RecordRange(t, i).start + j + 1 \in 1 .. Len(t.testdata)
  BY <1>1, <1>2
<1>4. RecordRange(t, i).start + j + 1 \in Indices(RecordRange(t, i))
  BY <1>1, <1>2 DEF Indices
<1>5. BucketAt(t, i, j) \in TestData
  BY <1>2, <1>3, ElementOfSeq DEF BucketAt
<1> QED  BY <1>2, <1>3, <1>4, <1>5

LEMMA LatestIsNewestBucket ==
  ASSUME NEW t, GoodTable(t), NEW i \in DOMAIN t.tests
  PROVE  Latest(t, i) = BucketAt(t, i, 0).last_timestamp
<1>1. RecordRange(t, i).start \in Nat  BY RecordInData
<1>2. RecordRange(t, i).start + 0 + 1 = RecordRange(t, i).start + 1  BY <1>1
<1> QED  BY <1>2 DEF Latest, BucketAt

LEMMA InsertFullBucketAt ==
  ASSUME NEW t, GoodTable(t), NEW key \in Keys, NEW j \in 0 .. t.num_days - 1
  PROVE  LET w == InsertFull(t, key)
         IN BucketAt(w, IndexOf(w, key), j) =
              IF key \in KeysOf(t) THEN BucketAt(t, IndexOf(t, key), j) ELSE NoData
<1> DEFINE w == InsertFull(t, key)
           i == IndexOf(w, key)
<1>1. /\ GoodTable(w) /\ w.num_days = t.num_days /\ i \in DOMAIN w.tests
      /\ key \in KeysOf(t) => i = IndexOf(t, key)
      /\ key \notin KeysOf(t) => i = Len(t.tests) + 1
  BY InsertFullProperties
<1>2. /\ t \in Table /\ t.testdata \in Seq(TestData) /\ t.num_days \in Nat \ {0}
      /\ Len(t.tests) \in Nat /\ Len(t.testdata) \in Nat
  BY DEF GoodTable, Table
<1>3. CASE key \in KeysOf(t)
  <2>1. w.testdata = t.testdata  BY <1>2, <1>3 DEF InsertFull, Table
  <2> HIDE DEF w, i
  <2>2. RecordRange(w, i) = RecordRange(t, IndexOf(t, key))
    BY <1>1, <1>3 DEF RecordRange
  <2>3. BucketAt(w, i, j) = BucketAt(t, IndexOf(t, key), j)
    BY <2>1, <2>2 DEF BucketAt
  <2> QED  BY <1>3, <2>3 DEF w, i
<1>4. CASE key \notin KeysOf(t)
  <2> DEFINE len == (Len(t.tests) + 1) * t.num_days
  <2>1. w.testdata = Resize(t.testdata, len)  BY <1>2, <1>4 DEF InsertFull, Table
  <2>2. RecordRange(w, i).start = Len(t.tests) * t.num_days
    <3>1. RecordRange(w, i).start = (i - 1) * w.num_days  BY DEF RecordRange
    <3>2. i - 1 = Len(t.tests)  BY <1>1, <1>2, <1>4
    <3> QED  BY <1>1, <3>1, <3>2
  <2>3. Len(t.testdata) = Len(t.tests) * t.num_days  BY DEF GoodTable, BucketsLaidOut
  <2>4. len = Len(t.testdata) + t.num_days /\ len \in Nat
    BY <1>2, <2>3, OneMoreRecord
  <2> HIDE DEF w, i, len
  <2> DEFINE at == Len(t.testdata) + j + 1
  <2>5. at \in 1 .. len /\ ~ (at <= Len(t.testdata))  BY <1>2, <2>4
  <2>6. Resize(t.testdata, len)[at] = NoData
    BY <1>2, <2>4, <2>5, ResizeProperties
  <2>7. BucketAt(w, i, j) = NoData  BY <2>1, <2>2, <2>3, <2>6 DEF BucketAt
  <2> QED  BY <1>4, <2>7 DEF w, i
<1> QED  BY <1>3, <1>4

LEMMA ShiftRecordBucketAt ==
  ASSUME NEW t, GoodTable(t), NEW i \in DOMAIN t.tests, NEW off \in Nat,
         NEW j \in 0 .. t.num_days - 1
  PROVE  BucketAt(ShiftRecord(t, i, off), i, j) =
           IF j < off THEN NoData ELSE BucketAt(t, i, j - off)
<1> DEFINE r == RecordRange(t, i)
           data == ShiftData(t.testdata, r, off, NoData)
           w == ShiftRecord(t, i, off)
           at == r.start + j + 1
<1>1. /\ t \in Table /\ t.testdata \in Seq(TestData) /\ t.num_days \in Nat \ {0}
      /\ DOMAIN t.testdata = 1 .. Len(t.testdata)
  BY DEF GoodTable, Table
<1>2. r \in [start : Nat, end : Nat] /\ r.start \in Nat
  <2>1. r.start \in Nat /\ r.end = r.start + t.num_days  BY RecordInData
  <2> QED  BY <1>1, <2>1 DEF RecordRange
<1>3. at \in 1 .. Len(t.testdata) /\ at \in Indices(r)
  BY <1>1, BucketInData
<1>4. w.testdata = data /\ w.num_days = t.num_days
  BY <1>1 DEF ShiftRecord, Table
<1>5. RecordRange(w, i) = r  BY <1>4 DEF RecordRange
<1>6. data[at] = IF at \notin Indices(r) THEN t.testdata[at]
                 ELSE IF at - r.start <= off THEN NoData
                 ELSE t.testdata[at - off]
  <2>1. r.end <= Len(t.testdata)  BY RecordInData
  <2> QED  BY <1>1, <1>2, <1>3, <2>1, ShiftDataProperties
<1> HIDE DEF w, data, r
<1>7. at - r.start <= off <=> j < off  BY <1>2
<1>8. at - off = r.start + (j - off) + 1  BY <1>2
<1>9. BucketAt(w, i, j) = data[at]  BY <1>4, <1>5 DEF BucketAt
<1>10. BucketAt(t, i, j - off) = t.testdata[at - off]  BY <1>8 DEF BucketAt, r
<1> QED  BY <1>3, <1>6, <1>7, <1>9, <1>10 DEF w

LEMMA SetValidDataBucketAt ==
  ASSUME NEW t \in Table, NEW i, NEW v, NEW k, NEW j
  PROVE  BucketAt([t EXCEPT !.tests[i].valid_data = v], k, j) = BucketAt(t, k, j)
  BY DEF BucketAt, RecordRange, Table

LEMMA InsertIntoBucketAt ==
  ASSUME NEW t, GoodTable(t), NEW i \in DOMAIN t.tests, NEW j \in 0 .. t.num_days - 1,
         NEW s, NEW outcome, NEW k \in 0 .. t.num_days - 1
  PROVE  BucketAt(InsertInto(t, i, j, s, outcome), i, k) =
           IF k = j THEN CountRun(BucketAt(t, i, j), t.timestamp, outcome, s.commit)
                    ELSE BucketAt(t, i, k)
<1> DEFINE start == RecordRange(t, i).start
           w == InsertInto(t, i, j, s, outcome)
           bucket == CountRun(BucketAt(t, i, j), t.timestamp, outcome, s.commit)
<1>1. t \in Table /\ start \in Nat /\ t.num_days \in Nat
  BY RecordInData DEF GoodTable, Table
<1>2. start + j + 1 \in DOMAIN t.testdata /\ start + k + 1 \in DOMAIN t.testdata
  BY BucketInData
<1>3. w.testdata = [t.testdata EXCEPT ![start + j + 1] = bucket] /\ w.num_days = t.num_days
  BY <1>1 DEF InsertInto, Table, BucketAt
<1>4. RecordRange(w, i).start = start  BY <1>3 DEF RecordRange
<1> HIDE DEF w, bucket, start
<1>5. start + k + 1 = start + j + 1 <=> k = j  BY <1>1
<1>6. w.testdata[start + k + 1] = IF k = j THEN bucket ELSE t.testdata[start + k + 1]
  BY <1>2, <1>3, <1>5
<1> QED  BY <1>4, <1>6 DEF BucketAt, w, bucket, start

\* How many buckets merge takes of the record, and what it moves: the record of
\* the writer when the other one is newer, and else the buckets it merges in.
MergeSize == MaxOf(0, MinOf(writer.num_days - MergeOffset, source.num_days))
MergeShift == IF SmallerIsNewer THEN MergeOffset ELSE 0
MergeMove == IF SmallerIsNewer THEN 0 ELSE MergeOffset

\* Bucket j of the record of the writer, before and after the shift.
MergeOld(j) == IF MergeKey \in KeysOf(writer)
               THEN BucketAt(writer, IndexOf(writer, MergeKey), j)
               ELSE NoData
MergeMoved(j) == IF j < MergeShift THEN NoData ELSE MergeOld(j - MergeShift)

LEMMA MergeSelection ==
  ASSUME MergePre
  PROVE  LET start == RecordRange(source, next).start
             to == RecordRange(writer, MergeIndex).start + MergeMove
         IN /\ MergeSize \in Nat /\ MergeMove \in Nat /\ MergeShift \in Nat
            /\ MergeFrom = [start |-> start, end |-> start + MergeSize]
            /\ MergeTo = [start |-> to, end |-> to + MergeSize]
<1> DEFINE r == RecordRange(source, next)
           n == writer.num_days
           d == source.num_days
           wanted == [start |-> 0, end |-> n]
           to == RecordRange(writer, MergeIndex).start + MergeMove
<1>1. n \in Nat \ {0} /\ d \in Nat \ {0}  BY DEF MergePre, GoodTable, Table
<1>2. MergeOffset \in Nat /\ RecordRange(writer, MergeIndex).start \in Nat  BY MergeRanges
<1>3. r.start \in Nat /\ r.end = r.start + d  BY RecordInData DEF MergePre
<1>4. MergeSize \in Nat /\ MergeMove \in Nat /\ MergeShift \in Nat
  BY <1>1, <1>2 DEF MergeSize, MergeMove, MergeShift, MaxOf, MinOf
<1>5. MergeFrom = AdjustSelectionRange(r, wanted, MergeOffset)  BY DEF MergeFrom
<1> HIDE DEF r, n, d
<1>6. /\ Clamp(SaturatingSub(r.start + 0, MergeOffset), r) = r.start
      /\ Clamp(SaturatingSub(r.start + n, MergeOffset), r)
           = r.start + MaxOf(0, MinOf(n - MergeOffset, d))
  BY <1>1, <1>2, <1>3 DEF Clamp, SaturatingSub, MaxOf, MinOf
<1>7. MergeFrom = [start |-> r.start, end |-> r.start + MergeSize]
  BY <1>5, <1>6 DEF AdjustSelectionRange, MergeSize, n, d
<1>8. MergeFrom.end - MergeFrom.start = MergeSize  BY <1>3, <1>4, <1>7
<1>9. MergeTo = [start |-> to, end |-> to + MergeSize]
  BY <1>8 DEF MergeTo, MergeMove
<1> QED  BY <1>4, <1>7, <1>9 DEF r

LEMMA MergeShiftedBucketAt ==
  ASSUME MergePre, NEW j \in 0 .. writer.num_days - 1
  PROVE  BucketAt(MergeShifted, MergeIndex, j) = MergeMoved(j)
<1> DEFINE shifted == IF SmallerIsNewer
                      THEN ShiftRecord(MergeTarget, MergeIndex, MergeOffset)
                      ELSE MergeTarget
           covered == MergeTo.end - RecordRange(writer, MergeIndex).start
           v == MinOf(MaxOf(shifted.tests[MergeIndex].valid_data, covered), writer.num_days)
<1>1. /\ GoodTable(MergeTarget) /\ MergeIndex \in DOMAIN MergeTarget.tests
      /\ MergeOffset \in Nat /\ MergeTarget.num_days = writer.num_days
      /\ writer.num_days \in Nat
  BY MergeRanges DEF MergePre, GoodTable, Table
<1>2. \A k \in 0 .. writer.num_days - 1 : BucketAt(MergeTarget, MergeIndex, k) = MergeOld(k)
  <2>1. source.tests[next] \in Test  BY ElementOfSeq DEF MergePre, GoodTable, Table
  <2>2. MergeKey \in Keys  BY <2>1 DEF MergeKey, Test
  <2> QED  BY <2>2, InsertFullBucketAt DEF MergePre, MergeTarget, MergeIndex, MergeOld
<1>3. BucketAt(shifted, MergeIndex, j) = MergeMoved(j)
  <2>1. CASE SmallerIsNewer
    <3>1. BucketAt(shifted, MergeIndex, j) =
            IF j < MergeOffset THEN NoData ELSE BucketAt(MergeTarget, MergeIndex, j - MergeOffset)
      BY <2>1, <1>1, ShiftRecordBucketAt
    <3>2. ~ (j < MergeOffset) => j - MergeOffset \in 0 .. writer.num_days - 1  BY <1>1
    <3> QED  BY <2>1, <1>2, <3>1, <3>2 DEF MergeMoved, MergeShift
  <2>2. CASE ~ SmallerIsNewer
    <3>1. j - 0 = j /\ ~ (j < 0)  OBVIOUS
    <3> QED  BY <2>2, <1>2, <3>1 DEF MergeMoved, MergeShift
  <2> QED  BY <2>1, <2>2
<1>4. shifted \in Table
  <2>1. CASE SmallerIsNewer
    BY <2>1, <1>1, ShiftRecordProperties DEF SameShape, GoodTable
  <2>2. CASE ~ SmallerIsNewer  BY <2>2, <1>1 DEF GoodTable
  <2> QED  BY <2>1, <2>2
<1>5. MergeShifted = [shifted EXCEPT !.tests[MergeIndex].valid_data = v]
  BY DEF MergeShifted
<1> HIDE DEF shifted, v
<1>6. MergeShifted.testdata = shifted.testdata /\ MergeShifted.num_days = shifted.num_days
  BY <1>4, <1>5 DEF Table
<1>7. BucketAt(MergeShifted, MergeIndex, j) = BucketAt(shifted, MergeIndex, j)
  BY <1>6 DEF BucketAt, RecordRange
<1> QED  BY <1>3, <1>7

LEMMA MergeRecordBucketAt ==
  ASSUME MergePre, MergeRecord, NEW j \in 0 .. writer.num_days - 1
  PROVE  BucketAt(writer', MergeIndex, j) =
           IF j \in MergeMove .. MergeMove + MergeSize - 1
           THEN MergeData(MergeMoved(j), BucketAt(source, next, j - MergeMove))
           ELSE MergeMoved(j)
<1> DEFINE start == RecordRange(writer, MergeIndex).start
           from == RecordRange(source, next).start
           old == MergeShifted.testdata
           at == start + j + 1
<1>1. /\ MergeSize \in Nat /\ MergeMove \in Nat
      /\ MergeFrom.start = from
      /\ MergeTo.start = start + MergeMove /\ MergeTo.end = start + MergeMove + MergeSize
  BY MergeSelection
<1>2. start \in Nat /\ from \in Nat
  BY MergeRanges, RecordInData DEF MergePre
<1>3. /\ GoodTable(MergeShifted) /\ MergeIndex \in DOMAIN MergeShifted.tests
      /\ MergeShifted.num_days = writer.num_days
  BY MergeRanges, MergeShiftedProperties DEF SameShape
<1>4. RecordRange(MergeShifted, MergeIndex).start = start  BY <1>3 DEF RecordRange
<1>5. at \in DOMAIN old /\ old[at] = MergeMoved(j)
  BY <1>3, <1>4, BucketInData, MergeShiftedBucketAt DEF BucketAt
<1>6. writer'.testdata = MergeBuckets(old) /\ writer'.num_days = writer.num_days
  BY <1>3 DEF MergeRecord, GoodTable, Table
<1>7. BucketAt(writer', MergeIndex, j) = MergeBuckets(old)[at]
  BY <1>6 DEF BucketAt, RecordRange
<1> HIDE DEF old, start, from
<1>8. MergeBuckets(old)[at] =
        IF at \in Indices(MergeTo)
        THEN MergeData(old[at], source.testdata[at - MergeTo.start + MergeFrom.start])
        ELSE old[at]
  BY <1>5 DEF MergeBuckets
<1>9. at \in Indices(MergeTo) <=> j \in MergeMove .. MergeMove + MergeSize - 1
  BY <1>1, <1>2 DEF Indices
<1>10. at - MergeTo.start + MergeFrom.start = from + (j - MergeMove) + 1
  BY <1>1, <1>2
<1>11. BucketAt(source, next, j - MergeMove)
         = source.testdata[at - MergeTo.start + MergeFrom.start]
  BY <1>10 DEF BucketAt, from
<1> QED  BY <1>5, <1>7, <1>8, <1>9, <1>11

LEMMA RewriteLiveBucketAt ==
  ASSUME GoodTable(writer), GoodTable(source), next \in DOMAIN source.tests, RewriteLive,
         NEW j \in 0 .. writer.num_days - 1
  PROVE  BucketAt(writer', Len(writer.tests) + 1, j) =
           IF j < source.num_days THEN BucketAt(source, next, j) ELSE NoData
<1> DEFINE start == RecordRange(source, next).start
           overlap == MinOf(source.num_days, writer.num_days)
           len == (Len(writer.tests) + 1) * writer.num_days
           all == writer.testdata \o KeptBuckets
           at == Len(writer.testdata) + j + 1
<1>1. /\ writer \in Table /\ Len(writer.tests) \in Nat
      /\ writer.testdata \in Seq(TestData) /\ Len(writer.testdata) \in Nat
      /\ writer.num_days \in Nat \ {0} /\ source.num_days \in Nat \ {0}
      /\ source.testdata \in Seq(TestData) /\ Len(source.testdata) \in Nat
      /\ DOMAIN source.testdata = 1 .. Len(source.testdata)
  BY DEF GoodTable, Table
<1>2. /\ start \in Nat
      /\ start + source.num_days <= Len(source.testdata)
  BY RecordInData
<1>3. overlap \in Nat /\ overlap <= source.num_days  BY <1>1 DEF MinOf
<1>4. j < overlap <=> j < source.num_days  BY <1>1 DEF MinOf
<1>5. KeptBuckets = SubSeq(source.testdata, start + 1, start + overlap)
  BY DEF KeptBuckets
<1> HIDE DEF start, overlap
<1>6. \A b \in start + 1 .. start + overlap : source.testdata[b] \in TestData
  <2> SUFFICES ASSUME NEW b \in start + 1 .. start + overlap
               PROVE  source.testdata[b] \in TestData
    OBVIOUS
  <2>1. b \in 1 .. Len(source.testdata)  BY <1>1, <1>2, <1>3
  <2> QED  BY <1>1, <2>1, ElementOfSeq
<1>7. /\ KeptBuckets \in Seq(TestData)
      /\ Len(KeptBuckets) = overlap
      /\ \A k \in 1 .. overlap : KeptBuckets[k] = source.testdata[start + k]
  <2> DEFINE kept == SubSeq(source.testdata, start + 1, start + overlap)
  <2>1. /\ kept \in Seq(TestData)
        /\ Len(kept) = IF start + 1 <= start + overlap
                       THEN (start + overlap) - (start + 1) + 1 ELSE 0
        /\ \A k \in 1 .. (start + overlap) - (start + 1) + 1 :
             kept[k] = source.testdata[(start + 1) + k - 1]
    BY <1>2, <1>3, <1>6, SubSeqProperties
  <2>4. KeptBuckets = kept  BY <1>5
  <2> HIDE DEF kept
  <2>2. (start + overlap) - (start + 1) + 1 = overlap  BY <1>2, <1>3
  <2>3. \A k \in 1 .. overlap : (start + 1) + k - 1 = start + k  BY <1>2, <1>3
  <2> QED  BY <2>1, <2>2, <2>3, <2>4, <1>2, <1>3
<1>8. /\ all \in Seq(TestData)
      /\ Len(all) = Len(writer.testdata) + overlap
      /\ at <= Len(all) => all[at] = KeptBuckets[j + 1]
  <2>1. /\ all \in Seq(TestData)
        /\ Len(all) = Len(writer.testdata) + Len(KeptBuckets)
        /\ \A b \in 1 .. Len(writer.testdata) + Len(KeptBuckets) :
             all[b] = IF b <= Len(writer.testdata) THEN writer.testdata[b]
                      ELSE KeptBuckets[b - Len(writer.testdata)]
    BY <1>1, <1>7, ConcatProperties, ZenonT(30)
  <2> HIDE DEF all
  <2>2. j \in Nat /\ Len(writer.testdata) \in Nat  BY <1>1
  <2>3. at - Len(writer.testdata) = j + 1
    <3> DEFINE n == Len(writer.testdata)
    <3>1. n \in Nat /\ j \in Nat  BY <2>2
    <3> HIDE DEF n
    <3>2. (n + j + 1) - n = j + 1  BY <3>1
    <3> QED  BY <3>2 DEF n
  <2>4. ~ (at <= Len(writer.testdata)) /\ at \in Nat /\ 1 <= at  BY <2>2
  <2>5. Len(all) = Len(writer.testdata) + overlap  BY <1>7, <2>1
  <2>6. ASSUME at <= Len(all) PROVE all[at] = KeptBuckets[j + 1]
    <3>1. at \in 1 .. Len(writer.testdata) + Len(KeptBuckets)
      BY <1>3, <1>7, <2>1, <2>2, <2>4, <2>6
    <3> QED  BY <2>1, <2>3, <2>4, <3>1
  <2> QED  BY <2>1, <2>5, <2>6
<1>9. Len(writer.testdata) = Len(writer.tests) * writer.num_days
  BY DEF GoodTable, BucketsLaidOut
<1>10. len \in Nat /\ at \in 1 .. len
  <2>1. len = Len(writer.testdata) + writer.num_days  BY <1>1, <1>9, OneMoreRecord
  <2> HIDE DEF len
  <2> QED  BY <1>1, <2>1
<1>11. /\ writer'.num_days = writer.num_days
       /\ writer'.testdata = Resize(all, len)
  BY <1>1 DEF RewriteLive, RewrittenData, Table
<1> HIDE DEF all, len
<1>12. Resize(all, len)[at] = IF at <= Len(all) THEN all[at] ELSE NoData
  BY <1>8, <1>10, ResizeProperties
<1>13. at <= Len(all) <=> j < source.num_days  BY <1>1, <1>3, <1>4, <1>8
<1>14. BucketAt(writer', Len(writer.tests) + 1, j) = writer'.testdata[at]
  <2>1. (Len(writer.tests) + 1) - 1 = Len(writer.tests)  BY <1>1
  <2> QED  BY <1>9, <1>11, <2>1 DEF BucketAt, RecordRange
<1>15. j < source.num_days => KeptBuckets[j + 1] = BucketAt(source, next, j)
  <2>1. j < source.num_days => j + 1 \in 1 .. overlap  BY <1>3, <1>4
  <2>2. start + (j + 1) = start + j + 1  BY <1>2
  <2> QED  BY <1>7, <2>1, <2>2 DEF BucketAt, start
<1> QED  BY <1>8, <1>11, <1>12, <1>13, <1>14, <1>15

-----------------------------------------------------------------------------
(* Day by day: what a table says of a test on a day.                        *)

\* The bucket of record i for a day, if it has one.
StoredIn(t, i, day) ==
  LET age == Day(Latest(t, i)) - day
  IN IF age \in 0 .. t.num_days - 1 THEN BucketAt(t, i, age) ELSE NoData

LEMMA StoredInRecord ==
  ASSUME NEW t, GoodTable(t), NEW i \in DOMAIN t.tests, NEW key, t.tests[i].key = key, NEW day
  PROVE  /\ key \in KeysOf(t) /\ IndexOf(t, key) = i
         /\ StoredOn(t, key, day) = StoredIn(t, i, day)
<1>1. key \in KeysOf(t)  BY DEF KeysOf
<1>2. IndexOf(t, key) = i  BY <1>1, IndexOfKnown DEF GoodTable, UniqueKeys
<1> QED  BY <1>1, <1>2 DEF StoredOn, StoredIn, BucketAt

LEMMA StoredType ==
  ASSUME NEW t, GoodTable(t), NEW key, NEW day \in Int
  PROVE  StoredOn(t, key, day) \in TestData
<1>1. CASE key \notin KeysOf(t)  BY <1>1, NoDataType DEF StoredOn
<1>2. CASE key \in KeysOf(t)
  <2> DEFINE i == IndexOf(t, key)
             age == Day(Latest(t, i)) - day
  <2>1. i \in DOMAIN t.tests /\ t.tests[i].key = key  BY <1>2, IndexOfKnown
  <2>2. StoredOn(t, key, day) = IF age \in 0 .. t.num_days - 1 THEN BucketAt(t, i, age) ELSE NoData
    BY <2>1, StoredInRecord DEF StoredIn
  <2> HIDE DEF i, age
  <2>3. age \in 0 .. t.num_days - 1 => BucketAt(t, i, age) \in TestData
    BY <2>1, BucketInData
  <2> QED  BY <2>2, <2>3, NoDataType
<1> QED  BY <1>1, <1>2

LEMMA SameShapeKeys ==
  ASSUME NEW t, NEW w, SameShape(w, t)
  PROVE  KeysOf(w) = KeysOf(t)
  BY DEF SameShape, KeysOf

LEMMA InsertFullKeys ==
  ASSUME NEW t, GoodTable(t), NEW key \in Keys
  PROVE  LET w == InsertFull(t, key)
         IN /\ KeysOf(w) = KeysOf(t) \cup {key}
            /\ w.tests[IndexOf(w, key)].key = key
<1> DEFINE w == InsertFull(t, key)
           record == [key |-> key, valid_data |-> 1]
<1>1. CASE key \in KeysOf(t)
  <2>1. /\ GoodTable(w) /\ Len(w.tests) = Len(t.tests)
        /\ \A i \in DOMAIN t.tests : w.tests[i].key = t.tests[i].key
    BY <1>1, ReplacedRecord
  <2> HIDE DEF w
  <2>2. DOMAIN w.tests = DOMAIN t.tests  BY <2>1 DEF GoodTable, Table
  <2>3. KeysOf(w) = KeysOf(t)  BY <2>1, <2>2 DEF KeysOf
  <2> QED  BY <1>1, <2>3, IndexOfKnown DEF w
<1>2. CASE key \notin KeysOf(t)
  <2> DEFINE len == (Len(t.tests) + 1) * t.num_days
             data == Resize(t.testdata, len)
  <2>1. /\ t.testdata \in Seq(TestData) /\ len \in Nat
    BY DEF GoodTable, Table
  <2>2. w = [t EXCEPT !.tests = Append(t.tests, record), !.testdata = data]
    BY <1>2 DEF InsertFull
  <2>3. data \in Seq(TestData) /\ Len(data) = (Len(t.tests) + 1) * t.num_days
    BY <2>1, ResizeProperties
  <2>4. record \in Test /\ record.key = key  BY DEF Test
  <2> HIDE DEF w, data, record
  <2>5. AddsRecord(w, t, record, data)  BY <1>2, <2>2, <2>3, <2>4 DEF AddsRecord
  <2>6. KeysOf(w) = KeysOf(t) \cup {key}  BY <2>4, <2>5, AppendedRecord
  <2> QED  BY <2>6, IndexOfKnown DEF w
<1> QED  BY <1>1, <1>2

\* A change of one record, or a new one, leaves what is said of other tests.
LEMMA OtherKeysStored ==
  ASSUME NEW t, GoodTable(t), NEW w, GoodTable(w), NEW i, OnlyRecord(w, t, i),
         NEW key, KeysOf(w) \subseteq KeysOf(t) \cup {key},
         i \in DOMAIN t.tests => t.tests[i].key = key,
         NEW k, k # key, NEW day
  PROVE  StoredOn(w, k, day) = StoredOn(t, k, day)
<1>1. /\ DOMAIN t.tests = 1 .. Len(t.tests) /\ Len(t.tests) \in Nat
      /\ DOMAIN w.tests = 1 .. Len(w.tests) /\ Len(w.tests) \in Nat
      /\ t.num_days \in Nat \ {0}
  BY DEF GoodTable, Table
<1>2. DOMAIN t.tests \subseteq DOMAIN w.tests  BY <1>1 DEF OnlyRecord
<1>3. CASE k \in KeysOf(t)
  <2> DEFINE j == IndexOf(t, k)
  <2>1. j \in DOMAIN t.tests /\ t.tests[j].key = k  BY <1>3, IndexOfKnown
  <2>2. j # i  BY <2>1
  <2> HIDE DEF j
  <2>3. j \in DOMAIN w.tests /\ w.tests[j].key = k  BY <1>2, <2>1 DEF OnlyRecord
  <2>4. RecordRange(w, j) = RecordRange(t, j) /\ w.num_days = t.num_days
    BY DEF OnlyRecord, RecordRange
  <2>5. \A b \in Indices(RecordRange(t, j)) : w.testdata[b] = t.testdata[b]
    BY <2>1, <2>2 DEF OnlyRecord
  <2>6. \A a \in 0 .. t.num_days - 1 : BucketAt(w, j, a) = BucketAt(t, j, a)
    BY <2>1, <2>4, <2>5, BucketInData DEF BucketAt
  <2>7. Latest(w, j) = Latest(t, j)
    <3>1. 0 \in 0 .. t.num_days - 1  BY <1>1
    <3> QED  BY <2>1, <2>3, <2>6, <3>1, LatestIsNewestBucket
  <2>8. StoredIn(w, j, day) = StoredIn(t, j, day)
    BY <2>4, <2>6, <2>7 DEF StoredIn
  <2> QED  BY <2>1, <2>3, <2>8, StoredInRecord
<1>4. CASE k \notin KeysOf(t)  BY <1>4 DEF StoredOn
<1> QED  BY <1>3, <1>4

-----------------------------------------------------------------------------
(* insert *)

\* Bucket j of the record of the test, before the session.
KnownBucket(test, j) ==
  IF Known(test) THEN BucketAt(writer, KnownIndex(test), j) ELSE NoData

Inserted(test, outcome) ==
  \/ InsertNew(test, outcome)
  \/ InsertNewer(test, outcome)
  \/ InsertHistoric(test, outcome)

CountedIn(data, outcome) == CountRun(data, writer.timestamp, outcome, session.commit)

\* The place of the record of the test in the writer after an insert.
InsertIndex(test) == IndexOf(InsertFull(writer, SessionKey(test)), SessionKey(test))

LEMMA InsertsBucketAt ==
  ASSUME IInv, NEW test \in Tests, NEW outcome \in Outcomes, NEW k \in 0 .. writer.num_days - 1
  PROVE  /\ InsertNew(test, outcome) =>
              BucketAt(writer', InsertIndex(test), k) =
                IF k = 0 THEN CountedIn(NoData, outcome) ELSE NoData
         /\ InsertNewer(test, outcome) =>
              LET off == OffsetFromToday(KnownLatest(test), session.timestamp)
                  old(j) == IF j < off THEN NoData ELSE KnownBucket(test, j - off)
              IN BucketAt(writer', InsertIndex(test), k) =
                   IF k = 0 THEN CountedIn(old(0), outcome) ELSE old(k)
         /\ InsertHistoric(test, outcome) =>
              BucketAt(writer', InsertIndex(test), k) =
                IF k = HistoricOffset(test) THEN CountedIn(KnownBucket(test, k), outcome)
                                            ELSE KnownBucket(test, k)
<1> DEFINE w == InsertFull(writer, SessionKey(test))
           i == IndexOf(w, SessionKey(test))
<1>0. ASSUME phase = "session"
      PROVE  /\ GoodTable(w) /\ NoneAfter(w, w.timestamp) /\ w \in Table
             /\ w.num_days = writer.num_days /\ w.num_days \in Nat \ {0}
             /\ w.timestamp = writer.timestamp
             /\ i \in DOMAIN w.tests /\ session.timestamp \in Nat
             /\ Known(test) => i = KnownIndex(test) /\ KnownLatest(test) \in Nat
             /\ ~ Known(test) => i = Len(writer.tests) + 1
             /\ \A j \in 0 .. writer.num_days - 1 : BucketAt(w, i, j) = KnownBucket(test, j)
  <2>1. /\ GoodTable(w) /\ NoneAfter(w, w.timestamp)
        /\ w.num_days = writer.num_days /\ w.num_days \in Nat \ {0}
        /\ w.timestamp = writer.timestamp
        /\ i \in DOMAIN w.tests /\ session.timestamp \in Nat
        /\ Known(test) => i = KnownIndex(test) /\ KnownLatest(test) \in Nat
        /\ ~ Known(test) => i = Len(writer.tests) + 1
    BY <1>0, InsertTarget
  <2>2. GoodTable(writer) /\ SessionKey(test) \in Keys
    <3>1. StateSound(phase, writer, session, source, next, files)  BY IInvIsSound
    <3> QED  BY <3>1, <1>0 DEF StateSound, SoundTable, SessionKey, Keys, Session
  <2>3. \A j \in 0 .. writer.num_days - 1 : BucketAt(w, i, j) = KnownBucket(test, j)
    BY <2>2, InsertFullBucketAt DEF KnownBucket, Known, KnownIndex
  <2> QED  BY <2>1, <2>3 DEF GoodTable
<1>1. i = InsertIndex(test)  BY DEF InsertIndex
<1> HIDE DEF w, i
<1>2. ASSUME InsertNew(test, outcome)
      PROVE  BucketAt(writer', i, k) = IF k = 0 THEN CountedIn(NoData, outcome) ELSE NoData
  <2>1. phase = "session" /\ ~ Known(test)  BY <1>2 DEF InsertNew
  <2>2. writer' = InsertInto(w, i, 0, session, outcome)
    BY <1>0, <1>2, <2>1 DEF InsertNew, w
  <2>3. 0 \in 0 .. w.num_days - 1 /\ k \in 0 .. w.num_days - 1  BY <1>0, <2>1
  <2>4. BucketAt(w, i, 0) = NoData /\ BucketAt(w, i, k) = NoData
    BY <1>0, <2>1, <2>3 DEF KnownBucket
  <2> QED  BY <1>0, <2>1, <2>2, <2>3, <2>4, InsertIntoBucketAt DEF CountedIn
<1>3. ASSUME InsertNewer(test, outcome)
      PROVE  LET off == OffsetFromToday(KnownLatest(test), session.timestamp)
                 old(j) == IF j < off THEN NoData ELSE KnownBucket(test, j - off)
             IN BucketAt(writer', i, k) = IF k = 0 THEN CountedIn(old(0), outcome) ELSE old(k)
  <2> DEFINE off == OffsetFromToday(KnownLatest(test), session.timestamp)
             shifted == ShiftRecord(w, i, off)
             old(j) == IF j < off THEN NoData ELSE KnownBucket(test, j - off)
  <2>1. phase = "session" /\ Known(test) /\ off \in Nat
    BY <1>0, <1>3, OffsetIsNatural DEF InsertNewer
  <2>2. writer' = InsertInto(shifted, i, 0, session, outcome)
    BY <1>0, <1>3, <2>1 DEF InsertNewer, w
  <2> HIDE DEF off
  <2>3. SameShape(shifted, w)  BY <1>0, <2>1, ShiftRecordProperties
  <2>4. ASSUME NEW j \in 0 .. writer.num_days - 1
        PROVE  BucketAt(shifted, i, j) = old(j)
    <3>1. BucketAt(shifted, i, j) = IF j < off THEN NoData ELSE BucketAt(w, i, j - off)
      BY <1>0, <2>1, ShiftRecordBucketAt
    <3>2. ~ (j < off) => j - off \in 0 .. writer.num_days - 1  BY <1>0, <2>1
    <3> QED  BY <1>0, <2>1, <3>1, <3>2
  <2> HIDE DEF shifted
  <2>5. /\ GoodTable(shifted) /\ i \in DOMAIN shifted.tests
        /\ shifted.num_days = writer.num_days /\ shifted.timestamp = writer.timestamp
    BY <1>0, <2>1, <2>3 DEF SameShape
  <2>6. 0 \in 0 .. shifted.num_days - 1 /\ k \in 0 .. shifted.num_days - 1
        /\ 0 \in 0 .. writer.num_days - 1
    BY <1>0, <2>1, <2>5
  <2>7. BucketAt(writer', i, k) =
          IF k = 0 THEN CountRun(BucketAt(shifted, i, 0), shifted.timestamp, outcome, session.commit)
                   ELSE BucketAt(shifted, i, k)
    BY <2>2, <2>5, <2>6, InsertIntoBucketAt
  <2>8. BucketAt(writer', i, k) = IF k = 0 THEN CountedIn(old(0), outcome) ELSE old(k)
    BY <2>4, <2>5, <2>6, <2>7 DEF CountedIn
  <2> QED  BY <2>8 DEF off
<1>4. ASSUME InsertHistoric(test, outcome)
      PROVE  BucketAt(writer', i, k) =
               IF k = HistoricOffset(test) THEN CountedIn(KnownBucket(test, k), outcome)
                                           ELSE KnownBucket(test, k)
  <2> DEFINE off == HistoricOffset(test)
             v == HistoricValidData(w.tests[i].valid_data, off)
             valid == [w EXCEPT !.tests[i].valid_data = v]
  <2>1. phase = "session" /\ Known(test)  BY <1>4 DEF InsertHistoric, Historic
  <2>2. off \in Nat /\ off < writer.num_days
    BY <1>0, <1>4, <2>1, OffsetIsNatural DEF InsertHistoric, Historic, HistoricOffset
  <2>3. writer' = InsertInto(valid, i, off, session, outcome)
    BY <1>0, <1>4, <2>1 DEF InsertHistoric, w
  <2> HIDE DEF off
  <2>4. v \in Nat
    <3>1. w.tests[i] \in Test  BY <1>0, <2>1, ElementOfSeq DEF GoodTable, Table
    <3> QED  BY <2>2, <3>1 DEF HistoricValidData, MaxOf, Test
  <2> HIDE DEF v
  <2>5. SameShape(valid, w) /\ valid.testdata = w.testdata
    BY <1>0, <2>1, <2>4, SetValidData
  <2> HIDE DEF valid
  <2>6. /\ GoodTable(valid) /\ i \in DOMAIN valid.tests
        /\ valid.num_days = writer.num_days /\ valid.timestamp = writer.timestamp
        /\ \A j \in 0 .. writer.num_days - 1 : BucketAt(valid, i, j) = KnownBucket(test, j)
    BY <1>0, <2>1, <2>5 DEF SameShape, BucketAt, RecordRange
  <2>7. off \in 0 .. valid.num_days - 1 /\ k \in 0 .. valid.num_days - 1
    BY <1>0, <2>1, <2>2, <2>6
  <2>8. BucketAt(writer', i, k) =
          IF k = off THEN CountRun(BucketAt(valid, i, off), valid.timestamp, outcome, session.commit)
                     ELSE BucketAt(valid, i, k)
    BY <2>3, <2>6, <2>7, InsertIntoBucketAt
  <2>9. BucketAt(writer', i, k) = IF k = off THEN CountedIn(KnownBucket(test, k), outcome)
                                             ELSE KnownBucket(test, k)
    BY <2>6, <2>7, <2>8 DEF CountedIn
  <2> QED  BY <2>9 DEF off
<1> QED  BY <1>1, <1>2, <1>3, <1>4

LEMMA InsertsShape ==
  ASSUME IInv, NEW test \in Tests, NEW outcome \in Outcomes, Inserted(test, outcome)
  PROVE  /\ GoodTable(writer) /\ GoodTable(writer') /\ SessionKey(test) \in Keys
         /\ writer'.num_days = writer.num_days /\ writer'.timestamp = writer.timestamp
         /\ KeysOf(writer') = KeysOf(writer) \cup {SessionKey(test)}
         /\ InsertIndex(test) \in DOMAIN writer'.tests
         /\ writer'.tests[InsertIndex(test)].key = SessionKey(test)
         /\ OnlyRecord(writer', writer, InsertIndex(test))
         /\ InsertIndex(test) \in DOMAIN writer.tests =>
              writer.tests[InsertIndex(test)].key = SessionKey(test)
<1> DEFINE w == InsertFull(writer, SessionKey(test))
           i == IndexOf(w, SessionKey(test))
<1>1. phase = "session"
  BY DEF Inserted, InsertNew, InsertNewer, InsertHistoric, Historic
<1>2. GoodTable(writer) /\ SessionKey(test) \in Keys
  <2>1. StateSound(phase, writer, session, source, next, files)  BY IInvIsSound
  <2> QED  BY <2>1 DEF StateSound, SoundTable, SessionKey, Keys, Session
<1>3. SameShape(writer', w) /\ OnlyRecord(writer', writer, i)
  BY InsertsOnlyOne DEF Inserted
<1>4. /\ w.num_days = writer.num_days /\ w.timestamp = writer.timestamp
      /\ i \in DOMAIN w.tests
  BY <1>1, InsertTarget
<1>5. KeysOf(w) = KeysOf(writer) \cup {SessionKey(test)} /\ w.tests[i].key = SessionKey(test)
  BY <1>2, InsertFullKeys
<1>6. KeysOf(writer') = KeysOf(w)  BY <1>3, SameShapeKeys
<1>7. i = InsertIndex(test)  BY DEF InsertIndex
<1> HIDE DEF w, i
<1>8. i \in DOMAIN writer'.tests /\ writer'.tests[i].key = SessionKey(test)
  BY <1>3, <1>4, <1>5 DEF SameShape
<1>9. i \in DOMAIN writer.tests => writer.tests[i].key = SessionKey(test)
  BY <1>3, <1>8 DEF OnlyRecord
<1> QED  BY <1>2, <1>3, <1>4, <1>5, <1>6, <1>7, <1>8, <1>9 DEF SameShape

\* A run is timely when it is counted on the day of its session: it is in the
\* newest bucket only if the writer is on that day, too.
Newest(test) ==
  \/ ~ Known(test)
  \/ KnownLatest(test) < session.timestamp
  \/ HistoricOffset(test) = 0
Timely(test) == Newest(test) => Day(session.timestamp) = Day(writer.timestamp)

LEMMA DayType == ASSUME NEW t \in Nat PROVE Day(t) \in Nat
  BY DayMonotone

LEMMA CountRunLatest ==
  ASSUME NEW data \in TestData, NEW now \in Nat, data.last_timestamp <= now, NEW outcome, NEW commit
  PROVE  CountRun(data, now, outcome, commit).last_timestamp = now
  BY DEF CountRun, TestData, MaxOf

\* What an insert makes of the day of the session, and of another one.
StoresRun(key, outcome, day) ==
  LET old == StoredOn(writer, key, day)
      new == StoredOn(writer, key, day)'
  IN /\ day = Day(session.timestamp) => new = CountedIn(old, outcome)
     /\ day # Day(session.timestamp) =>
          /\ new \in {old, NoData}
          /\ Day(writer.timestamp) - day < writer.num_days => new = old

LEMMA KnownStored ==
  ASSUME IInv, phase = "session", NEW test \in Tests, NEW day \in Int
  PROVE  /\ Known(test) =>
              /\ KnownLatest(test) \in Nat /\ KnownLatest(test) <= writer.timestamp
              /\ Day(KnownLatest(test)) \in Nat
              /\ KnownLatest(test) = KnownBucket(test, 0).last_timestamp
              /\ \A j \in 0 .. writer.num_days - 1 : KnownBucket(test, j) \in TestData
              /\ StoredOn(writer, SessionKey(test), day) =
                   LET age == Day(KnownLatest(test)) - day
                   IN IF age \in 0 .. writer.num_days - 1 THEN KnownBucket(test, age) ELSE NoData
         /\ ~ Known(test) => StoredOn(writer, SessionKey(test), day) = NoData
         /\ session.timestamp \in Nat /\ writer.timestamp \in Nat
         /\ writer.num_days \in Nat \ {0}
         /\ session.timestamp <= writer.timestamp
         /\ Day(session.timestamp) \in Nat /\ Day(writer.timestamp) \in Nat
         /\ Day(session.timestamp) <= Day(writer.timestamp)
<1> DEFINE i == KnownIndex(test)
           key == SessionKey(test)
<1>1. /\ GoodTable(writer) /\ NoneAfter(writer, writer.timestamp)
      /\ writer.timestamp \in Nat /\ writer.num_days \in Nat \ {0}
      /\ session.timestamp \in Nat /\ session.timestamp <= writer.timestamp
  <2>1. StateSound(phase, writer, session, source, next, files)  BY IInvIsSound
  <2> QED  BY <2>1 DEF StateSound, SoundTable, GoodTable, Table, Session
<1>2. /\ Day(session.timestamp) \in Nat /\ Day(writer.timestamp) \in Nat
      /\ Day(session.timestamp) <= Day(writer.timestamp)
  BY <1>1, DayMonotone
<1>3. ~ Known(test) => StoredOn(writer, key, day) = NoData
  BY DEF Known, StoredOn
<1>4. ASSUME Known(test)
      PROVE  /\ KnownLatest(test) \in Nat /\ KnownLatest(test) <= writer.timestamp
             /\ Day(KnownLatest(test)) \in Nat
             /\ KnownLatest(test) = KnownBucket(test, 0).last_timestamp
             /\ \A j \in 0 .. writer.num_days - 1 : KnownBucket(test, j) \in TestData
             /\ StoredOn(writer, key, day) =
                  LET age == Day(KnownLatest(test)) - day
                  IN IF age \in 0 .. writer.num_days - 1 THEN KnownBucket(test, age) ELSE NoData
  <2>1. i \in DOMAIN writer.tests /\ writer.tests[i].key = key
    BY <1>4, IndexOfKnown DEF Known, KnownIndex
  <2>2. KnownLatest(test) = Latest(writer, i)  BY DEF KnownLatest
  <2>3. \A j : KnownBucket(test, j) = BucketAt(writer, i, j)  BY <1>4 DEF KnownBucket
  <2> HIDE DEF i, key
  <2>4. Latest(writer, i) \in Nat  BY <1>1, <2>1, RecordInData
  <2>5. Latest(writer, i) = BucketAt(writer, i, 0).last_timestamp
    BY <1>1, <2>1, LatestIsNewestBucket
  <2>6. Latest(writer, i) <= writer.timestamp
    <3>1. 0 \in 0 .. writer.num_days - 1  BY <1>1
    <3>2. RecordRange(writer, i).start + 0 + 1 \in DOMAIN writer.testdata
      BY <1>1, <2>1, <3>1, BucketInData
    <3> QED  BY <1>1, <2>5, <3>2 DEF NoneAfter, BucketAt
  <2>7. StoredOn(writer, key, day) = StoredIn(writer, i, day)
    BY <1>1, <2>1, StoredInRecord
  <2>8. \A j \in 0 .. writer.num_days - 1 : BucketAt(writer, i, j) \in TestData
    BY <1>1, <2>1, BucketInData
  <2>9. Day(Latest(writer, i)) \in Nat  BY <2>4, DayType
  <2> QED  BY <2>2, <2>3, <2>4, <2>5, <2>6, <2>7, <2>8, <2>9 DEF StoredIn
<1> QED  BY <1>1, <1>2, <1>3, <1>4

LEMMA InsertNewStored ==
  ASSUME IInv, NEW test \in Tests, NEW outcome \in Outcomes, InsertNew(test, outcome),
         Timely(test), NEW day \in Int
  PROVE  StoresRun(SessionKey(test), outcome, day)
<1> DEFINE i == InsertIndex(test)
           n == writer.num_days
           s == session.timestamp
           now == writer.timestamp
           counted == CountedIn(NoData, outcome)
<1>1. phase = "session" /\ ~ Known(test)  BY DEF InsertNew
<1>2. /\ n \in Nat \ {0} /\ now \in Nat /\ Day(s) = Day(now) /\ Day(now) \in Nat
      /\ StoredOn(writer, SessionKey(test), day) = NoData
  BY <1>1, KnownStored DEF Timely, Newest
<1>3. /\ GoodTable(writer') /\ i \in DOMAIN writer'.tests
      /\ writer'.tests[i].key = SessionKey(test) /\ writer'.num_days = n
  BY InsertsShape DEF Inserted
<1>4. \A k \in 0 .. n - 1 : BucketAt(writer', i, k) = IF k = 0 THEN counted ELSE NoData
  BY InsertsBucketAt
<1>5. counted.last_timestamp = now
  <2>1. NoData.last_timestamp <= now  BY <1>2 DEF NoData
  <2> QED  BY <1>2, <2>1, NoDataType, CountRunLatest DEF CountedIn
<1>6. Latest(writer', i) = now
  <2>1. 0 \in 0 .. n - 1  BY <1>2
  <2> QED  BY <1>3, <1>4, <1>5, <2>1, LatestIsNewestBucket
<1>7. StoredOn(writer', SessionKey(test), day) = StoredIn(writer', i, day)
  BY <1>3, StoredInRecord
<1>8. (StoredOn(writer, SessionKey(test), day))' = StoredOn(writer', SessionKey(test), day)
  BY DEF InsertNew, SessionKey, StoredOn
<1>9. StoredIn(writer', i, day) =
        LET age == Day(now) - day IN IF age \in 0 .. n - 1 THEN BucketAt(writer', i, age) ELSE NoData
  BY <1>3, <1>6 DEF StoredIn
<1> HIDE DEF i, n, s, now, counted
<1>10. StoredIn(writer', i, day) = IF day = Day(s) THEN counted ELSE NoData
  BY <1>2, <1>4, <1>9
<1> QED  BY <1>2, <1>7, <1>8, <1>10 DEF StoresRun, s, counted

LEMMA InsertNewerStored ==
  ASSUME IInv, NEW test \in Tests, NEW outcome \in Outcomes, InsertNewer(test, outcome),
         Timely(test), NEW day \in Int
  PROVE  StoresRun(SessionKey(test), outcome, day)
<1> DEFINE i == InsertIndex(test)
           n == writer.num_days
           s == session.timestamp
           now == writer.timestamp
           kl == KnownLatest(test)
           off == OffsetFromToday(kl, s)
           old(j) == IF j < off THEN NoData ELSE KnownBucket(test, j - off)
           counted == CountedIn(old(0), outcome)
           stored == StoredOn(writer, SessionKey(test), day)
<1>1. phase = "session" /\ Known(test) /\ kl < s  BY DEF InsertNewer
<1>2. /\ n \in Nat \ {0} /\ now \in Nat /\ s \in Nat /\ kl \in Nat /\ kl <= now
      /\ Day(s) = Day(now) /\ Day(now) \in Nat /\ Day(kl) \in Nat
      /\ kl = KnownBucket(test, 0).last_timestamp
      /\ \A j \in 0 .. n - 1 : KnownBucket(test, j) \in TestData
      /\ stored = LET age == Day(kl) - day
                  IN IF age \in 0 .. n - 1 THEN KnownBucket(test, age) ELSE NoData
  BY <1>1, KnownStored DEF Timely, Newest
<1>3. off \in Nat /\ Day(s) = Day(kl) + off
  BY <1>1, <1>2, OffsetIsNatural DEF OffsetFromToday
<1>4. /\ GoodTable(writer') /\ i \in DOMAIN writer'.tests
      /\ writer'.tests[i].key = SessionKey(test) /\ writer'.num_days = n
  BY InsertsShape DEF Inserted
<1>5. \A k \in 0 .. n - 1 : BucketAt(writer', i, k) = IF k = 0 THEN counted ELSE old(k)
  BY InsertsBucketAt
<1>6. counted.last_timestamp = now
  <2>1. old(0) \in TestData /\ old(0).last_timestamp <= now
    <3>1. CASE 0 < off  BY <3>1, <1>2, NoDataType DEF NoData
    <3>2. CASE ~ (0 < off)
      <4>1. 0 - off = 0 /\ 0 \in 0 .. n - 1  BY <3>2, <1>2, <1>3
      <4> HIDE DEF off, kl
      <4> QED  BY <3>2, <4>1, <1>2
    <3> QED  BY <3>1, <3>2
  <2> HIDE DEF old
  <2> QED  BY <1>2, <2>1, CountRunLatest DEF CountedIn
<1>7. Latest(writer', i) = now
  <2>1. 0 \in 0 .. n - 1  BY <1>2
  <2> HIDE DEF counted, old
  <2> QED  BY <1>4, <1>5, <1>6, <2>1, LatestIsNewestBucket
<1>8. StoredOn(writer', SessionKey(test), day) = StoredIn(writer', i, day)
  BY <1>4, StoredInRecord
<1>9. (StoredOn(writer, SessionKey(test), day))' = StoredOn(writer', SessionKey(test), day)
  BY DEF InsertNewer, SessionKey, StoredOn
<1>10. StoredIn(writer', i, day) =
         LET age == Day(now) - day IN IF age \in 0 .. n - 1 THEN BucketAt(writer', i, age) ELSE NoData
  BY <1>4, <1>7 DEF StoredIn
<1> DEFINE new == StoredIn(writer', i, day)
<1>11. day = Day(s) => new = counted /\ old(0) = stored
  <2> SUFFICES ASSUME day = Day(s) PROVE new = counted /\ old(0) = stored  OBVIOUS
  <2>1. Day(now) - day = 0 /\ 0 \in 0 .. n - 1  BY <1>2
  <2>2. new = counted  BY <1>5, <1>10, <2>1
  <2>3. Day(kl) - day = 0 - off  BY <1>2, <1>3
  <2>4. CASE 0 < off
    <3>1. ~ (0 - off \in 0 .. n - 1)  BY <2>4, <1>2, <1>3
    <3> HIDE DEF off, kl
    <3> QED  BY <2>2, <2>3, <2>4, <3>1, <1>2
  <2>5. CASE ~ (0 < off)
    <3>1. 0 - off \in 0 .. n - 1  BY <2>5, <1>2, <1>3
    <3> HIDE DEF off, kl
    <3> QED  BY <2>2, <2>3, <2>5, <3>1, <1>2
  <2> QED  BY <2>4, <2>5
<1>12. day # Day(s) => new \in {stored, NoData} /\ (Day(now) - day < n => new = stored)
  <2> SUFFICES ASSUME day # Day(s)
               PROVE  new \in {stored, NoData} /\ (Day(now) - day < n => new = stored)
    OBVIOUS
  <2> DEFINE age == Day(now) - day
  <2> HIDE DEF off, kl, n, now, s, stored, counted, i, new
  <2>1. age \in Int /\ age # 0 /\ Day(kl) - day = age - off  BY <1>2, <1>3
  <2>2. new = IF age \in 0 .. n - 1 THEN BucketAt(writer', i, age) ELSE NoData
    BY <1>10 DEF new
  <2>3. stored = IF age - off \in 0 .. n - 1 THEN KnownBucket(test, age - off) ELSE NoData
    BY <1>2, <2>1
  <2> HIDE DEF age
  <2>4. CASE age \in 0 .. n - 1
    <3>1. new = old(age)  BY <1>5, <2>1, <2>2, <2>4
    <3>2. age < off => ~ (age - off \in 0 .. n - 1)  BY <1>2, <1>3, <2>4
    <3>3. ~ (age < off) => age - off \in 0 .. n - 1  BY <1>2, <1>3, <2>4
    <3> QED  BY <2>3, <3>1, <3>2, <3>3
  <2>5. CASE ~ (age \in 0 .. n - 1)
    <3>1. new = NoData  BY <2>2, <2>5
    <3>2. age < n => ~ (age - off \in 0 .. n - 1)  BY <1>2, <1>3, <2>1, <2>5
    <3> QED  BY <2>3, <3>1, <3>2 DEF age
  <2> QED  BY <2>4, <2>5
<1> HIDE DEF i, n, s, now, new, stored, counted, old
<1>13. StoredOn(writer, SessionKey(test), day)' = new  BY <1>8, <1>9 DEF new
<1> QED  BY <1>11, <1>12, <1>13 DEF StoresRun, s, stored, counted, now, n

LEMMA InsertHistoricStored ==
  ASSUME IInv, NEW test \in Tests, NEW outcome \in Outcomes, InsertHistoric(test, outcome),
         Timely(test), NEW day \in Int
  PROVE  StoresRun(SessionKey(test), outcome, day)
<1> DEFINE i == InsertIndex(test)
           n == writer.num_days
           s == session.timestamp
           now == writer.timestamp
           kl == KnownLatest(test)
           off == HistoricOffset(test)
           counted == CountedIn(KnownBucket(test, off), outcome)
           stored == StoredOn(writer, SessionKey(test), day)
<1>1. phase = "session" /\ Known(test) /\ kl >= s /\ off < n
  BY DEF InsertHistoric, Historic
<1>2. /\ n \in Nat \ {0} /\ now \in Nat /\ s \in Nat /\ kl \in Nat /\ kl <= now
      /\ Day(s) \in Nat /\ Day(now) \in Nat /\ Day(kl) \in Nat
      /\ kl = KnownBucket(test, 0).last_timestamp
      /\ \A j \in 0 .. n - 1 : KnownBucket(test, j) \in TestData
      /\ stored = LET age == Day(kl) - day
                  IN IF age \in 0 .. n - 1 THEN KnownBucket(test, age) ELSE NoData
  BY <1>1, KnownStored
<1>3. off \in Nat /\ Day(kl) = Day(s) + off
  BY <1>1, <1>2, OffsetIsNatural DEF OffsetFromToday, HistoricOffset
<1>4. off = 0 => Day(s) = Day(now)  BY DEF Timely, Newest
<1>5. /\ GoodTable(writer') /\ i \in DOMAIN writer'.tests
      /\ writer'.tests[i].key = SessionKey(test) /\ writer'.num_days = n
  BY InsertsShape DEF Inserted
<1>6. \A k \in 0 .. n - 1 : BucketAt(writer', i, k) =
         IF k = off THEN CountedIn(KnownBucket(test, k), outcome) ELSE KnownBucket(test, k)
  BY InsertsBucketAt
<1>7. Day(Latest(writer', i)) = Day(kl)
  <2>1. 0 \in 0 .. n - 1  BY <1>2
  <2>2. Latest(writer', i) = BucketAt(writer', i, 0).last_timestamp
    BY <1>5, LatestIsNewestBucket
  <2>3. CASE off = 0
    <3>1. BucketAt(writer', i, 0) = CountedIn(KnownBucket(test, 0), outcome)
      BY <1>6, <2>1, <2>3
    <3>2. KnownBucket(test, 0) \in TestData /\ KnownBucket(test, 0).last_timestamp <= now
      BY <1>2, <2>1
    <3>3. CountedIn(KnownBucket(test, 0), outcome).last_timestamp = now
      BY <1>2, <3>2, CountRunLatest DEF CountedIn
    <3>4. Day(kl) = Day(now)  BY <1>2, <1>3, <1>4, <2>3
    <3> QED  BY <2>2, <3>1, <3>3, <3>4
  <2>4. CASE off # 0
    <3>1. BucketAt(writer', i, 0) = KnownBucket(test, 0)  BY <1>6, <2>1, <2>4
    <3> QED  BY <2>2, <3>1, <1>2
  <2> QED  BY <2>3, <2>4
<1>8. StoredOn(writer', SessionKey(test), day) = StoredIn(writer', i, day)
  BY <1>5, StoredInRecord
<1>9. (StoredOn(writer, SessionKey(test), day))' = StoredOn(writer', SessionKey(test), day)
  BY DEF InsertHistoric, SessionKey, StoredOn
<1> DEFINE age == Day(kl) - day
<1>10. StoredIn(writer', i, day) = IF age \in 0 .. n - 1 THEN BucketAt(writer', i, age) ELSE NoData
  BY <1>5, <1>7 DEF StoredIn
<1>11. age = off <=> day = Day(s)  BY <1>2, <1>3
<1>12. off \in 0 .. n - 1  BY <1>1, <1>2, <1>3
<1> DEFINE new == StoredIn(writer', i, day)
<1> HIDE DEF i, n, s, now, kl, off, stored
<1>13. stored = IF age \in 0 .. n - 1 THEN KnownBucket(test, age) ELSE NoData  BY <1>2
<1> HIDE DEF age, new
<1>14. new = IF age = off THEN CountedIn(stored, outcome) ELSE stored
  BY <1>6, <1>10, <1>12, <1>13 DEF new
<1>15. StoredOn(writer, SessionKey(test), day)' = new  BY <1>8, <1>9 DEF new
<1> QED  BY <1>11, <1>14, <1>15 DEF StoresRun, s, stored, now, n

LEMMA InsertExpiredStored ==
  ASSUME IInv, NEW test \in Tests, InsertExpired(test), NEW key, NEW day \in Int
  PROVE  StoredOn(writer, key, day)' = StoredOn(writer', key, day)
         /\ StoredOn(writer', key, day) = StoredOn(writer, key, day)
<1> DEFINE k == SessionKey(test)
           i == IndexOf(writer', k)
<1>1. phase = "session" /\ Known(test) /\ writer' = InsertFull(writer, k)
  BY DEF InsertExpired, Historic
<1>2. GoodTable(writer) /\ k \in Keys
  <2>1. StateSound(phase, writer, session, source, next, files)  BY IInvIsSound
  <2> QED  BY <1>1, <2>1 DEF StateSound, SoundTable, SessionKey, Keys, Session
<1>3. k \in KeysOf(writer)  BY <1>1 DEF Known
<1>4. /\ GoodTable(writer') /\ writer'.num_days = writer.num_days
      /\ writer'.testdata = writer.testdata
      /\ \A j \in DOMAIN writer.tests : writer'.tests[j].key = writer.tests[j].key
      /\ i = IndexOf(writer, k) /\ Len(writer'.tests) = Len(writer.tests)
  BY <1>1, <1>2, <1>3, ReplacedRecord
<1>5. DOMAIN writer'.tests = DOMAIN writer.tests  BY <1>2, <1>4 DEF GoodTable, Table
<1> HIDE DEF i
<1>6. KeysOf(writer') = KeysOf(writer)  BY <1>4, <1>5 DEF KeysOf
<1>7. CASE key \in KeysOf(writer)
  <2> DEFINE j == IndexOf(writer, key)
  <2>1. j \in DOMAIN writer.tests /\ writer.tests[j].key = key  BY <1>7, IndexOfKnown
  <2> HIDE DEF j
  <2>2. StoredOn(writer, key, day) = StoredIn(writer, j, day)  BY <1>2, <2>1, StoredInRecord
  <2>3. StoredOn(writer', key, day) = StoredIn(writer', j, day)
    BY <1>4, <1>5, <2>1, StoredInRecord
  <2>4. StoredIn(writer', j, day) = StoredIn(writer, j, day)
    BY <1>4 DEF StoredIn, BucketAt, Latest, RecordRange
  <2> QED  BY <2>2, <2>3, <2>4 DEF StoredOn
<1>8. CASE key \notin KeysOf(writer)  BY <1>6, <1>8 DEF StoredOn
<1> QED  BY <1>7, <1>8

-----------------------------------------------------------------------------
(* merge and rewrite *)

\* What the writer and the other file say of the day add up in the merged
\* record, unless the bucket of the day is left out; it never is for a day of
\* the window when the record of the writer is not shifted by days.
MergesDays(key, day) ==
  LET mine == StoredOn(writer, key, day)
      other == StoredOn(source, key, day)
      merged == StoredOn(writer, key, day)'
  IN /\ merged \in {MergeData(mine, other), mine, NoData}
     /\ Day(writer.timestamp) - day < writer.num_days /\ ~ (SmallerIsNewer /\ MergeOffset > 0)
          => merged = MergeData(mine, other) \/ (merged = mine /\ other = NoData)

LEMMA MergeShape ==
  ASSUME MergePre, MergeRecord
  PROVE  /\ MergeKey \in Keys /\ GoodTable(writer') /\ writer'.num_days = writer.num_days
         /\ writer'.timestamp = writer.timestamp
         /\ MergeIndex \in DOMAIN writer'.tests /\ writer'.tests[MergeIndex].key = MergeKey
         /\ KeysOf(writer') = KeysOf(writer) \cup {MergeKey}
         /\ OnlyRecord(writer', writer, MergeIndex)
         /\ MergeIndex \in DOMAIN writer.tests => writer.tests[MergeIndex].key = MergeKey
<1>1. source.tests[next] \in Test  BY ElementOfSeq DEF MergePre, GoodTable, Table
<1>2. MergeKey \in Keys  BY <1>1 DEF MergeKey, Test
<1>3. SameShape(writer', MergeTarget)  BY MergedRecord DEF MergeRecord
<1>4. /\ MergeTarget.num_days = writer.num_days /\ MergeTarget.timestamp = writer.timestamp
      /\ MergeIndex \in DOMAIN MergeTarget.tests
  BY MergeRanges
<1>5. /\ KeysOf(MergeTarget) = KeysOf(writer) \cup {MergeKey}
      /\ MergeTarget.tests[MergeIndex].key = MergeKey
  BY <1>2, InsertFullKeys DEF MergePre, MergeTarget, MergeIndex
<1>6. KeysOf(writer') = KeysOf(MergeTarget)  BY <1>3, SameShapeKeys
<1>7. MergeIndex \in DOMAIN writer'.tests /\ writer'.tests[MergeIndex].key = MergeKey
  BY <1>3, <1>4, <1>5 DEF SameShape
<1>8. OnlyRecord(writer', writer, MergeIndex)  BY MergeRecordOnly
<1>9. MergeIndex \in DOMAIN writer.tests => writer.tests[MergeIndex].key = MergeKey
  BY <1>7, <1>8 DEF OnlyRecord
<1> QED  BY <1>2, <1>3, <1>4, <1>5, <1>6, <1>7, <1>8, <1>9 DEF SameShape

\* The two newest buckets and their days.
LEMMA MergeLatest ==
  ASSUME MergePre
  PROVE  /\ SmallerLatest \in Nat /\ LargerLatest \in Nat
         /\ SmallerLatest <= writer.timestamp /\ LargerLatest <= writer.timestamp
         /\ writer.timestamp \in Nat
         /\ Day(SmallerLatest) \in Nat /\ Day(LargerLatest) \in Nat
         /\ MergeOffset \in Nat
         /\ SmallerIsNewer => Day(SmallerLatest) = Day(LargerLatest) + MergeOffset
         /\ ~ SmallerIsNewer => Day(LargerLatest) = Day(SmallerLatest) + MergeOffset
         /\ SmallerIsNewer => MergeKey \in KeysOf(writer)
         /\ SmallerLatest = BucketAt(source, next, 0).last_timestamp
         /\ MergeKey \in KeysOf(writer) =>
              /\ IndexOf(writer, MergeKey) = MergeIndex
              /\ MergeIndex \in DOMAIN writer.tests
              /\ LargerLatest = BucketAt(writer, MergeIndex, 0).last_timestamp
<1>1. source.tests[next] \in Test  BY ElementOfSeq DEF MergePre, GoodTable, Table
<1>2. MergeKey \in Keys  BY <1>1 DEF MergeKey, Test
<1>3. /\ writer.timestamp \in Nat /\ writer.num_days \in Nat \ {0}
      /\ source.num_days \in Nat \ {0}
  BY DEF MergePre, GoodTable, Table
<1>4. /\ SmallerLatest \in Nat /\ SmallerLatest = BucketAt(source, next, 0).last_timestamp
      /\ SmallerLatest <= writer.timestamp
  <2>1. 0 \in 0 .. source.num_days - 1  BY <1>3
  <2>2. RecordRange(source, next).start + 0 + 1 \in DOMAIN source.testdata
    BY <2>1, BucketInData DEF MergePre
  <2>3. SmallerLatest \in Nat /\ SmallerLatest = BucketAt(source, next, 0).last_timestamp
    BY RecordInData, LatestIsNewestBucket DEF MergePre, SmallerLatest
  <2> QED  BY <2>2, <2>3 DEF MergePre, NoneAfter, BucketAt
<1>5. ASSUME MergeKey \in KeysOf(writer)
      PROVE  /\ IndexOf(writer, MergeKey) = MergeIndex
             /\ MergeIndex \in DOMAIN writer.tests
             /\ LargerLatest \in Nat
             /\ LargerLatest = BucketAt(writer, MergeIndex, 0).last_timestamp
             /\ LargerLatest <= writer.timestamp
  <2>1. IndexOf(writer, MergeKey) = MergeIndex
    BY <1>2, <1>5, InsertFullProperties DEF MergePre, MergeIndex, MergeTarget
  <2>2. MergeIndex \in DOMAIN writer.tests  BY <1>5, <2>1, IndexOfKnown
  <2>3. LargerLatest = Latest(writer, MergeIndex)  BY <1>5 DEF LargerLatest
  <2>4. 0 \in 0 .. writer.num_days - 1  BY <1>3
  <2>5. RecordRange(writer, MergeIndex).start + 0 + 1 \in DOMAIN writer.testdata
    BY <2>2, <2>4, BucketInData DEF MergePre
  <2>6. LargerLatest \in Nat /\ LargerLatest = BucketAt(writer, MergeIndex, 0).last_timestamp
    BY <2>2, <2>3, RecordInData, LatestIsNewestBucket DEF MergePre
  <2> QED  BY <2>1, <2>2, <2>5, <2>6 DEF MergePre, NoneAfter, BucketAt
<1>6. MergeKey \notin KeysOf(writer) => LargerLatest = SmallerLatest  BY DEF LargerLatest
<1>7. LargerLatest \in Nat /\ LargerLatest <= writer.timestamp  BY <1>4, <1>5, <1>6
<1>8. Day(SmallerLatest) \in Nat /\ Day(LargerLatest) \in Nat  BY <1>4, <1>7, DayType
<1>9. MergeOffset \in Nat  BY MergeRanges
<1>10. /\ SmallerIsNewer => Day(SmallerLatest) = Day(LargerLatest) + MergeOffset
       /\ ~ SmallerIsNewer => Day(LargerLatest) = Day(SmallerLatest) + MergeOffset
  BY <1>8 DEF MergeOffset, OffsetFromToday
<1>11. SmallerIsNewer => MergeKey \in KeysOf(writer)  BY <1>4, <1>6 DEF SmallerIsNewer
<1> QED  BY <1>3, <1>4, <1>5, <1>7, <1>8, <1>9, <1>10, <1>11

LEMMA MergeStored ==
  ASSUME MergePre, MergeRecord, NEW key, key = MergeKey, NEW day \in Int
  PROVE  MergesDays(key, day)
<1> DEFINE n == writer.num_days
           m == source.num_days
           sl == SmallerLatest
           ll == LargerLatest
           off == MergeOffset
           size == MergeSize
           newest == BucketAt(writer', MergeIndex, 0)
           src(j) == BucketAt(source, next, j)
           mine == StoredOn(writer, key, day)
           other == StoredOn(source, key, day)
           merged == StoredOn(writer', key, day)
           lage == Day(ll) - day
           sage == Day(sl) - day
<1>1. /\ sl \in Nat /\ ll \in Nat /\ sl <= writer.timestamp /\ ll <= writer.timestamp
      /\ writer.timestamp \in Nat
      /\ Day(sl) \in Nat /\ Day(ll) \in Nat /\ off \in Nat
      /\ SmallerIsNewer => Day(sl) = Day(ll) + off
      /\ ~ SmallerIsNewer => Day(ll) = Day(sl) + off
      /\ SmallerIsNewer => MergeKey \in KeysOf(writer)
      /\ sl = src(0).last_timestamp
      /\ MergeKey \in KeysOf(writer) =>
           /\ IndexOf(writer, MergeKey) = MergeIndex
           /\ MergeIndex \in DOMAIN writer.tests
           /\ ll = BucketAt(writer, MergeIndex, 0).last_timestamp
  BY MergeLatest
<1>2. n \in Nat \ {0} /\ m \in Nat \ {0}  BY DEF MergePre, GoodTable, Table
<1>3. size \in Nat /\ size = MaxOf(0, MinOf(n - off, m))
  BY MergeSelection DEF MergeSize
<1>4. \A j \in 0 .. n - 1 :
        BucketAt(writer', MergeIndex, j) =
          IF j \in MergeMove .. MergeMove + size - 1
          THEN MergeData(MergeMoved(j), src(j - MergeMove))
          ELSE MergeMoved(j)
  BY MergeRecordBucketAt
<1>5. mine = IF lage \in 0 .. n - 1 THEN MergeOld(lage) ELSE NoData
  <2>1. CASE MergeKey \in KeysOf(writer)
    <3>1. writer.tests[MergeIndex].key = key  BY <1>1, <2>1, IndexOfKnown
    <3>2. mine = StoredIn(writer, MergeIndex, day)
      BY <1>1, <2>1, <3>1, StoredInRecord DEF MergePre
    <3>3. Latest(writer, MergeIndex) = ll  BY <2>1 DEF LargerLatest
    <3> QED  BY <1>1, <2>1, <3>2, <3>3 DEF StoredIn, MergeOld
  <2>2. CASE MergeKey \notin KeysOf(writer)  BY <2>2 DEF StoredOn, MergeOld
  <2> QED  BY <2>1, <2>2
<1>6. other = IF sage \in 0 .. m - 1 THEN src(sage) ELSE NoData
  <2>1. next \in DOMAIN source.tests /\ source.tests[next].key = key /\ GoodTable(source)
    BY DEF MergePre, MergeKey
  <2>2. other = StoredIn(source, next, day)  BY <2>1, StoredInRecord
  <2> QED  BY <2>2 DEF StoredIn, SmallerLatest
<1>7. merged = LET age == Day(newest.last_timestamp) - day
               IN IF age \in 0 .. n - 1 THEN BucketAt(writer', MergeIndex, age) ELSE NoData
  <2>1. /\ GoodTable(writer') /\ MergeIndex \in DOMAIN writer'.tests
        /\ writer'.tests[MergeIndex].key = key /\ writer'.num_days = n
    BY MergeShape
  <2>2. merged = StoredIn(writer', MergeIndex, day)  BY <2>1, StoredInRecord
  <2>3. Latest(writer', MergeIndex) = newest.last_timestamp  BY <2>1, LatestIsNewestBucket
  <2> QED  BY <2>1, <2>2, <2>3 DEF StoredIn
<1>8. StoredOn(writer, key, day)' = merged  BY DEF StoredOn
<1>9. 0 \in 0 .. n - 1 /\ 0 \in 0 .. m - 1  BY <1>2
<1>10. src(0) \in TestData /\ \A j \in 0 .. n - 1 : MergeOld(j) \in TestData
  <2>1. src(0) \in TestData  BY <1>9, BucketInData DEF MergePre
  <2>2. \A j \in 0 .. n - 1 : MergeOld(j) \in TestData
    BY <1>1, NoDataType, BucketInData DEF MergePre, MergeOld
  <2> QED  BY <2>1, <2>2
<1> DEFINE window == Day(writer.timestamp) - day < n
<1>11. window => lage < n
  <2>1. Day(ll) <= Day(writer.timestamp)  BY <1>1, DayMonotone
  <2>2. Day(writer.timestamp) \in Nat  BY <1>1, DayType
  <2> QED  BY <1>1, <1>2, <2>1, <2>2
<1>12. CASE ~ SmallerIsNewer
  <2>1. MergeMove = off /\ MergeShift = 0  BY <1>12 DEF MergeMove, MergeShift
  <2>2. \A j \in 0 .. n - 1 : MergeMoved(j) = MergeOld(j)
    <3> SUFFICES ASSUME NEW j \in 0 .. n - 1 PROVE MergeMoved(j) = MergeOld(j)  OBVIOUS
    <3>1. j - 0 = j /\ ~ (j < 0)  OBVIOUS
    <3> QED  BY <2>1, <3>1 DEF MergeMoved
  <2>3. Day(newest.last_timestamp) = Day(ll)
    <3>1. newest = IF off = 0 /\ size > 0 THEN MergeData(MergeOld(0), src(0)) ELSE MergeOld(0)
      <4>1. 0 \in off .. off + size - 1 <=> off = 0 /\ size > 0  BY <1>1, <1>3
      <4>2. 0 - off = 0 <=> off = 0  BY <1>1
      <4> QED  BY <1>4, <1>9, <2>1, <2>2, <4>1, <4>2
    <3>2. sl <= ll  BY <1>1, <1>12 DEF SmallerIsNewer
    <3>3. CASE MergeKey \in KeysOf(writer)
      <4>1. MergeOld(0).last_timestamp = ll  BY <1>1, <3>3 DEF MergeOld
      <4>2. MergeData(MergeOld(0), src(0)).last_timestamp = ll
        BY <1>1, <3>2, <4>1 DEF MergeData, MaxOf
      <4> QED  BY <3>1, <4>1, <4>2
    <3>4. CASE MergeKey \notin KeysOf(writer)
      <4>1. ll = sl  BY <3>4 DEF LargerLatest
      <4>2. off = 0  BY <1>1, <1>12, <4>1
      <4>3. size > 0  BY <1>2, <1>3, <4>2 DEF MaxOf, MinOf
      <4>4. MergeOld(0) = NoData  BY <3>4 DEF MergeOld
      <4>5. MergeData(MergeOld(0), src(0)).last_timestamp = sl
        BY <1>1, <4>4 DEF MergeData, MaxOf, NoData
      <4> QED  BY <3>1, <4>1, <4>2, <4>3, <4>5
    <3> QED  BY <3>3, <3>4
  <2>4. sage = lage - off  BY <1>1, <1>12
  <2> HIDE DEF n, m, sl, ll, off, size, newest, src, mine, other, merged, window, lage, sage
  <2>5. lage \in Int  BY <1>1 DEF lage
  <2>6. merged = IF lage \in 0 .. n - 1
                 THEN IF lage \in off .. off + size - 1
                      THEN MergeData(MergeOld(lage), src(lage - off))
                      ELSE MergeOld(lage)
                 ELSE NoData
    <3>1. merged = IF lage \in 0 .. n - 1 THEN BucketAt(writer', MergeIndex, lage) ELSE NoData
      BY <1>7, <2>3 DEF lage
    <3> QED  BY <1>4, <2>1, <2>2, <3>1
  <2>7. lage \in 0 .. n - 1 => (lage \in off .. off + size - 1 <=> sage \in 0 .. m - 1)
    BY <1>1, <1>2, <1>3, <2>4, <2>5 DEF MaxOf, MinOf
  <2>8. lage < n /\ ~ (lage \in 0 .. n - 1) => ~ (sage \in 0 .. m - 1)
    BY <1>1, <1>2, <2>4, <2>5
  <2>9. merged = MergeData(mine, other) \/ (merged = mine /\ other = NoData) \/
        (merged = NoData /\ ~ (lage \in 0 .. n - 1))
    BY <1>5, <1>6, <2>4, <2>6, <2>7
  <2>10. ~ (lage \in 0 .. n - 1) => mine = NoData  BY <1>5
  <2>11. window => merged = MergeData(mine, other) \/ (merged = mine /\ other = NoData)
    BY <1>6, <1>11, <2>8, <2>9, <2>10
  <2> QED  BY <1>8, <2>9, <2>11 DEF MergesDays, mine, other, merged, window, n
<1>13. CASE SmallerIsNewer
  <2>1. MergeMove = 0 /\ MergeShift = off  BY <1>13 DEF MergeMove, MergeShift
  <2>2. MergeKey \in KeysOf(writer) /\ Day(sl) = Day(ll) + off /\ ll < sl
    BY <1>1, <1>13 DEF SmallerIsNewer
  <2>3. \A j \in 0 .. n - 1 : MergeMoved(j) = IF j < off THEN NoData ELSE MergeOld(j - off)
    BY <2>1 DEF MergeMoved
  <2>4. \A j \in 0 .. n - 1 : BucketAt(writer', MergeIndex, j) =
            IF j < size THEN MergeData(MergeMoved(j), src(j)) ELSE MergeMoved(j)
    <3> SUFFICES ASSUME NEW j \in 0 .. n - 1
                 PROVE  BucketAt(writer', MergeIndex, j) =
                          IF j < size THEN MergeData(MergeMoved(j), src(j)) ELSE MergeMoved(j)
      OBVIOUS
    <3>1. j - 0 = j /\ (j \in 0 .. 0 + size - 1 <=> j < size)  BY <1>3
    <3> QED  BY <1>4, <2>1, <3>1
  <2>5. size = 0 => off >= n  BY <1>1, <1>2, <1>3 DEF MaxOf, MinOf
  <2>6. size > 0 => newest.last_timestamp = sl
    <3> SUFFICES ASSUME size > 0 PROVE newest.last_timestamp = sl  OBVIOUS
    <3>1. newest = MergeData(MergeMoved(0), src(0))  BY <1>9, <2>4
    <3>2. MergeMoved(0).last_timestamp \in Nat /\ MergeMoved(0).last_timestamp <= sl
      <4>1. CASE 0 < off  BY <1>1, <1>9, <2>3, <4>1 DEF NoData
      <4>2. CASE ~ (0 < off)
        <5>1. 0 - off = 0  BY <1>1, <4>2
        <5>2. MergeMoved(0) = MergeOld(0)  BY <1>9, <2>3, <4>2, <5>1
        <5>3. MergeOld(0).last_timestamp = ll  BY <1>1, <2>2 DEF MergeOld
        <5> QED  BY <1>1, <2>2, <5>2, <5>3
      <4> QED  BY <4>1, <4>2
    <3> QED  BY <1>1, <3>1, <3>2 DEF MergeData, MaxOf
  <2>7. lage = sage - off  BY <1>1, <2>2
  <2> HIDE DEF n, m, sl, ll, off, size, newest, src, mine, other, merged, window, lage, sage
  <2>8. sage \in Int  BY <1>1 DEF sage
  <2>9. CASE size = 0
    <3>1. merged = NoData
      <4> DEFINE age == Day(newest.last_timestamp) - day
      <4>1. merged = IF age \in 0 .. n - 1 THEN BucketAt(writer', MergeIndex, age) ELSE NoData
        BY <1>7
      <4> HIDE DEF age
      <4>2. age \in 0 .. n - 1 => BucketAt(writer', MergeIndex, age) = NoData
        <5> SUFFICES ASSUME age \in 0 .. n - 1 PROVE BucketAt(writer', MergeIndex, age) = NoData
          OBVIOUS
        <5>1. age < off /\ ~ (age < size)  BY <1>1, <1>2, <2>5, <2>9
        <5> QED  BY <2>3, <2>4, <5>1
      <4> QED  BY <4>1, <4>2
    <3>2. off > 0  BY <1>1, <1>2, <2>5, <2>9
    <3> QED  BY <1>8, <1>13, <3>1, <3>2 DEF MergesDays, merged, off
  <2>10. CASE size > 0
    <3>1. merged = IF sage \in 0 .. n - 1
                   THEN IF sage < size THEN MergeData(MergeMoved(sage), src(sage))
                        ELSE MergeMoved(sage)
                   ELSE NoData
      <4>1. merged = IF sage \in 0 .. n - 1 THEN BucketAt(writer', MergeIndex, sage) ELSE NoData
        BY <1>7, <2>6, <2>10 DEF sage
      <4> QED  BY <2>4, <4>1
    <3>2. sage \in 0 .. n - 1 => MergeMoved(sage) = mine
      <4> SUFFICES ASSUME sage \in 0 .. n - 1 PROVE MergeMoved(sage) = mine  OBVIOUS
      <4>1. CASE sage < off
        <5>1. ~ (lage \in 0 .. n - 1)  BY <1>1, <1>2, <2>7, <2>8, <4>1
        <5> QED  BY <1>5, <2>3, <4>1, <5>1
      <4>2. CASE ~ (sage < off)
        <5>1. lage \in 0 .. n - 1  BY <1>1, <1>2, <2>7, <2>8, <4>2
        <5> QED  BY <1>5, <2>3, <2>7, <4>2, <5>1
      <4> QED  BY <4>1, <4>2
    <3>3. sage \in 0 .. n - 1 /\ sage < size => other = src(sage)
      <4>1. size <= m  BY <1>1, <1>2, <1>3 DEF MaxOf, MinOf
      <4>2. sage \in 0 .. n - 1 /\ sage < size => sage \in 0 .. m - 1
        BY <1>2, <1>3, <2>8, <4>1
      <4> QED  BY <1>6, <4>2
    <3>4. merged \in {MergeData(mine, other), mine, NoData}  BY <3>1, <3>2, <3>3
    <3>5. ASSUME window, ~ (off > 0)
          PROVE  merged = MergeData(mine, other) \/ (merged = mine /\ other = NoData)
      <4>1. off = 0 /\ lage = sage  BY <1>1, <2>7, <2>8, <3>5
      <4>2. sage < n  BY <1>11, <3>5, <4>1
      <4>3. CASE sage \in 0 .. n - 1
        <5>1. sage < size <=> sage \in 0 .. m - 1
          BY <1>1, <1>2, <1>3, <2>8, <4>1, <4>3 DEF MaxOf, MinOf
        <5> QED  BY <1>6, <3>1, <3>2, <3>3, <4>3, <5>1
      <4>4. CASE ~ (sage \in 0 .. n - 1)
        <5>1. ~ (sage \in 0 .. m - 1)  BY <1>2, <2>8, <4>2, <4>4
        <5> QED  BY <1>5, <1>6, <3>1, <4>1, <4>4, <5>1
      <4> QED  BY <4>3, <4>4
    <3> QED  BY <1>8, <1>13, <3>4, <3>5 DEF MergesDays, mine, other, merged, window, n, off
  <2> QED  BY <1>3, <2>9, <2>10
<1> QED  BY <1>12, <1>13
\* rewrite copies what a record says of a day, or leaves a day of a smaller
\* window out; a record that is not copied says nothing of the days inside.
RewritesDays(key, day) ==
  LET old == StoredOn(source, key, day)
      new == StoredOn(writer, key, day)'
  IN /\ new \in {old, NoData}
     /\ Day(writer.timestamp) - day < writer.num_days => new = old

LEMMA RewriteLiveStored ==
  ASSUME GoodTable(writer), NoneAfter(writer, writer.timestamp),
         GoodTable(source), NoneAfter(source, writer.timestamp),
         next \in DOMAIN source.tests, source.tests[next].key \notin KeysOf(writer),
         RewriteLive, NEW key, key = source.tests[next].key, NEW day \in Int
  PROVE  /\ RewritesDays(key, day)
         /\ \A k : k # key => StoredOn(writer', k, day) = StoredOn(writer, k, day)
<1> DEFINE n == writer.num_days
           m == source.num_days
           i == Len(writer.tests) + 1
           sl == Latest(source, next)
           old == StoredOn(source, key, day)
           new == StoredOn(writer', key, day)
           age == Day(sl) - day
<1>1. /\ GoodTable(writer')
      /\ KeysOf(writer') = KeysOf(writer) \cup {key}
  BY RewrittenRecord
<1>2. /\ writer \in Table /\ n \in Nat \ {0} /\ m \in Nat \ {0} /\ writer.timestamp \in Nat
      /\ Len(writer.tests) \in Nat /\ DOMAIN writer.tests = 1 .. Len(writer.tests)
      /\ writer.tests \in Seq(Test) /\ source.tests[next] \in Test
  BY ElementOfSeq DEF GoodTable, Table
<1>3. /\ writer'.num_days = n
      /\ i \in DOMAIN writer'.tests /\ writer'.tests[i].key = key
  <2>1. /\ writer'.tests = Append(writer.tests, RewrittenTest)
        /\ writer'.num_days = n
    BY <1>2 DEF RewriteLive, Table
  <2>2. RewrittenTest \in Test /\ RewrittenTest.key = key
    BY <1>2 DEF RewrittenTest, Test, MaxOf
  <2>3. i \in DOMAIN writer'.tests /\ writer'.tests[i] = RewrittenTest
    <3> DEFINE w == Append(writer.tests, RewrittenTest)
    <3>1. w \in Seq(Test) /\ Len(w) = i /\ w[i] = RewrittenTest
      BY <1>2, <2>2, AppendProperties
    <3> HIDE DEF w
    <3>2. DOMAIN w = 1 .. i  BY <3>1
    <3>3. i \in DOMAIN w  BY <1>2, <3>2
    <3> QED  BY <2>1, <3>1, <3>3 DEF w
  <2> QED  BY <2>1, <2>2, <2>3
<1>4. \A j \in 0 .. n - 1 :
        BucketAt(writer', i, j) = IF j < m THEN BucketAt(source, next, j) ELSE NoData
  BY RewriteLiveBucketAt
<1>5. 0 \in 0 .. n - 1 /\ 0 \in 0 .. m - 1 /\ 0 < m  BY <1>2
<1>6. sl = BucketAt(source, next, 0).last_timestamp /\ sl \in Nat /\ sl <= writer.timestamp
  <2>1. RecordRange(source, next).start + 0 + 1 \in DOMAIN source.testdata
    BY <1>5, BucketInData
  <2> QED  BY <2>1, LatestIsNewestBucket, RecordInData DEF NoneAfter, BucketAt
<1>7. Latest(writer', i) = sl
  BY <1>1, <1>3, <1>4, <1>5, <1>6, LatestIsNewestBucket
<1>8. new = IF age \in 0 .. n - 1 THEN BucketAt(writer', i, age) ELSE NoData
  <2>1. new = StoredIn(writer', i, day)  BY <1>1, <1>3, StoredInRecord
  <2> QED  BY <1>3, <1>7, <2>1 DEF StoredIn
<1>9. old = IF age \in 0 .. m - 1 THEN BucketAt(source, next, age) ELSE NoData
  <2>1. old = StoredIn(source, next, day)  BY StoredInRecord
  <2> QED  BY <2>1 DEF StoredIn
<1>10. Day(sl) \in Nat /\ Day(sl) <= Day(writer.timestamp) /\ Day(writer.timestamp) \in Nat
  BY <1>2, <1>6, DayMonotone, DayType
<1>11. RewritesDays(key, day)
  <2>1. StoredOn(writer, key, day)' = new  BY DEF StoredOn
  <2> DEFINE window == Day(writer.timestamp) - day < n
  <2>2. window => age < n  BY <1>2, <1>10
  <2>3. age \in Int  BY <1>10
  <2> HIDE DEF n, m, i, sl, old, new, age, window
  <2>4. age \in 0 .. n - 1 => new = old
    <3> SUFFICES ASSUME age \in 0 .. n - 1 PROVE new = old  OBVIOUS
    <3>1. age < m <=> age \in 0 .. m - 1  BY <1>2
    <3> QED  BY <1>4, <1>8, <1>9, <3>1
  <2>5. ~ (age \in 0 .. n - 1) => new = NoData  BY <1>8
  <2>6. ~ (age \in 0 .. n - 1) /\ age < n => old = NoData  BY <1>2, <1>9, <2>3
  <2>7. new \in {old, NoData} /\ (window => new = old)  BY <2>2, <2>4, <2>5, <2>6
  <2> QED  BY <2>1, <2>7 DEF RewritesDays, old, new, window, n
<1>12. ASSUME NEW k, k # key PROVE StoredOn(writer', k, day) = StoredOn(writer, k, day)
  <2>1. OnlyRecord(writer', writer, 0)  BY RewriteLiveOnly
  <2>2. 0 \notin DOMAIN writer.tests  BY <1>2
  <2> QED  BY <1>1, <1>12, <2>1, <2>2, OtherKeysStored
<1> QED  BY <1>11, <1>12

LEMMA RewriteDeadStored ==
  ASSUME GoodTable(source), next \in DOMAIN source.tests, GoodTable(writer),
         ~ IsLive(source, next, writer.timestamp, writer.num_days),
         NEW key, key = source.tests[next].key, NEW day \in Int,
         Day(writer.timestamp) - day < writer.num_days
  PROVE  StoredOn(source, key, day) = NoData
<1> DEFINE sl == Latest(source, next)
<1>1. sl \in Nat /\ writer.timestamp \in Nat /\ writer.num_days \in Nat
      /\ source.num_days \in Nat
  BY RecordInData DEF GoodTable, Table
<1>2. Day(sl) \in Nat /\ Day(writer.timestamp) \in Nat  BY <1>1, DayType
<1>3. ~ (Day(writer.timestamp) - Day(sl) < writer.num_days)
  BY DEF IsLive, OffsetFromToday
<1> HIDE DEF sl
<1>4. ~ (Day(sl) - day \in 0 .. source.num_days - 1)  BY <1>1, <1>2, <1>3
<1>5. StoredOn(source, key, day) = StoredIn(source, next, day)  BY StoredInRecord
<1> QED  BY <1>4, <1>5 DEF StoredIn, sl

-----------------------------------------------------------------------------
(* Counters that wrap around. *)

LEMMA DivMod ==
  ASSUME NEW a \in Nat, NEW m \in Nat \ {0}
  PROVE  /\ a \div m \in Nat /\ a % m \in Nat /\ a % m < m
         /\ a = m * (a \div m) + (a % m)
  OBVIOUS

LEMMA ModUnique ==
  ASSUME NEW a \in Nat, NEW m \in Nat \ {0}, NEW q \in Nat, NEW r \in Nat, r < m, a = m * q + r
  PROVE  a % m = r
  OBVIOUS

LEMMA ModSmall ==
  ASSUME NEW a \in Nat, NEW m \in Nat \ {0}, a < m
  PROVE  a % m = a
  OBVIOUS

LEMMA ModNotMore ==
  ASSUME NEW a \in Nat, NEW m \in Nat \ {0}
  PROVE  a % m <= a
  OBVIOUS

LEMMA ModAdds ==
  ASSUME NEW a \in Nat, NEW b \in Nat, NEW m \in Nat \ {0}
  PROVE  ((a % m) + b) % m = (a + b) % m
<1> DEFINE q == a \div m
           r == a % m
           x == r + b
           p == x \div m
           s == x % m
<1>1. q \in Nat /\ r \in Nat /\ a = m * q + r  BY DivMod
<1> HIDE DEF q, r
<1>2. x \in Nat  BY <1>1
<1>3. p \in Nat /\ s \in Nat /\ s < m /\ x = m * p + s
  <2> HIDE DEF x
  <2> QED  BY <1>2, DivMod
<1> HIDE DEF p, s
<1>4. m * q \in Nat /\ m * p \in Nat /\ m * (q + p) = m * q + m * p /\ q + p \in Nat  BY <1>1, <1>3
<1>5. a + b = m * (q + p) + s  BY <1>1, <1>3, <1>4
<1>6. a + b \in Nat  OBVIOUS
<1>7. (a + b) % m = s  BY <1>3, <1>4, <1>5, <1>6, ModUnique
<1> QED  BY <1>7 DEF s, x, r
-----------------------------------------------------------------------------
(* The inductive invariant of the history.                                  *)

\* While merge and rewrite are on their way, what was reported is accounted for
\* by the writer and by the records of source the loop has not come to.
Ahead == {source.tests[i].key : i \in next .. Len(source.tests)}
Pending(key, day) == IF key \in Ahead THEN StoredOn(source, key, day) ELSE NoData

\* Two buckets together count no run that was not told, and all that were.
Within(a, b, told) ==
  /\ \A c \in Counters : a.counts[c] + b.counts[c] <= told.counts[c]
  /\ a.failing_commits \cup b.failing_commits \subseteq told.failing_commits
Exactly(a, b, told) ==
  /\ \A c \in Counters : (a.counts[c] + b.counts[c]) % CounterModulus
                           = told.counts[c] % CounterModulus
  /\ a.failing_commits \cup b.failing_commits = told.failing_commits

\* What was told of a test on a day: nothing is told of a day without sessions.
ToldOn(h, key, day) == IF day \in Days THEN h.runs[key][day] ELSE NoRuns

\* What holds of every test and day: other is what is accounted for outside of t.
Accounts(t, h, key, day, other) ==
  /\ key \notin h.late => Within(StoredOn(t, key, day), other, ToldOn(h, key, day))
  /\ key \notin h.late \cup h.shed /\ day \in Window(t) =>
       Exactly(StoredOn(t, key, day), other, ToldOn(h, key, day))

\* A counter of a bucket is a u16.
Fitting == {data \in TestData : \A c \in Counters : data.counts[c] < CounterModulus}

Runs == [counts: [Counters -> Nat], failing_commits: SUBSET Commits]
Histories == [runs: [Keys -> [Days -> Runs]], late: SUBSET Keys, shed: SUBSET Keys]

FileAccounts(t, h) == \A key \in Keys, day \in Int : Accounts(t, h, key, day, NoData)

HistoryInv ==
  /\ history \in Histories
  /\ histories \in Seq(Histories) /\ Len(histories) = Len(files)
  /\ BucketsIn(writer, Fitting) /\ BucketsIn(source, Fitting)
  /\ \A f \in DOMAIN files : BucketsIn(files[f], Fitting)
  /\ \A key \in Keys, day \in Int : Accounts(writer, history, key, day, Pending(key, day))
  /\ \A f \in DOMAIN files : FileAccounts(files[f], histories[f])

-----------------------------------------------------------------------------
(* What holds of two buckets and what was told of them.                     *)

LEMMA RunsType ==
  ASSUME NEW data \in TestData, NEW c \in Counters
  PROVE  data.counts[c] \in Nat /\ data.failing_commits \subseteq Commits
  BY DEF TestData

LEMMA NoDataCounts ==
  ASSUME NEW c \in Counters
  PROVE  NoData.counts[c] = 0 /\ NoData.failing_commits = {}
  BY DEF NoData

LEMMA NoDataFits == NoData \in Fitting
  BY NoDataType, NoDataCounts, ConstantsAssumption DEF Fitting

LEMMA MergeDataFits ==
  ASSUME NEW a \in TestData, NEW b \in TestData
  PROVE  MergeData(a, b) \in Fitting
<1>1. MergeData(a, b) \in TestData  BY MergeDataType
<1>2. ASSUME NEW c \in Counters PROVE MergeData(a, b).counts[c] < CounterModulus
  <2>1. a.counts[c] \in Nat /\ b.counts[c] \in Nat  BY RunsType
  <2>2. MergeData(a, b).counts[c] = (a.counts[c] + b.counts[c]) % CounterModulus
    BY DEF MergeData
  <2>3. a.counts[c] + b.counts[c] \in Nat /\ CounterModulus \in Nat \ {0}
    BY <2>1, ConstantsAssumption
  <2> QED  BY <2>2, <2>3, DivMod
<1> QED  BY <1>1, <1>2 DEF Fitting

\* Merging two buckets changes nothing of what they say together.
LEMMA MergeKeepsWithin ==
  ASSUME NEW a \in TestData, NEW b \in TestData, NEW told \in Runs, Within(a, b, told)
  PROVE  Within(MergeData(a, b), NoData, told)
<1>1. ASSUME NEW c \in Counters
      PROVE  MergeData(a, b).counts[c] + NoData.counts[c] <= told.counts[c]
  <2>1. a.counts[c] \in Nat /\ b.counts[c] \in Nat  BY RunsType
  <2>2. MergeData(a, b).counts[c] = (a.counts[c] + b.counts[c]) % CounterModulus
    BY DEF MergeData
  <2> DEFINE sum == a.counts[c] + b.counts[c]
  <2>3. sum \in Nat /\ CounterModulus \in Nat \ {0}  BY <2>1, ConstantsAssumption
  <2>4. sum <= told.counts[c] /\ told.counts[c] \in Nat  BY DEF Within, Runs
  <2> HIDE DEF sum
  <2>5. sum % CounterModulus <= sum /\ sum % CounterModulus \in Nat
    BY <2>3, ModNotMore, DivMod
  <2>6. MergeData(a, b).counts[c] = sum % CounterModulus  BY <2>2 DEF sum
  <2> QED  BY <2>3, <2>4, <2>5, <2>6, NoDataCounts
<1>2. MergeData(a, b).failing_commits = a.failing_commits \cup b.failing_commits
  BY DEF MergeData
<1>3. NoData.failing_commits = {}  BY DEF NoData
<1> QED  BY <1>1, <1>2, <1>3 DEF Within

LEMMA MergeKeepsExactly ==
  ASSUME NEW a \in TestData, NEW b \in TestData, NEW told \in Runs, Exactly(a, b, told)
  PROVE  Exactly(MergeData(a, b), NoData, told)
<1>1. ASSUME NEW c \in Counters
      PROVE  (MergeData(a, b).counts[c] + NoData.counts[c]) % CounterModulus
               = told.counts[c] % CounterModulus
  <2> DEFINE sum == a.counts[c] + b.counts[c]
  <2>1. a.counts[c] \in Nat /\ b.counts[c] \in Nat  BY RunsType
  <2>2. sum \in Nat /\ CounterModulus \in Nat \ {0}  BY <2>1, ConstantsAssumption
  <2>3. MergeData(a, b).counts[c] = sum % CounterModulus  BY DEF MergeData
  <2>4. sum % CounterModulus = told.counts[c] % CounterModulus  BY DEF Exactly
  <2> HIDE DEF sum
  <2>5. sum % CounterModulus \in Nat /\ sum % CounterModulus < CounterModulus
    BY <2>2, DivMod
  <2>6. (sum % CounterModulus) % CounterModulus = sum % CounterModulus
    <3> DEFINE s == sum % CounterModulus
    <3>1. s \in Nat /\ s < CounterModulus  BY <2>5
    <3> HIDE DEF s
    <3>2. s % CounterModulus = s  BY <2>2, <3>1, ModSmall
    <3> QED  BY <3>2 DEF s
  <2>7. MergeData(a, b).counts[c] + NoData.counts[c] = sum % CounterModulus
    BY <2>3, <2>5, NoDataCounts
  <2> QED  BY <2>4, <2>6, <2>7
<1>2. MergeData(a, b).failing_commits = a.failing_commits \cup b.failing_commits
  BY DEF MergeData
<1>3. NoData.failing_commits = {}  BY DEF NoData
<1> QED  BY <1>1, <1>2, <1>3 DEF Within, Exactly

\* Leaving a bucket out never invents anything.
LEMMA WithinLess ==
  ASSUME NEW a \in TestData, NEW b \in TestData, NEW told \in Runs, Within(a, b, told)
  PROVE  Within(a, NoData, told) /\ Within(b, NoData, told) /\ Within(NoData, NoData, told)
         /\ Within(NoData, b, told)
<1>1. ASSUME NEW c \in Counters
      PROVE  /\ a.counts[c] \in Nat /\ b.counts[c] \in Nat /\ told.counts[c] \in Nat
             /\ a.counts[c] + b.counts[c] <= told.counts[c]
             /\ NoData.counts[c] = 0
  BY RunsType, NoDataCounts DEF Within, Runs
<1>2. NoData.failing_commits = {}  BY DEF NoData
<1>3. a.failing_commits \cup b.failing_commits \subseteq told.failing_commits  BY DEF Within
<1> QED  BY <1>1, <1>2, <1>3 DEF Within

LEMMA ExactlySwaps ==
  ASSUME NEW a \in TestData, NEW b \in TestData, NEW told, Exactly(a, b, told)
  PROVE  Exactly(b, a, told)
<1>1. ASSUME NEW c \in Counters
      PROVE  a.counts[c] + b.counts[c] = b.counts[c] + a.counts[c]
  BY RunsType
<1> QED  BY <1>1 DEF Exactly

LEMMA WithinSwaps ==
  ASSUME NEW a \in TestData, NEW b \in TestData, NEW told, Within(a, b, told)
  PROVE  Within(b, a, told)
<1>1. ASSUME NEW c \in Counters
      PROVE  a.counts[c] + b.counts[c] = b.counts[c] + a.counts[c]
  BY RunsType
<1> QED  BY <1>1 DEF Within

\* The runs of two histories, and what was counted of each of them.
Joined(r, s) ==
  [counts |-> [c \in Counters |-> r.counts[c] + s.counts[c]],
   failing_commits |-> r.failing_commits \cup s.failing_commits]

LEMMA JoinedWithin ==
  ASSUME NEW a \in TestData, NEW b \in TestData, NEW r \in Runs, NEW s \in Runs,
         Within(a, NoData, r), Within(b, NoData, s)
  PROVE  Within(a, b, Joined(r, s))
<1>1. ASSUME NEW c \in Counters
      PROVE  a.counts[c] + b.counts[c] <= Joined(r, s).counts[c]
  <2>1. a.counts[c] \in Nat /\ b.counts[c] \in Nat /\ NoData.counts[c] = 0
    BY RunsType, NoDataCounts
  <2>2. r.counts[c] \in Nat /\ s.counts[c] \in Nat  BY DEF Runs
  <2>3. a.counts[c] + 0 <= r.counts[c] /\ b.counts[c] + 0 <= s.counts[c]
    BY <2>1 DEF Within
  <2>4. Joined(r, s).counts[c] = r.counts[c] + s.counts[c]  BY DEF Joined
  <2> QED  BY <2>1, <2>2, <2>3, <2>4
<1>2. a.failing_commits \cup b.failing_commits \subseteq Joined(r, s).failing_commits
  BY DEF Within, Joined
<1> QED  BY <1>1, <1>2 DEF Within

LEMMA JoinedExactly ==
  ASSUME NEW a \in TestData, NEW b \in TestData, NEW r \in Runs, NEW s \in Runs,
         Exactly(a, NoData, r), Exactly(b, NoData, s)
  PROVE  Exactly(a, b, Joined(r, s))
<1>1. ASSUME NEW c \in Counters
      PROVE  (a.counts[c] + b.counts[c]) % CounterModulus = Joined(r, s).counts[c] % CounterModulus
  <2> DEFINE m == CounterModulus
             x == a.counts[c]
             y == b.counts[c]
             u == r.counts[c]
             v == s.counts[c]
  <2>1. x \in Nat /\ y \in Nat /\ NoData.counts[c] = 0 /\ m \in Nat \ {0}
    BY RunsType, NoDataCounts, ConstantsAssumption
  <2>2. u \in Nat /\ v \in Nat  BY DEF Runs
  <2>3. (x + 0) % m = u % m /\ (y + 0) % m = v % m
    BY <2>1 DEF Exactly
  <2>4. Joined(r, s).counts[c] = u + v  BY DEF Joined
  <2> HIDE DEF m, x, y, u, v
  <2>5. x % m = u % m /\ y % m = v % m
    <3>1. x + 0 = x /\ y + 0 = y  BY <2>1
    <3> QED  BY <2>3, <3>1
  <2>6. x % m \in Nat /\ v % m \in Nat  BY <2>1, <2>2, DivMod
  <2>7. (x + y) % m = ((x % m) + y) % m  BY <2>1, ModAdds
  <2>8. (u + v) % m = ((u % m) + v) % m  BY <2>1, <2>2, ModAdds
  <2> DEFINE z == u % m
  <2>9. z \in Nat /\ x % m = z  BY <2>5, <2>6
  <2> HIDE DEF z
  <2>10. (z + y) % m = (z + v) % m
    <3>1. (y + z) % m = ((y % m) + z) % m /\ (v + z) % m = ((v % m) + z) % m
      BY <2>1, <2>2, <2>9, ModAdds
    <3>2. y + z = z + y /\ v + z = z + v  BY <2>1, <2>2, <2>9
    <3> QED  BY <2>5, <3>1, <3>2
  <2>11. (x + y) % m = (u + v) % m
    BY <2>7, <2>8, <2>9, <2>10 DEF z
  <2> QED  BY <2>4, <2>11 DEF m, x, y, u, v
<1>2. a.failing_commits \cup b.failing_commits = Joined(r, s).failing_commits
  <2>1. NoData.failing_commits = {}  BY DEF NoData
  <2> QED  BY <2>1 DEF Exactly, Joined
<1> QED  BY <1>1, <1>2 DEF Exactly

LEMMA NothingWithin ==
  ASSUME NEW r \in Runs
  PROVE  Within(NoData, NoData, r)
<1>1. ASSUME NEW c \in Counters PROVE NoData.counts[c] + NoData.counts[c] <= r.counts[c]
  <2>1. r.counts[c] \in Nat /\ NoData.counts[c] = 0  BY NoDataCounts DEF Runs
  <2> QED  BY <2>1
<1>2. NoData.failing_commits = {}  BY DEF NoData
<1> QED  BY <1>1, <1>2 DEF Within

\* One run more, in the bucket and in the report.
Told(r, outcome, commit) ==
  [counts |-> [r.counts EXCEPT ![CounterOf(outcome)] = @ + 1],
   failing_commits |-> IF CounterOf(outcome) = "fail" THEN r.failing_commits \cup {commit}
                       ELSE r.failing_commits]

LEMMA OneMoreRun ==
  ASSUME NEW a \in TestData, NEW r \in Runs, NEW now \in Nat, NEW outcome \in Outcomes,
         NEW commit \in Commits
  PROVE  LET new == CountRun(a, now, outcome, commit)
             told == Told(r, outcome, commit)
         IN /\ told \in Runs
            /\ a \in Fitting => new \in Fitting
            /\ Within(a, NoData, r) => Within(a, NoData, told)
            /\ Within(a, NoData, r) => Within(new, NoData, told)
            /\ Exactly(a, NoData, r) => Exactly(new, NoData, told)
<1> DEFINE new == CountRun(a, now, outcome, commit)
           told == Told(r, outcome, commit)
           k == CounterOf(outcome)
           m == CounterModulus
<1> SUFFICES /\ told \in Runs
             /\ a \in Fitting => new \in Fitting
             /\ Within(a, NoData, r) => Within(a, NoData, told)
             /\ Within(a, NoData, r) => Within(new, NoData, told)
             /\ Exactly(a, NoData, r) => Exactly(new, NoData, told)
  OBVIOUS
<1>1. k \in Counters /\ m \in Nat \ {0}
  BY ConstantsAssumption DEF CounterOf, Counters
<1>2. new \in TestData  BY CountRunType
<1>3. told \in Runs  BY <1>1 DEF Told, Runs
<1>4. ASSUME NEW c \in Counters
      PROVE  /\ a.counts[c] \in Nat /\ r.counts[c] \in Nat /\ NoData.counts[c] = 0
             /\ new.counts[c] = IF c = k THEN (a.counts[c] + 1) % m ELSE a.counts[c]
             /\ told.counts[c] = IF c = k THEN r.counts[c] + 1 ELSE r.counts[c]
  <2>1. a.counts \in [Counters -> Nat] /\ r.counts \in [Counters -> Nat]
    BY DEF TestData, Runs
  <2>2. new.counts = [a.counts EXCEPT ![k] = (a.counts[k] + 1) % m]  BY DEF CountRun
  <2>3. told.counts = [r.counts EXCEPT ![k] = r.counts[k] + 1]  BY DEF Told
  <2> HIDE DEF new, told, k, m
  <2> QED  BY <1>1, <2>1, <2>2, <2>3, NoDataCounts
<1>5. /\ new.failing_commits = IF k = "fail" THEN a.failing_commits \cup {commit}
                               ELSE a.failing_commits
      /\ told.failing_commits = IF k = "fail" THEN r.failing_commits \cup {commit}
                                ELSE r.failing_commits
      /\ NoData.failing_commits = {}
  BY DEF CountRun, Told, NoData
<1> HIDE DEF new, told, k, m
<1>6. ASSUME NEW c \in Counters
      PROVE  (a.counts[c] + 1) % m \in Nat /\ (a.counts[c] + 1) % m < m
             /\ (a.counts[c] + 1) % m <= a.counts[c] + 1
  <2> DEFINE x == a.counts[c] + 1
  <2>1. x \in Nat  BY <1>4
  <2> HIDE DEF x
  <2>2. x % m \in Nat /\ x % m < m /\ x % m <= x  BY <1>1, <2>1, DivMod, ModNotMore
  <2> QED  BY <2>2 DEF x
<1>7. ASSUME a \in Fitting PROVE new \in Fitting
  <2>1. \A c \in Counters : new.counts[c] < m
    BY <1>4, <1>6, <1>7 DEF Fitting, m
  <2> QED  BY <1>2, <2>1 DEF Fitting, m
<1>8. ASSUME Within(a, NoData, r)
      PROVE  Within(a, NoData, told) /\ Within(new, NoData, told)
  <2>1. ASSUME NEW c \in Counters
        PROVE  /\ a.counts[c] + NoData.counts[c] <= told.counts[c]
               /\ new.counts[c] + NoData.counts[c] <= told.counts[c]
    <3>1. a.counts[c] + NoData.counts[c] <= r.counts[c]  BY <1>8 DEF Within
    <3>2. a.counts[c] <= r.counts[c]  BY <1>4, <3>1
    <3>3. CASE c = k
      <4>1. new.counts[c] = (a.counts[c] + 1) % m /\ told.counts[c] = r.counts[c] + 1
        BY <1>4, <3>3
      <4> DEFINE x == (a.counts[c] + 1) % m
      <4>2. x \in Nat /\ x <= a.counts[c] + 1 /\ new.counts[c] = x  BY <1>6, <4>1
      <4> HIDE DEF x
      <4> QED  BY <1>4, <3>2, <4>1, <4>2
    <3>4. CASE c # k  BY <1>4, <3>2, <3>4
    <3> QED  BY <3>3, <3>4
  <2>2. a.failing_commits \cup NoData.failing_commits \subseteq r.failing_commits
    BY <1>8 DEF Within
  <2> QED  BY <1>5, <2>1, <2>2 DEF Within
<1>9. ASSUME Exactly(a, NoData, r) PROVE Exactly(new, NoData, told)
  <2>1. ASSUME NEW c \in Counters
        PROVE  (new.counts[c] + NoData.counts[c]) % m = told.counts[c] % m
    <3> DEFINE x == a.counts[c]
               y == r.counts[c]
    <3>1. x \in Nat /\ y \in Nat /\ NoData.counts[c] = 0  BY <1>4
    <3>2. (x + 0) % m = y % m  BY <1>9, <3>1 DEF Exactly, m
    <3>3. c = k => new.counts[c] = (x + 1) % m /\ told.counts[c] = y + 1  BY <1>4
    <3>4. c # k => new.counts[c] = x /\ told.counts[c] = y  BY <1>4
    <3> HIDE DEF x, y
    <3>5. x % m = y % m
      <4>1. x + 0 = x  BY <3>1
      <4> QED  BY <3>2, <4>1
    <3>6. CASE c = k
      <4>1. (((x + 1) % m) + 0) % m = (x + 1 + 0) % m
        <5>1. x + 1 \in Nat  BY <3>1
        <5> QED  BY <1>1, <5>1, ModAdds
      <4>2. (x + 1) % m = ((x % m) + 1) % m /\ (y + 1) % m = ((y % m) + 1) % m
        <5> DEFINE one == 1
        <5>1. one \in Nat  OBVIOUS
        <5> HIDE DEF one
        <5>2. (x + one) % m = ((x % m) + one) % m  BY <1>1, <3>1, <5>1, ModAdds
        <5>3. (y + one) % m = ((y % m) + one) % m  BY <1>1, <3>1, <5>1, ModAdds
        <5> QED  BY <5>2, <5>3 DEF one
      <4>3. x + 1 + 0 = x + 1  BY <3>1
      <4> QED  BY <3>1, <3>3, <3>5, <3>6, <4>1, <4>2, <4>3
    <3>7. CASE c # k
      <4>1. x + 0 = x  BY <3>1
      <4> QED  BY <3>1, <3>4, <3>5, <3>7, <4>1
    <3> QED  BY <3>6, <3>7
  <2>2. a.failing_commits \cup NoData.failing_commits = r.failing_commits
    BY <1>9 DEF Exactly
  <2> QED  BY <1>5, <2>1, <2>2 DEF Exactly, m
<1> QED  BY <1>3, <1>7, <1>8, <1>9

-----------------------------------------------------------------------------
(* Tables with the same records, and windows.                               *)

LEMMA SameRecordsStored ==
  ASSUME NEW t, NEW w, w.tests = t.tests, w.testdata = t.testdata, w.num_days = t.num_days
  PROVE  /\ KeysOf(w) = KeysOf(t)
         /\ \A key, day : StoredOn(w, key, day) = StoredOn(t, key, day)
         /\ \A S : BucketsIn(t, S) => BucketsIn(w, S)
<1>1. KeysOf(w) = KeysOf(t)  BY DEF KeysOf
<1>2. \A key, day : StoredOn(w, key, day) = StoredOn(t, key, day)
  BY <1>1 DEF StoredOn, IndexOf, Latest, RecordRange
<1> QED  BY <1>1, <1>2 DEF BucketsIn

LEMMA EmptyStored ==
  ASSUME NEW t, t.tests = <<>>, t.testdata = <<>>
  PROVE  /\ KeysOf(t) = {}
         /\ \A key, day : StoredOn(t, key, day) = NoData
         /\ \A S : BucketsIn(t, S)
<1>1. KeysOf(t) = {}  BY EmptySeq DEF KeysOf
<1> QED  BY <1>1, EmptySeq DEF StoredOn, BucketsIn

LEMMA StoredFits ==
  ASSUME NEW t, GoodTable(t), BucketsIn(t, Fitting), NEW key, NEW day \in Int
  PROVE  StoredOn(t, key, day) \in Fitting
<1>1. CASE key \notin KeysOf(t)  BY <1>1, NoDataFits DEF StoredOn
<1>2. CASE key \in KeysOf(t)
  <2> DEFINE i == IndexOf(t, key)
             age == Day(Latest(t, i)) - day
  <2>1. i \in DOMAIN t.tests /\ t.tests[i].key = key  BY <1>2, IndexOfKnown
  <2>2. StoredOn(t, key, day) = IF age \in 0 .. t.num_days - 1 THEN BucketAt(t, i, age) ELSE NoData
    BY <2>1, StoredInRecord DEF StoredIn
  <2> HIDE DEF i, age
  <2>3. age \in 0 .. t.num_days - 1 => BucketAt(t, i, age) \in Fitting
    BY <2>1, BucketInData DEF BucketsIn, BucketAt
  <2> QED  BY <2>2, <2>3, NoDataFits
<1> QED  BY <1>1, <1>2

LEMMA DaysType == Days \subseteq Nat
<1> SUFFICES ASSUME NEW t \in {0} \cup Times \cup ClockTimes PROVE Day(t) \in Nat
  BY DEF Days
<1>1. t \in Nat  BY ConstantsAssumption
<1> QED  BY <1>1, DayType

\* The window of a table only ever moves on and shrinks.
LEMMA WindowShrinks ==
  ASSUME NEW t, GoodTable(t), NEW w, GoodTable(w),
         w.num_days <= t.num_days, t.timestamp <= w.timestamp
  PROVE  Window(w) \subseteq Window(t)
<1> SUFFICES ASSUME NEW d \in Days, Day(w.timestamp) - d < w.num_days
             PROVE  Day(t.timestamp) - d < t.num_days
  BY DEF Window
<1>1. /\ t.timestamp \in Nat /\ w.timestamp \in Nat
      /\ t.num_days \in Nat /\ w.num_days \in Nat
  BY DEF GoodTable, Table
<1>2. Day(t.timestamp) \in Nat /\ Day(w.timestamp) \in Nat /\ Day(t.timestamp) <= Day(w.timestamp)
  BY <1>1, DayType, DayMonotone
<1>3. d \in Nat  BY DaysType
<1> QED  BY <1>1, <1>2, <1>3

LEMMA NoHistoryType == NoHistory \in Histories /\ NoRuns \in Runs
<1>1. NoRuns \in Runs  BY DEF NoRuns, Runs
<1> QED  BY <1>1 DEF NoHistory, Histories

LEMMA NothingAccounts ==
  ASSUME NEW t, NEW key \in Keys, NEW day \in Int, StoredOn(t, key, day) = NoData
  PROVE  Accounts(t, NoHistory, key, day, NoData)
<1>1. ToldOn(NoHistory, key, day) = NoRuns  BY DEF NoHistory, ToldOn
<1>2. \A c \in Counters : NoData.counts[c] = 0 /\ NoRuns.counts[c] = 0 /\ 0 + 0 = 0
  BY DEF NoData, NoRuns
<1>3. NoData.failing_commits = {} /\ NoRuns.failing_commits = {}  BY DEF NoData, NoRuns
<1>4. Within(NoData, NoData, NoRuns) /\ Exactly(NoData, NoData, NoRuns)
  BY <1>2, <1>3 DEF Within, Exactly
<1> QED  BY <1>1, <1>4 DEF Accounts

LEMMA AccountsLater ==
  ASSUME NEW t, NEW w, NEW h, NEW key, NEW day, NEW other, Accounts(t, h, key, day, other),
         StoredOn(w, key, day) = StoredOn(t, key, day), Window(w) \subseteq Window(t)
  PROVE  Accounts(w, h, key, day, other)
  BY DEF Accounts

LEMMA HistoryType ==
  ASSUME NEW h \in Histories, NEW key \in Keys, NEW day \in Int
  PROVE  /\ ToldOn(h, key, day) \in Runs /\ h.late \subseteq Keys /\ h.shed \subseteq Keys
         /\ day \in Days => h.runs[key][day] \in Runs
  BY NoHistoryType DEF Histories, ToldOn

\* Outside of the loops no record is left to come to, so nothing is pending.
LEMMA NothingAhead ==
  /\ source = NoTable /\ next \in Nat \ {0} => Ahead = {}
  /\ source' = NoTable /\ next' \in Nat \ {0} => Ahead' = {}
<1>1. NoTable.tests = <<>> /\ Len(<<>>) = 0  BY EmptySeq DEF NoTable, NewTable
<1>2. \A n \in Nat \ {0} : n .. 0 = {}  OBVIOUS
<1> QED  BY <1>1, <1>2 DEF Ahead

LEMMA NothingPending ==
  /\ source = NoTable /\ next \in Nat \ {0} => \A key, day : Pending(key, day) = NoData
  /\ source' = NoTable /\ next' \in Nat \ {0} => \A key, day : Pending(key, day)' = NoData
  BY NothingAhead DEF Pending

-----------------------------------------------------------------------------
(* Every step keeps the invariant.                                          *)

\* The day of a session is one of those the history is about.
SessionDated == phase = "session" => session.timestamp \in Times

LEMMA StaysDated == ASSUME SessionDated, [NextH]_hvars PROVE SessionDated'
<1>1. CASE UNCHANGED hvars  BY <1>1 DEF hvars, vars, SessionDated
<1>2. CASE NextH
  <2>1. CASE phase' = "session" /\ session' = session /\ phase = "session"
    BY <2>1 DEF SessionDated
  <2>2. CASE phase' # "session"  BY <2>2 DEF SessionDated
  <2>3. ASSUME NEW timestamp \in Times, NEW commit \in Commits, NEW flags \in FlagSets,
               StartSessionH(timestamp, commit, flags)
        PROVE  SessionDated'
    BY <2>3 DEF StartSessionH, StartSession, SessionDated
  <2>4. \/ \E timestamp \in Times, commit \in Commits, flags \in FlagSets :
             StartSessionH(timestamp, commit, flags)
        \/ phase' # "session"
        \/ phase' = "session" /\ session' = session /\ phase = "session"
    BY <1>2 DEF NextH, NewH, New, OpenH, Open, SerializeH, Serialize, InsertNewH, InsertNew,
       InsertNewerH, InsertNewer, InsertHistoricH, InsertHistoric, InsertExpiredH,
       InsertExpired, Historic, MergeBeginH, MergeBegin, MergeRecordH, MergeRecord, StepH,
       MergePanics, MergeEnd, UnwindH, Unwind, RewriteSkip, RewriteBeginH, RewriteBegin,
       RewriteDead, RewriteLive, RewriteEnd
  <2> QED  BY <2>1, <2>2, <2>3, <2>4
<1> QED  BY <1>1, <1>2

AccountsHold == \A key \in Keys, day \in Int : Accounts(writer, history, key, day, Pending(key, day))

LEMMA FilesKept ==
  ASSUME HistoryInv, UNCHANGED <<files, histories>>, history' \in Histories,
         BucketsIn(writer', Fitting), BucketsIn(source', Fitting), AccountsHold'
  PROVE  HistoryInv'
  BY DEF HistoryInv, AccountsHold

LEMMA NoTableFits == BucketsIn(NoTable, Fitting)
  BY EmptyStored DEF NoTable, NewTable

\* The steps after which the table is empty and nothing has been reported.
LEMMA EmptyAccountsHold ==
  ASSUME writer'.tests = <<>>, writer'.testdata = <<>>, history' = NoHistory,
         source' = NoTable, next' \in Nat \ {0}
  PROVE  AccountsHold'
<1>1. \A key, day : Pending(key, day)' = NoData  BY NothingPending
<1>2. \A key, day : StoredOn(writer', key, day) = NoData  BY EmptyStored
<1>3. ASSUME NEW key \in Keys, NEW day \in Int
      PROVE  Accounts(writer', history', key, day, Pending(key, day)')
  BY <1>1, <1>2, NothingAccounts
<1> QED  BY <1>3 DEF AccountsHold

LEMMA NewKeeps ==
  ASSUME IInv, HistoryInv, NEW num_days \in Windows, NewH(num_days)
  PROVE  HistoryInv'
<1>1. StateSound(phase, writer, session, source, next, files)  BY IInvIsSound
<1>2. source' = NoTable /\ next' \in Nat \ {0}
  BY <1>1 DEF StateSound, NewH, New
<1>3. writer'.tests = <<>> /\ writer'.testdata = <<>>  BY DEF NewH, New, NewTable
<1>4. history' = NoHistory /\ UNCHANGED <<files, histories>>  BY DEF NewH, New
<1>5. BucketsIn(writer', Fitting) /\ BucketsIn(source', Fitting)
  BY <1>2, <1>3, EmptyStored, NoTableFits
<1> QED  BY <1>2, <1>3, <1>4, <1>5, NoHistoryType, EmptyAccountsHold, FilesKept

LEMMA OpenKeeps ==
  ASSUME IInv, HistoryInv, NEW f \in DOMAIN files, NEW now \in ClockTimes, OpenH(f, now)
  PROVE  HistoryInv'
<1>1. StateSound(phase, writer, session, source, next, files)  BY IInvIsSound
<1>2. source' = NoTable /\ next' \in Nat \ {0}
  BY <1>1 DEF StateSound, OpenH, Open
<1>3. writer' = Parse(files[f], now) /\ history' = histories[f] /\ UNCHANGED <<files, histories>>
  BY DEF OpenH, Open
<1>4. /\ files[f] \in Table /\ GoodTable(files[f]) /\ SoundTable(files[f])
      /\ DOMAIN files = 1 .. Len(files) /\ Len(files) \in Nat
  BY <1>1 DEF StateSound, SoundTable, GoodTable
<1>5. now \in Nat  BY ConstantsAssumption
<1>6. GoodTable(writer')  BY <1>3, <1>4, <1>5, ParseSound DEF SoundTable
<1>7. /\ writer'.tests = files[f].tests /\ writer'.testdata = files[f].testdata
      /\ writer'.num_days = files[f].num_days /\ files[f].timestamp <= writer'.timestamp
  <2>1. files[f].timestamp \in Nat  BY <1>4 DEF Table
  <2>2. files[f].timestamp <= MaxOf(now, files[f].timestamp)  BY <1>5, <2>1 DEF MaxOf
  <2> QED  BY <1>3, <1>4, <2>2 DEF Parse, Table
<1>8. Window(writer') \subseteq Window(files[f])
  <2>1. files[f].num_days \in Nat  BY <1>4 DEF Table
  <2> QED  BY <1>4, <1>6, <1>7, <2>1, WindowShrinks
<1>9. history' \in Histories
  <2>1. f \in DOMAIN histories  BY <1>4 DEF HistoryInv
  <2> QED  BY <1>3, <2>1, ElementOfSeq DEF HistoryInv
<1>10. ASSUME NEW key \in Keys, NEW day \in Int
       PROVE  Accounts(writer', history', key, day, NoData)
  <2>1. Accounts(files[f], histories[f], key, day, NoData)  BY DEF HistoryInv, FileAccounts
  <2>2. StoredOn(writer', key, day) = StoredOn(files[f], key, day)
    BY <1>7, SameRecordsStored
  <2> QED  BY <1>3, <1>8, <2>1, <2>2, AccountsLater
<1>11. AccountsHold'  BY <1>2, <1>10, NothingPending DEF AccountsHold
<1>12. BucketsIn(writer', Fitting)  BY <1>7, SameRecordsStored DEF HistoryInv
<1> QED  BY <1>2, <1>3, <1>9, <1>11, <1>12, NoTableFits, FilesKept

LEMMA SerializeKeeps ==
  ASSUME IInv, HistoryInv, SerializeH
  PROVE  HistoryInv'
<1>1. StateSound(phase, writer, session, source, next, files)  BY IInvIsSound
<1>2. /\ source = NoTable /\ source' = NoTable /\ next \in Nat \ {0} /\ next' \in Nat \ {0}
  BY <1>1 DEF StateSound, SerializeH, Serialize, Ready
<1>3. /\ writer' = NoTable /\ history' = NoHistory
      /\ files' = Append(files, writer) /\ histories' = Append(histories, history)
      /\ files \in Seq(Table) /\ writer \in Table
  BY <1>1 DEF SerializeH, Serialize, StateSound, SoundTable, GoodTable
<1>4. /\ Len(files') = Len(files) + 1 /\ Len(files) \in Nat
      /\ DOMAIN files = 1 .. Len(files) /\ DOMAIN files' = 1 .. Len(files')
      /\ \A f \in 1 .. Len(files) : files'[f] = files[f]
      /\ files'[Len(files) + 1] = writer
  BY <1>3, AppendProperties
<1>5. /\ Len(histories') = Len(histories) + 1 /\ histories' \in Seq(Histories)
      /\ \A f \in 1 .. Len(histories) : histories'[f] = histories[f]
      /\ histories'[Len(histories) + 1] = history
  BY <1>3, AppendProperties DEF HistoryInv
<1>6. Len(histories) = Len(files)  BY DEF HistoryInv
<1>7. FileAccounts(writer, history)
  <2>1. \A key, day : Pending(key, day) = NoData  BY <1>2, NothingPending
  <2> QED  BY <2>1 DEF FileAccounts, HistoryInv
<1>8. ASSUME NEW f \in DOMAIN files'
      PROVE  BucketsIn(files'[f], Fitting) /\ FileAccounts(files'[f], histories'[f])
  <2>1. f \in 1 .. Len(files) + 1  BY <1>4
  <2>2. CASE f = Len(files) + 1
    BY <1>4, <1>5, <1>6, <1>7, <2>2 DEF HistoryInv
  <2>3. CASE f # Len(files) + 1
    <3>1. f \in DOMAIN files /\ f \in 1 .. Len(files)  BY <1>4, <2>1, <2>3
    <3>2. files'[f] = files[f] /\ histories'[f] = histories[f]  BY <1>4, <1>5, <1>6, <3>1
    <3> QED  BY <3>1, <3>2 DEF HistoryInv
  <2> QED  BY <2>2, <2>3
<1>9. AccountsHold'
  <2>1. writer'.tests = <<>> /\ writer'.testdata = <<>>  BY <1>3 DEF NoTable, NewTable
  <2> QED  BY <1>2, <1>3, <2>1, EmptyAccountsHold
<1>10. Len(histories') = Len(files')  BY <1>4, <1>5, <1>6
<1> QED
  BY <1>2, <1>3, <1>5, <1>8, <1>9, <1>10, NoHistoryType, NoTableFits DEF HistoryInv, AccountsHold

\* The steps that only move the clock of the writer.
LEMMA ClockKeeps ==
  ASSUME IInv, IInv', HistoryInv, Ready,
         writer'.tests = writer.tests, writer'.testdata = writer.testdata,
         writer'.num_days = writer.num_days, writer.timestamp <= writer'.timestamp,
         UNCHANGED <<source, next, files, history, histories>>
  PROVE  HistoryInv'
<1>1. StateSound(phase, writer, session, source, next, files)  BY IInvIsSound
<1>2. StateSound(phase', writer', session', source', next', files')  BY IInvIsSound
<1>3. GoodTable(writer) /\ GoodTable(writer') /\ writer.num_days \in Nat
  BY <1>1, <1>2 DEF StateSound, SoundTable, GoodTable, Table
<1>4. Window(writer') \subseteq Window(writer)  BY <1>3, WindowShrinks
<1>5. \A key, day : Pending(key, day)' = Pending(key, day)
  BY DEF Pending, Ahead
<1>6. ASSUME NEW key \in Keys, NEW day \in Int
      PROVE  Accounts(writer', history', key, day, Pending(key, day)')
  <2>1. Accounts(writer, history, key, day, Pending(key, day))  BY DEF HistoryInv
  <2>2. StoredOn(writer', key, day) = StoredOn(writer, key, day)  BY SameRecordsStored
  <2> QED  BY <1>4, <1>5, <2>1, <2>2, AccountsLater
<1>7. AccountsHold'  BY <1>6 DEF AccountsHold
<1>8. BucketsIn(writer', Fitting) /\ BucketsIn(source', Fitting)
  BY SameRecordsStored DEF HistoryInv
<1>9. history' \in Histories  BY DEF HistoryInv
<1> QED  BY <1>7, <1>8, <1>9, FilesKept

LEMMA StartSessionKeeps ==
  ASSUME IInv, IInv', HistoryInv, NEW timestamp \in Times, NEW commit \in Commits,
         NEW flags \in FlagSets, StartSessionH(timestamp, commit, flags)
  PROVE  HistoryInv'
<1>1. StateSound(phase, writer, session, source, next, files)  BY IInvIsSound
<1>2. writer \in Table /\ writer.timestamp \in Nat /\ timestamp \in Nat
  BY <1>1, ConstantsAssumption DEF StateSound, SoundTable, GoodTable, Table
<1>3. /\ Ready /\ UNCHANGED <<source, next, files, history, histories>>
      /\ writer' = [writer EXCEPT !.timestamp = MaxOf(writer.timestamp, timestamp)]
  BY DEF StartSessionH, StartSession
<1>4. /\ writer'.tests = writer.tests /\ writer'.testdata = writer.testdata
      /\ writer'.num_days = writer.num_days /\ writer.timestamp <= writer'.timestamp
  BY <1>2, <1>3 DEF Table, MaxOf
<1> QED  BY <1>3, <1>4, ClockKeeps

\* What a report adds to a history.
LEMMA ReportedRuns ==
  ASSUME NEW h \in Histories, NEW key \in Keys, NEW day, NEW outcome \in Outcomes,
         NEW commit \in Commits
  PROVE  LET told == Reported(h, key, day, outcome, commit)
         IN /\ told \in Histories /\ told.late = h.late /\ told.shed = h.shed
            /\ \A k \in Keys, d \in Days :
                 told.runs[k][d] = IF k = key /\ d = day THEN Told(h.runs[k][d], outcome, commit)
                                   ELSE h.runs[k][d]
<1> DEFINE told == Reported(h, key, day, outcome, commit)
           c == CounterOf(outcome)
           old == h.runs[key][day]
           commits == IF c = "fail" THEN old.failing_commits \cup {commit} ELSE old.failing_commits
           new == [old EXCEPT !.counts[c] = @ + 1, !.failing_commits = commits]
           runs == [h.runs EXCEPT ![key] = [@ EXCEPT ![day] = new]]
<1>1. /\ h.runs \in [Keys -> [Days -> Runs]] /\ h.late \in SUBSET Keys /\ h.shed \in SUBSET Keys
      /\ h.runs[key] \in [Days -> Runs]
  BY DEF Histories
<1>2. c \in Counters  BY ConstantsAssumption DEF CounterOf, Counters
<1>3. told = [h EXCEPT !.runs[key][day].counts[c] = old.counts[c] + 1,
                       !.runs[key][day].failing_commits = commits]
  BY <1>1 DEF Reported, Histories
<1>4. CASE day \in Days
  <2>1. old \in Runs  BY <1>1, <1>4
  <2>2. told = [h EXCEPT !.runs = runs]
    <3> DEFINE x == old.counts[c] + 1
    <3>1. told = [h EXCEPT !.runs[key][day].counts[c] = x,
                           !.runs[key][day].failing_commits = commits]
      BY <1>3
    <3>2. new = [old EXCEPT !.counts[c] = x, !.failing_commits = commits]  OBVIOUS
    <3> HIDE DEF x, commits, new, told, c
    <3> QED  BY <1>4, <3>1, <3>2 DEF Histories
  <2>3. new = Told(old, outcome, commit)
    <3> DEFINE counts == [old.counts EXCEPT ![c] = old.counts[c] + 1]
               o == [old EXCEPT !.counts = counts]
    <3>1. old = [counts |-> old.counts, failing_commits |-> old.failing_commits]
      BY <2>1 DEF Runs
    <3> HIDE DEF old, counts
    <3>2. o = [counts |-> counts, failing_commits |-> old.failing_commits]  BY <3>1
    <3>3. new = [o EXCEPT !.failing_commits = commits]  BY DEF counts
    <3> HIDE DEF o, commits, new
    <3>4. new = [counts |-> counts, failing_commits |-> commits]  BY <3>2, <3>3
    <3>5. Told(old, outcome, commit) = [counts |-> counts, failing_commits |-> commits]
      BY DEF Told, counts, commits
    <3> QED  BY <3>4, <3>5
  <2>4. new \in Runs
    BY <1>2, <2>1, <2>3 DEF Told, Runs
  <2> HIDE DEF told, new
  <2>5. runs \in [Keys -> [Days -> Runs]]  BY <1>1, <2>4
  <2>6. \A k \in Keys, d \in Days : runs[k][d] = IF k = key /\ d = day THEN new ELSE h.runs[k][d]
    BY <1>1, <1>4
  <2> HIDE DEF runs
  <2>7. told \in Histories /\ told.late = h.late /\ told.shed = h.shed /\ told.runs = runs
    BY <1>1, <2>2, <2>5 DEF Histories
  <2> QED  BY <2>3, <2>6, <2>7 DEF told
<1>5. CASE day \notin Days
  <2> DEFINE x == old.counts[c] + 1
             o == [h EXCEPT !.runs[key][day].counts[c] = x]
  <2>1. told = [o EXCEPT !.runs[key][day].failing_commits = commits]  BY <1>3
  <2> HIDE DEF told, x, commits, c
  <2>2. [h.runs EXCEPT ![key] = h.runs[key]] = h.runs /\ [h EXCEPT !.runs = h.runs] = h
    BY DEF Histories
  <2>3. o = h
    <3>1. [h.runs[key] EXCEPT ![day].counts[c] = x] = h.runs[key]  BY <1>1, <1>5
    <3>2. o = [h EXCEPT !.runs = [h.runs EXCEPT ![key] = [h.runs[key] EXCEPT ![day].counts[c] = x]]]
      OBVIOUS
    <3> QED  BY <2>2, <3>1, <3>2
  <2>4. [h EXCEPT !.runs[key][day].failing_commits = commits] = h
    <3>1. [h.runs[key] EXCEPT ![day].failing_commits = commits] = h.runs[key]  BY <1>1, <1>5
    <3>2. [h EXCEPT !.runs[key][day].failing_commits = commits]
            = [h EXCEPT !.runs = [h.runs EXCEPT ![key] =
                                    [h.runs[key] EXCEPT ![day].failing_commits = commits]]]
      OBVIOUS
    <3> QED  BY <2>2, <3>1, <3>2
  <2> HIDE DEF o
  <2>5. told = h  BY <2>1, <2>3, <2>4
  <2> QED  BY <1>5, <2>5 DEF told
<1> QED  BY <1>4, <1>5

\* What the inserts make of what the writer says of the session's test.
LEMMA InsertedStored ==
  ASSUME IInv, NEW test \in Tests, NEW outcome \in Outcomes, Inserted(test, outcome),
         Timely(test), NEW day \in Int
  PROVE  LET old == StoredOn(writer, SessionKey(test), day)
             new == StoredOn(writer', SessionKey(test), day)
         IN /\ day = Day(session.timestamp) => new = CountedIn(old, outcome)
            /\ day # Day(session.timestamp) =>
                 /\ new \in {old, NoData}
                 /\ Day(writer.timestamp) - day < writer.num_days => new = old
<1>1. StoresRun(SessionKey(test), outcome, day)
  BY InsertNewStored, InsertNewerStored, InsertHistoricStored DEF Inserted
<1>2. session' = session  BY DEF Inserted, InsertNew, InsertNewer, InsertHistoric
<1>3. (StoredOn(writer, SessionKey(test), day))' = StoredOn(writer', SessionKey(test), day)
  BY <1>2 DEF SessionKey, StoredOn
<1> QED  BY <1>1, <1>3 DEF StoresRun

\* A run that was reported, and counted in the writer or too old for it.
LEMMA ReportKeeps ==
  ASSUME IInv, HistoryInv, SessionDated, phase = "session", NEW test \in Tests, NEW outcome \in Outcomes,
         NEW newest \in BOOLEAN, Report(test, outcome, newest), newest <=> Newest(test),
         UNCHANGED <<source, next, files>>, BucketsIn(writer', Fitting),
         writer'.num_days = writer.num_days, writer'.timestamp = writer.timestamp,
         \A key \in Keys, day \in Int : key # SessionKey(test) =>
           StoredOn(writer', key, day) = StoredOn(writer, key, day),
         Timely(test) => \A day \in Int :
           LET old == StoredOn(writer, SessionKey(test), day)
               new == StoredOn(writer', SessionKey(test), day)
           IN /\ day = Day(session.timestamp) =>
                   \/ new = CountedIn(old, outcome)
                   \/ new = old /\ day \notin Window(writer)
              /\ day # Day(session.timestamp) =>
                   /\ new \in {old, NoData}
                   /\ Day(writer.timestamp) - day < writer.num_days => new = old
  PROVE  HistoryInv'
<1> DEFINE me == SessionKey(test)
           today == Day(session.timestamp)
           told == Reported(history, me, today, outcome, session.commit)
           late == newest /\ today < Day(writer.timestamp)
<1>1. StateSound(phase, writer, session, source, next, files)  BY IInvIsSound
<1>2. /\ GoodTable(writer) /\ me \in Keys /\ session.commit \in Commits
      /\ session.timestamp \in Nat /\ writer.timestamp \in Nat
      /\ session.timestamp <= writer.timestamp
      /\ source = NoTable /\ next \in Nat \ {0}
  BY <1>1 DEF StateSound, SoundTable, GoodTable, Table, SessionKey, Keys, Session
<1>3. Day(writer.timestamp) \in Nat /\ today \in Nat /\ today <= Day(writer.timestamp)
  BY <1>2, DayType, DayMonotone
<1>4. history \in Histories  BY DEF HistoryInv
<1>5. /\ told \in Histories /\ told.late = history.late /\ told.shed = history.shed
      /\ \A k \in Keys, d \in Days :
           told.runs[k][d] = IF k = me /\ d = today
                             THEN Told(history.runs[k][d], outcome, session.commit)
                             ELSE history.runs[k][d]
  BY <1>2, <1>4, ReportedRuns
<1>6. /\ history' = [told EXCEPT !.late = IF late THEN told.late \cup {me} ELSE told.late]
      /\ histories' = histories
  BY DEF Report
<1>12. today \in Days  BY DEF SessionDated, Days
<1> HIDE DEF me, today, told
<1>7. /\ history' \in Histories /\ history'.runs = told.runs /\ history'.shed = history.shed
      /\ history'.late = IF late THEN history.late \cup {me} ELSE history.late
  <2> DEFINE all == IF late THEN told.late \cup {me} ELSE told.late
  <2>1. all \subseteq Keys  BY <1>2, <1>5, HistoryType DEF Histories
  <2>2. history' = [told EXCEPT !.late = all]  BY <1>6
  <2>3. all = IF late THEN history.late \cup {me} ELSE history.late  BY <1>5
  <2> HIDE DEF all
  <2> QED  BY <1>5, <2>1, <2>2, <2>3 DEF Histories
<1>8. me \notin history'.late => me \notin history.late /\ Timely(test)
  <2>1. me \notin history'.late => ~ late /\ me \notin history.late  BY <1>7
  <2>2. ~ late => Timely(test)  BY <1>3 DEF Timely, today
  <2> QED  BY <2>1, <2>2
<1> HIDE DEF late
<1>9. \A key, day : Pending(key, day) = NoData /\ Pending(key, day)' = NoData
  BY <1>2, NothingPending
<1>10. Window(writer') = Window(writer)  BY DEF Window
<1>11. ASSUME NEW key \in Keys, NEW day \in Int
       PROVE  Accounts(writer', history', key, day, NoData)
  <2> DEFINE old == StoredOn(writer, key, day)
             new == StoredOn(writer', key, day)
             r == ToldOn(history, key, day)
  <2>1. Accounts(writer, history, key, day, NoData)  BY <1>9 DEF HistoryInv
  <2>2. day \in Int  OBVIOUS
  <2>3. old \in TestData /\ r \in Runs
    BY <1>2, <1>4, <2>2, StoredType, HistoryType
  <2>4. CASE key # me
    <3>1. new = old  BY <2>4 DEF me
    <3>2. ToldOn(history', key, day) = r  BY <1>5, <1>7, <2>4 DEF ToldOn
    <3>3. key \notin history'.late => key \notin history.late  BY <1>7
    <3>4. key \notin history'.late \cup history'.shed => key \notin history.late \cup history.shed
      BY <1>7
    <3> QED  BY <1>10, <2>1, <3>1, <3>2, <3>3, <3>4 DEF Accounts
  <2>5. CASE key = me /\ me \notin history'.late
    <3>1. Timely(test) /\ me \notin history.late  BY <1>8, <2>5
    <3>2. Within(old, NoData, r)  BY <2>1, <2>5, <3>1 DEF Accounts
    <3>3. key \notin history'.late \cup history'.shed /\ day \in Window(writer')
            => Exactly(old, NoData, r)
      BY <1>7, <1>10, <2>1, <2>5, <3>1 DEF Accounts
    <3>4. CASE day = today
      <4> DEFINE more == Told(r, outcome, session.commit)
      <4>1. ToldOn(history', key, day) = more  BY <1>5, <1>7, <1>12, <2>5, <3>4 DEF ToldOn
      <4>2. new = CountedIn(old, outcome) \/ (new = old /\ day \notin Window(writer))
        BY <2>5, <3>1, <3>4 DEF me, today
      <4>3. /\ Within(old, NoData, more)
            /\ Within(CountedIn(old, outcome), NoData, more)
            /\ Exactly(old, NoData, r) => Exactly(CountedIn(old, outcome), NoData, more)
        BY <1>2, <2>3, <3>2, OneMoreRun DEF CountedIn
      <4> HIDE DEF old, new, more, r
      <4>4. Within(new, NoData, more)  BY <4>2, <4>3
      <4>5. key \notin history'.late \cup history'.shed /\ day \in Window(writer')
              => Exactly(new, NoData, more)
        BY <1>10, <3>3, <4>2, <4>3
      <4> QED  BY <4>1, <4>4, <4>5 DEF Accounts, new
    <3>5. CASE day # today
      <4>1. ToldOn(history', key, day) = r  BY <1>5, <1>7, <2>5, <3>5 DEF ToldOn
      <4>2. /\ new \in {old, NoData}
            /\ Day(writer.timestamp) - day < writer.num_days => new = old
        BY <2>5, <3>1, <3>5 DEF me, today
      <4>3. day \in Window(writer') => new = old  BY <1>10, <4>2 DEF Window
      <4>4. Within(NoData, NoData, r)  BY <2>3, NothingWithin
      <4> HIDE DEF old, new, r
      <4>5. Within(new, NoData, r)  BY <3>2, <4>2, <4>4
      <4>6. key \notin history'.late \cup history'.shed /\ day \in Window(writer')
              => Exactly(new, NoData, r)
        BY <3>3, <4>3
      <4> QED  BY <4>1, <4>5, <4>6 DEF Accounts, new
    <3> QED  BY <3>4, <3>5
  <2>6. CASE key = me /\ me \in history'.late
    BY <2>6 DEF Accounts
  <2> QED  BY <2>4, <2>5, <2>6
<1>13. AccountsHold'  BY <1>9, <1>11 DEF AccountsHold
<1>14. BucketsIn(source', Fitting)  BY DEF HistoryInv
<1> QED  BY <1>6, <1>7, <1>13, <1>14, FilesKept

LEMMA InsertKeeps ==
  ASSUME IInv, HistoryInv, SessionDated, NEW test \in Tests, NEW outcome \in Outcomes,
         \/ InsertNewH(test, outcome)
         \/ InsertNewerH(test, outcome)
         \/ InsertHistoricH(test, outcome)
  PROVE  HistoryInv'
<1>1. Inserted(test, outcome) /\ phase = "session" /\ UNCHANGED <<session, source, next, files>>
  BY DEF InsertNewH, InsertNewerH, InsertHistoricH, Inserted, InsertNew, InsertNewer,
         InsertHistoric, Historic
<1>2. /\ GoodTable(writer) /\ GoodTable(writer')
      /\ writer'.num_days = writer.num_days /\ writer'.timestamp = writer.timestamp
      /\ KeysOf(writer') = KeysOf(writer) \cup {SessionKey(test)}
      /\ OnlyRecord(writer', writer, InsertIndex(test))
      /\ InsertIndex(test) \in DOMAIN writer.tests =>
           writer.tests[InsertIndex(test)].key = SessionKey(test)
  BY <1>1, InsertsShape
<1>3. ASSUME NEW key \in Keys, NEW day \in Int, key # SessionKey(test)
      PROVE  StoredOn(writer', key, day) = StoredOn(writer, key, day)
  BY <1>2, <1>3, OtherKeysStored
<1>4. Timely(test) => \A day \in Int :
        LET old == StoredOn(writer, SessionKey(test), day)
            new == StoredOn(writer', SessionKey(test), day)
        IN /\ day = Day(session.timestamp) => new = CountedIn(old, outcome)
           /\ day # Day(session.timestamp) =>
                /\ new \in {old, NoData}
                /\ Day(writer.timestamp) - day < writer.num_days => new = old
  BY <1>1, InsertedStored
<1>5. BucketsIn(writer', Fitting)
  <2>1. session.commit \in Commits
    <3>1. StateSound(phase, writer, session, source, next, files)  BY IInvIsSound
    <3> QED  BY <3>1 DEF StateSound, Session
  <2>2. \A data \in Fitting, now \in Nat : CountRun(data, now, outcome, session.commit) \in Fitting
    BY <2>1, NoHistoryType, OneMoreRun DEF Fitting
  <2>3. BucketsIn(writer, Fitting)  BY DEF HistoryInv
  <2> QED  BY <1>1, <2>2, <2>3, NoDataFits, InsertsBuckets DEF Inserted
<1>6. \E newest \in BOOLEAN : Report(test, outcome, newest) /\ (newest <=> Newest(test))
  <2>1. CASE InsertNewH(test, outcome)
    BY <2>1 DEF InsertNewH, InsertNew, Newest
  <2>2. CASE InsertNewerH(test, outcome)
    BY <2>2 DEF InsertNewerH, InsertNewer, Newest
  <2>3. CASE InsertHistoricH(test, outcome)
    <3>1. Known(test) /\ KnownLatest(test) >= session.timestamp
      BY <2>3 DEF InsertHistoricH, InsertHistoric, Historic
    <3>2. KnownLatest(test) \in Nat /\ session.timestamp \in Nat
      BY <1>1, <3>1, KnownStored, InsertTarget
    <3>3. ~ (KnownLatest(test) < session.timestamp)  BY <3>1, <3>2
    <3> QED  BY <2>3, <3>1, <3>3 DEF InsertHistoricH, Newest
  <2> QED  BY <2>1, <2>2, <2>3
<1>7. PICK newest \in BOOLEAN : Report(test, outcome, newest) /\ (newest <=> Newest(test))
  BY <1>6
<1> QED  BY <1>1, <1>2, <1>3, <1>4, <1>5, <1>7, ReportKeeps

LEMMA InsertExpiredKeeps ==
  ASSUME IInv, HistoryInv, SessionDated, NEW test \in Tests, NEW outcome \in Outcomes,
         InsertExpiredH(test, outcome)
  PROVE  HistoryInv'
<1>1. /\ InsertExpired(test) /\ Report(test, outcome, FALSE) /\ phase = "session"
      /\ UNCHANGED <<session, source, next, files>>
      /\ Known(test) /\ KnownLatest(test) >= session.timestamp
      /\ HistoricOffset(test) >= writer.num_days
      /\ writer' = InsertFull(writer, SessionKey(test))
  BY DEF InsertExpiredH, InsertExpired, Historic
<1>2. GoodTable(writer) /\ SessionKey(test) \in Keys
  <2>1. StateSound(phase, writer, session, source, next, files)  BY IInvIsSound
  <2> QED  BY <1>1, <2>1 DEF StateSound, SoundTable, SessionKey, Keys, Session
<1>3. writer'.num_days = writer.num_days /\ writer'.timestamp = writer.timestamp
  BY <1>1, <1>2, InsertFullProperties
<1>4. \A key \in Keys, day \in Int : StoredOn(writer', key, day) = StoredOn(writer, key, day)
  BY <1>1, InsertExpiredStored
<1>5. BucketsIn(writer', Fitting)
  BY <1>1, <1>2, NoDataFits, InsertFullBuckets DEF HistoryInv
<1>6. /\ KnownLatest(test) \in Nat /\ session.timestamp \in Nat /\ writer.timestamp \in Nat
      /\ KnownLatest(test) <= writer.timestamp /\ writer.num_days \in Nat \ {0}
  <2>1. 0 \in Nat  OBVIOUS
  <2> QED  BY <1>1, <2>1, KnownStored
<1>7. /\ Day(KnownLatest(test)) \in Nat /\ Day(session.timestamp) \in Nat
      /\ Day(writer.timestamp) \in Nat /\ Day(KnownLatest(test)) <= Day(writer.timestamp)
  BY <1>6, DayType, DayMonotone
<1>8. HistoricOffset(test) = Day(KnownLatest(test)) - Day(session.timestamp)
  BY DEF HistoricOffset, OffsetFromToday
<1>9. ~ Newest(test)
  <2>1. HistoricOffset(test) # 0  BY <1>1, <1>6, <1>7, <1>8
  <2>2. ~ (KnownLatest(test) < session.timestamp)  BY <1>1, <1>6
  <2> QED  BY <1>1, <2>1, <2>2 DEF Newest
<1>10. Day(session.timestamp) \notin Window(writer)
  BY <1>1, <1>6, <1>7, <1>8 DEF Window
<1>11. \A day \in Int :
         LET old == StoredOn(writer, SessionKey(test), day)
             new == StoredOn(writer', SessionKey(test), day)
         IN /\ day = Day(session.timestamp) => new = old /\ day \notin Window(writer)
            /\ day # Day(session.timestamp) => new = old
  BY <1>2, <1>4, <1>10
<1> QED  BY <1>1, <1>3, <1>4, <1>5, <1>9, <1>11, ReportKeeps

LEMMA ParseAccounts ==
  ASSUME NEW t, SoundTable(t), NEW h, FileAccounts(t, h), BucketsIn(t, Fitting), NEW now \in Nat
  PROVE  LET w == Parse(t, now)
         IN /\ GoodTable(w) /\ w.num_days = t.num_days
            /\ FileAccounts(w, h) /\ BucketsIn(w, Fitting)
<1> DEFINE w == Parse(t, now)
<1>1. GoodTable(t) /\ t \in Table /\ t.timestamp \in Nat /\ t.num_days \in Nat
  BY DEF SoundTable, GoodTable, Table
<1>2. GoodTable(w)  BY ParseSound DEF SoundTable
<1>3. /\ w.tests = t.tests /\ w.testdata = t.testdata /\ w.num_days = t.num_days
      /\ t.timestamp <= w.timestamp
  BY <1>1 DEF Parse, Table, MaxOf
<1> HIDE DEF w
<1>4. Window(w) \subseteq Window(t)  BY <1>1, <1>2, <1>3, WindowShrinks
<1>5. BucketsIn(w, Fitting)  BY <1>3, SameRecordsStored
<1>6. ASSUME NEW key \in Keys, NEW day \in Int
      PROVE  Accounts(w, h, key, day, NoData)
  <2>1. Accounts(t, h, key, day, NoData)  BY DEF FileAccounts
  <2>2. StoredOn(w, key, day) = StoredOn(t, key, day)  BY <1>3, SameRecordsStored
  <2> QED  BY <1>4, <2>1, <2>2, AccountsLater
<1>7. FileAccounts(w, h)  BY <1>6 DEF FileAccounts
<1> QED  BY <1>2, <1>3, <1>5, <1>7 DEF w

LEMMA CombinedProperties ==
  ASSUME NEW h \in Histories, NEW g \in Histories
  PROVE  /\ Combined(h, g) \in Histories /\ Combined(h, g) = Combined(g, h)
         /\ \A k \in Keys, d \in Days :
              Combined(h, g).runs[k][d] = Joined(h.runs[k][d], g.runs[k][d])
         /\ Combined(h, g).late = h.late \cup g.late
         /\ Combined(h, g).shed = h.shed \cup g.shed
         /\ \A r : r.runs = Combined(h, g).runs =>
              \A k \in Keys, d \in Int : ToldOn(r, k, d) = Joined(ToldOn(h, k, d), ToldOn(g, k, d))
<1> DEFINE J(k, d) == Joined(h.runs[k][d], g.runs[k][d])
<1>1. \A k \in Keys, d \in Days : h.runs[k][d] \in Runs /\ g.runs[k][d] \in Runs
  BY DEF Histories
<1>2. Combined(h, g) = [runs |-> [k \in Keys |-> [d \in Days |-> J(k, d)]],
                        late |-> h.late \cup g.late, shed |-> h.shed \cup g.shed]
  BY DEF Combined, Joined
<1>3. \A k \in Keys, d \in Days : J(k, d) \in Runs
  BY <1>1 DEF Joined, Runs
<1>4. \A k \in Keys, d \in Days : J(k, d) = Joined(g.runs[k][d], h.runs[k][d])
  <2> SUFFICES ASSUME NEW k \in Keys, NEW d \in Days
               PROVE  J(k, d) = Joined(g.runs[k][d], h.runs[k][d])
    OBVIOUS
  <2>1. \A c \in Counters : h.runs[k][d].counts[c] + g.runs[k][d].counts[c]
                              = g.runs[k][d].counts[c] + h.runs[k][d].counts[c]
    BY <1>1 DEF Runs
  <2> QED  BY <2>1 DEF Joined
<1>5. Combined(g, h) = [runs |-> [k \in Keys |-> [d \in Days |-> Joined(g.runs[k][d], h.runs[k][d])]],
                        late |-> g.late \cup h.late, shed |-> g.shed \cup h.shed]
  BY DEF Combined, Joined
<1>6. h.late \cup g.late = g.late \cup h.late /\ h.shed \cup g.shed = g.shed \cup h.shed
  OBVIOUS
<1> HIDE DEF J
<1>7. [k \in Keys |-> [d \in Days |-> J(k, d)]]
        = [k \in Keys |-> [d \in Days |-> Joined(g.runs[k][d], h.runs[k][d])]]
  BY <1>4
<1>8. Combined(h, g) = Combined(g, h)  BY <1>2, <1>5, <1>6, <1>7
<1>9. Combined(h, g) \in Histories
  BY <1>2, <1>3 DEF Histories
<1>10. \A k \in Keys, d \in Days : Combined(h, g).runs[k][d] = J(k, d)
  BY <1>2
<1>11. Joined(NoRuns, NoRuns) = NoRuns
  BY DEF Joined, NoRuns
<1>12. \A r : r.runs = Combined(h, g).runs =>
         \A k \in Keys, d \in Int : ToldOn(r, k, d) = Joined(ToldOn(h, k, d), ToldOn(g, k, d))
  BY <1>10, <1>11 DEF J, ToldOn
<1> QED  BY <1>2, <1>8, <1>9, <1>10, <1>12 DEF J

\* l and s are merged into w, of which s is pending as a whole.
LEMMA MergeAccounts ==
  ASSUME NEW l, GoodTable(l), NEW s, GoodTable(s), NEW w, GoodTable(w),
         BucketsIn(l, Fitting), BucketsIn(s, Fitting),
         w.tests = l.tests, w.testdata = l.testdata, w.num_days = l.num_days,
         l.timestamp <= w.timestamp, s.timestamp <= w.timestamp,
         NEW hl \in Histories, NEW hs \in Histories, FileAccounts(l, hl), FileAccounts(s, hs),
         NEW h, h.late = hl.late \cup hs.late, hl.shed \cup hs.shed \subseteq h.shed,
         s.num_days < l.num_days => h.shed = Keys,
         NEW key \in Keys, NEW day \in Int,
         ToldOn(h, key, day) = Joined(ToldOn(hl, key, day), ToldOn(hs, key, day))
  PROVE  Accounts(w, h, key, day, StoredOn(s, key, day))
<1> DEFINE a == StoredOn(l, key, day)
           b == StoredOn(s, key, day)
           r == ToldOn(hl, key, day)
           q == ToldOn(hs, key, day)
<1>1. day \in Int  OBVIOUS
<1>2. a \in TestData /\ b \in TestData  BY <1>1, StoredType
<1>3. r \in Runs /\ q \in Runs  BY HistoryType
<1>4. StoredOn(w, key, day) = a  BY SameRecordsStored
<1>5. Accounts(l, hl, key, day, NoData) /\ Accounts(s, hs, key, day, NoData)
  BY DEF FileAccounts
<1>6. key \notin h.late => Within(a, b, Joined(r, q))
  BY <1>2, <1>3, <1>5, JoinedWithin DEF Accounts
<1>7. ASSUME key \notin h.late \cup h.shed, day \in Window(w)
      PROVE  Exactly(a, b, Joined(r, q))
  <2>1. /\ l.num_days \in Nat /\ s.num_days \in Nat /\ w.num_days \in Nat
    BY DEF GoodTable, Table
  <2>2. l.num_days <= s.num_days  BY <1>7, <2>1
  <2>3. Window(w) \subseteq Window(l) /\ Window(w) \subseteq Window(s)
    BY <2>1, <2>2, WindowShrinks
  <2>4. Exactly(a, NoData, r) /\ Exactly(b, NoData, q)
    BY <1>5, <1>7, <2>3 DEF Accounts
  <2> QED  BY <1>2, <1>3, <2>4, JoinedExactly
<1> QED  BY <1>4, <1>6, <1>7 DEF Accounts

\* At the beginning of the loops everything of source is pending.
LEMMA AllAhead ==
  ASSUME next' = 1, source' \in Table
  PROVE  Ahead' = KeysOf(source')
<1>1. DOMAIN source'.tests = 1 .. Len(source'.tests)  BY DEF Table
<1> QED  BY <1>1 DEF Ahead, KeysOf

LEMMA AllPending ==
  ASSUME next' = 1, source' \in Table
  PROVE  \A key, day : Pending(key, day)' = StoredOn(source', key, day)
  BY AllAhead DEF Pending, StoredOn

LEMMA MergeBeginKeeps ==
  ASSUME IInv, IInv', HistoryInv, NEW f \in DOMAIN files, NEW g \in DOMAIN files,
         NEW now \in ClockTimes, MergeBeginH(f, g, now)
  PROVE  HistoryInv'
<1> DEFINE a == Parse(files[f], now)
           b == Parse(files[g], now)
           l == Larger(a, b)
           s == Smaller(a, b)
           both == Combined(histories[f], histories[g])
<1>1. StateSound(phase, writer, session, source, next, files)  BY IInvIsSound
<1>2. StateSound(phase', writer', session', source', next', files')  BY IInvIsSound
<1>3. /\ writer' = [l EXCEPT !.timestamp = MaxOf(a.timestamp, b.timestamp)]
      /\ source' = s /\ next' = 1 /\ UNCHANGED <<files, histories>>
      /\ history' = IF s.num_days < l.num_days THEN [both EXCEPT !.shed = Keys] ELSE both
  BY DEF MergeBeginH, MergeBegin
<1>4. now \in Nat  BY ConstantsAssumption
<1>5. ASSUME NEW i \in DOMAIN files
      PROVE  /\ GoodTable(Parse(files[i], now)) /\ FileAccounts(Parse(files[i], now), histories[i])
             /\ BucketsIn(Parse(files[i], now), Fitting) /\ histories[i] \in Histories
  <2>1. SoundTable(files[i])  BY <1>1 DEF StateSound
  <2>2. DOMAIN histories = DOMAIN files  BY <1>1 DEF HistoryInv, StateSound
  <2>3. histories[i] \in Histories  BY <2>2, ElementOfSeq DEF HistoryInv
  <2> QED  BY <1>4, <2>1, <2>3, ParseAccounts DEF HistoryInv
<1>6. \E hl, hs \in Histories :
        /\ GoodTable(l) /\ FileAccounts(l, hl) /\ BucketsIn(l, Fitting)
        /\ GoodTable(s) /\ FileAccounts(s, hs) /\ BucketsIn(s, Fitting)
        /\ both = Combined(hl, hs)
  <2>1. CASE SecondIsLarger(a, b)
    <3>1. l = b /\ s = a  BY <2>1 DEF Larger, Smaller
    <3>2. both = Combined(histories[g], histories[f])  BY <1>5, CombinedProperties
    <3> HIDE DEF a, b, l, s, both
    <3> QED  BY <1>5, <3>1, <3>2 DEF a, b
  <2>2. CASE ~ SecondIsLarger(a, b)
    <3>1. l = a /\ s = b  BY <2>2 DEF Larger, Smaller
    <3>2. both = Combined(histories[f], histories[g])  OBVIOUS
    <3> HIDE DEF a, b, l, s, both
    <3> QED  BY <1>5, <3>1, <3>2 DEF a, b
  <2> QED  BY <2>1, <2>2
<1>7. PICK hl \in Histories, hs \in Histories :
        /\ GoodTable(l) /\ FileAccounts(l, hl) /\ BucketsIn(l, Fitting)
        /\ GoodTable(s) /\ FileAccounts(s, hs) /\ BucketsIn(s, Fitting)
        /\ both = Combined(hl, hs)
  BY <1>6
<1>8. a \in Table /\ b \in Table  BY <1>5 DEF GoodTable
<1>9. l \in {a, b} /\ s \in {a, b}  BY LargerOrSmaller
<1> HIDE DEF a, b, l, s, both
<1>10. /\ writer'.tests = l.tests /\ writer'.testdata = l.testdata
       /\ writer'.num_days = l.num_days
       /\ l.timestamp <= writer'.timestamp /\ s.timestamp <= writer'.timestamp
  <2>1. a.timestamp \in Nat /\ b.timestamp \in Nat /\ l \in Table
    BY <1>8, <1>9 DEF Table
  <2>2. writer'.timestamp = MaxOf(a.timestamp, b.timestamp)  BY <1>3, <2>1 DEF Table
  <2>3. a.timestamp <= writer'.timestamp /\ b.timestamp <= writer'.timestamp
    BY <2>1, <2>2 DEF MaxOf
  <2>4. writer'.tests = l.tests /\ writer'.testdata = l.testdata /\ writer'.num_days = l.num_days
    BY <1>3, <2>1 DEF Table
  <2> QED  BY <1>9, <2>3, <2>4
<1>11. GoodTable(writer')  BY <1>2 DEF StateSound, SoundTable
<1>12. /\ both \in Histories /\ both.late = hl.late \cup hs.late
       /\ both.shed = hl.shed \cup hs.shed
       /\ \A r : r.runs = both.runs =>
            \A k \in Keys, d \in Int : ToldOn(r, k, d) = Joined(ToldOn(hl, k, d), ToldOn(hs, k, d))
  BY <1>7, CombinedProperties
<1>13. /\ history' \in Histories /\ history'.runs = both.runs /\ history'.late = both.late
       /\ both.shed \subseteq history'.shed
       /\ s.num_days < l.num_days => history'.shed = Keys
  <2>1. both.shed \subseteq Keys  BY <1>12 DEF Histories
  <2>2. CASE s.num_days < l.num_days
    <3>1. history' = [both EXCEPT !.shed = Keys]  BY <1>3, <2>2
    <3> QED  BY <1>12, <2>1, <3>1 DEF Histories
  <2>3. CASE ~ (s.num_days < l.num_days)  BY <1>3, <1>12, <2>3
  <2> QED  BY <2>2, <2>3
<1>14. ASSUME NEW key \in Keys, NEW day \in Int
       PROVE  Accounts(writer', history', key, day, Pending(key, day)')
  <2>1. Pending(key, day)' = StoredOn(s, key, day)
    <3>1. source' \in Table  BY <1>2 DEF StateSound, GoodTable
    <3> QED  BY <1>3, <3>1, AllPending
  <2>2. ToldOn(history', key, day) = Joined(ToldOn(hl, key, day), ToldOn(hs, key, day))
    BY <1>12, <1>13
  <2>3. history'.late = hl.late \cup hs.late /\ hl.shed \cup hs.shed \subseteq history'.shed
    BY <1>12, <1>13
  <2>4. Accounts(writer', history', key, day, StoredOn(s, key, day))
    BY <1>7, <1>10, <1>11, <1>13, <2>2, <2>3, MergeAccounts
  <2> QED  BY <2>1, <2>4
<1>15. AccountsHold'  BY <1>14 DEF AccountsHold
<1>16. BucketsIn(writer', Fitting) /\ BucketsIn(source', Fitting)
  BY <1>3, <1>7, <1>10, SameRecordsStored
<1> QED  BY <1>3, <1>13, <1>15, <1>16, FilesKept

\* A step of the loops takes one record out of what is pending.
LEMMA AheadAdvances ==
  ASSUME GoodTable(source), next \in DOMAIN source.tests, next' = next + 1, source' = source
  PROVE  /\ source.tests[next].key \in Keys
         /\ Ahead = Ahead' \cup {source.tests[next].key} /\ source.tests[next].key \notin Ahead'
         /\ \A day : Pending(source.tests[next].key, day) = StoredOn(source, source.tests[next].key, day)
         /\ \A key, day : Pending(key, day)' = IF key = source.tests[next].key THEN NoData
                                               ELSE Pending(key, day)
<1> DEFINE me == source.tests[next].key
           last == Len(source.tests)
<1>1. /\ DOMAIN source.tests = 1 .. last /\ last \in Nat
      /\ next \in Nat /\ source.tests \in Seq(Test)
      /\ \A i, j \in DOMAIN source.tests : source.tests[i].key = source.tests[j].key => i = j
  BY DEF GoodTable, Table, UniqueKeys
<1>2. me \in Keys
  <2>1. source.tests[next] \in Test  BY <1>1, ElementOfSeq
  <2> QED  BY <2>1 DEF Test
<1>3. next .. last = {next} \cup (next + 1 .. last)  BY <1>1
<1>4. \A i \in next + 1 .. last : source.tests[i].key # me
  <2> SUFFICES ASSUME NEW i \in next + 1 .. last, source.tests[i].key = me PROVE FALSE
    OBVIOUS
  <2>1. i \in DOMAIN source.tests /\ i # next  BY <1>1
  <2> QED  BY <1>1, <2>1
<1>5. Ahead' = {source.tests[i].key : i \in next + 1 .. last}  BY DEF Ahead
<1>6. Ahead = {me} \cup Ahead'  BY <1>3, <1>5 DEF Ahead
<1>7. me \notin Ahead'  BY <1>4, <1>5
<1>8. \A key, day : Pending(key, day)' = IF key \in Ahead' THEN StoredOn(source, key, day) ELSE NoData
  BY DEF Pending
<1> HIDE DEF me, last
<1>9. \A day : Pending(me, day) = StoredOn(source, me, day)  BY <1>6 DEF Pending
<1>10. \A key, day : Pending(key, day)' = IF key = me THEN NoData ELSE Pending(key, day)
  BY <1>6, <1>7, <1>8 DEF Pending
<1> QED  BY <1>2, <1>6, <1>7, <1>9, <1>10 DEF me

LEMMA MergeRecordKeeps ==
  ASSUME IInv, IInv', HistoryInv, MergeRecordH
  PROVE  HistoryInv'
<1> DEFINE me == MergeKey
           shifts == SmallerIsNewer /\ MergeOffset > 0
<1>1. StateSound(phase, writer, session, source, next, files)  BY IInvIsSound
<1>2. /\ MergeRecord /\ UNCHANGED <<source, files, histories>> /\ next' = next + 1
      /\ next \in DOMAIN source.tests
      /\ history' = IF shifts THEN [history EXCEPT !.shed = history.shed \cup {me}] ELSE history
  BY <1>1 DEF StateSound, GoodTable, Table, MergeRecordH, MergeRecord
<1>3. MergePre  BY <1>1, <1>2 DEF MergePre, StateSound, SoundTable
<1>4. /\ me \in Keys /\ GoodTable(writer) /\ GoodTable(writer') /\ GoodTable(source)
      /\ writer'.num_days = writer.num_days /\ writer'.timestamp = writer.timestamp
      /\ KeysOf(writer') = KeysOf(writer) \cup {me}
      /\ OnlyRecord(writer', writer, MergeIndex)
      /\ MergeIndex \in DOMAIN writer.tests => writer.tests[MergeIndex].key = me
  BY <1>2, <1>3, MergeShape DEF MergePre
<1>5. /\ \A day : Pending(me, day) = StoredOn(source, me, day)
      /\ \A key, day : Pending(key, day)' = IF key = me THEN NoData ELSE Pending(key, day)
  BY <1>2, <1>4, AheadAdvances DEF MergeKey
<1>6. history \in Histories  BY DEF HistoryInv
<1>7. /\ history' \in Histories /\ history'.runs = history.runs /\ history'.late = history.late
      /\ history'.shed = IF shifts THEN history.shed \cup {me} ELSE history.shed
  <2> HIDE DEF me, shifts
  <2>1. history.shed \cup {me} \subseteq Keys  BY <1>4, <1>6 DEF Histories
  <2> QED  BY <1>2, <1>6, <2>1 DEF Histories
<1>8. Window(writer') = Window(writer)  BY <1>4 DEF Window
<1>9. ASSUME NEW key \in Keys, NEW day \in Int
      PROVE  Accounts(writer', history', key, day, Pending(key, day)')
  <2> DEFINE mine == StoredOn(writer, key, day)
             other == StoredOn(source, key, day)
             merged == StoredOn(writer', key, day)
             r == ToldOn(history, key, day)
  <2>1. Accounts(writer, history, key, day, Pending(key, day))  BY DEF HistoryInv
  <2>2. day \in Int  OBVIOUS
  <2>3. mine \in TestData /\ other \in TestData /\ r \in Runs
    BY <1>4, <1>6, <2>2, StoredType, HistoryType
  <2>4. CASE key # me
    <3>1. merged = mine  BY <1>4, <2>4, OtherKeysStored
    <3>2. Pending(key, day)' = Pending(key, day)  BY <1>5, <2>4
    <3>3. key \notin history'.late \cup history'.shed => key \notin history.late \cup history.shed
      BY <1>7, <2>4
    <3>4. ToldOn(history', key, day) = r  BY <1>7 DEF ToldOn
    <3> QED  BY <1>7, <1>8, <2>1, <3>1, <3>2, <3>3, <3>4 DEF Accounts
  <2>5. CASE key = me
    <3>1. Pending(key, day) = other /\ Pending(key, day)' = NoData  BY <1>5, <2>5
    <3>2. MergesDays(key, day)  BY <1>2, <1>3, <2>2, <2>5, MergeStored
    <3>3. StoredOn(writer, key, day)' = merged  BY DEF StoredOn
    <3>4. /\ merged \in {MergeData(mine, other), mine, NoData}
          /\ Day(writer.timestamp) - day < writer.num_days /\ ~ shifts
               => merged = MergeData(mine, other) \/ (merged = mine /\ other = NoData)
      BY <3>2, <3>3 DEF MergesDays
    <3>5. key \notin history'.late => Within(mine, other, r)
      BY <1>7, <2>1, <3>1 DEF Accounts
    <3>6. day \in Window(writer') => Day(writer.timestamp) - day < writer.num_days
      BY <1>8 DEF Window
    <3>7. ASSUME key \notin history'.late \cup history'.shed, day \in Window(writer')
          PROVE  Exactly(mine, other, r) /\ ~ shifts
      BY <1>7, <1>8, <2>1, <2>5, <3>1, <3>7 DEF Accounts
    <3>10. ToldOn(history', key, day) = r  BY <1>7 DEF ToldOn
    <3> HIDE DEF me, shifts, mine, other, r, merged
    <3>8. key \notin history'.late => Within(merged, NoData, r)
      BY <2>3, <3>4, <3>5, MergeKeepsWithin, WithinLess
    <3>9. key \notin history'.late \cup history'.shed /\ day \in Window(writer')
            => Exactly(merged, NoData, r)
      BY <2>3, <3>4, <3>6, <3>7, MergeKeepsExactly
    <3> QED  BY <1>7, <3>1, <3>8, <3>9, <3>10 DEF Accounts, merged
  <2> QED  BY <2>4, <2>5
<1>10. AccountsHold'  BY <1>9 DEF AccountsHold
<1>11. BucketsIn(writer', Fitting)
  <2>1. \A a \in Fitting, b \in Fitting : MergeData(a, b) \in Fitting
    BY MergeDataFits DEF Fitting
  <2> QED  BY <1>2, <1>3, <2>1, NoDataFits, MergeRecordBuckets DEF HistoryInv
<1>12. BucketsIn(source', Fitting)  BY <1>2 DEF HistoryInv
<1> QED  BY <1>2, <1>7, <1>10, <1>11, <1>12, FilesKept

\* At the end of the loops nothing is pending any more.
LEMMA LoopEndKeeps ==
  ASSUME IInv, HistoryInv, next > Len(source.tests), source' = NoTable, next' = 1,
         UNCHANGED <<writer, files, history, histories>>
  PROVE  HistoryInv'
<1>1. StateSound(phase, writer, session, source, next, files)  BY IInvIsSound
<1>2. next \in Nat \ {0} /\ Len(source.tests) \in Nat
  BY <1>1 DEF StateSound, GoodTable, Table
<1>3. next .. Len(source.tests) = {}  BY <1>2
<1>4. \A key, day : Pending(key, day) = NoData  BY <1>3 DEF Pending, Ahead
<1>5. \A key, day : Pending(key, day)' = NoData  BY NothingPending
<1>6. AccountsHold'
  <2>1. ASSUME NEW key \in Keys, NEW day \in Int
        PROVE  Accounts(writer', history', key, day, Pending(key, day)')
    BY <1>4, <1>5 DEF HistoryInv
  <2> QED  BY <2>1 DEF AccountsHold
<1>7. history' \in Histories /\ BucketsIn(writer', Fitting)  BY DEF HistoryInv
<1> QED  BY <1>6, <1>7, NoTableFits, FilesKept

LEMMA UnwindKeeps ==
  ASSUME IInv, HistoryInv, UnwindH
  PROVE  HistoryInv'
<1>1. /\ writer' = NoTable /\ source' = NoTable /\ next' = 1 /\ history' = NoHistory
      /\ UNCHANGED <<files, histories>>
  BY DEF UnwindH, Unwind
<1>2. writer'.tests = <<>> /\ writer'.testdata = <<>>  BY <1>1 DEF NoTable, NewTable
<1>3. AccountsHold'  BY <1>1, <1>2, EmptyAccountsHold
<1> QED  BY <1>1, <1>3, NoTableFits, NoHistoryType, FilesKept

LEMMA NothingKeeps ==
  ASSUME HistoryInv, UNCHANGED <<writer, source, next, files, history, histories>>
  PROVE  HistoryInv'
<1>1. \A key, day : Pending(key, day)' = Pending(key, day)  BY DEF Pending, Ahead
<1>2. AccountsHold'  BY <1>1 DEF HistoryInv, AccountsHold
<1> QED  BY <1>2, FilesKept DEF HistoryInv

LEMMA RewriteSkipKeeps ==
  ASSUME IInv, IInv', HistoryInv, NEW num_days, NEW timestamp \in ClockTimes, NEW threshold,
         StepH(RewriteSkip(num_days, timestamp, threshold))
  PROVE  HistoryInv'
<1>1. StateSound(phase, writer, session, source, next, files)  BY IInvIsSound
<1>2. writer \in Table /\ writer.timestamp \in Nat /\ timestamp \in Nat
  BY <1>1, ConstantsAssumption DEF StateSound, SoundTable, GoodTable, Table
<1>3. /\ Ready /\ UNCHANGED <<source, next, files, history, histories>>
      /\ writer' = [writer EXCEPT !.timestamp = MaxOf(writer.timestamp, timestamp)]
  BY DEF StepH, RewriteSkip
<1>4. /\ writer'.tests = writer.tests /\ writer'.testdata = writer.testdata
      /\ writer'.num_days = writer.num_days /\ writer.timestamp <= writer'.timestamp
  BY <1>2, <1>3 DEF Table, MaxOf
<1> QED  BY <1>3, <1>4, ClockKeeps

LEMMA RewriteBeginKeeps ==
  ASSUME IInv, IInv', HistoryInv, NEW num_days \in Windows, NEW timestamp \in ClockTimes,
         NEW threshold, RewriteBeginH(num_days, timestamp, threshold)
  PROVE  HistoryInv'
<1> DEFINE now == MaxOf(writer.timestamp, timestamp)
<1>1. StateSound(phase, writer, session, source, next, files)  BY IInvIsSound
<1>2. StateSound(phase', writer', session', source', next', files')  BY IInvIsSound
<1>3. /\ GoodTable(writer) /\ GoodTable(writer') /\ GoodTable(source')
      /\ writer \in Table /\ source' \in Table /\ writer.num_days \in Nat
      /\ writer.timestamp \in Nat /\ timestamp \in Nat /\ next \in Nat \ {0}
  BY <1>1, <1>2, ConstantsAssumption DEF StateSound, SoundTable, GoodTable, Table
<1>4. /\ Ready /\ next' = 1 /\ UNCHANGED <<files, histories>>
      /\ writer' = [NewTable(num_days) EXCEPT !.timestamp = now]
      /\ source' = [writer EXCEPT !.timestamp = now]
      /\ history' = IF num_days > writer.num_days THEN [history EXCEPT !.shed = Keys] ELSE history
  BY DEF RewriteBeginH, RewriteBegin
<1>5. now \in Nat /\ writer.timestamp <= now  BY <1>3 DEF MaxOf
<1> HIDE DEF now
<1>6. /\ writer'.tests = <<>> /\ writer'.testdata = <<>>
      /\ writer'.num_days = num_days /\ writer'.timestamp = now
  BY <1>4 DEF NewTable
<1>7. /\ source'.tests = writer.tests /\ source'.testdata = writer.testdata
      /\ source'.num_days = writer.num_days
  BY <1>3, <1>4 DEF Table
<1>8. history \in Histories  BY DEF HistoryInv
<1>9. /\ history' \in Histories /\ history'.runs = history.runs /\ history'.late = history.late
      /\ history.shed \subseteq history'.shed
      /\ num_days > writer.num_days => history'.shed = Keys
  BY <1>4, <1>8 DEF Histories
<1>10. num_days \in Nat  BY ConstantsAssumption
<1>11. source = NoTable  BY <1>1, <1>4 DEF StateSound, Ready
<1>12. \A key, day : Pending(key, day) = NoData  BY <1>3, <1>11, NothingPending
<1>13. \A key, day : Pending(key, day)' = StoredOn(writer, key, day)
  <2>1. \A key, day : Pending(key, day)' = StoredOn(source', key, day)
    BY <1>3, <1>4, AllPending
  <2>2. \A key, day : StoredOn(source', key, day) = StoredOn(writer, key, day)
    BY <1>7, SameRecordsStored
  <2> QED  BY <2>1, <2>2
<1>14. \A key, day : StoredOn(writer', key, day) = NoData  BY <1>6, EmptyStored
<1>15. ASSUME NEW key \in Keys, NEW day \in Int
       PROVE  Accounts(writer', history', key, day, Pending(key, day)')
  <2> DEFINE old == StoredOn(writer, key, day)
             r == ToldOn(history, key, day)
  <2>1. Accounts(writer, history, key, day, NoData)  BY <1>12 DEF HistoryInv
  <2>2. day \in Int  OBVIOUS
  <2>3. old \in TestData /\ NoData \in TestData /\ r \in Runs
    BY <1>3, <1>8, <2>2, StoredType, HistoryType, NoDataType
  <2>4. key \notin history'.late => Within(old, NoData, r)
    BY <1>9, <2>1 DEF Accounts
  <2>5. ASSUME key \notin history'.late \cup history'.shed, day \in Window(writer')
        PROVE  Exactly(old, NoData, r)
    <3>1. writer'.num_days <= writer.num_days  BY <1>3, <1>6, <1>9, <1>10, <2>5
    <3>2. Window(writer') \subseteq Window(writer)
      BY <1>3, <1>5, <1>6, <3>1, WindowShrinks
    <3> QED  BY <1>9, <2>1, <2>5, <3>2 DEF Accounts
  <2>8. ToldOn(history', key, day) = r  BY <1>9 DEF ToldOn
  <2> HIDE DEF old, r
  <2>6. key \notin history'.late => Within(NoData, old, r)  BY <2>3, <2>4, WithinSwaps
  <2>7. key \notin history'.late \cup history'.shed /\ day \in Window(writer')
          => Exactly(NoData, old, r)
    BY <2>3, <2>5, ExactlySwaps
  <2> QED  BY <1>9, <1>13, <1>14, <2>6, <2>7, <2>8 DEF Accounts, old
<1>16. AccountsHold'  BY <1>15 DEF AccountsHold
<1>17. BucketsIn(writer', Fitting) /\ BucketsIn(source', Fitting)
  BY <1>6, <1>7, EmptyStored, SameRecordsStored DEF HistoryInv
<1> QED  BY <1>4, <1>9, <1>16, <1>17, FilesKept

\* The record rewrite leaves out says nothing of the days in the window.
LEMMA RewriteDeadKeeps ==
  ASSUME IInv, HistoryInv, StepH(RewriteDead)
  PROVE  HistoryInv'
<1> DEFINE me == source.tests[next].key
<1>1. StateSound(phase, writer, session, source, next, files)  BY IInvIsSound
<1>2. /\ UNCHANGED <<writer, source, files, history, histories>> /\ next' = next + 1
      /\ next \in DOMAIN source.tests /\ GoodTable(source) /\ GoodTable(writer)
      /\ ~ IsLive(source, next, writer.timestamp, writer.num_days)
  BY <1>1 DEF StateSound, SoundTable, GoodTable, Table, StepH, RewriteDead
<1>3. /\ \A day : Pending(me, day) = StoredOn(source, me, day)
      /\ \A key, day : Pending(key, day)' = IF key = me THEN NoData ELSE Pending(key, day)
  BY <1>2, AheadAdvances
<1>4. ASSUME NEW key \in Keys, NEW day \in Int
      PROVE  Accounts(writer', history', key, day, Pending(key, day)')
  <2> DEFINE mine == StoredOn(writer, key, day)
             other == StoredOn(source, key, day)
             r == ToldOn(history, key, day)
  <2>1. Accounts(writer, history, key, day, Pending(key, day))  BY DEF HistoryInv
  <2>2. day \in Int  OBVIOUS
  <2>3. mine \in TestData /\ other \in TestData /\ r \in Runs
    BY <1>2, <2>2, StoredType, HistoryType DEF HistoryInv
  <2>4. CASE key # me  BY <1>2, <1>3, <2>1, <2>4
  <2>5. CASE key = me
    <3>1. Pending(key, day) = other /\ Pending(key, day)' = NoData  BY <1>3, <2>5
    <3>2. day \in Window(writer) => other = NoData
      BY <1>2, <2>2, <2>5, RewriteDeadStored DEF Window
    <3>3. key \notin history.late => Within(mine, NoData, r)
      BY <2>1, <2>3, <3>1, WithinLess DEF Accounts
    <3> QED  BY <1>2, <2>1, <3>1, <3>2, <3>3 DEF Accounts
  <2> QED  BY <2>4, <2>5
<1>5. AccountsHold'  BY <1>4 DEF AccountsHold
<1> QED  BY <1>2, <1>5, FilesKept DEF HistoryInv

\* The record rewrite keeps says of the days in the window what it said.
LEMMA RewriteLiveKeeps ==
  ASSUME IInv, HistoryInv, StepH(RewriteLive)
  PROVE  HistoryInv'
<1> DEFINE me == source.tests[next].key
<1>1. StateSound(phase, writer, session, source, next, files)  BY IInvIsSound
<1>2. /\ RewriteLive /\ phase = "rewrite"
      /\ UNCHANGED <<source, files, history, histories>> /\ next' = next + 1
      /\ next \in DOMAIN source.tests /\ next \in next .. Len(source.tests)
      /\ GoodTable(source) /\ NoneAfter(source, writer.timestamp)
      /\ GoodTable(writer) /\ NoneAfter(writer, writer.timestamp)
  BY <1>1 DEF StateSound, SoundTable, GoodTable, Table, StepH, RewriteLive
<1>3. me \notin KeysOf(writer)  BY <1>1, <1>2 DEF StateSound
<1>4. /\ \A day : Pending(me, day) = StoredOn(source, me, day)
      /\ \A key, day : Pending(key, day)' = IF key = me THEN NoData ELSE Pending(key, day)
  BY <1>2, AheadAdvances
<1>5. /\ GoodTable(writer') /\ writer'.timestamp = writer.timestamp
      /\ writer'.num_days = writer.num_days
  <2>1. writer'.num_days = writer.num_days  BY <1>2 DEF RewriteLive, GoodTable, Table
  <2> QED  BY <1>2, <1>3, <2>1, RewrittenRecord
<1>6. Window(writer') = Window(writer)  BY <1>5 DEF Window
<1>7. ASSUME NEW key \in Keys, NEW day \in Int
      PROVE  Accounts(writer', history', key, day, Pending(key, day)')
  <2> DEFINE other == StoredOn(source, key, day)
             new == StoredOn(writer', key, day)
             r == ToldOn(history, key, day)
  <2>1. Accounts(writer, history, key, day, Pending(key, day))  BY DEF HistoryInv
  <2>2. day \in Int  OBVIOUS
  <2>3. other \in TestData /\ NoData \in TestData /\ r \in Runs
    BY <1>2, <2>2, StoredType, HistoryType, NoDataType DEF HistoryInv
  <2>4. /\ key = me => RewritesDays(key, day)
        /\ \A k : k # me => StoredOn(writer', k, day) = StoredOn(writer, k, day)
    BY <1>2, <1>3, <2>2, RewriteLiveStored
  <2>5. CASE key # me  BY <1>2, <1>4, <1>6, <2>1, <2>4, <2>5 DEF Accounts
  <2>6. CASE key = me
    <3>1. Pending(key, day) = other /\ Pending(key, day)' = NoData  BY <1>4, <2>6
    <3>2. StoredOn(writer, key, day) = NoData  BY <1>3, <2>6 DEF StoredOn
    <3>3. StoredOn(writer, key, day)' = new  BY DEF StoredOn
    <3>4. /\ new \in {other, NoData}
          /\ Day(writer.timestamp) - day < writer.num_days => new = other
      BY <2>4, <2>6, <3>3 DEF RewritesDays
    <3>5. key \notin history.late => Within(NoData, other, r)
      BY <2>1, <3>1, <3>2 DEF Accounts
    <3>6. key \notin history.late \cup history.shed /\ day \in Window(writer)
            => Exactly(NoData, other, r) /\ new = other
      BY <2>1, <3>1, <3>2, <3>4 DEF Accounts, Window
    <3> HIDE DEF me, other, new, r
    <3>7. key \notin history.late => Within(new, NoData, r)
      BY <2>3, <3>4, <3>5, WithinSwaps, WithinLess
    <3>8. key \notin history.late \cup history.shed /\ day \in Window(writer)
            => Exactly(new, NoData, r)
      BY <2>3, <3>6, ExactlySwaps
    <3> QED  BY <1>2, <1>6, <3>1, <3>7, <3>8 DEF Accounts, new, r
  <2> QED  BY <2>5, <2>6
<1>8. AccountsHold'  BY <1>7 DEF AccountsHold
<1>9. BucketsIn(writer', Fitting)
  BY <1>2, NoDataFits, RewriteLiveBuckets DEF HistoryInv
<1> QED  BY <1>2, <1>8, <1>9, FilesKept DEF HistoryInv

LEMMA InitHistoryInv == InitH => HistoryInv
<1> SUFFICES ASSUME InitH PROVE HistoryInv  OBVIOUS
<1>1. /\ writer = NoTable /\ source = NoTable /\ next = 1 /\ files = <<>>
      /\ history = NoHistory /\ histories = <<>>
  BY DEF InitH, Init
<1>2. \A key, day : Pending(key, day) = NoData  BY <1>1, NothingPending
<1>3. NoTable.tests = <<>> /\ NoTable.testdata = <<>>  BY DEF NoTable, NewTable
<1>4. ASSUME NEW key \in Keys, NEW day \in Int
      PROVE  Accounts(writer, history, key, day, Pending(key, day))
  BY <1>1, <1>2, <1>3, EmptyStored, NothingAccounts
<1>5. Len(histories) = Len(files) /\ histories \in Seq(Histories) /\ DOMAIN files = {}
  BY <1>1, EmptySeq
<1> QED  BY <1>1, <1>4, <1>5, NoTableFits, NoHistoryType DEF HistoryInv

LEMMA NextHistoryInv ==
  ASSUME IInv, IInv', HistoryInv, SessionDated, [NextH]_hvars
  PROVE  HistoryInv'
<1>1. ASSUME NEW num_days \in Windows, NewH(num_days) PROVE HistoryInv'
  BY <1>1, NewKeeps
<1>2. ASSUME NEW f \in DOMAIN files, NEW now \in ClockTimes, OpenH(f, now) PROVE HistoryInv'
  BY <1>2, OpenKeeps
<1>3. CASE SerializeH  BY <1>3, SerializeKeeps
<1>4. ASSUME NEW timestamp \in Times, NEW commit \in Commits, NEW flags \in FlagSets,
             StartSessionH(timestamp, commit, flags)
      PROVE  HistoryInv'
  BY <1>4, StartSessionKeeps
<1>5. ASSUME NEW test \in Tests, NEW outcome \in Outcomes,
             \/ InsertNewH(test, outcome)
             \/ InsertNewerH(test, outcome)
             \/ InsertHistoricH(test, outcome)
      PROVE  HistoryInv'
  BY <1>5, InsertKeeps
<1>6. ASSUME NEW test \in Tests, NEW outcome \in Outcomes, InsertExpiredH(test, outcome)
      PROVE  HistoryInv'
  BY <1>6, InsertExpiredKeeps
<1>7. ASSUME NEW f \in DOMAIN files, NEW g \in DOMAIN files, NEW now \in ClockTimes,
             MergeBeginH(f, g, now)
      PROVE  HistoryInv'
  BY <1>7, MergeBeginKeeps
<1>8. CASE MergeRecordH  BY <1>8, MergeRecordKeeps
<1>9. CASE StepH(MergePanics)  BY <1>9, NothingKeeps DEF StepH, MergePanics
<1>10. CASE StepH(MergeEnd)  BY <1>10, LoopEndKeeps DEF StepH, MergeEnd
<1>11. CASE UnwindH  BY <1>11, UnwindKeeps
<1>12. ASSUME NEW num_days \in Windows, NEW timestamp \in ClockTimes,
              NEW threshold \in Thresholds \cup {DefaultThreshold},
              \/ StepH(RewriteSkip(num_days, timestamp, threshold))
              \/ RewriteBeginH(num_days, timestamp, threshold)
       PROVE  HistoryInv'
  BY <1>12, RewriteSkipKeeps, RewriteBeginKeeps
<1>13. CASE StepH(RewriteDead)  BY <1>13, RewriteDeadKeeps
<1>14. CASE StepH(RewriteLive)  BY <1>14, RewriteLiveKeeps
<1>15. CASE StepH(RewriteEnd)  BY <1>15, LoopEndKeeps DEF StepH, RewriteEnd
<1>16. CASE UNCHANGED hvars  BY <1>16, NothingKeeps DEF hvars, vars
<1> QED
  BY <1>1, <1>2, <1>3, <1>4, <1>5, <1>6, <1>7, <1>8, <1>9, <1>10, <1>11, <1>12, <1>13,
     <1>14, <1>15, <1>16 DEF NextH

-----------------------------------------------------------------------------
(* What it implies. *)

\* Between the calls of the loops and in the midst of them: what the writer says
\* alone is no more than what it and source say.
LEMMA InventsNoRun == ASSUME IInv, HistoryInv PROVE NothingInvented
<1>1. StateSound(phase, writer, session, source, next, files)  BY IInvIsSound
<1>2. GoodTable(writer) /\ GoodTable(source)  BY <1>1 DEF StateSound, SoundTable
<1>3. ASSUME NEW key \in Keys \ history.late, NEW day \in Days
      PROVE  LET stored == StoredOn(writer, key, day)
                 told == history.runs[key][day]
             IN /\ \A c \in Counters : stored.counts[c] <= told.counts[c]
                /\ stored.failing_commits \subseteq told.failing_commits
  <2> DEFINE stored == StoredOn(writer, key, day)
             other == Pending(key, day)
             told == history.runs[key][day]
  <2>1. Within(stored, other, told)
    BY DaysType DEF HistoryInv, Accounts, ToldOn
  <2>2. day \in Int  BY DaysType
  <2>3. stored \in TestData /\ other \in TestData /\ told \in Runs
    BY <1>2, <2>2, StoredType, HistoryType, NoDataType DEF HistoryInv, Pending
  <2> HIDE DEF stored, other, told
  <2>4. Within(stored, NoData, told)  BY <2>1, <2>3, WithinLess
  <2>5. \A c \in Counters : stored.counts[c] <= told.counts[c]
    <3> SUFFICES ASSUME NEW c \in Counters PROVE stored.counts[c] <= told.counts[c]
      OBVIOUS
    <3>1. /\ stored.counts[c] + NoData.counts[c] <= told.counts[c]
          /\ NoData.counts[c] = 0 /\ stored.counts[c] \in Nat
      BY <2>3, <2>4, NoDataCounts, RunsType DEF Within
    <3> QED  BY <3>1
  <2>6. stored.failing_commits \subseteq told.failing_commits  BY <2>4 DEF Within
  <2> QED  BY <2>5, <2>6 DEF stored, told
<1> QED  BY <1>3 DEF NothingInvented, InventsNothing

LEMMA ForgetsNoRun == ASSUME IInv, HistoryInv PROVE NothingForgotten
<1> SUFFICES ASSUME Ready,
                    NEW key \in Keys \ (history.late \cup history.shed),
                    NEW day \in Window(writer)
             PROVE  LET stored == StoredOn(writer, key, day)
                        told == history.runs[key][day]
                    IN /\ \A c \in Counters : stored.counts[c] = told.counts[c] % CounterModulus
                       /\ stored.failing_commits = told.failing_commits
  BY DEF NothingForgotten, ForgetsNothing
<1> DEFINE stored == StoredOn(writer, key, day)
           told == history.runs[key][day]
<1>1. StateSound(phase, writer, session, source, next, files)  BY IInvIsSound
<1>2. GoodTable(writer) /\ source = NoTable /\ next \in Nat \ {0}
  BY <1>1 DEF StateSound, SoundTable, Ready
<1>3. day \in Days /\ day \in Int  BY DaysType DEF Window
<1>4. Pending(key, day) = NoData  BY <1>2, NothingPending
<1>5. Exactly(stored, NoData, told)  BY <1>3, <1>4 DEF HistoryInv, Accounts, ToldOn
<1>6. stored \in Fitting  BY <1>2, <1>3, StoredFits DEF HistoryInv
<1> HIDE DEF stored, told
<1>7. ASSUME NEW c \in Counters PROVE stored.counts[c] = told.counts[c] % CounterModulus
  <2>1. stored.counts[c] \in Nat /\ stored.counts[c] < CounterModulus /\ NoData.counts[c] = 0
    BY <1>6, NoDataCounts, RunsType DEF Fitting
  <2>2. stored.counts[c] + NoData.counts[c] = stored.counts[c]  BY <2>1
  <2>3. stored.counts[c] % CounterModulus = stored.counts[c]
    BY <2>1, ModSmall, ConstantsAssumption
  <2> QED  BY <1>5, <2>2, <2>3 DEF Exactly
<1>8. stored.failing_commits = told.failing_commits
  BY <1>5, NoDataFits DEF Exactly, NoData
<1> QED  BY <1>7, <1>8 DEF stored, told

\* The inductive invariant of the history: in every reachable state what the
\* writer says of a test and day, together with what the loops have still to
\* bring, accounts for what was reported, and so does every file.
THEOREM AccountsKept == SpecH => [](HistoryInv /\ SessionDated)
<1>1. InitH => SessionDated  BY DEF InitH, Init, SessionDated
<1>2. SessionDated /\ [NextH]_hvars => SessionDated'  BY StaysDated
<1>3. IInv /\ IInv' /\ HistoryInv /\ SessionDated /\ [NextH]_hvars => HistoryInv'
  BY NextHistoryInv
<1> QED  BY <1>1, <1>2, <1>3, InitHistoryInv, InvariantWithHistory, PTL DEF SpecH

\* No bucket ever counts more runs of a day than were reported for it, nor a
\* commit that did not fail on it, in whatever order the calls come, in the
\* midst of merge and rewrite too; late tests are exempt.
THEOREM NothingIsInvented == SpecH => []NothingInvented
<1>1. IInv /\ HistoryInv => NothingInvented  BY InventsNoRun
<1> QED  BY <1>1, AccountsKept, InvariantWithHistory, PTL

\* Between the calls every run reported for a day inside the window is counted
\* on that day, modulo the width of a counter, unless merge shed it.
THEOREM NothingIsForgotten == SpecH => []NothingForgotten
<1>1. IInv /\ HistoryInv => NothingForgotten  BY ForgetsNoRun
<1> QED  BY <1>1, AccountsKept, InvariantWithHistory, PTL

-----------------------------------------------------------------------------
(* What an insert has counted can be read. *)

\* The newest bucket of the record after an insert.
LEMMA InsertsLatest ==
  ASSUME IInv, NEW test \in Tests, NEW outcome \in Outcomes, Inserted(test, outcome)
  PROVE  Latest(writer', InsertIndex(test)) =
           IF Newest(test) THEN writer.timestamp ELSE KnownLatest(test)
<1> DEFINE i == InsertIndex(test)
           n == writer.num_days
           now == writer.timestamp
           kl == KnownLatest(test)
           first == BucketAt(writer', i, 0)
<1>1. phase = "session"
  BY DEF Inserted, InsertNew, InsertNewer, InsertHistoric, Historic
<1>2. /\ n \in Nat \ {0} /\ now \in Nat /\ session.timestamp \in Nat
      /\ Known(test) => /\ kl \in Nat /\ kl <= now /\ kl = KnownBucket(test, 0).last_timestamp
                        /\ \A j \in 0 .. n - 1 : KnownBucket(test, j) \in TestData
  <2>1. 0 \in Nat  OBVIOUS
  <2> QED  BY <1>1, <2>1, KnownStored
<1>3. 0 \in 0 .. n - 1  BY <1>2
<1>4. Latest(writer', i) = first.last_timestamp  BY InsertsShape, LatestIsNewestBucket
<1>5. \A data \in TestData :
        data.last_timestamp <= now => CountedIn(data, outcome).last_timestamp = now
  BY <1>2, CountRunLatest DEF CountedIn
<1>6. NoData \in TestData /\ NoData.last_timestamp <= now
  BY <1>2, NoDataType DEF NoData
<1>7. CASE InsertNew(test, outcome)
  <2>1. first = CountedIn(NoData, outcome)  BY <1>3, <1>7, InsertsBucketAt
  <2>2. Newest(test)  BY <1>7 DEF InsertNew, Newest
  <2> HIDE DEF first
  <2> QED  BY <1>4, <1>5, <1>6, <2>1, <2>2
<1>8. CASE InsertNewer(test, outcome)
  <2> DEFINE off == OffsetFromToday(kl, session.timestamp)
             old(j) == IF j < off THEN NoData ELSE KnownBucket(test, j - off)
  <2>1. Known(test) /\ kl < session.timestamp  BY <1>8 DEF InsertNewer
  <2>2. off \in Nat  BY <1>2, <2>1, OffsetIsNatural
  <2>3. first = CountedIn(old(0), outcome)  BY <1>3, <1>8, InsertsBucketAt
  <2>4. old(0) \in TestData /\ old(0).last_timestamp <= now
    <3>1. CASE 0 < off  BY <3>1, <1>6
    <3>2. CASE ~ (0 < off)
      <4>1. 0 - off = 0  BY <2>2, <3>2
      <4> HIDE DEF off, kl
      <4> QED  BY <1>2, <1>3, <2>1, <3>2, <4>1
    <3> QED  BY <3>1, <3>2
  <2>5. Newest(test)  BY <2>1 DEF Newest
  <2> HIDE DEF first, old
  <2> QED  BY <1>4, <1>5, <2>3, <2>4, <2>5
<1>9. CASE InsertHistoric(test, outcome)
  <2>1. Known(test) /\ kl >= session.timestamp  BY <1>9 DEF InsertHistoric, Historic
  <2>2. first = IF 0 = HistoricOffset(test) THEN CountedIn(KnownBucket(test, 0), outcome)
                                            ELSE KnownBucket(test, 0)
    BY <1>3, <1>9, InsertsBucketAt
  <2>3. Newest(test) <=> HistoricOffset(test) = 0  BY <1>2, <2>1 DEF Newest
  <2> HIDE DEF first, kl
  <2> QED  BY <1>2, <1>3, <1>4, <1>5, <2>1, <2>2, <2>3 DEF kl
<1> QED  BY <1>7, <1>8, <1>9 DEF Inserted

\* valid_data of the record after an insert: it is 1 again, or reaches the
\* bucket of a historic run, and a shift only adds to it.
LEMMA InsertsValidData ==
  ASSUME IInv, NEW test \in Tests, NEW outcome \in Outcomes, Inserted(test, outcome)
  PROVE  LET valid == writer'.tests[InsertIndex(test)].valid_data
         IN /\ valid \in Nat /\ valid >= 1
            /\ InsertHistoric(test, outcome) => valid >= 1 + HistoricOffset(test)
<1> DEFINE w == InsertFull(writer, SessionKey(test))
           i == InsertIndex(test)
           record == [key |-> SessionKey(test), valid_data |-> 1]
<1>1. phase = "session"
  BY DEF Inserted, InsertNew, InsertNewer, InsertHistoric, Historic
<1>2. GoodTable(writer) /\ SessionKey(test) \in Keys
  <2>1. StateSound(phase, writer, session, source, next, files)  BY IInvIsSound
  <2> QED  BY <1>1, <2>1 DEF StateSound, SoundTable, SessionKey, Keys, Session
<1>3. /\ GoodTable(w) /\ w \in Table /\ w.num_days = writer.num_days
      /\ w.num_days \in Nat \ {0}
      /\ i \in DOMAIN w.tests /\ session.timestamp \in Nat
      /\ Known(test) => i = KnownIndex(test) /\ KnownLatest(test) \in Nat
      /\ ~ Known(test) => i = Len(writer.tests) + 1
  BY <1>1, InsertTarget DEF GoodTable, InsertIndex
<1>4. w.tests[i].valid_data = 1
  <2>1. record \in Test /\ record.valid_data = 1  BY <1>2 DEF Test
  <2>2. writer \in Table /\ writer.tests \in Seq(Test)  BY <1>2 DEF GoodTable, Table
  <2>3. CASE Known(test)
    <3>1. w.tests = [writer.tests EXCEPT ![KnownIndex(test)] = record]
      BY <2>2, <2>3 DEF InsertFull, Known, KnownIndex, Table
    <3>2. KnownIndex(test) \in DOMAIN writer.tests
      BY <2>3, IndexOfKnown DEF Known, KnownIndex
    <3> HIDE DEF w, i, record
    <3> QED  BY <1>3, <2>1, <2>3, <3>1, <3>2
  <2>4. CASE ~ Known(test)
    <3>1. w.tests = Append(writer.tests, record)
      BY <2>2, <2>4 DEF InsertFull, Known, Table
    <3> HIDE DEF w, i, record
    <3>2. w.tests[Len(writer.tests) + 1] = record  BY <2>1, <2>2, <3>1, AppendProperties
    <3> QED  BY <1>3, <2>1, <2>4, <3>2
  <2> QED  BY <2>3, <2>4
<1> HIDE DEF i
<1>5. \A j, s : \A t \in Table : InsertInto(t, i, j, s, outcome).tests = t.tests
  BY DEF InsertInto, Table
<1>6. CASE InsertNew(test, outcome)
  <2>1. ~ Known(test) /\ writer' = InsertInto(w, i, 0, session, outcome)
    BY <1>3, <1>6 DEF InsertNew
  <2>2. ~ InsertHistoric(test, outcome)  BY <2>1 DEF InsertHistoric, Historic
  <2> HIDE DEF w
  <2>3. writer'.tests = w.tests  BY <1>3, <1>5, <2>1
  <2> QED  BY <1>4, <2>2, <2>3 DEF i
<1>7. CASE InsertNewer(test, outcome)
  <2> DEFINE off == OffsetFromToday(KnownLatest(test), session.timestamp)
             shifted == ShiftRecord(w, i, off)
             v == ExtendValidData(w.tests[i].valid_data, off, w.num_days)
  <2>1. Known(test) /\ KnownLatest(test) < session.timestamp /\ off \in Nat
    BY <1>3, <1>7, OffsetIsNatural DEF InsertNewer
  <2>2. writer' = InsertInto(shifted, i, 0, session, outcome)
    BY <1>3, <1>7, <2>1 DEF InsertNewer
  <2>3. ~ InsertHistoric(test, outcome)  BY <1>3, <2>1 DEF InsertHistoric, Historic
  <2> HIDE DEF off, w
  <2>4. shifted \in Table  BY <1>3, <2>1, ShiftRecordProperties DEF SameShape, GoodTable
  <2>5. shifted.tests[i].valid_data = v
    <3>1. w.tests \in Seq(Test) /\ w.tests[i] \in Test
      BY <1>3, ElementOfSeq DEF Table
    <3> HIDE DEF v
    <3>2. shifted.tests = [w.tests EXCEPT ![i] = [@ EXCEPT !.valid_data = v]]
      BY <1>3 DEF ShiftRecord, v, Table
    <3> HIDE DEF shifted
    <3> QED  BY <1>3, <3>1, <3>2 DEF Test
  <2>6. v \in Nat /\ v >= 1  BY <1>3, <1>4, <2>1 DEF ExtendValidData, MinOf
  <2> HIDE DEF shifted, v
  <2>7. writer'.tests = shifted.tests  BY <1>5, <2>2, <2>4
  <2> QED  BY <2>3, <2>5, <2>6, <2>7 DEF i
<1>8. CASE InsertHistoric(test, outcome)
  <2> DEFINE off == HistoricOffset(test)
             v == HistoricValidData(w.tests[i].valid_data, off)
             valid == [w EXCEPT !.tests[i].valid_data = v]
  <2>1. Known(test) /\ off \in Nat
    BY <1>3, <1>8, OffsetIsNatural DEF InsertHistoric, Historic, HistoricOffset
  <2>2. writer' = InsertInto(valid, i, off, session, outcome)
    BY <1>3, <1>8, <2>1 DEF InsertHistoric
  <2> HIDE DEF off, w
  <2>3. v \in Nat /\ v >= 1 /\ v >= 1 + off  BY <1>4, <2>1 DEF HistoricValidData, MaxOf
  <2> HIDE DEF v
  <2>4. valid \in Table  BY <1>3, <2>3, SetValidData DEF SameShape, GoodTable
  <2>5. valid.tests[i].valid_data = v
    <3>1. w.tests \in Seq(Test) /\ w.tests[i] \in Test
      BY <1>3, ElementOfSeq DEF Table
    <3>2. valid.tests = [w.tests EXCEPT ![i] = [@ EXCEPT !.valid_data = v]]
      BY <1>3 DEF Table
    <3> HIDE DEF valid
    <3> QED  BY <1>3, <3>1, <3>2 DEF Test
  <2> HIDE DEF valid
  <2>6. writer'.tests = valid.tests  BY <1>5, <2>2, <2>4
  <2> QED  BY <2>3, <2>5, <2>6 DEF off, i
<1> QED  BY <1>6, <1>7, <1>8 DEF Inserted

\* A timely run is counted in a bucket that valid_data reaches.
LEMMA InsertedVisibly ==
  ASSUME IInv, NEW test \in Tests, NEW outcome \in Outcomes, Inserted(test, outcome),
         Timely(test)
  PROVE  CountedVisibly(SessionKey(test))
<1> DEFINE i == InsertIndex(test)
           s == session.timestamp
           valid == writer'.tests[i].valid_data
           age == OffsetFromToday(s, Latest(writer', i))
<1>1. phase = "session"
  BY DEF Inserted, InsertNew, InsertNewer, InsertHistoric, Historic
<1>2. /\ writer.timestamp \in Nat /\ s \in Nat /\ Day(s) \in Nat /\ Day(writer.timestamp) \in Nat
      /\ Known(test) => KnownLatest(test) \in Nat /\ Day(KnownLatest(test)) \in Nat
  <2>1. 0 \in Nat  OBVIOUS
  <2> QED  BY <1>1, <2>1, KnownStored
<1>3. IndexOf(writer', SessionKey(test)) = i
  BY InsertsShape, StoredInRecord
<1>4. Latest(writer', i) = IF Newest(test) THEN writer.timestamp ELSE KnownLatest(test)
  BY InsertsLatest
<1>5. /\ valid \in Nat /\ valid >= 1
      /\ InsertHistoric(test, outcome) => valid >= 1 + HistoricOffset(test)
  BY InsertsValidData
<1>6. CASE Newest(test)
  <2>1. Day(s) = Day(writer.timestamp)  BY <1>6 DEF Timely
  <2>2. age = 0  BY <1>2, <1>4, <1>6, <2>1 DEF OffsetFromToday
  <2> HIDE DEF age, valid, i
  <2> QED  BY <1>3, <1>5, <2>2 DEF CountedVisibly, age, valid
<1>7. CASE ~ Newest(test)
  <2>1. Known(test) /\ KnownLatest(test) \in Nat  BY <1>2, <1>7 DEF Newest
  <2>2. InsertHistoric(test, outcome)
    BY <1>7, <2>1 DEF Inserted, InsertNew, InsertNewer, Newest
  <2>3. age = HistoricOffset(test) /\ HistoricOffset(test) \in Int
    BY <1>2, <1>4, <1>7, <2>1 DEF HistoricOffset, OffsetFromToday
  <2> HIDE DEF age, valid, i
  <2>4. age < valid  BY <1>5, <2>2, <2>3
  <2> QED  BY <1>3, <2>4 DEF CountedVisibly, age, valid
<1> QED  BY <1>6, <1>7

\* A run that came too late for the window is older than any bucket.
LEMMA ExpiredVisibly ==
  ASSUME IInv, NEW test \in Tests, InsertExpired(test)
  PROVE  CountedVisibly(SessionKey(test))
<1> DEFINE key == SessionKey(test)
           i == IndexOf(writer', key)
           s == session.timestamp
<1>1. /\ phase = "session" /\ Known(test) /\ writer' = InsertFull(writer, key)
      /\ HistoricOffset(test) >= writer.num_days
  BY DEF InsertExpired, Historic
<1>2. GoodTable(writer) /\ key \in Keys /\ writer.num_days \in Nat
  <2>1. StateSound(phase, writer, session, source, next, files)  BY IInvIsSound
  <2> QED  BY <1>1, <2>1 DEF StateSound, SoundTable, GoodTable, Table, SessionKey, Keys, Session
<1>3. /\ writer'.num_days = writer.num_days /\ writer'.testdata = writer.testdata
      /\ i = KnownIndex(test)
  BY <1>1, <1>2, ReplacedRecord DEF Known, KnownIndex
<1>4. Latest(writer', i) = KnownLatest(test)
  BY <1>3 DEF KnownLatest, Latest, RecordRange
<1>5. HistoricOffset(test) \in Int
  <2>1. KnownLatest(test) \in Nat /\ s \in Nat  BY <1>1, InsertTarget
  <2> QED  BY <2>1, DayType DEF HistoricOffset, OffsetFromToday
<1>6. OffsetFromToday(s, Latest(writer', i)) = HistoricOffset(test)
  BY <1>4 DEF HistoricOffset
<1> HIDE DEF i, key
<1> QED  BY <1>1, <1>2, <1>3, <1>5, <1>6 DEF CountedVisibly, i, key

\* Only the test of the run is told more, and unless it is late, the run was
\* timely.
LEMMA ReportedTest ==
  ASSUME IInv, HistoryInv, phase = "session", NEW test \in Tests, NEW outcome \in Outcomes,
         NEW newest \in BOOLEAN, Report(test, outcome, newest),
         NEW key \in Keys \ history'.late, history'.runs[key] # history.runs[key]
  PROVE  key = SessionKey(test) /\ (newest => Day(session.timestamp) = Day(writer.timestamp))
<1> DEFINE me == SessionKey(test)
           today == Day(session.timestamp)
           told == Reported(history, me, today, outcome, session.commit)
           late == newest /\ today < Day(writer.timestamp)
           all == IF late THEN told.late \cup {me} ELSE told.late
<1>1. /\ me \in Keys /\ session.commit \in Commits /\ today \in Nat
      /\ Day(writer.timestamp) \in Nat /\ today <= Day(writer.timestamp)
  <2>1. StateSound(phase, writer, session, source, next, files)  BY IInvIsSound
  <2>2. /\ me \in Keys /\ session.commit \in Commits /\ session.timestamp \in Nat
        /\ writer.timestamp \in Nat /\ session.timestamp <= writer.timestamp
    BY <2>1 DEF StateSound, SoundTable, GoodTable, Table, SessionKey, Keys, Session
  <2> QED  BY <2>2, DayType, DayMonotone
<1>2. history \in Histories  BY DEF HistoryInv
<1>3. /\ told \in Histories
      /\ \A k \in Keys, d \in Days :
           told.runs[k][d] = IF k = me /\ d = today
                             THEN Told(history.runs[k][d], outcome, session.commit)
                             ELSE history.runs[k][d]
  BY <1>1, <1>2, ReportedRuns
<1>4. history' = [told EXCEPT !.late = all]  BY DEF Report
<1> HIDE DEF told, me, today, late
<1>5. history'.runs = told.runs /\ history'.late = all
  BY <1>3, <1>4 DEF Histories
<1>6. key = me
  <2> SUFFICES ASSUME key # me PROVE FALSE  OBVIOUS
  <2>1. \A d \in Days : told.runs[key][d] = history.runs[key][d]  BY <1>3
  <2>2. told.runs[key] \in [Days -> Runs] /\ history.runs[key] \in [Days -> Runs]
    BY <1>2, <1>3 DEF Histories
  <2>3. told.runs[key] = history.runs[key]  BY <2>1, <2>2
  <2> QED  BY <1>5, <2>3
<1>7. ~ late  BY <1>5, <1>6
<1>8. newest => today = Day(writer.timestamp)  BY <1>1, <1>7 DEF late
<1> QED  BY <1>6, <1>8 DEF me, today

ToldVisibly ==
  \A key \in Keys \ history'.late :
    inserts' > inserts /\ history'.runs[key] # history.runs[key] => CountedVisibly(key)

LEMMA StepToldVisibly ==
  ASSUME IInv, HistoryInv, inserts \in Nat, NextH
  PROVE  ToldVisibly /\ inserts' \in Nat
<1>1. ASSUME inserts' = inserts PROVE ToldVisibly /\ inserts' \in Nat
  BY <1>1 DEF ToldVisibly
<1>2. ASSUME NEW test \in Tests, NEW outcome \in Outcomes,
             \/ InsertNewH(test, outcome)
             \/ InsertNewerH(test, outcome)
             \/ InsertHistoricH(test, outcome)
             \/ InsertExpiredH(test, outcome)
      PROVE  ToldVisibly /\ inserts' \in Nat
  <2>1. phase = "session" /\ inserts' = inserts + 1
    BY <1>2 DEF InsertNewH, InsertNewerH, InsertHistoricH, InsertExpiredH, InsertNew,
                InsertNewer, InsertHistoric, InsertExpired, Historic, Report
  <2>2. ASSUME NEW key \in Keys \ history'.late, history'.runs[key] # history.runs[key]
        PROVE  CountedVisibly(key)
    <3>1. CASE InsertExpiredH(test, outcome)
      <4>1. key = SessionKey(test)
        BY <2>1, <2>2, <3>1, ReportedTest DEF InsertExpiredH
      <4> QED  BY <3>1, <4>1, ExpiredVisibly DEF InsertExpiredH
    <3>2. CASE InsertNewH(test, outcome)
      <4>1. key = SessionKey(test) /\ Timely(test)
        BY <2>1, <2>2, <3>2, ReportedTest DEF InsertNewH, Timely
      <4> QED  BY <3>2, <4>1, InsertedVisibly DEF InsertNewH, Inserted
    <3>3. CASE InsertNewerH(test, outcome)
      <4>1. key = SessionKey(test) /\ Timely(test)
        BY <2>1, <2>2, <3>3, ReportedTest DEF InsertNewerH, Timely
      <4> QED  BY <3>3, <4>1, InsertedVisibly DEF InsertNewerH, Inserted
    <3>4. CASE InsertHistoricH(test, outcome)
      <4>1. Known(test) /\ KnownLatest(test) >= session.timestamp
        BY <3>4 DEF InsertHistoricH, InsertHistoric, Historic
      <4>2. KnownLatest(test) \in Nat /\ session.timestamp \in Nat
        BY <2>1, <4>1, InsertTarget
      <4>3. Newest(test) <=> HistoricOffset(test) = 0  BY <4>1, <4>2 DEF Newest
      <4>4. PICK newest \in BOOLEAN : Report(test, outcome, newest)
                                      /\ (newest <=> HistoricOffset(test) = 0)
        BY <3>4 DEF InsertHistoricH
      <4>5. key = SessionKey(test) /\ Timely(test)
        BY <2>1, <2>2, <4>3, <4>4, ReportedTest DEF Timely
      <4> QED  BY <3>4, <4>5, InsertedVisibly DEF InsertHistoricH, Inserted
    <3> QED  BY <1>2, <3>1, <3>2, <3>3, <3>4
  <2> QED  BY <2>1, <2>2 DEF ToldVisibly
<1> QED
  BY <1>1, <1>2 DEF NextH, NewH, OpenH, SerializeH, StartSessionH, MergeBeginH, MergeRecordH,
     RewriteBeginH, UnwindH, StepH

\* A run that insert has counted is in a bucket that valid_data reaches, also
\* when its record has just been replaced, so the reader does not hide it;
\* late tests are exempt.
THEOREM NewRunsAreVisible == SpecH => NewRunsVisible
<1>1. InitH => inserts \in Nat  BY DEF InitH
<1>2. IInv /\ HistoryInv /\ inserts \in Nat /\ [NextH]_hvars
        => (inserts \in Nat)' /\ [ToldVisibly]_hvars
  BY StepToldVisibly DEF hvars
<1>3. [ToldVisibly]_hvars =>
        [\A key \in Keys \ history'.late :
           inserts' > inserts /\ history'.runs[key] # history.runs[key]
             => CountedVisibly(key)]_hvars
  BY DEF ToldVisibly
<1> QED  BY <1>1, <1>2, <1>3, AccountsKept, InvariantWithHistory, PTL DEF SpecH, NewRunsVisible
=============================================================================
