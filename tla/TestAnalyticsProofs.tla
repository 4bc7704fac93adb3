------------------------- MODULE TestAnalyticsProofs -------------------------
(***************************************************************************)
(* Proofs about the writer, for any constants: its types, the layout of    *)
(* the flat testdata, the uniqueness of records, that no timestamp is ever *)
(* newer than the one it is subtracted from; then that a step changes one  *)
(* record only, that failing commits and failures stay in step, and that   *)
(* valid_data stays in the record.                                         *)
(***************************************************************************)
EXTENDS TestAnalytics, TimestampsProofs, SequenceTheorems, FiniteSetTheorems

-----------------------------------------------------------------------------
(* Arithmetic of records in the flat testdata. *)

LEMMA RecordFits ==
  ASSUME NEW n \in Nat, NEW i \in 1 .. n, NEW d \in Nat \ {0}
  PROVE  /\ (i - 1) * d \in Nat
         /\ i * d = (i - 1) * d + d
         /\ i * d <= n * d
<1>1. (i - 1) * d \in Nat  BY SMT
<1>2. i * d = (i - 1) * d + d  BY SMT
<1>3. n * d = i * d + (n - i) * d  BY SMT
<1>4. (n - i) * d >= 0  BY n - i \in Nat, SMT
<1> QED  BY <1>1, <1>2, <1>3, <1>4, SMT

LEMMA RecordsDisjoint ==
  ASSUME NEW i \in Nat \ {0}, NEW j \in Nat \ {0}, NEW d \in Nat \ {0}, i < j
  PROVE  i * d <= (j - 1) * d
<1>1. (j - 1) * d = i * d + (j - 1 - i) * d  BY SMT
<1>2. (j - 1 - i) * d >= 0  BY j - 1 - i \in Nat, SMT
<1> QED  BY <1>1, <1>2, SMT

-----------------------------------------------------------------------------
(* Tables. *)

GoodTable(t) == t \in Table /\ BucketsLaidOut(t) /\ UniqueKeys(t)

LEMMA RecordInData ==
  ASSUME NEW t, GoodTable(t), NEW i \in DOMAIN t.tests
  PROVE  /\ i \in 1 .. Len(t.tests)
         /\ RecordRange(t, i).start \in Nat
         /\ RecordRange(t, i).end = RecordRange(t, i).start + t.num_days
         /\ RecordRange(t, i).end <= Len(t.testdata)
         /\ Latest(t, i) \in Nat
<1>1. /\ Len(t.tests) \in Nat
      /\ i \in 1 .. Len(t.tests)
      /\ t.num_days \in Nat \ {0}
      /\ t.testdata \in Seq(TestData)
      /\ Len(t.testdata) = Len(t.tests) * t.num_days
  BY DEF GoodTable, Table, BucketsLaidOut
<1>2. /\ (i - 1) * t.num_days \in Nat
      /\ i * t.num_days = (i - 1) * t.num_days + t.num_days
      /\ i * t.num_days <= Len(t.tests) * t.num_days
  BY <1>1, RecordFits
<1>3. /\ RecordRange(t, i).start = (i - 1) * t.num_days
      /\ RecordRange(t, i).end = i * t.num_days
  BY DEF RecordRange
<1>4. (i - 1) * t.num_days + 1 \in 1 .. Len(t.testdata)
  BY <1>1, <1>2, SMTT(30)
<1>5. t.testdata[(i - 1) * t.num_days + 1] \in TestData
  BY <1>1, <1>4, ElementOfSeq
<1> QED  BY <1>1, <1>2, <1>3, <1>5 DEF Latest, TestData

LEMMA RecordsApartInData ==
  ASSUME NEW t, GoodTable(t), NEW i \in DOMAIN t.tests, NEW j \in DOMAIN t.tests, i # j
  PROVE  Indices(RecordRange(t, i)) \cap Indices(RecordRange(t, j)) = {}
<1>1. i \in Nat \ {0} /\ j \in Nat \ {0} /\ t.num_days \in Nat \ {0}
  BY DEF GoodTable, Table
<1>2. /\ (i - 1) * t.num_days \in Int /\ i * t.num_days \in Int
      /\ (j - 1) * t.num_days \in Int /\ j * t.num_days \in Int
  BY <1>1
<1>3. i * t.num_days <= (j - 1) * t.num_days \/ j * t.num_days <= (i - 1) * t.num_days
  <2>1. CASE i < j  BY <2>1, <1>1, RecordsDisjoint
  <2>2. CASE j < i  BY <2>2, <1>1, RecordsDisjoint
  <2> QED  BY <2>1, <2>2, <1>1
<1> QED  BY <1>2, <1>3 DEF Indices, RecordRange

LEMMA NoDataType == NoData \in TestData
  BY DEF NoData, TestData

LEMMA ResizeProperties ==
  ASSUME NEW data \in Seq(TestData), NEW len \in Nat
  PROVE  /\ Resize(data, len) \in Seq(TestData)
         /\ Len(Resize(data, len)) = len
         /\ \A b \in 1 .. len :
              Resize(data, len)[b] = IF b <= Len(data) THEN data[b] ELSE NoData
<1>1. \A b \in 1 .. len : (IF b <= Len(data) THEN data[b] ELSE NoData) \in TestData
  BY NoDataType, ElementOfSeq
<1>2. Resize(data, len) \in [1 .. len -> TestData]
  BY <1>1 DEF Resize
<1> QED  BY <1>2 DEF Resize

LEMMA ShiftDataProperties ==
  ASSUME NEW data \in Seq(TestData), NEW r \in [start: Nat, end: Nat],
         r.end <= Len(data), NEW off \in Nat
  PROVE  LET shifted == ShiftData(data, r, off, NoData)
         IN /\ shifted \in Seq(TestData)
            /\ Len(shifted) = Len(data)
            /\ \A b \in 1 .. Len(data) :
                 shifted[b] = IF b \notin Indices(r) THEN data[b]
                              ELSE IF b - r.start <= off THEN NoData
                              ELSE data[b - off]
<1> DEFINE Value(b) == IF b \notin Indices(r) THEN data[b]
                       ELSE IF b - r.start <= off THEN NoData
                       ELSE data[b - off]
<1>1. ASSUME NEW b \in 1 .. Len(data)
      PROVE  Value(b) \in TestData
  <2>1. CASE b \in Indices(r) /\ ~ (b - r.start <= off)
    <3>1. b - off \in 1 .. Len(data)  BY <2>1 DEF Indices
    <3> QED  BY <2>1, <3>1, ElementOfSeq
  <2> QED  BY <2>1, NoDataType, ElementOfSeq
<1>2. ShiftData(data, r, off, NoData) = [b \in 1 .. Len(data) |-> Value(b)]
  BY DEF ShiftData, Indices
<1>3. ShiftData(data, r, off, NoData) \in [1 .. Len(data) -> TestData]
  BY <1>1, <1>2
<1> QED  BY <1>2, <1>3

-----------------------------------------------------------------------------
(* insert_full *)

LEMMA IndexOfKnown ==
  ASSUME NEW t, NEW key, key \in KeysOf(t)
  PROVE  IndexOf(t, key) \in DOMAIN t.tests /\ t.tests[IndexOf(t, key)].key = key
  BY DEF KeysOf, IndexOf

LEMMA ReplacedRecord ==
  ASSUME NEW t, GoodTable(t), NEW key \in Keys, key \in KeysOf(t)
  PROVE  LET w == InsertFull(t, key)
         IN /\ GoodTable(w)
            /\ w.num_days = t.num_days /\ w.timestamp = t.timestamp
            /\ w.testdata = t.testdata
            /\ Len(w.tests) = Len(t.tests)
            /\ \A i \in DOMAIN t.tests : w.tests[i].key = t.tests[i].key
            /\ IndexOf(w, key) = IndexOf(t, key)
<1> DEFINE w == InsertFull(t, key)
           record == [key |-> key, valid_data |-> 1]
           at == IndexOf(t, key)
<1>1. /\ t \in Table /\ t.tests \in Seq(Test) /\ DOMAIN t.tests = 1 .. Len(t.tests)
      /\ at \in 1 .. Len(t.tests) /\ t.tests[at].key = key
  BY IndexOfKnown DEF GoodTable, Table
<1>2. w = [t EXCEPT !.tests = [t.tests EXCEPT ![at] = record]]
  BY <1>1 DEF InsertFull, Table
<1>3. record \in Test  BY DEF Test
<1>4. /\ w.tests = [t.tests EXCEPT ![at] = record]
      /\ w.num_days = t.num_days /\ w.timestamp = t.timestamp
      /\ w.testdata = t.testdata
  BY <1>1, <1>2 DEF Table
<1>5. /\ w.tests \in Seq(Test)
      /\ Len(w.tests) = Len(t.tests)
      /\ \A i \in 1 .. Len(t.tests) : w.tests[i] = IF i = at THEN record ELSE t.tests[i]
  BY <1>1, <1>3, <1>4, ExceptSeq
<1>6. \A i \in DOMAIN t.tests : w.tests[i].key = t.tests[i].key
  BY <1>1, <1>5
<1>7. w \in Table  BY <1>1, <1>2, <1>5 DEF Table
<1>8. DOMAIN w.tests = DOMAIN t.tests  BY <1>1, <1>5
<1>9. GoodTable(w)
  BY <1>4, <1>5, <1>6, <1>7, <1>8 DEF GoodTable, BucketsLaidOut, UniqueKeys
<1>10. IndexOf(w, key) = at
  <2>1. at \in DOMAIN w.tests /\ w.tests[at].key = key  BY <1>1, <1>6, <1>8
  <2>2. \A i \in DOMAIN w.tests : w.tests[i].key = key => i = at
    BY <2>1, <1>9 DEF GoodTable, UniqueKeys
  <2> QED  BY <2>1, <2>2 DEF IndexOf
<1> HIDE DEF w, at
<1> QED  BY <1>4, <1>5, <1>6, <1>9, <1>10 DEF w, at

\* w is t with one record more, and data for all of them.
AddsRecord(w, t, record, data) ==
  /\ record \in Test /\ record.key \notin KeysOf(t)
  /\ data \in Seq(TestData) /\ Len(data) = (Len(t.tests) + 1) * t.num_days
  /\ w = [t EXCEPT !.tests = Append(t.tests, record), !.testdata = data]

LEMMA AppendedRecord ==
  ASSUME NEW t, GoodTable(t), NEW record, NEW data, NEW w, AddsRecord(w, t, record, data)
  PROVE  /\ GoodTable(w)
         /\ w.num_days = t.num_days /\ w.timestamp = t.timestamp
         /\ w.testdata = data
         /\ Len(w.tests) = Len(t.tests) + 1
         /\ KeysOf(w) = KeysOf(t) \cup {record.key}
         /\ IndexOf(w, record.key) = Len(t.tests) + 1
<1> DEFINE at == Len(t.tests) + 1
<1>1. /\ t \in Table /\ t.tests \in Seq(Test) /\ DOMAIN t.tests = 1 .. Len(t.tests)
      /\ Len(t.tests) \in Nat /\ t.testdata \in Seq(TestData) /\ t.num_days \in Nat \ {0}
      /\ record \in Test /\ record.key \notin KeysOf(t)
      /\ data \in Seq(TestData) /\ Len(data) = at * t.num_days
      /\ w = [t EXCEPT !.tests = Append(t.tests, record), !.testdata = data]
  BY DEF GoodTable, Table, AddsRecord
<1>2. /\ w.tests = Append(t.tests, record)
      /\ w.num_days = t.num_days /\ w.timestamp = t.timestamp
      /\ w.testdata = data
  BY <1>1 DEF Table
<1>3. /\ w.tests \in Seq(Test)
      /\ Len(w.tests) = at
      /\ \A i \in 1 .. Len(t.tests) : w.tests[i] = t.tests[i]
      /\ w.tests[at] = record
  BY <1>1, <1>2, AppendProperties
<1>4. w \in Table  BY <1>1, <1>2, <1>3 DEF Table
<1>5. DOMAIN w.tests = 1 .. at  BY <1>3
<1>6. \A i \in DOMAIN w.tests : w.tests[i].key = record.key <=> i = at
  BY <1>1, <1>3, <1>5 DEF KeysOf
<1>7. UniqueKeys(w)
  <2> SUFFICES ASSUME NEW i \in 1 .. at, NEW j \in 1 .. at, w.tests[i].key = w.tests[j].key
               PROVE  i = j
    BY <1>5 DEF UniqueKeys
  <2>1. CASE i = at  BY <2>1, <1>3, <1>5, <1>6
  <2>2. CASE j = at  BY <2>2, <1>3, <1>5, <1>6
  <2>3. CASE i # at /\ j # at
    <3>1. i \in 1 .. Len(t.tests) /\ j \in 1 .. Len(t.tests)  BY <2>3, <1>1
    <3> QED  BY <3>1, <1>1, <1>3 DEF GoodTable, UniqueKeys
  <2> QED  BY <2>1, <2>2, <2>3
<1>8. GoodTable(w)
  BY <1>1, <1>2, <1>3, <1>4, <1>7 DEF GoodTable, BucketsLaidOut
<1>9. KeysOf(w) = KeysOf(t) \cup {record.key}
  <2>1. ASSUME NEW k \in KeysOf(w) PROVE k \in KeysOf(t) \cup {record.key}
    <3>1. PICK i \in 1 .. at : k = w.tests[i].key  BY <1>5 DEF KeysOf
    <3>2. CASE i = at  BY <3>1, <3>2, <1>3
    <3>3. CASE i \in 1 .. Len(t.tests)  BY <3>1, <3>3, <1>1, <1>3 DEF KeysOf
    <3> QED  BY <3>2, <3>3, <1>1
  <2>2. ASSUME NEW k \in KeysOf(t) PROVE k \in KeysOf(w)
    <3>1. PICK i \in 1 .. Len(t.tests) : k = t.tests[i].key  BY <1>1 DEF KeysOf
    <3>2. i \in DOMAIN w.tests /\ w.tests[i].key = k  BY <3>1, <1>1, <1>3, <1>5
    <3> QED  BY <3>2 DEF KeysOf
  <2>3. record.key \in KeysOf(w)
    <3>1. at \in DOMAIN w.tests /\ w.tests[at].key = record.key  BY <1>1, <1>3, <1>5
    <3> QED  BY <3>1 DEF KeysOf
  <2> QED  BY <2>1, <2>2, <2>3
<1>10. IndexOf(w, record.key) = at
  BY <1>1, <1>5, <1>6 DEF IndexOf
<1> QED  BY <1>1, <1>2, <1>3, <1>8, <1>9, <1>10

\* What the rest of the proof uses of insert_full.
LEMMA InsertFullProperties ==
  ASSUME NEW t, GoodTable(t), NEW key \in Keys
  PROVE  LET w == InsertFull(t, key)
         IN /\ GoodTable(w)
            /\ w.num_days = t.num_days /\ w.timestamp = t.timestamp
            /\ IndexOf(w, key) \in DOMAIN w.tests
            /\ key \in KeysOf(t) => IndexOf(w, key) = IndexOf(t, key)
            /\ key \notin KeysOf(t) => IndexOf(w, key) = Len(t.tests) + 1
            /\ \A now \in Nat : NoneAfter(t, now) => NoneAfter(w, now)
<1> DEFINE w == InsertFull(t, key)
<1>0. t.testdata \in Seq(TestData) /\ t.tests \in Seq(Test) /\ t.num_days \in Nat \ {0}
  BY DEF GoodTable, Table
<1>1. CASE key \in KeysOf(t)
  <2>1. IndexOf(t, key) \in DOMAIN t.tests  BY <1>1, IndexOfKnown
  <2>2. /\ GoodTable(w)
        /\ w.num_days = t.num_days /\ w.timestamp = t.timestamp
        /\ w.testdata = t.testdata /\ Len(w.tests) = Len(t.tests)
        /\ IndexOf(w, key) = IndexOf(t, key)
    BY <1>1, ReplacedRecord
  <2>3. DOMAIN w.tests = DOMAIN t.tests  BY <2>2, <1>0 DEF GoodTable, Table
  <2> HIDE DEF w
  <2> QED  BY <1>1, <2>1, <2>2, <2>3 DEF w, NoneAfter
<1>2. CASE key \notin KeysOf(t)
  <2>1. /\ GoodTable(w)
        /\ w.num_days = t.num_days /\ w.timestamp = t.timestamp
        /\ w.testdata = Resize(t.testdata, (Len(t.tests) + 1) * t.num_days)
        /\ Len(w.tests) = Len(t.tests) + 1
        /\ IndexOf(w, key) = Len(t.tests) + 1
    <3> DEFINE record == [key |-> key, valid_data |-> 1]
               data == Resize(t.testdata, (Len(t.tests) + 1) * t.num_days)
    <3>1. record \in Test /\ record.key = key  BY DEF Test
    <3>2. (Len(t.tests) + 1) * t.num_days \in Nat  BY <1>0
    <3>3. data \in Seq(TestData) /\ Len(data) = (Len(t.tests) + 1) * t.num_days
      BY <3>2, <1>0, ResizeProperties
    <3>4. w = [t EXCEPT !.tests = Append(t.tests, record), !.testdata = data]
      BY <1>2 DEF InsertFull
    <3> HIDE DEF w, record, data
    <3>5. /\ GoodTable(w)
          /\ w.num_days = t.num_days /\ w.timestamp = t.timestamp
          /\ w.testdata = data
          /\ Len(w.tests) = Len(t.tests) + 1
          /\ IndexOf(w, key) = Len(t.tests) + 1
      <4>1. AddsRecord(w, t, record, data)  BY <1>2, <3>1, <3>3, <3>4 DEF AddsRecord
      <4> QED  BY <4>1, <3>1, AppendedRecord
    <3> QED  BY <3>5 DEF data
  <2>2. IndexOf(w, key) \in DOMAIN w.tests
    BY <2>1, <1>0 DEF GoodTable, Table
  <2>3. ASSUME NEW now \in Nat, NoneAfter(t, now)
        PROVE  NoneAfter(w, now)
    <3> SUFFICES ASSUME NEW b \in DOMAIN w.testdata
                 PROVE  w.testdata[b].last_timestamp <= now
      BY DEF NoneAfter
    <3> DEFINE len == (Len(t.tests) + 1) * t.num_days
    <3>1. len \in Nat /\ w.testdata = Resize(t.testdata, len)  BY <2>1, <1>0
    <3> HIDE DEF w, len
    <3>2. w.testdata \in Seq(TestData) /\ Len(w.testdata) = len
      BY <3>1, <1>0, ResizeProperties
    <3>3. /\ b \in 1 .. len
          /\ w.testdata[b] = IF b <= Len(t.testdata) THEN t.testdata[b] ELSE NoData
      <4>1. b \in 1 .. len  BY <3>2
      <4>2. \A c \in 1 .. len :
              Resize(t.testdata, len)[c] = IF c <= Len(t.testdata) THEN t.testdata[c] ELSE NoData
        BY <3>1, <1>0, ResizeProperties
      <4> QED  BY <3>1, <4>1, <4>2
    <3>4. b <= Len(t.testdata) => b \in DOMAIN t.testdata  BY <3>3, <1>0
    <3> QED  BY <2>3, <3>3, <3>4 DEF NoneAfter, NoData
  <2> HIDE DEF w
  <2> QED  BY <1>2, <2>1, <2>2, <2>3 DEF w
<1> QED  BY <1>1, <1>2

-----------------------------------------------------------------------------
(* Updates that keep the shape of a table. *)

SameShape(w, t) ==
  /\ GoodTable(w)
  /\ w.num_days = t.num_days /\ w.timestamp = t.timestamp
  /\ DOMAIN w.tests = DOMAIN t.tests
  /\ \A i \in DOMAIN t.tests : w.tests[i].key = t.tests[i].key

LEMMA SetValidData ==
  ASSUME NEW t, GoodTable(t), NEW i \in DOMAIN t.tests, NEW v \in Nat
  PROVE  LET w == [t EXCEPT !.tests[i].valid_data = v]
         IN SameShape(w, t) /\ w.testdata = t.testdata
<1> DEFINE w == [t EXCEPT !.tests[i].valid_data = v]
           record == [t.tests[i] EXCEPT !.valid_data = v]
<1>1. /\ t \in Table /\ t.tests \in Seq(Test) /\ DOMAIN t.tests = 1 .. Len(t.tests)
      /\ i \in 1 .. Len(t.tests)
  BY DEF GoodTable, Table
<1>2. t.tests[i] \in Test  BY <1>1, ElementOfSeq
<1>3. record \in Test /\ record.key = t.tests[i].key
  BY <1>2 DEF Test
<1>4. /\ w.tests = [t.tests EXCEPT ![i] = record]
      /\ w = [t EXCEPT !.tests = w.tests]
      /\ w.num_days = t.num_days /\ w.timestamp = t.timestamp /\ w.testdata = t.testdata
  BY <1>1, <1>2 DEF Table
<1>5. /\ w.tests \in Seq(Test)
      /\ Len(w.tests) = Len(t.tests)
      /\ \A j \in 1 .. Len(t.tests) : w.tests[j] = IF j = i THEN record ELSE t.tests[j]
  BY <1>1, <1>3, <1>4, ExceptSeq
<1> HIDE DEF w, record
<1>6. w \in Table  BY <1>1, <1>4, <1>5 DEF Table
<1>7. DOMAIN w.tests = DOMAIN t.tests  BY <1>1, <1>5
<1>8. \A j \in DOMAIN t.tests : w.tests[j].key = t.tests[j].key
  BY <1>1, <1>3, <1>5
<1>9. GoodTable(w)
  BY <1>4, <1>5, <1>6, <1>7, <1>8 DEF GoodTable, BucketsLaidOut, UniqueKeys
<1> QED  BY <1>4, <1>7, <1>8, <1>9 DEF w, SameShape

LEMMA SetTestdata ==
  ASSUME NEW t, GoodTable(t), NEW data \in Seq(TestData), Len(data) = Len(t.testdata)
  PROVE  LET w == [t EXCEPT !.testdata = data]
         IN SameShape(w, t) /\ w.testdata = data /\ w.tests = t.tests
<1> DEFINE w == [t EXCEPT !.testdata = data]
<1>1. t \in Table  BY DEF GoodTable
<1>2. /\ w \in Table /\ w.testdata = data /\ w.tests = t.tests
      /\ w.num_days = t.num_days /\ w.timestamp = t.timestamp
  BY <1>1 DEF Table
<1> HIDE DEF w
<1>3. GoodTable(w)  BY <1>2 DEF GoodTable, BucketsLaidOut, UniqueKeys
<1> QED  BY <1>2, <1>3 DEF w, SameShape

LEMMA SameShapeTransitive ==
  ASSUME NEW u, NEW w, NEW t, SameShape(u, w), SameShape(w, t)
  PROVE  SameShape(u, t)
  BY DEF SameShape

LEMMA ShiftRecordProperties ==
  ASSUME NEW t, GoodTable(t), NEW i \in DOMAIN t.tests, NEW off \in Nat
  PROVE  LET w == ShiftRecord(t, i, off)
         IN /\ SameShape(w, t)
            /\ \A now \in Nat : NoneAfter(t, now) => NoneAfter(w, now)
            /\ \A b \in DOMAIN t.testdata :
                 b \notin Indices(RecordRange(t, i)) => w.testdata[b] = t.testdata[b]
<1> DEFINE data == ShiftData(t.testdata, RecordRange(t, i), off, NoData)
           v == ExtendValidData(t.tests[i].valid_data, off, t.num_days)
           u == [t EXCEPT !.testdata = data]
           w == [u EXCEPT !.tests[i].valid_data = v]
           r == RecordRange(t, i)
<1>1. /\ t \in Table /\ t.tests \in Seq(Test) /\ i \in 1 .. Len(t.tests)
      /\ t.testdata \in Seq(TestData) /\ t.num_days \in Nat \ {0}
  BY DEF GoodTable, Table
<1>2. r \in [start : Nat, end : Nat] /\ r.end <= Len(t.testdata)
  BY <1>1, RecordInData DEF RecordRange
<1>3. /\ data \in Seq(TestData)
      /\ Len(data) = Len(t.testdata)
      /\ \A b \in 1 .. Len(t.testdata) :
           data[b] = IF b \notin Indices(r) THEN t.testdata[b]
                     ELSE IF b - r.start <= off THEN NoData
                     ELSE t.testdata[b - off]
  BY <1>1, <1>2, ShiftDataProperties
<1>4. t.tests[i] \in Test  BY <1>1, ElementOfSeq
<1>5. v \in Nat
  BY <1>1, <1>4 DEF ExtendValidData, MinOf, Test
<1>6. ShiftRecord(t, i, off) = w
  BY <1>1 DEF ShiftRecord, Table
<1> HIDE DEF data, v
<1>7. SameShape(u, t) /\ u.testdata = data /\ u.tests = t.tests
  BY <1>3, SetTestdata
<1> HIDE DEF u
<1>8. GoodTable(u) /\ i \in DOMAIN u.tests  BY <1>7 DEF SameShape
<1>9. SameShape(w, u) /\ w.testdata = u.testdata
  BY <1>5, <1>8, SetValidData
<1> HIDE DEF w
<1>10. SameShape(w, t) /\ w.testdata = data
  BY <1>7, <1>9, SameShapeTransitive
<1>11. ASSUME NEW now \in Nat, NoneAfter(t, now)
       PROVE  NoneAfter(w, now)
  <2> SUFFICES ASSUME NEW b \in 1 .. Len(t.testdata)
               PROVE  data[b].last_timestamp <= now
    BY <1>3, <1>10 DEF NoneAfter
  <2>1. CASE b \notin Indices(r) \/ b - r.start <= off
    BY <2>1, <1>1, <1>3, <1>11 DEF NoneAfter, NoData
  <2>2. CASE b \in Indices(r) /\ ~ (b - r.start <= off)
    <3>1. b - off \in DOMAIN t.testdata  BY <2>2, <1>1, <1>2 DEF Indices
    <3> QED  BY <2>2, <3>1, <1>3, <1>11 DEF NoneAfter
  <2> QED  BY <2>1, <2>2
<1>12. \A b \in DOMAIN t.testdata : b \notin Indices(r) => w.testdata[b] = t.testdata[b]
  BY <1>1, <1>3, <1>10
<1> QED  BY <1>6, <1>10, <1>11, <1>12

LEMMA CountRunType ==
  ASSUME NEW data \in TestData, NEW now \in Nat, NEW outcome \in Outcomes,
         NEW commit \in Commits
  PROVE  /\ CountRun(data, now, outcome, commit) \in TestData
         /\ data.last_timestamp <= now =>
              CountRun(data, now, outcome, commit).last_timestamp <= now
<1>1. CounterModulus \in Nat \ {0} /\ CounterOf(outcome) \in Counters
  BY ConstantsAssumption DEF CounterOf, Counters
<1>2. \A n \in Nat : (n + 1) % CounterModulus \in Nat
  BY <1>1
<1>3. [data.counts EXCEPT ![CounterOf(outcome)] = (@ + 1) % CounterModulus]
         \in [Counters -> Nat]
  BY <1>1, <1>2 DEF TestData
<1> QED  BY <1>3 DEF CountRun, TestData, MaxOf

LEMMA InsertIntoProperties ==
  ASSUME NEW t, GoodTable(t), NoneAfter(t, t.timestamp),
         NEW i \in DOMAIN t.tests, NEW j \in 0 .. t.num_days - 1,
         NEW s \in Session, NEW outcome \in Outcomes
  PROVE  LET w == InsertInto(t, i, j, s, outcome)
         IN SameShape(w, t) /\ NoneAfter(w, t.timestamp)
<1> DEFINE at == RecordRange(t, i).start + j + 1
           bucket == CountRun(t.testdata[at], t.timestamp, outcome, s.commit)
           data == [t.testdata EXCEPT ![at] = bucket]
           w == [t EXCEPT !.testdata = data]
<1>1. t \in Table /\ t.testdata \in Seq(TestData) /\ t.num_days \in Nat \ {0}
      /\ t.timestamp \in Nat
  BY DEF GoodTable, Table
<1>2. at \in 1 .. Len(t.testdata)
  <2>1. /\ RecordRange(t, i).start \in Nat
        /\ RecordRange(t, i).end = RecordRange(t, i).start + t.num_days
        /\ RecordRange(t, i).end <= Len(t.testdata)
    BY RecordInData
  <2> QED  BY <1>1, <2>1
<1>3. t.testdata[at] \in TestData  BY <1>1, <1>2, ElementOfSeq
<1>4. t.testdata[at].last_timestamp <= t.timestamp
  BY <1>1, <1>2 DEF NoneAfter
<1>5. bucket \in TestData /\ bucket.last_timestamp <= t.timestamp
  BY <1>1, <1>3, <1>4, CountRunType DEF Session
<1>6. InsertInto(t, i, j, s, outcome) = w
  BY <1>1 DEF InsertInto, Table
<1> HIDE DEF bucket, at
<1>7. /\ data \in Seq(TestData) /\ Len(data) = Len(t.testdata)
      /\ \A b \in 1 .. Len(t.testdata) : data[b] = IF b = at THEN bucket ELSE t.testdata[b]
  BY <1>1, <1>2, <1>5, ExceptSeq
<1> HIDE DEF data
<1>8. SameShape(w, t) /\ w.testdata = data
  BY <1>7, SetTestdata
<1>9. NoneAfter(w, t.timestamp)
  BY <1>1, <1>5, <1>7, <1>8 DEF NoneAfter
<1> QED  BY <1>6, <1>8, <1>9

-----------------------------------------------------------------------------
(* One record of a merge. *)

LEMMA MergeDataType ==
  ASSUME NEW a \in TestData, NEW b \in TestData
  PROVE  /\ MergeData(a, b) \in TestData
         /\ \A now \in Nat : a.last_timestamp <= now /\ b.last_timestamp <= now
              => MergeData(a, b).last_timestamp <= now
<1>1. \A c \in Counters : (a.counts[c] + b.counts[c]) % CounterModulus \in Nat
  BY ConstantsAssumption DEF TestData
<1> QED  BY <1>1 DEF MergeData, TestData, MaxOf

\* What the guard of the loop of merge provides.
MergePre ==
  /\ GoodTable(writer) /\ NoneAfter(writer, writer.timestamp)
  /\ GoodTable(source) /\ NoneAfter(source, writer.timestamp)
  /\ next \in DOMAIN source.tests

LEMMA MergeRanges ==
  ASSUME MergePre
  PROVE  /\ GoodTable(MergeTarget)
         /\ MergeTarget.num_days = writer.num_days
         /\ MergeTarget.timestamp = writer.timestamp
         /\ NoneAfter(MergeTarget, writer.timestamp)
         /\ MergeIndex \in DOMAIN MergeTarget.tests
         /\ MergeOffset \in Nat
         /\ IsRange(MergeFrom)
         /\ MergeFrom.end <= Len(source.testdata)
         /\ RecordRange(writer, MergeIndex).start \in Nat
         /\ IsRange(MergeTo)
         /\ RecordRange(writer, MergeIndex).start <= MergeTo.start
         /\ MergeTo.end - MergeTo.start = MergeFrom.end - MergeFrom.start
<1>1. /\ writer.num_days \in Nat \ {0} /\ writer.timestamp \in Nat
      /\ source.tests[next] \in Test
  BY ElementOfSeq DEF MergePre, GoodTable, Table
<1>2. MergeKey \in Keys  BY <1>1 DEF MergeKey, Test
<1>3. /\ GoodTable(MergeTarget)
      /\ MergeTarget.num_days = writer.num_days
      /\ MergeTarget.timestamp = writer.timestamp
      /\ NoneAfter(MergeTarget, writer.timestamp)
      /\ MergeIndex \in DOMAIN MergeTarget.tests
      /\ MergeKey \in KeysOf(writer) => MergeIndex = IndexOf(writer, MergeKey)
  BY <1>1, <1>2, InsertFullProperties DEF MergePre, MergeTarget, MergeIndex
<1>4. SmallerLatest \in Nat  BY RecordInData DEF MergePre, SmallerLatest
<1>5. LargerLatest \in Nat
  <2>1. CASE MergeKey \in KeysOf(writer)
    <3>1. MergeIndex \in DOMAIN writer.tests  BY <2>1, <1>3, IndexOfKnown
    <3> QED  BY <2>1, <3>1, RecordInData DEF MergePre, LargerLatest
  <2> QED  BY <2>1, <1>4 DEF LargerLatest
<1>6. MergeOffset \in Nat
  BY <1>4, <1>5, OffsetIsNatural DEF MergeOffset, SmallerIsNewer
<1> DEFINE record == RecordRange(source, next)
           wanted == [start |-> 0, end |-> writer.num_days]
<1>7. IsRange(record) /\ record.end <= Len(source.testdata)
  <2>1. source.num_days \in Nat \ {0} /\ Len(source.testdata) \in Nat
    BY DEF MergePre, GoodTable, Table
  <2> QED  BY <2>1, RecordInData, SMTT(30) DEF MergePre, IsRange, RecordRange
<1>8. IsRange(wanted)  BY <1>1 DEF IsRange
<1>9. IsRange(MergeFrom) /\ MergeFrom.end <= record.end
  BY <1>6, <1>7, <1>8, SelectionInData DEF MergeFrom
<1>10. RecordRange(writer, MergeIndex).start \in Nat
  <2>1. RecordRange(MergeTarget, MergeIndex).start \in Nat
    BY <1>3, RecordInData
  <2> QED  BY <2>1, <1>3 DEF RecordRange
<1> HIDE DEF record
<1>11. /\ IsRange(MergeTo)
       /\ RecordRange(writer, MergeIndex).start <= MergeTo.start
       /\ MergeTo.end - MergeTo.start = MergeFrom.end - MergeFrom.start
  BY <1>6, <1>9, <1>10 DEF MergeTo, IsRange
<1>12. MergeFrom.end <= Len(source.testdata)
  <2>1. Len(source.testdata) \in Nat  BY DEF MergePre, GoodTable, Table
  <2> QED  BY <2>1, <1>7, <1>9 DEF IsRange
<1> QED  BY <1>3, <1>6, <1>9, <1>10, <1>11, <1>12

LEMMA MergeShiftedProperties ==
  ASSUME MergePre
  PROVE  SameShape(MergeShifted, MergeTarget) /\ NoneAfter(MergeShifted, writer.timestamp)
<1> DEFINE shifted == IF SmallerIsNewer
                      THEN ShiftRecord(MergeTarget, MergeIndex, MergeOffset)
                      ELSE MergeTarget
           covered == MergeTo.end - RecordRange(writer, MergeIndex).start
           v == MinOf(MaxOf(shifted.tests[MergeIndex].valid_data, covered), writer.num_days)
<1>1. /\ writer.num_days \in Nat \ {0} /\ writer.timestamp \in Nat
  BY DEF MergePre, GoodTable, Table
<1>2. SameShape(shifted, MergeTarget) /\ NoneAfter(shifted, writer.timestamp)
  <2>1. CASE SmallerIsNewer
    BY <2>1, <1>1, MergeRanges, ShiftRecordProperties
  <2>2. CASE ~ SmallerIsNewer
    BY <2>2, MergeRanges DEF SameShape
  <2> QED  BY <2>1, <2>2
<1>3. covered \in Nat  BY MergeRanges DEF IsRange
<1>4. MergeShifted = [shifted EXCEPT !.tests[MergeIndex].valid_data = v]
  BY DEF MergeShifted
<1> HIDE DEF shifted, covered
<1>5. GoodTable(shifted) /\ MergeIndex \in DOMAIN shifted.tests
  BY <1>2, MergeRanges DEF SameShape
<1>6. v \in Nat
  <2>1. shifted.tests[MergeIndex] \in Test
    BY <1>5, ElementOfSeq DEF GoodTable, Table
  <2> QED  BY <2>1, <1>1, <1>3 DEF MinOf, MaxOf, Test
<1> HIDE DEF v
<1>7. SameShape(MergeShifted, shifted) /\ MergeShifted.testdata = shifted.testdata
  BY <1>4, <1>5, <1>6, SetValidData
<1> QED  BY <1>2, <1>7, SameShapeTransitive DEF NoneAfter

LEMMA MergedRecord ==
  ASSUME MergePre, MergeTo.end <= Len(MergeTarget.testdata)
  PROVE  LET w == [MergeShifted EXCEPT !.testdata = MergeBuckets(@)]
         IN SameShape(w, MergeTarget) /\ NoneAfter(w, writer.timestamp)
<1> DEFINE old == MergeShifted.testdata
           data == MergeBuckets(old)
           from(b) == b - MergeTo.start + MergeFrom.start
           w == [MergeShifted EXCEPT !.testdata = data]
<1>1. /\ SameShape(MergeShifted, MergeTarget)
      /\ NoneAfter(MergeShifted, writer.timestamp)
      /\ GoodTable(MergeShifted)
  BY MergeShiftedProperties DEF SameShape
<1>2. /\ MergeShifted \in Table
      /\ old \in Seq(TestData) /\ DOMAIN old = 1 .. Len(old) /\ Len(old) \in Nat
      /\ source.testdata \in Seq(TestData) /\ Len(source.testdata) \in Nat
      /\ DOMAIN source.testdata = 1 .. Len(source.testdata)
      /\ writer.timestamp \in Nat
  BY <1>1 DEF MergePre, GoodTable, Table
<1>3. ASSUME NEW b \in DOMAIN old, b \in Indices(MergeTo)
      PROVE  from(b) \in DOMAIN source.testdata
  BY <1>2, <1>3, MergeRanges, SMTT(30) DEF Indices, IsRange
<1> HIDE DEF old
<1> DEFINE bucket(b) == IF b \in Indices(MergeTo)
                        THEN MergeData(old[b], source.testdata[from(b)])
                        ELSE old[b]
<1>4. ASSUME NEW b \in DOMAIN old
      PROVE  bucket(b) \in TestData /\ bucket(b).last_timestamp <= writer.timestamp
  <2>1. old[b] \in TestData /\ old[b].last_timestamp <= writer.timestamp
    BY <1>1, <1>2, ElementOfSeq DEF NoneAfter, old
  <2>2. CASE b \in Indices(MergeTo)
    <3>1. from(b) \in DOMAIN source.testdata  BY <2>2, <1>3
    <3>2. /\ source.testdata[from(b)] \in TestData
          /\ source.testdata[from(b)].last_timestamp <= writer.timestamp
      BY <3>1, <1>2, ElementOfSeq DEF MergePre, NoneAfter
    <3> QED  BY <2>1, <2>2, <3>2, <1>2, MergeDataType
  <2> QED  BY <2>1, <2>2
<1>5. data = [b \in DOMAIN old |-> bucket(b)]
  BY DEF MergeBuckets
<1> HIDE DEF bucket
<1>6. /\ data \in Seq(TestData) /\ Len(data) = Len(old)
      /\ \A b \in DOMAIN old : data[b].last_timestamp <= writer.timestamp
  <2>1. data \in [1 .. Len(old) -> TestData]  BY <1>2, <1>4, <1>5
  <2> QED  BY <2>1, <1>2, <1>4, <1>5
<1>7. [MergeShifted EXCEPT !.testdata = MergeBuckets(@)] = w
  BY <1>2 DEF Table, old
<1> HIDE DEF data
<1>8. SameShape(w, MergeShifted) /\ w.testdata = data
  BY <1>1, <1>6, SetTestdata DEF old
<1>9. DOMAIN data = DOMAIN old  BY <1>2, <1>6
<1> HIDE DEF w
<1>10. NoneAfter(w, writer.timestamp)
  BY <1>6, <1>8, <1>9 DEF NoneAfter
<1> QED  BY <1>1, <1>7, <1>8, <1>10, SameShapeTransitive

-----------------------------------------------------------------------------
(* One live record of a rewrite. *)

LEMMA RewrittenRecord ==
  ASSUME GoodTable(writer), NoneAfter(writer, writer.timestamp),
         GoodTable(source), NoneAfter(source, writer.timestamp),
         next \in DOMAIN source.tests, source.tests[next].key \notin KeysOf(writer),
         RewriteLive
  PROVE  /\ GoodTable(writer') /\ NoneAfter(writer', writer.timestamp)
         /\ writer'.timestamp = writer.timestamp
         /\ KeysOf(writer') = KeysOf(writer) \cup {source.tests[next].key}
<1> DEFINE old == source.tests[next]
           start == RecordRange(source, next).start
           overlap == MinOf(source.num_days, writer.num_days)
           kept == SubSeq(source.testdata, start + 1, start + overlap)
           record == [key |-> old.key, valid_data |-> MaxOf(old.valid_data, source.num_days)]
           all == writer.testdata \o kept
           len == (Len(writer.tests) + 1) * writer.num_days
           data == Resize(all, len)
<1>1. /\ source.testdata \in Seq(TestData) /\ Len(source.testdata) \in Nat
      /\ DOMAIN source.testdata = 1 .. Len(source.testdata)
      /\ source.num_days \in Nat \ {0} /\ writer.num_days \in Nat \ {0}
      /\ writer.testdata \in Seq(TestData) /\ Len(writer.testdata) \in Nat
      /\ DOMAIN writer.testdata = 1 .. Len(writer.testdata)
      /\ writer.timestamp \in Nat /\ Len(writer.tests) \in Nat
      /\ writer \in Table /\ old \in Test
  BY ElementOfSeq DEF GoodTable, Table
<1>2. /\ start \in Nat /\ overlap \in Nat
      /\ \A b \in start + 1 .. start + overlap : b \in DOMAIN source.testdata
  <2>1. /\ start \in Nat
        /\ RecordRange(source, next).end = start + source.num_days
        /\ RecordRange(source, next).end <= Len(source.testdata)
    BY RecordInData
  <2> HIDE DEF start
  <2>2. overlap \in Nat /\ overlap <= source.num_days  BY <1>1 DEF MinOf
  <2> HIDE DEF overlap
  <2> QED  BY <1>1, <2>1, <2>2
<1>3. \A b \in start + 1 .. start + overlap : source.testdata[b] \in TestData
  BY <1>1, <1>2, ElementOfSeq
<1> HIDE DEF start, overlap
<1>4. /\ kept \in Seq(TestData)
      /\ Len(kept) = overlap
      /\ \A i \in 1 .. overlap : kept[i] = source.testdata[start + i]
  <2>1. /\ kept \in Seq(TestData)
        /\ Len(kept) = IF start + 1 <= start + overlap
                       THEN (start + overlap) - (start + 1) + 1 ELSE 0
        /\ \A i \in 1 .. (start + overlap) - (start + 1) + 1 :
             kept[i] = source.testdata[(start + 1) + i - 1]
    BY <1>2, <1>3, SubSeqProperties
  <2>2. (start + overlap) - (start + 1) + 1 = overlap  BY <1>2
  <2>3. \A i \in 1 .. overlap : (start + 1) + i - 1 = start + i  BY <1>2
  <2> QED  BY <2>1, <2>2, <2>3, <1>2
<1>5. \A i \in 1 .. overlap : kept[i].last_timestamp <= writer.timestamp
  BY <1>2, <1>4 DEF NoneAfter
<1> HIDE DEF kept
<1>6. /\ all \in Seq(TestData) /\ Len(all) = Len(writer.testdata) + overlap
      /\ \A i \in 1 .. Len(writer.testdata) + overlap :
           all[i] = IF i <= Len(writer.testdata) THEN writer.testdata[i]
                    ELSE kept[i - Len(writer.testdata)]
  <2>1. /\ all \in Seq(TestData)
        /\ Len(all) = Len(writer.testdata) + Len(kept)
        /\ \A i \in 1 .. Len(writer.testdata) + Len(kept) :
             all[i] = IF i <= Len(writer.testdata) THEN writer.testdata[i]
                      ELSE kept[i - Len(writer.testdata)]
    <3>1. writer.testdata \in Seq(TestData) /\ kept \in Seq(TestData)  BY <1>1, <1>4
    <3> QED  BY <3>1, ConcatProperties
  <2> HIDE DEF all
  <2> QED  BY <2>1, <1>4
<1>7. \A i \in 1 .. Len(all) : all[i].last_timestamp <= writer.timestamp
  <2> SUFFICES ASSUME NEW i \in 1 .. Len(writer.testdata) + overlap
               PROVE  all[i].last_timestamp <= writer.timestamp
    BY <1>6
  <2>1. CASE i <= Len(writer.testdata)
    BY <2>1, <1>1, <1>2, <1>6 DEF NoneAfter
  <2>2. CASE ~ (i <= Len(writer.testdata))
    <3>1. i - Len(writer.testdata) \in 1 .. overlap  BY <2>2, <1>1, <1>2
    <3> QED  BY <2>2, <3>1, <1>5, <1>6
  <2> QED  BY <2>1, <2>2
<1> HIDE DEF all
<1>8. len \in Nat  BY <1>1
<1>9. /\ data \in Seq(TestData) /\ Len(data) = len
      /\ \A b \in 1 .. len : data[b] = IF b <= Len(all) THEN all[b] ELSE NoData
  <2> HIDE DEF len
  <2> QED  BY <1>6, <1>8, ResizeProperties
<1>10. \A b \in DOMAIN data : data[b].last_timestamp <= writer.timestamp
  <2> HIDE DEF data, len
  <2> SUFFICES ASSUME NEW b \in 1 .. len
               PROVE  data[b].last_timestamp <= writer.timestamp
    BY <1>8, <1>9
  <2>1. Len(all) \in Nat  BY <1>1, <1>2, <1>6
  <2>2. data[b] = IF b <= Len(all) THEN all[b] ELSE NoData  BY <1>9
  <2>3. CASE b <= Len(all)
    <3>1. b \in 1 .. Len(all)  BY <2>1, <2>3, <1>8
    <3> QED  BY <2>2, <2>3, <3>1, <1>7
  <2>4. CASE ~ (b <= Len(all))
    BY <2>2, <2>4, <1>1 DEF NoData
  <2> QED  BY <2>3, <2>4
<1>11. record \in Test /\ record.key = old.key
  BY <1>1 DEF Test, MaxOf
<1>12. writer' = [writer EXCEPT !.tests = Append(writer.tests, record), !.testdata = data]
  BY <1>1 DEF RewriteLive, RewrittenTest, RewrittenData, KeptBuckets, Table,
              all, kept, start, overlap
<1> HIDE DEF data, record, old
<1>13. /\ GoodTable(writer') /\ writer'.timestamp = writer.timestamp
       /\ writer'.testdata = data
       /\ KeysOf(writer') = KeysOf(writer) \cup {record.key}
  <2>1. record.key \notin KeysOf(writer)  BY <1>11 DEF old
  <2> DEFINE w == [writer EXCEPT !.tests = Append(writer.tests, record), !.testdata = data]
  <2>2. w = [writer EXCEPT !.tests = Append(writer.tests, record), !.testdata = data]
    OBVIOUS
  <2>3. writer' = w  BY <1>12
  <2>4. Len(data) = (Len(writer.tests) + 1) * writer.num_days  BY <1>9
  <2> HIDE DEF w, len
  <2>5. /\ GoodTable(w) /\ w.timestamp = writer.timestamp /\ w.testdata = data
        /\ KeysOf(w) = KeysOf(writer) \cup {record.key}
    <3>1. AddsRecord(w, writer, record, data)
      BY <2>1, <2>2, <2>4, <1>9, <1>11 DEF AddsRecord
    <3> QED  BY <3>1, AppendedRecord
  <2> QED  BY <2>3, <2>5
<1> QED  BY <1>10, <1>11, <1>13 DEF NoneAfter, old

-----------------------------------------------------------------------------
(* The inductive invariant.  To the properties it adds that source is only  *)
(* used by the loops: otherwise a new writer, whose timestamp is 0, would   *)
(* be older than the buckets of a source left behind.                       *)

SourceIdle == phase \notin {"merge", "rewrite", "panicked"} => source = NoTable

IInv == TypeOK /\ Layout /\ KeysUnique /\ ClockBound /\ RewriteNeverReplaces /\ SourceIdle

SoundTable(t) == GoodTable(t) /\ NoneAfter(t, t.timestamp)

\* IInv as an operator on the values of the variables, primed or not.
StateSound(p, w, s, src, n, fs) ==
  /\ p \in Phases
  /\ SoundTable(w)
  /\ s \in Session
  /\ GoodTable(src) /\ NoneAfter(src, w.timestamp)
  /\ n \in Nat \ {0}
  /\ fs \in Seq(Table) /\ \A f \in DOMAIN fs : SoundTable(fs[f])
  /\ p = "session" => s.timestamp <= w.timestamp
  /\ p = "rewrite" => \A i \in n .. Len(src.tests) : src.tests[i].key \notin KeysOf(w)
  /\ p \notin {"merge", "rewrite", "panicked"} => src = NoTable

LEMMA IInvIsSound ==
  /\ IInv <=> StateSound(phase, writer, session, source, next, files)
  /\ IInv' <=> StateSound(phase', writer', session', source', next', files')
<1>1. ASSUME NEW fs \in Seq(Table)
      PROVE  \A f \in DOMAIN fs : fs[f] \in Table
  BY ElementOfSeq
<1>2. IInv <=> StateSound(phase, writer, session, source, next, files)
  BY <1>1 DEF IInv, TypeOK, Layout, KeysUnique, ClockBound, AllTables, RewriteNeverReplaces,
              SourceIdle, StateSound, SoundTable, GoodTable
<1>3. IInv' <=> StateSound(phase', writer', session', source', next', files')
  BY <1>1 DEF IInv, TypeOK, Layout, KeysUnique, ClockBound, AllTables, RewriteNeverReplaces,
              SourceIdle, StateSound, SoundTable, GoodTable
<1> QED  BY <1>2, <1>3

LEMMA NewTableSound ==
  ASSUME NEW num_days \in Nat \ {0}
  PROVE  SoundTable(NewTable(num_days)) /\ \A now \in Nat : NoneAfter(NewTable(num_days), now)
<1>1. NewTable(num_days) \in Table  BY EmptySeq DEF NewTable, Table
<1>2. /\ NewTable(num_days).tests = <<>> /\ NewTable(num_days).testdata = <<>>
      /\ NewTable(num_days).num_days = num_days
  BY DEF NewTable
<1>3. Len(<<>>) = 0 * num_days /\ DOMAIN <<>> = {}  BY EmptySeq
<1> QED
  BY <1>1, <1>2, <1>3 DEF SoundTable, GoodTable, NoneAfter, BucketsLaidOut, UniqueKeys

LEMMA NoTableSound == SoundTable(NoTable) /\ \A now \in Nat : NoneAfter(NoTable, now)
  BY NewTableSound DEF NoTable

LEMMA SetTimestamp ==
  ASSUME NEW t, SoundTable(t), NEW now \in Nat, t.timestamp <= now
  PROVE  LET w == [t EXCEPT !.timestamp = now]
         IN /\ SoundTable(w) /\ w.timestamp = now
            /\ w.tests = t.tests /\ w.testdata = t.testdata /\ w.num_days = t.num_days
<1> DEFINE w == [t EXCEPT !.timestamp = now]
<1>1. /\ w \in Table /\ w.timestamp = now
      /\ w.tests = t.tests /\ w.testdata = t.testdata /\ w.num_days = t.num_days
  BY DEF SoundTable, GoodTable, Table
<1>2. \A b \in DOMAIN t.testdata : t.testdata[b].last_timestamp <= now
  <2> SUFFICES ASSUME NEW b \in DOMAIN t.testdata
               PROVE  t.testdata[b].last_timestamp <= now
    OBVIOUS
  <2>1. /\ t.testdata[b].last_timestamp <= t.timestamp
        /\ t.testdata[b] \in TestData /\ t.timestamp \in Nat
    BY ElementOfSeq DEF SoundTable, GoodTable, NoneAfter, Table
  <2> QED  BY <2>1 DEF TestData
<1> HIDE DEF w
<1>3. GoodTable(w)
  BY <1>1 DEF SoundTable, GoodTable, BucketsLaidOut, UniqueKeys
<1> QED  BY <1>1, <1>2, <1>3 DEF w, SoundTable, NoneAfter

LEMMA ParseSound ==
  ASSUME NEW t, SoundTable(t), NEW now \in Nat
  PROVE  SoundTable(Parse(t, now)) /\ Parse(t, now).timestamp \in Nat
<1>1. t.timestamp \in Nat  BY DEF SoundTable, GoodTable, Table
<1>2. MaxOf(now, t.timestamp) \in Nat /\ t.timestamp <= MaxOf(now, t.timestamp)
  BY <1>1 DEF MaxOf
<1> QED  BY <1>2, SetTimestamp DEF Parse

LEMMA NoneAfterLater ==
  ASSUME NEW t, GoodTable(t), NEW a \in Nat, NEW b \in Nat, a <= b, NoneAfter(t, a)
  PROVE  NoneAfter(t, b)
<1> SUFFICES ASSUME NEW i \in DOMAIN t.testdata
             PROVE  t.testdata[i].last_timestamp <= b
  BY DEF NoneAfter
<1>1. t.testdata[i].last_timestamp <= a /\ t.testdata[i] \in TestData
  BY ElementOfSeq DEF GoodTable, NoneAfter, Table
<1> QED  BY <1>1 DEF TestData

-----------------------------------------------------------------------------
THEOREM InitIInv == Init => IInv
<1> SUFFICES ASSUME Init PROVE IInv  OBVIOUS
<1>1. SoundTable(NoTable) /\ NoneAfter(NoTable, NoTable.timestamp) /\ GoodTable(NoTable)
  BY NoTableSound DEF SoundTable
<1>2. NoSession \in Session
  BY ConstantsAssumption DEF NoSession, Session
<1>3. <<>> \in Seq(Table) /\ DOMAIN <<>> = {}  BY EmptySeq
<1>4. phase = "none" /\ writer = NoTable /\ source = NoTable /\ session = NoSession
      /\ next = 1 /\ files = <<>>
  BY DEF Init
<1> QED
  BY <1>1, <1>2, <1>3, <1>4, IInvIsSound DEF StateSound, Phases

\* Facts about the constants and the parameters of Next.
LEMMA NoSessionType == NoSession \in Session
  BY ConstantsAssumption DEF NoSession, Session

LEMMA NewIInv ==
  ASSUME IInv, NEW num_days \in Windows, New(num_days)
  PROVE  IInv'
<1>1. StateSound(phase, writer, session, source, next, files)  BY IInvIsSound
<1>2. num_days \in Nat \ {0}  BY ConstantsAssumption
<1>3. SoundTable(writer') /\ writer'.timestamp \in Nat
  BY <1>2, NewTableSound DEF New, SoundTable, GoodTable, Table
<1>4. source = NoTable /\ NoneAfter(source, writer'.timestamp)
  BY <1>1, <1>3, NoTableSound DEF StateSound, New
<1> QED  BY <1>1, <1>3, <1>4, IInvIsSound DEF New, StateSound, Phases

LEMMA OpenIInv ==
  ASSUME IInv, NEW f \in DOMAIN files, NEW now \in ClockTimes, Open(f, now)
  PROVE  IInv'
<1>1. StateSound(phase, writer, session, source, next, files)  BY IInvIsSound
<1>2. now \in Nat /\ SoundTable(files[f])  BY <1>1, ConstantsAssumption DEF StateSound
<1>3. SoundTable(writer') /\ writer'.timestamp \in Nat
  BY <1>2, ParseSound DEF Open
<1>4. source = NoTable /\ NoneAfter(source, writer'.timestamp)
  BY <1>1, <1>3, NoTableSound DEF StateSound, Open
<1> QED  BY <1>1, <1>3, <1>4, IInvIsSound DEF Open, StateSound, Phases

LEMMA SerializeIInv ==
  ASSUME IInv, Serialize
  PROVE  IInv'
<1>1. StateSound(phase, writer, session, source, next, files)  BY IInvIsSound
<1>2. writer \in Table  BY <1>1 DEF StateSound, SoundTable, GoodTable
<1>3. /\ files' \in Seq(Table)
      /\ Len(files') = Len(files) + 1 /\ Len(files) \in Nat
      /\ \A f \in 1 .. Len(files) : files'[f] = files[f]
      /\ files'[Len(files) + 1] = writer
  BY <1>1, <1>2, AppendProperties DEF Serialize, StateSound
<1>4. \A f \in DOMAIN files' : SoundTable(files'[f])
  <2> SUFFICES ASSUME NEW f \in 1 .. Len(files) + 1 PROVE SoundTable(files'[f])
    BY <1>3
  <2>1. CASE f = Len(files) + 1  BY <2>1, <1>1, <1>3 DEF StateSound
  <2>2. CASE f # Len(files) + 1
    <3>1. f \in DOMAIN files  BY <2>2, <1>1, <1>3 DEF StateSound
    <3> QED  BY <3>1, <1>1, <1>3 DEF StateSound
  <2> QED  BY <2>1, <2>2
<1>5. writer' = NoTable /\ SoundTable(NoTable) /\ NoTable.timestamp \in Nat
  BY NoTableSound DEF Serialize, SoundTable, GoodTable, Table
<1>6. source' = NoTable /\ GoodTable(source') /\ NoneAfter(source', writer'.timestamp)
  BY <1>1, <1>5, NoTableSound DEF StateSound, Serialize, Ready, SoundTable
<1> QED
  BY <1>1, <1>3, <1>4, <1>5, <1>6, NoSessionType, IInvIsSound DEF Serialize, StateSound, Phases

LEMMA StartSessionIInv ==
  ASSUME IInv, NEW timestamp \in Times, NEW commit \in Commits, NEW flags \in FlagSets,
         StartSession(timestamp, commit, flags)
  PROVE  IInv'
<1>1. StateSound(phase, writer, session, source, next, files)  BY IInvIsSound
<1>2. timestamp \in Nat /\ writer.timestamp \in Nat
  BY <1>1, ConstantsAssumption DEF StateSound, SoundTable, GoodTable, Table
<1> DEFINE now == MaxOf(writer.timestamp, timestamp)
<1>3. now \in Nat /\ writer.timestamp <= now /\ timestamp <= now  BY <1>2 DEF MaxOf
<1>4. SoundTable(writer') /\ writer'.timestamp = now
  BY <1>1, <1>3, SetTimestamp DEF StartSession, StateSound
<1>5. session' \in Session /\ session'.timestamp = timestamp
  BY <1>2 DEF StartSession, Session
<1>6. source = NoTable /\ NoneAfter(source, writer'.timestamp)
  BY <1>1, <1>3, <1>4, NoTableSound DEF StateSound, StartSession, Ready
<1> QED
  BY <1>1, <1>3, <1>4, <1>5, <1>6, IInvIsSound DEF StartSession, StateSound, Phases

-----------------------------------------------------------------------------
(* The four outcomes of insert. *)

InsertStep == /\ phase = "session"
              /\ UNCHANGED <<phase, session, source, next, files>>

\* What all of them need: the writer stays sound and keeps its timestamp.
LEMMA InsertKeepsIInv ==
  ASSUME IInv, InsertStep, SoundTable(writer'), writer'.timestamp = writer.timestamp
  PROVE  IInv'
  BY IInvIsSound DEF InsertStep, StateSound

\* The writer with the record of the run put in, before the run is counted.
LEMMA InsertTarget ==
  ASSUME IInv, phase = "session", NEW test \in Tests
  PROVE  LET w == InsertFull(writer, SessionKey(test))
             i == IndexOf(w, SessionKey(test))
         IN /\ GoodTable(w) /\ NoneAfter(w, w.timestamp)
            /\ w.num_days = writer.num_days /\ w.timestamp = writer.timestamp
            /\ w.num_days \in Nat \ {0} /\ w.timestamp \in Nat
            /\ i \in DOMAIN w.tests
            /\ session \in Session /\ session.timestamp \in Nat
            /\ Known(test) => /\ i = KnownIndex(test)
                              /\ KnownLatest(test) \in Nat
            /\ ~ Known(test) => i = Len(writer.tests) + 1
<1>1. StateSound(phase, writer, session, source, next, files)  BY IInvIsSound
<1>2. /\ GoodTable(writer) /\ NoneAfter(writer, writer.timestamp)
      /\ writer.num_days \in Nat \ {0} /\ writer.timestamp \in Nat
      /\ session \in Session
  BY <1>1 DEF StateSound, SoundTable, GoodTable, Table
<1>3. SessionKey(test) \in Keys /\ session.timestamp \in Nat
  BY <1>2 DEF SessionKey, Keys, Session
<1> DEFINE w == InsertFull(writer, SessionKey(test))
           i == IndexOf(w, SessionKey(test))
<1>4. /\ GoodTable(w)
      /\ w.num_days = writer.num_days /\ w.timestamp = writer.timestamp
      /\ i \in DOMAIN w.tests
      /\ SessionKey(test) \in KeysOf(writer) => i = IndexOf(writer, SessionKey(test))
      /\ SessionKey(test) \notin KeysOf(writer) => i = Len(writer.tests) + 1
      /\ NoneAfter(w, writer.timestamp)
  BY <1>2, <1>3, InsertFullProperties
<1> HIDE DEF w
<1>5. Known(test) => KnownLatest(test) \in Nat
  BY <1>2, IndexOfKnown, RecordInData DEF Known, KnownLatest, KnownIndex
<1> QED  BY <1>2, <1>3, <1>4, <1>5 DEF w, Known, KnownIndex

LEMMA InsertNewIInv ==
  ASSUME IInv, NEW test \in Tests, NEW outcome \in Outcomes, InsertNew(test, outcome)
  PROVE  IInv'
<1> DEFINE w == InsertFull(writer, SessionKey(test))
           i == Len(writer.tests) + 1
<1>1. /\ GoodTable(w) /\ NoneAfter(w, w.timestamp) /\ w.num_days \in Nat \ {0}
      /\ w.timestamp = writer.timestamp /\ i \in DOMAIN w.tests /\ session \in Session
  BY InsertTarget DEF InsertNew
<1>2. writer' = InsertInto(w, i, 0, session, outcome)  BY DEF InsertNew
<1> HIDE DEF w, i
<1>3. 0 \in 0 .. w.num_days - 1  BY <1>1
<1>4. SameShape(writer', w) /\ NoneAfter(writer', w.timestamp)
  BY <1>1, <1>2, <1>3, InsertIntoProperties
<1> QED  BY <1>1, <1>4, InsertKeepsIInv DEF InsertNew, InsertStep, SameShape, SoundTable

LEMMA InsertNewerIInv ==
  ASSUME IInv, NEW test \in Tests, NEW outcome \in Outcomes, InsertNewer(test, outcome)
  PROVE  IInv'
<1> DEFINE w == InsertFull(writer, SessionKey(test))
           i == KnownIndex(test)
           off == OffsetFromToday(KnownLatest(test), session.timestamp)
           shifted == ShiftRecord(w, i, off)
<1>1. /\ GoodTable(w) /\ NoneAfter(w, w.timestamp) /\ w.num_days \in Nat \ {0}
      /\ w.timestamp = writer.timestamp /\ w.timestamp \in Nat
      /\ i \in DOMAIN w.tests /\ session \in Session /\ session.timestamp \in Nat
      /\ KnownLatest(test) \in Nat
  BY InsertTarget DEF InsertNewer
<1>2. off \in Nat  BY <1>1, OffsetIsNatural DEF InsertNewer
<1>3. writer' = InsertInto(shifted, i, 0, session, outcome)  BY DEF InsertNewer
<1> HIDE DEF w, i, off
<1>4. SameShape(shifted, w) /\ NoneAfter(shifted, w.timestamp)
  BY <1>1, <1>2, ShiftRecordProperties
<1> HIDE DEF shifted
<1>5. /\ GoodTable(shifted) /\ NoneAfter(shifted, shifted.timestamp)
      /\ i \in DOMAIN shifted.tests /\ 0 \in 0 .. shifted.num_days - 1
      /\ shifted.timestamp = writer.timestamp
  BY <1>1, <1>4 DEF SameShape
<1>6. SameShape(writer', shifted) /\ NoneAfter(writer', shifted.timestamp)
  BY <1>1, <1>3, <1>5, InsertIntoProperties
<1> QED  BY <1>5, <1>6, InsertKeepsIInv DEF InsertNewer, InsertStep, SameShape, SoundTable

LEMMA InsertHistoricIInv ==
  ASSUME IInv, NEW test \in Tests, NEW outcome \in Outcomes, InsertHistoric(test, outcome)
  PROVE  IInv'
<1> DEFINE w == InsertFull(writer, SessionKey(test))
           i == KnownIndex(test)
           off == HistoricOffset(test)
           v == MaxOf(w.tests[i].valid_data, 1 + off)
           valid == [w EXCEPT !.tests[i].valid_data = v]
<1>1. /\ GoodTable(w) /\ NoneAfter(w, w.timestamp) /\ w.num_days = writer.num_days
      /\ w.timestamp = writer.timestamp /\ w.num_days \in Nat \ {0}
      /\ i \in DOMAIN w.tests /\ session \in Session /\ session.timestamp \in Nat
      /\ KnownLatest(test) \in Nat
  BY InsertTarget DEF InsertHistoric, Historic
<1>2. off \in Nat /\ off < writer.num_days
  BY <1>1, OffsetIsNatural DEF InsertHistoric, Historic, HistoricOffset
<1>3. off \in 0 .. w.num_days - 1  BY <1>1, <1>2
<1>4. writer' = InsertInto(valid, i, off, session, outcome)
  BY DEF InsertHistoric, HistoricValidData
<1> HIDE DEF w, i, off
<1>5. v \in Nat
  <2>1. w.tests[i] \in Test  BY <1>1, ElementOfSeq DEF GoodTable, Table
  <2> QED  BY <2>1, <1>2 DEF MaxOf, Test
<1> HIDE DEF v
<1>6. SameShape(valid, w) /\ valid.testdata = w.testdata
  BY <1>1, <1>5, SetValidData
<1> HIDE DEF valid
<1>7. /\ GoodTable(valid) /\ NoneAfter(valid, valid.timestamp)
      /\ i \in DOMAIN valid.tests /\ off \in 0 .. valid.num_days - 1
      /\ valid.timestamp = writer.timestamp
  BY <1>1, <1>3, <1>6 DEF SameShape, NoneAfter
<1>8. SameShape(writer', valid) /\ NoneAfter(writer', valid.timestamp)
  BY <1>1, <1>4, <1>7, InsertIntoProperties
<1> QED
  BY <1>7, <1>8, InsertKeepsIInv DEF InsertHistoric, Historic, InsertStep, SameShape, SoundTable

LEMMA InsertExpiredIInv ==
  ASSUME IInv, NEW test \in Tests, InsertExpired(test)
  PROVE  IInv'
<1>1. SoundTable(writer') /\ writer'.timestamp = writer.timestamp
  BY InsertTarget DEF InsertExpired, Historic, SoundTable
<1> QED  BY <1>1, InsertKeepsIInv DEF InsertExpired, Historic, InsertStep

-----------------------------------------------------------------------------
(* merge *)

LEMMA LargerOrSmaller ==
  ASSUME NEW a, NEW b
  PROVE  Larger(a, b) \in {a, b} /\ Smaller(a, b) \in {a, b}
  BY DEF Larger, Smaller

LEMMA MergeBeginIInv ==
  ASSUME IInv, NEW f \in DOMAIN files, NEW g \in DOMAIN files, NEW now \in ClockTimes,
         MergeBegin(Parse(files[f], now), Parse(files[g], now))
  PROVE  IInv'
<1> DEFINE a == Parse(files[f], now)
           b == Parse(files[g], now)
           latest == MaxOf(a.timestamp, b.timestamp)
<1>1. StateSound(phase, writer, session, source, next, files)  BY IInvIsSound
<1>2. now \in Nat  BY ConstantsAssumption
<1>3. SoundTable(a) /\ SoundTable(b) /\ a.timestamp \in Nat /\ b.timestamp \in Nat
  BY <1>1, <1>2, ParseSound DEF StateSound
<1>4. /\ writer' = [Larger(a, b) EXCEPT !.timestamp = latest]
      /\ source' = Smaller(a, b)
  BY DEF MergeBegin
<1> HIDE DEF a, b
<1>5. latest \in Nat /\ a.timestamp <= latest /\ b.timestamp <= latest
  BY <1>3 DEF MaxOf
<1> HIDE DEF latest
<1>6. /\ SoundTable(Larger(a, b)) /\ Larger(a, b).timestamp <= latest
      /\ SoundTable(Smaller(a, b)) /\ Smaller(a, b).timestamp <= latest
      /\ Smaller(a, b).timestamp \in Nat
  BY <1>3, <1>5, LargerOrSmaller
<1>7. SoundTable(writer') /\ writer'.timestamp = latest
  BY <1>4, <1>5, <1>6, SetTimestamp
<1>8. GoodTable(source') /\ NoneAfter(source', writer'.timestamp)
  BY <1>4, <1>5, <1>6, <1>7, NoneAfterLater DEF SoundTable
<1> QED  BY <1>1, <1>7, <1>8, IInvIsSound DEF MergeBegin, StateSound, Phases

LEMMA MergeRecordIInv ==
  ASSUME IInv, MergeRecord
  PROVE  IInv'
<1>1. StateSound(phase, writer, session, source, next, files)  BY IInvIsSound
<1>2. next \in DOMAIN source.tests
  BY <1>1 DEF StateSound, GoodTable, Table, MergeRecord
<1>3. MergePre  BY <1>1, <1>2 DEF MergePre, StateSound, SoundTable
<1>4. SameShape(writer', MergeTarget) /\ NoneAfter(writer', writer.timestamp)
  BY <1>3, MergedRecord DEF MergeRecord
<1>5. SoundTable(writer') /\ writer'.timestamp = writer.timestamp
  BY <1>3, <1>4, MergeRanges DEF SameShape, SoundTable
<1> QED  BY <1>1, <1>5, IInvIsSound DEF MergeRecord, StateSound

LEMMA MergePanicsIInv ==
  ASSUME IInv, MergePanics
  PROVE  IInv'
  BY IInvIsSound DEF MergePanics, StateSound, Phases

\* The steps that drop source, and leave writer alone or drop it too.
LEMMA SourceDropped ==
  ASSUME IInv, phase' \in {"none", "idle"}, writer' \in {writer, NoTable},
         source' = NoTable, next' = 1, UNCHANGED <<session, files>>
  PROVE  IInv'
<1>1. StateSound(phase, writer, session, source, next, files)  BY IInvIsSound
<1>2. SoundTable(writer') /\ writer'.timestamp \in Nat
  BY <1>1, NoTableSound DEF StateSound, SoundTable, GoodTable, Table
<1>3. GoodTable(source') /\ NoneAfter(source', writer'.timestamp)
  BY <1>2, NoTableSound DEF SoundTable
<1> QED  BY <1>1, <1>2, <1>3, IInvIsSound DEF StateSound, Phases

LEMMA UnwindIInv == ASSUME IInv, Unwind PROVE IInv'
  BY SourceDropped DEF Unwind

LEMMA MergeEndIInv == ASSUME IInv, MergeEnd PROVE IInv'
  BY SourceDropped DEF MergeEnd

-----------------------------------------------------------------------------
(* rewrite *)

LEMMA RewriteNow ==
  ASSUME IInv, NEW timestamp \in ClockTimes
  PROVE  LET now == MaxOf(writer.timestamp, timestamp)
             w == [writer EXCEPT !.timestamp = now]
         IN /\ now \in Nat /\ SoundTable(w) /\ w.timestamp = now
            /\ GoodTable(w) /\ NoneAfter(w, now)
<1> DEFINE now == MaxOf(writer.timestamp, timestamp)
           w == [writer EXCEPT !.timestamp = now]
<1>1. StateSound(phase, writer, session, source, next, files)  BY IInvIsSound
<1>2. SoundTable(writer) /\ writer.timestamp \in Nat
  BY <1>1 DEF StateSound, SoundTable, GoodTable, Table
<1>3. now \in Nat /\ writer.timestamp <= now
  BY <1>2, ConstantsAssumption DEF MaxOf
<1> HIDE DEF now
<1>4. SoundTable(w) /\ w.timestamp = now  BY <1>2, <1>3, SetTimestamp
<1> QED  BY <1>3, <1>4 DEF SoundTable, now

LEMMA RewriteSkipIInv ==
  ASSUME IInv, NEW num_days \in Windows, NEW timestamp \in ClockTimes, NEW threshold,
         RewriteSkip(num_days, timestamp, threshold)
  PROVE  IInv'
<1>1. StateSound(phase, writer, session, source, next, files)  BY IInvIsSound
<1>2. SoundTable(writer') /\ writer'.timestamp \in Nat
  BY RewriteNow DEF RewriteSkip
<1>3. source' = NoTable /\ GoodTable(source') /\ NoneAfter(source', writer'.timestamp)
  BY <1>1, <1>2, NoTableSound DEF StateSound, RewriteSkip, Ready, SoundTable
<1> QED
  BY <1>1, <1>2, <1>3, NoSessionType, IInvIsSound DEF RewriteSkip, StateSound, Phases

LEMMA RewriteBeginIInv ==
  ASSUME IInv, NEW num_days \in Windows, NEW timestamp \in ClockTimes, NEW threshold,
         RewriteBegin(num_days, timestamp, threshold)
  PROVE  IInv'
<1> DEFINE now == MaxOf(writer.timestamp, timestamp)
           fresh == NewTable(num_days)
<1>1. StateSound(phase, writer, session, source, next, files)  BY IInvIsSound
<1>2. /\ now \in Nat /\ GoodTable(source') /\ NoneAfter(source', now)
  BY RewriteNow DEF RewriteBegin
<1>3. writer' = [fresh EXCEPT !.timestamp = now]  BY DEF RewriteBegin
<1> HIDE DEF now
<1>4. SoundTable(fresh) /\ fresh.timestamp = 0 /\ fresh.tests = <<>>
  BY ConstantsAssumption, NewTableSound DEF NewTable
<1> HIDE DEF fresh
<1>5. SoundTable(writer') /\ writer'.timestamp = now /\ writer'.tests = <<>>
  BY <1>2, <1>3, <1>4, SetTimestamp
<1>6. KeysOf(writer') = {}  BY <1>5, EmptySeq DEF KeysOf
<1> QED
  BY <1>1, <1>2, <1>5, <1>6, NoSessionType, IInvIsSound, SMTT(30)
  DEF RewriteBegin, StateSound, Phases

LEMMA RewriteDeadIInv ==
  ASSUME IInv, RewriteDead
  PROVE  IInv'
<1>1. StateSound(phase, writer, session, source, next, files)  BY IInvIsSound
<1>2. next + 1 \in Nat \ {0} /\ next + 1 .. Len(source.tests) \subseteq next .. Len(source.tests)
  BY <1>1 DEF StateSound, GoodTable, Table
<1> QED  BY <1>1, <1>2, IInvIsSound DEF RewriteDead, StateSound

\* The record that is inserted is no later record of source, because the keys
\* of source are unique.
LEMMA RewriteLiveIInv ==
  ASSUME IInv, RewriteLive
  PROVE  IInv'
<1>1. StateSound(phase, writer, session, source, next, files)  BY IInvIsSound
<1>2. /\ phase = "rewrite" /\ next \in 1 .. Len(source.tests)
      /\ DOMAIN source.tests = 1 .. Len(source.tests) /\ Len(source.tests) \in Nat
      /\ next' = next + 1
  BY <1>1 DEF StateSound, GoodTable, Table, RewriteLive
<1>3. \A i \in next .. Len(source.tests) : source.tests[i].key \notin KeysOf(writer)
  BY <1>1, <1>2 DEF StateSound
<1>4. /\ GoodTable(writer') /\ NoneAfter(writer', writer.timestamp)
      /\ writer'.timestamp = writer.timestamp
      /\ KeysOf(writer') = KeysOf(writer) \cup {source.tests[next].key}
  BY <1>1, <1>2, <1>3, RewrittenRecord DEF StateSound, SoundTable
<1>5. ASSUME NEW i \in next + 1 .. Len(source.tests)
      PROVE  source.tests[i].key \notin KeysOf(writer')
  <2>1. i \in next .. Len(source.tests) /\ i \in 1 .. Len(source.tests) /\ i # next
    BY <1>2
  <2>2. source.tests[i].key # source.tests[next].key
    BY <1>1, <1>2, <2>1 DEF StateSound, GoodTable, UniqueKeys
  <2> QED  BY <1>3, <1>4, <2>1, <2>2
<1> QED
  BY <1>1, <1>2, <1>4, <1>5, IInvIsSound DEF RewriteLive, StateSound, SoundTable

LEMMA RewriteEndIInv == ASSUME IInv, RewriteEnd PROVE IInv'
  BY SourceDropped DEF RewriteEnd

-----------------------------------------------------------------------------
(* Every step keeps the invariant. *)
THEOREM NextIInv == IInv /\ [Next]_vars => IInv'
<1> SUFFICES ASSUME IInv, [Next]_vars PROVE IInv'  OBVIOUS
<1>1. ASSUME NEW num_days \in Windows, New(num_days) PROVE IInv'
  BY <1>1, NewIInv
<1>2. ASSUME NEW f \in DOMAIN files, NEW now \in ClockTimes, Open(f, now) PROVE IInv'
  BY <1>2, OpenIInv
<1>3. CASE Serialize  BY <1>3, SerializeIInv
<1>4. ASSUME NEW timestamp \in Times, NEW commit \in Commits, NEW flags \in FlagSets,
             StartSession(timestamp, commit, flags)
      PROVE  IInv'
  BY <1>4, StartSessionIInv
<1>5. ASSUME NEW test \in Tests, NEW outcome \in Outcomes,
             \/ InsertNew(test, outcome)
             \/ InsertNewer(test, outcome)
             \/ InsertHistoric(test, outcome)
      PROVE  IInv'
  BY <1>5, InsertNewIInv, InsertNewerIInv, InsertHistoricIInv
<1>6. ASSUME NEW test \in Tests, InsertExpired(test) PROVE IInv'
  BY <1>6, InsertExpiredIInv
<1>7. ASSUME NEW f \in DOMAIN files, NEW g \in DOMAIN files, NEW now \in ClockTimes,
             MergeBegin(Parse(files[f], now), Parse(files[g], now))
      PROVE  IInv'
  BY <1>7, MergeBeginIInv
<1>8. CASE MergeRecord  BY <1>8, MergeRecordIInv
<1>9. CASE MergePanics  BY <1>9, MergePanicsIInv
<1>10. CASE MergeEnd  BY <1>10, MergeEndIInv
<1>11. CASE Unwind  BY <1>11, UnwindIInv
<1>12. ASSUME NEW num_days \in Windows, NEW timestamp \in ClockTimes,
              NEW threshold \in Thresholds \cup {DefaultThreshold},
              \/ RewriteSkip(num_days, timestamp, threshold)
              \/ RewriteBegin(num_days, timestamp, threshold)
       PROVE  IInv'
  BY <1>12, RewriteSkipIInv, RewriteBeginIInv
<1>13. CASE RewriteDead  BY <1>13, RewriteDeadIInv
<1>14. CASE RewriteLive  BY <1>14, RewriteLiveIInv
<1>15. CASE RewriteEnd  BY <1>15, RewriteEndIInv
<1>16. CASE UNCHANGED vars  BY <1>16, IInvIsSound DEF vars
<1> QED
  BY <1>1, <1>2, <1>3, <1>4, <1>5, <1>6, <1>7, <1>8, <1>9, <1>10, <1>11, <1>12, <1>13,
     <1>14, <1>15, <1>16 DEF Next

\* The inductive invariant holds in every reachable state, whatever the
\* constants are.
THEOREM Invariant == Spec => []IInv
  BY InitIInv, NextIInv, PTL DEF Spec

\* The variables always have their types.
THEOREM Types == Spec => []TypeOK
  BY Invariant, PTL DEF IInv

\* Every table always has exactly num_days buckets for each record, through
\* insert, merge, rewrite, serialize and parse.
THEOREM LayoutKept == Spec => []Layout
  BY Invariant, PTL DEF IInv

\* No table ever has two records of the same test and flags.
THEOREM KeysStayUnique == Spec => []KeysUnique
  BY Invariant, PTL DEF IInv

\* No bucket is ever newer than the timestamp that offset_from_today subtracts
\* it from.
THEOREM NoClockUnderflow == Spec => []ClockBound
  BY Invariant, PTL DEF IInv

\* The assertion in the loop of rewrite never fails.
THEOREM AssertionHolds == Spec => []RewriteNeverReplaces
  BY Invariant, PTL DEF IInv

-----------------------------------------------------------------------------
(* RecordsApart: which steps change which records.                          *)

\* w is t with records added at its end, and record i changed at most.  The
\* other records keep their valid_data and their part of the flat testdata.
OnlyRecord(w, t, i) ==
  /\ w.num_days = t.num_days
  /\ Len(w.tests) >= Len(t.tests)
  /\ \A j \in DOMAIN t.tests : w.tests[j].key = t.tests[j].key
  /\ \A j \in DOMAIN t.tests \ {i} :
       /\ w.tests[j] = t.tests[j]
       /\ \A b \in Indices(RecordRange(t, j)) : w.testdata[b] = t.testdata[b]

LEMMA OneMoreRecord ==
  ASSUME NEW n \in Nat, NEW d \in Nat
  PROVE  (n + 1) * d = n * d + d
  BY SMT

LEMMA OnlyRecordTransitive ==
  ASSUME NEW t, GoodTable(t), NEW w, GoodTable(w), NEW u, GoodTable(u), NEW i,
         OnlyRecord(w, t, i), OnlyRecord(u, w, i)
  PROVE  OnlyRecord(u, t, i)
<1>1. /\ DOMAIN t.tests = 1 .. Len(t.tests) /\ Len(t.tests) \in Nat
      /\ DOMAIN w.tests = 1 .. Len(w.tests) /\ Len(w.tests) \in Nat
      /\ Len(u.tests) \in Nat
  BY DEF GoodTable, Table
<1>2. DOMAIN t.tests \subseteq DOMAIN w.tests  BY <1>1 DEF OnlyRecord
<1>3. \A j : RecordRange(w, j) = RecordRange(t, j)  BY DEF OnlyRecord, RecordRange
<1> QED  BY <1>1, <1>2, <1>3 DEF OnlyRecord

LEMMA OnlyRecordReflexive ==
  ASSUME NEW t, GoodTable(t), NEW i
  PROVE  OnlyRecord(t, t, i)
  BY DEF GoodTable, Table, OnlyRecord

LEMMA SetValidDataOnly ==
  ASSUME NEW t, GoodTable(t), NEW i \in DOMAIN t.tests, NEW v \in Nat
  PROVE  OnlyRecord([t EXCEPT !.tests[i].valid_data = v], t, i)
<1> DEFINE w == [t EXCEPT !.tests[i].valid_data = v]
<1>1. SameShape(w, t) /\ w.testdata = t.testdata  BY SetValidData
<1>2. /\ t \in Table /\ t.tests \in Seq(Test) /\ DOMAIN t.tests = 1 .. Len(t.tests)
      /\ Len(t.tests) \in Nat
  BY DEF GoodTable, Table
<1>3. \A j \in DOMAIN t.tests \ {i} : w.tests[j] = t.tests[j]
  BY <1>2 DEF Table
<1> HIDE DEF w
<1>4. w.num_days = t.num_days /\ DOMAIN w.tests = DOMAIN t.tests
      /\ \A j \in DOMAIN t.tests : w.tests[j].key = t.tests[j].key
  BY <1>1 DEF SameShape
<1>5. Len(w.tests) = Len(t.tests)
  BY <1>1, <1>2, <1>4 DEF SameShape, GoodTable, Table
<1> QED  BY <1>1, <1>2, <1>3, <1>4, <1>5 DEF OnlyRecord, w

LEMMA SetTestdataOnly ==
  ASSUME NEW t, GoodTable(t), NEW i \in DOMAIN t.tests,
         NEW data \in Seq(TestData), Len(data) = Len(t.testdata),
         \A b \in DOMAIN t.testdata : b \notin Indices(RecordRange(t, i)) => data[b] = t.testdata[b]
  PROVE  OnlyRecord([t EXCEPT !.testdata = data], t, i)
<1> DEFINE w == [t EXCEPT !.testdata = data]
<1>1. SameShape(w, t) /\ w.testdata = data /\ w.tests = t.tests  BY SetTestdata
<1>2. Len(t.tests) \in Nat /\ Len(t.testdata) \in Nat
      /\ DOMAIN t.testdata = 1 .. Len(t.testdata)
  BY DEF GoodTable, Table
<1>3. ASSUME NEW j \in DOMAIN t.tests \ {i}, NEW b \in Indices(RecordRange(t, j))
      PROVE  data[b] = t.testdata[b]
  <2>1. b \notin Indices(RecordRange(t, i))  BY RecordsApartInData
  <2>2. /\ RecordRange(t, j).start \in Nat
        /\ RecordRange(t, j).end = RecordRange(t, j).start + t.num_days
        /\ RecordRange(t, j).end <= Len(t.testdata)
        /\ t.num_days \in Nat
    BY RecordInData DEF GoodTable, Table
  <2>3. b \in DOMAIN t.testdata  BY <1>2, <2>2 DEF Indices
  <2> QED  BY <2>1, <2>3
<1> HIDE DEF w
<1> QED  BY <1>1, <1>2, <1>3 DEF OnlyRecord, SameShape, w

LEMMA InsertFullOnly ==
  ASSUME NEW t, GoodTable(t), NEW key \in Keys
  PROVE  LET w == InsertFull(t, key) IN OnlyRecord(w, t, IndexOf(w, key))
<1> DEFINE w == InsertFull(t, key)
           i == IndexOf(w, key)
           record == [key |-> key, valid_data |-> 1]
<1>1. /\ t \in Table /\ t.tests \in Seq(Test) /\ DOMAIN t.tests = 1 .. Len(t.tests)
      /\ Len(t.tests) \in Nat /\ t.testdata \in Seq(TestData) /\ t.num_days \in Nat \ {0}
      /\ Len(t.testdata) \in Nat
  BY DEF GoodTable, Table
<1>2. record \in Test  BY DEF Test
<1>3. CASE key \in KeysOf(t)
  <2>1. /\ w.num_days = t.num_days /\ w.testdata = t.testdata
        /\ Len(w.tests) = Len(t.tests)
        /\ \A j \in DOMAIN t.tests : w.tests[j].key = t.tests[j].key
        /\ i = IndexOf(t, key)
    BY <1>3, ReplacedRecord
  <2>2. IndexOf(t, key) \in 1 .. Len(t.tests)  BY <1>1, <1>3, IndexOfKnown
  <2>3. w.tests = [t.tests EXCEPT ![IndexOf(t, key)] = record]
    BY <1>1, <1>3 DEF InsertFull, Table
  <2> HIDE DEF w, i
  <2>4. \A j \in DOMAIN t.tests \ {i} : w.tests[j] = t.tests[j]
    BY <1>1, <1>2, <2>1, <2>2, <2>3, ExceptSeq
  <2> QED  BY <1>1, <2>1, <2>4 DEF OnlyRecord, w, i
<1>4. CASE key \notin KeysOf(t)
  <2> DEFINE len == (Len(t.tests) + 1) * t.num_days
  <2>1. /\ w.num_days = t.num_days
        /\ w.tests = Append(t.tests, record)
        /\ w.testdata = Resize(t.testdata, len)
    BY <1>1, <1>4 DEF InsertFull, Table
  <2>2. len \in Nat /\ Len(t.testdata) <= len
    <3>1. len = Len(t.tests) * t.num_days + t.num_days  BY <1>1, OneMoreRecord
    <3>2. Len(t.testdata) = Len(t.tests) * t.num_days  BY DEF GoodTable, BucketsLaidOut
    <3> QED  BY <1>1, <3>1, <3>2
  <2> HIDE DEF w, len
  <2>3. /\ Len(w.tests) = Len(t.tests) + 1
        /\ \A j \in 1 .. Len(t.tests) : w.tests[j] = t.tests[j]
    BY <1>1, <1>2, <2>1, AppendProperties
  <2>4. \A b \in 1 .. Len(t.testdata) : w.testdata[b] = t.testdata[b]
    <3>1. \A b \in 1 .. len :
            Resize(t.testdata, len)[b] = IF b <= Len(t.testdata) THEN t.testdata[b] ELSE NoData
      BY <1>1, <2>2, ResizeProperties
    <3> QED  BY <1>1, <2>1, <2>2, <3>1
  <2>5. ASSUME NEW j \in DOMAIN t.tests, NEW b \in Indices(RecordRange(t, j))
        PROVE  b \in 1 .. Len(t.testdata)
    <3>1. /\ RecordRange(t, j).start \in Nat
          /\ RecordRange(t, j).end = RecordRange(t, j).start + t.num_days
          /\ RecordRange(t, j).end <= Len(t.testdata)
      BY RecordInData
    <3> QED  BY <1>1, <3>1 DEF Indices
  <2> QED  BY <1>1, <2>1, <2>3, <2>4, <2>5 DEF OnlyRecord, w
<1> QED  BY <1>3, <1>4

LEMMA ShiftRecordOnly ==
  ASSUME NEW t, GoodTable(t), NEW i \in DOMAIN t.tests, NEW off \in Nat
  PROVE  OnlyRecord(ShiftRecord(t, i, off), t, i)
<1> DEFINE r == RecordRange(t, i)
           data == ShiftData(t.testdata, r, off, NoData)
           v == ExtendValidData(t.tests[i].valid_data, off, t.num_days)
           u == [t EXCEPT !.testdata = data]
           w == [u EXCEPT !.tests[i].valid_data = v]
<1>1. /\ t \in Table /\ t.tests \in Seq(Test) /\ i \in 1 .. Len(t.tests)
      /\ t.testdata \in Seq(TestData) /\ t.num_days \in Nat \ {0}
      /\ DOMAIN t.testdata = 1 .. Len(t.testdata)
  BY DEF GoodTable, Table
<1>2. r \in [start : Nat, end : Nat] /\ r.end <= Len(t.testdata)
  BY <1>1, RecordInData DEF RecordRange
<1>3. /\ data \in Seq(TestData) /\ Len(data) = Len(t.testdata)
      /\ \A b \in 1 .. Len(t.testdata) : b \notin Indices(r) => data[b] = t.testdata[b]
  BY <1>1, <1>2, ShiftDataProperties
<1>4. v \in Nat
  <2>1. t.tests[i] \in Test  BY <1>1, ElementOfSeq
  <2> QED  BY <1>1, <2>1 DEF ExtendValidData, MinOf, Test
<1>5. ShiftRecord(t, i, off) = w  BY <1>1 DEF ShiftRecord, Table
<1> HIDE DEF data, v
<1>6. OnlyRecord(u, t, i)  BY <1>1, <1>3, SetTestdataOnly
<1>7. SameShape(u, t)  BY <1>3, SetTestdata
<1> HIDE DEF u
<1>8. GoodTable(u) /\ i \in DOMAIN u.tests  BY <1>7 DEF SameShape
<1>9. OnlyRecord(w, u, i) /\ GoodTable(w)
  BY <1>4, <1>8, SetValidDataOnly, SetValidData DEF SameShape
<1> QED  BY <1>5, <1>6, <1>8, <1>9, OnlyRecordTransitive

LEMMA InsertIntoOnly ==
  ASSUME NEW t, GoodTable(t), NoneAfter(t, t.timestamp),
         NEW i \in DOMAIN t.tests, NEW j \in 0 .. t.num_days - 1,
         NEW s \in Session, NEW outcome \in Outcomes
  PROVE  OnlyRecord(InsertInto(t, i, j, s, outcome), t, i)
<1> DEFINE r == RecordRange(t, i)
           at == r.start + j + 1
           bucket == CountRun(t.testdata[at], t.timestamp, outcome, s.commit)
           data == [t.testdata EXCEPT ![at] = bucket]
<1>1. /\ t \in Table /\ t.testdata \in Seq(TestData) /\ t.num_days \in Nat \ {0}
      /\ t.timestamp \in Nat /\ DOMAIN t.testdata = 1 .. Len(t.testdata)
      /\ Len(t.testdata) \in Nat
  BY DEF GoodTable, Table
<1>2. at \in 1 .. Len(t.testdata) /\ at \in Indices(r)
  <2>1. r.start \in Nat /\ r.end = r.start + t.num_days /\ r.end <= Len(t.testdata)
    BY RecordInData
  <2> HIDE DEF r
  <2>2. at \in 1 .. Len(t.testdata)  BY <1>1, <2>1
  <2>3. at \in Indices(r)  BY <1>1, <2>1 DEF Indices
  <2> QED  BY <2>2, <2>3
<1>3. t.testdata[at] \in TestData  BY <1>1, <1>2, ElementOfSeq
<1>4. bucket \in TestData  BY <1>1, <1>3, CountRunType DEF Session
<1>5. InsertInto(t, i, j, s, outcome) = [t EXCEPT !.testdata = data]
  BY <1>1 DEF InsertInto, Table
<1> HIDE DEF bucket, at, r
<1>6. /\ data \in Seq(TestData) /\ Len(data) = Len(t.testdata)
      /\ \A b \in 1 .. Len(t.testdata) : b # at => data[b] = t.testdata[b]
  BY <1>1, <1>2, <1>4, ExceptSeq
<1> HIDE DEF data
<1>7. \A b \in DOMAIN t.testdata : b \notin Indices(r) => data[b] = t.testdata[b]
  BY <1>1, <1>2, <1>6
<1>8. OnlyRecord([t EXCEPT !.testdata = data], t, i)
  BY <1>6, <1>7, SetTestdataOnly DEF r
<1> QED  BY <1>5, <1>8

-----------------------------------------------------------------------------
(* One record of a merge and of a rewrite. *)

\* What the selection leaves of a record, moved by the offset it was selected
\* with, is inside the record it is merged into.
LEMMA SelectionMovedFits ==
  ASSUME NEW r, IsRange(r), NEW num_days \in Nat, NEW off \in Nat
  PROVE  LET selected == AdjustSelectionRange(r, [start |-> 0, end |-> num_days], off)
         IN selected.end - selected.start > 0 =>
              off + (selected.end - selected.start) <= num_days
  BY DEF IsRange, AdjustSelectionRange, Clamp, SaturatingSub, MaxOf, MinOf

LEMMA MergeToInRecord ==
  ASSUME MergePre
  PROVE  Indices(MergeTo) \subseteq Indices(RecordRange(MergeTarget, MergeIndex))
<1> DEFINE r == RecordRange(source, next)
           size == MergeFrom.end - MergeFrom.start
           start == RecordRange(writer, MergeIndex).start
           moved == IF SmallerIsNewer THEN 0 ELSE MergeOffset
<1>1. /\ MergeTarget.num_days = writer.num_days
      /\ MergeOffset \in Nat /\ IsRange(MergeFrom)
      /\ start \in Nat /\ IsRange(MergeTo)
      /\ GoodTable(MergeTarget) /\ MergeIndex \in DOMAIN MergeTarget.tests
  BY MergeRanges
<1>2. IsRange(r)
  <2>1. source.num_days \in Nat \ {0} /\ Len(source.testdata) \in Nat
    BY DEF MergePre, GoodTable, Table
  <2>2. r.start \in Nat /\ r.end = r.start + source.num_days
    BY RecordInData DEF MergePre
  <2> QED  BY <2>1, <2>2 DEF IsRange, RecordRange
<1>3. writer.num_days \in Nat  BY DEF MergePre, GoodTable, Table
<1> HIDE DEF r
<1>4. size > 0 => MergeOffset + size <= writer.num_days
  BY <1>1, <1>2, <1>3, SelectionMovedFits DEF MergeFrom, r
<1>5. MergeTo.start = start + moved /\ MergeTo.end = start + moved + size
  BY <1>1 DEF MergeTo
<1>6. /\ RecordRange(MergeTarget, MergeIndex).start = start
      /\ RecordRange(MergeTarget, MergeIndex).end = start + writer.num_days
  <2>1. RecordRange(MergeTarget, MergeIndex).start = start  BY <1>1 DEF RecordRange
  <2>2. RecordRange(MergeTarget, MergeIndex).end
          = RecordRange(MergeTarget, MergeIndex).start + MergeTarget.num_days
    BY <1>1, RecordInData
  <2> QED  BY <1>1, <2>1, <2>2
<1>7. size \in Nat /\ moved \in Nat /\ moved <= MergeOffset
  BY <1>1 DEF IsRange
<1> HIDE DEF size, start, moved
<1> QED  BY <1>1, <1>3, <1>4, <1>5, <1>6, <1>7 DEF Indices

LEMMA MergeShiftedOnly ==
  ASSUME MergePre
  PROVE  OnlyRecord(MergeShifted, MergeTarget, MergeIndex)
<1> DEFINE shifted == IF SmallerIsNewer
                      THEN ShiftRecord(MergeTarget, MergeIndex, MergeOffset)
                      ELSE MergeTarget
           covered == MergeTo.end - RecordRange(writer, MergeIndex).start
           v == MinOf(MaxOf(shifted.tests[MergeIndex].valid_data, covered), writer.num_days)
<1>1. writer.num_days \in Nat  BY DEF MergePre, GoodTable, Table
<1>2. GoodTable(MergeTarget) /\ MergeIndex \in DOMAIN MergeTarget.tests /\ MergeOffset \in Nat
  BY MergeRanges
<1>3. SameShape(shifted, MergeTarget) /\ OnlyRecord(shifted, MergeTarget, MergeIndex)
  <2>1. CASE SmallerIsNewer
    BY <2>1, <1>2, ShiftRecordProperties, ShiftRecordOnly
  <2>2. CASE ~ SmallerIsNewer
    BY <2>2, <1>2, OnlyRecordReflexive DEF SameShape
  <2> QED  BY <2>1, <2>2
<1>4. covered \in Nat  BY MergeRanges DEF IsRange
<1>5. MergeShifted = [shifted EXCEPT !.tests[MergeIndex].valid_data = v]
  BY DEF MergeShifted
<1> HIDE DEF shifted, covered
<1>6. GoodTable(shifted) /\ MergeIndex \in DOMAIN shifted.tests
  BY <1>2, <1>3 DEF SameShape
<1>7. v \in Nat
  <2>1. shifted.tests[MergeIndex] \in Test
    BY <1>6, ElementOfSeq DEF GoodTable, Table
  <2> QED  BY <2>1, <1>1, <1>4 DEF MinOf, MaxOf, Test
<1> HIDE DEF v
<1>8. OnlyRecord(MergeShifted, shifted, MergeIndex)
  BY <1>5, <1>6, <1>7, SetValidDataOnly
<1>9. GoodTable(MergeShifted)  BY MergeShiftedProperties DEF SameShape
<1> QED  BY <1>2, <1>3, <1>6, <1>8, <1>9, OnlyRecordTransitive

LEMMA MergeRecordOnly ==
  ASSUME MergePre, MergeRecord
  PROVE  OnlyRecord(writer', writer, MergeIndex)
<1> DEFINE old == MergeShifted.testdata
           data == MergeBuckets(old)
           w == [MergeShifted EXCEPT !.testdata = data]
<1>1. /\ GoodTable(writer) /\ GoodTable(MergeTarget)
      /\ MergeIndex \in DOMAIN MergeTarget.tests
      /\ MergeTarget.num_days = writer.num_days
  BY MergeRanges DEF MergePre
<1>2. /\ SameShape(MergeShifted, MergeTarget) /\ GoodTable(MergeShifted)
      /\ OnlyRecord(MergeShifted, MergeTarget, MergeIndex)
  BY MergeShiftedProperties, MergeShiftedOnly DEF SameShape
<1>3. writer' = w
  <2>1. MergeShifted \in Table  BY <1>2 DEF GoodTable
  <2> QED  BY <2>1 DEF MergeRecord, Table
<1>4. /\ SameShape(w, MergeTarget) /\ GoodTable(w)
  <2>1. MergeTo.end <= Len(MergeTarget.testdata)  BY DEF MergeRecord
  <2>2. [MergeShifted EXCEPT !.testdata = MergeBuckets(@)] = w
    BY <1>2 DEF GoodTable, Table
  <2> HIDE DEF w
  <2> QED  BY <2>1, <2>2, MergedRecord DEF SameShape
<1>5. \A b \in DOMAIN old : b \notin Indices(RecordRange(MergeShifted, MergeIndex))
                              => data[b] = old[b]
  <2>1. RecordRange(MergeShifted, MergeIndex) = RecordRange(MergeTarget, MergeIndex)
    BY <1>2 DEF SameShape, RecordRange
  <2> QED  BY <2>1, MergeToInRecord DEF MergeBuckets
<1>6. data \in Seq(TestData) /\ Len(data) = Len(old)
  <2>1. /\ w.testdata = data
        /\ DOMAIN data = DOMAIN old
        /\ old \in Seq(TestData)
    BY <1>2 DEF GoodTable, Table, MergeBuckets
  <2>2. w.testdata \in Seq(TestData)  BY <1>4 DEF GoodTable, Table
  <2> HIDE DEF w, data, old
  <2> QED  BY <2>1, <2>2
<1>7. MergeIndex \in DOMAIN MergeShifted.tests  BY <1>1, <1>2 DEF SameShape
<1> HIDE DEF data
<1>8. OnlyRecord(w, MergeShifted, MergeIndex)
  BY <1>2, <1>5, <1>6, <1>7, SetTestdataOnly
<1> HIDE DEF w
<1>9. OnlyRecord(w, MergeTarget, MergeIndex)
  BY <1>1, <1>2, <1>4, <1>8, OnlyRecordTransitive
<1>10. OnlyRecord(MergeTarget, writer, MergeIndex)
  <2>1. MergeKey \in Keys
    <3>1. source.tests[next] \in Test  BY ElementOfSeq DEF MergePre, GoodTable, Table
    <3> QED  BY <3>1 DEF MergeKey, Test
  <2> QED  BY <1>1, <2>1, InsertFullOnly DEF MergeTarget, MergeIndex
<1> QED  BY <1>1, <1>3, <1>4, <1>9, <1>10, OnlyRecordTransitive

LEMMA RewriteLiveOnly ==
  ASSUME GoodTable(writer), GoodTable(source), next \in DOMAIN source.tests, RewriteLive
  PROVE  OnlyRecord(writer', writer, 0)
<1> DEFINE start == RecordRange(source, next).start
           overlap == MinOf(source.num_days, writer.num_days)
           len == (Len(writer.tests) + 1) * writer.num_days
           all == writer.testdata \o KeptBuckets
<1>1. /\ writer \in Table /\ writer.tests \in Seq(Test) /\ Len(writer.tests) \in Nat
      /\ DOMAIN writer.tests = 1 .. Len(writer.tests)
      /\ writer.testdata \in Seq(TestData) /\ Len(writer.testdata) \in Nat
      /\ writer.num_days \in Nat \ {0} /\ source.num_days \in Nat \ {0}
      /\ source.testdata \in Seq(TestData) /\ Len(source.testdata) \in Nat
      /\ source.tests[next] \in Test
  BY ElementOfSeq DEF GoodTable, Table
<1>2. RewrittenTest \in Test
  BY <1>1 DEF RewrittenTest, Test, MaxOf
<1>3. KeptBuckets \in Seq(TestData)
  <2>1. /\ start \in Nat
        /\ RecordRange(source, next).end = start + source.num_days
        /\ RecordRange(source, next).end <= Len(source.testdata)
    BY RecordInData
  <2>2. overlap \in Nat /\ overlap <= source.num_days  BY <1>1 DEF MinOf
  <2> HIDE DEF start, overlap
  <2>3. \A b \in start + 1 .. start + overlap : source.testdata[b] \in TestData
    <3> SUFFICES ASSUME NEW b \in start + 1 .. start + overlap
                 PROVE  source.testdata[b] \in TestData
      OBVIOUS
    <3>1. b \in 1 .. Len(source.testdata)  BY <1>1, <2>1, <2>2
    <3> QED  BY <1>1, <3>1, ElementOfSeq
  <2>4. SubSeq(source.testdata, start + 1, start + overlap) \in Seq(TestData)
    BY <2>1, <2>2, <2>3, SubSeqProperties
  <2> QED  BY <2>4 DEF KeptBuckets, start, overlap
<1>4. /\ all \in Seq(TestData) /\ Len(writer.testdata) <= Len(all)
      /\ \A b \in 1 .. Len(writer.testdata) : all[b] = writer.testdata[b]
  <2>1. /\ all \in Seq(TestData) /\ Len(all) = Len(writer.testdata) + Len(KeptBuckets)
        /\ Len(KeptBuckets) \in Nat
        /\ \A b \in 1 .. Len(writer.testdata) + Len(KeptBuckets) :
             all[b] = IF b <= Len(writer.testdata) THEN writer.testdata[b]
                      ELSE KeptBuckets[b - Len(writer.testdata)]
    BY <1>1, <1>3, ConcatProperties
  <2> HIDE DEF all
  <2> QED  BY <1>1, <2>1
<1>5. len \in Nat /\ Len(writer.testdata) <= len
  <2>1. len = Len(writer.tests) * writer.num_days + writer.num_days  BY <1>1, OneMoreRecord
  <2>2. Len(writer.testdata) = Len(writer.tests) * writer.num_days
    BY DEF GoodTable, BucketsLaidOut
  <2> HIDE DEF len
  <2> QED  BY <1>1, <2>1, <2>2
<1>6. /\ writer'.num_days = writer.num_days
      /\ writer'.tests = Append(writer.tests, RewrittenTest)
      /\ writer'.testdata = Resize(all, len)
  BY <1>1 DEF RewriteLive, RewrittenData, Table
<1> HIDE DEF all, len
<1>7. \A b \in 1 .. Len(writer.testdata) : writer'.testdata[b] = writer.testdata[b]
  <2>1. \A b \in 1 .. len : Resize(all, len)[b] = IF b <= Len(all) THEN all[b] ELSE NoData
    BY <1>4, <1>5, ResizeProperties
  <2>2. Len(all) \in Nat  BY <1>4
  <2> QED  BY <1>1, <1>4, <1>5, <1>6, <2>1, <2>2
<1>8. /\ Len(writer'.tests) = Len(writer.tests) + 1
      /\ \A j \in 1 .. Len(writer.tests) : writer'.tests[j] = writer.tests[j]
  BY <1>1, <1>2, <1>6, AppendProperties
<1>9. ASSUME NEW j \in DOMAIN writer.tests, NEW b \in Indices(RecordRange(writer, j))
      PROVE  b \in 1 .. Len(writer.testdata)
  <2>1. /\ RecordRange(writer, j).start \in Nat
        /\ RecordRange(writer, j).end = RecordRange(writer, j).start + writer.num_days
        /\ RecordRange(writer, j).end <= Len(writer.testdata)
    BY RecordInData
  <2> QED  BY <1>1, <2>1 DEF Indices
<1> QED  BY <1>1, <1>6, <1>7, <1>8, <1>9 DEF OnlyRecord

-----------------------------------------------------------------------------
(* Every step. *)

LEMMA OnlyRecordKeepsApart ==
  ASSUME GoodTable(writer), NEW i, OnlyRecord(writer', writer, i)
  PROVE  KeepsRecordsApart
<1> DEFINE k == IF i \in 0 .. Len(writer.tests) THEN i ELSE 0
<1>1. DOMAIN writer.tests = 1 .. Len(writer.tests) /\ Len(writer.tests) \in Nat
  BY DEF GoodTable, Table
<1>2. k \in 0 .. Len(writer.tests)
  BY <1>1
<1>3. \A j \in DOMAIN writer.tests \ {k} : SameRecord(j)
  BY <1>1 DEF OnlyRecord, SameRecord
<1>4. OneRecordChanges
  <2> HIDE DEF k
  <2> QED  BY <1>2, <1>3 DEF OneRecordChanges
<1> QED  BY <1>4 DEF OnlyRecord, KeepsRecordsApart

LEMMA InsertsOnlyOne ==
  ASSUME IInv, NEW test \in Tests, NEW outcome \in Outcomes,
         \/ InsertNew(test, outcome)
         \/ InsertNewer(test, outcome)
         \/ InsertHistoric(test, outcome)
  PROVE  LET w == InsertFull(writer, SessionKey(test))
         IN /\ SameShape(writer', w)
            /\ OnlyRecord(writer', writer, IndexOf(w, SessionKey(test)))
<1> DEFINE w == InsertFull(writer, SessionKey(test))
           i == IndexOf(w, SessionKey(test))
<1> SUFFICES SameShape(writer', w) /\ OnlyRecord(writer', writer, i)
  OBVIOUS
<1>1. phase = "session"
  BY DEF InsertNew, InsertNewer, InsertHistoric, Historic
<1>2. GoodTable(writer) /\ SessionKey(test) \in Keys
  <2>1. StateSound(phase, writer, session, source, next, files)  BY IInvIsSound
  <2> QED  BY <2>1 DEF StateSound, SoundTable, SessionKey, Keys, Session
<1>3. /\ GoodTable(w) /\ NoneAfter(w, w.timestamp)
      /\ w.num_days = writer.num_days /\ w.num_days \in Nat \ {0}
      /\ i \in DOMAIN w.tests /\ session \in Session /\ session.timestamp \in Nat
      /\ w.timestamp \in Nat
      /\ Known(test) => i = KnownIndex(test) /\ KnownLatest(test) \in Nat
      /\ ~ Known(test) => i = Len(writer.tests) + 1
  BY <1>1, InsertTarget
<1>4. OnlyRecord(w, writer, i)  BY <1>2, InsertFullOnly
<1> HIDE DEF w, i
<1>5. ASSUME NEW u, SameShape(u, w), OnlyRecord(u, w, i), writer' = u
      PROVE  SameShape(writer', w) /\ OnlyRecord(writer', writer, i)
  BY <1>2, <1>3, <1>4, <1>5, OnlyRecordTransitive DEF SameShape
<1>6. CASE InsertNew(test, outcome)
  <2>1. writer' = InsertInto(w, i, 0, session, outcome)
    BY <1>3, <1>6 DEF InsertNew, w
  <2>2. 0 \in 0 .. w.num_days - 1  BY <1>3
  <2>3. /\ SameShape(InsertInto(w, i, 0, session, outcome), w)
        /\ OnlyRecord(InsertInto(w, i, 0, session, outcome), w, i)
    BY <1>3, <2>2, InsertIntoProperties, InsertIntoOnly
  <2> QED  BY <1>5, <2>1, <2>3
<1>7. CASE InsertNewer(test, outcome)
  <2> DEFINE off == OffsetFromToday(KnownLatest(test), session.timestamp)
             shifted == ShiftRecord(w, i, off)
             u == InsertInto(shifted, i, 0, session, outcome)
  <2>1. Known(test) /\ off \in Nat  BY <1>3, <1>7, OffsetIsNatural DEF InsertNewer
  <2>2. writer' = u  BY <1>3, <1>7 DEF InsertNewer, w
  <2> HIDE DEF off
  <2>3. /\ SameShape(shifted, w) /\ NoneAfter(shifted, w.timestamp)
        /\ OnlyRecord(shifted, w, i)
    BY <1>3, <2>1, ShiftRecordProperties, ShiftRecordOnly
  <2> HIDE DEF shifted
  <2>4. /\ GoodTable(shifted) /\ NoneAfter(shifted, shifted.timestamp)
        /\ i \in DOMAIN shifted.tests /\ 0 \in 0 .. shifted.num_days - 1
    BY <1>3, <2>3 DEF SameShape
  <2>5. SameShape(u, shifted) /\ GoodTable(u) /\ OnlyRecord(u, shifted, i)
    BY <1>3, <2>4, InsertIntoProperties, InsertIntoOnly DEF SameShape
  <2> HIDE DEF u
  <2>6. SameShape(u, w) /\ OnlyRecord(u, w, i)
    BY <1>3, <2>3, <2>4, <2>5, OnlyRecordTransitive, SameShapeTransitive
  <2> QED  BY <1>5, <2>2, <2>6
<1>8. CASE InsertHistoric(test, outcome)
  <2> DEFINE off == HistoricOffset(test)
             v == HistoricValidData(w.tests[i].valid_data, off)
             valid == [w EXCEPT !.tests[i].valid_data = v]
             u == InsertInto(valid, i, off, session, outcome)
  <2>1. Known(test) /\ off \in Nat /\ off < writer.num_days
    BY <1>3, <1>8, OffsetIsNatural DEF InsertHistoric, Historic, HistoricOffset
  <2>2. writer' = u  BY <1>3, <1>8, <2>1 DEF InsertHistoric, w
  <2> HIDE DEF off
  <2>3. v \in Nat
    <3>1. w.tests[i] \in Test  BY <1>3, ElementOfSeq DEF GoodTable, Table
    <3> QED  BY <2>1, <3>1 DEF HistoricValidData, MaxOf, Test
  <2> HIDE DEF v
  <2>4. /\ SameShape(valid, w) /\ valid.testdata = w.testdata /\ OnlyRecord(valid, w, i)
    BY <1>3, <2>3, SetValidData, SetValidDataOnly
  <2> HIDE DEF valid
  <2>5. /\ GoodTable(valid) /\ NoneAfter(valid, valid.timestamp)
        /\ i \in DOMAIN valid.tests /\ off \in 0 .. valid.num_days - 1
    BY <1>3, <2>1, <2>4 DEF SameShape, NoneAfter
  <2>6. SameShape(u, valid) /\ GoodTable(u) /\ OnlyRecord(u, valid, i)
    BY <1>3, <2>5, InsertIntoProperties, InsertIntoOnly DEF SameShape
  <2> HIDE DEF u
  <2>7. SameShape(u, w) /\ OnlyRecord(u, w, i)
    BY <1>3, <2>4, <2>5, <2>6, OnlyRecordTransitive, SameShapeTransitive
  <2> QED  BY <1>5, <2>2, <2>7
<1> QED  BY <1>6, <1>7, <1>8

\* No step of insert, merge or rewrite touches a record it is not about.
LEMMA StepKeepsApart ==
  ASSUME IInv, Next, phase' = phase, phase \in {"session", "merge", "rewrite"}
  PROVE  KeepsRecordsApart
<1>1. StateSound(phase, writer, session, source, next, files)  BY IInvIsSound
<1>2. GoodTable(writer)  BY <1>1 DEF StateSound, SoundTable
<1>3. ASSUME writer'.tests = writer.tests, writer'.testdata = writer.testdata,
             writer'.num_days = writer.num_days
      PROVE  KeepsRecordsApart
  <2>1. OnlyRecord(writer', writer, 0)
    BY <1>2, <1>3 DEF OnlyRecord, GoodTable, Table
  <2> QED  BY <1>2, <2>1, OnlyRecordKeepsApart
<1>4. ASSUME NEW timestamp \in Times, NEW commit \in Commits, NEW flags \in FlagSets,
             StartSession(timestamp, commit, flags)
      PROVE  KeepsRecordsApart
  BY <1>2, <1>3, <1>4 DEF StartSession, GoodTable, Table
<1>5. ASSUME NEW test \in Tests, NEW outcome \in Outcomes,
             \/ InsertNew(test, outcome)
             \/ InsertNewer(test, outcome)
             \/ InsertHistoric(test, outcome)
      PROVE  KeepsRecordsApart
  BY <1>2, <1>5, InsertsOnlyOne, OnlyRecordKeepsApart
<1>6. ASSUME NEW test \in Tests, InsertExpired(test) PROVE KeepsRecordsApart
  <2>1. SessionKey(test) \in Keys
    BY <1>1 DEF StateSound, SessionKey, Keys, Session
  <2>2. OnlyRecord(writer', writer, IndexOf(writer', SessionKey(test)))
    BY <1>2, <1>6, <2>1, InsertFullOnly DEF InsertExpired
  <2> QED  BY <1>2, <2>2, OnlyRecordKeepsApart
<1>7. CASE MergeRecord
  <2>1. next \in DOMAIN source.tests
    BY <1>1, <1>7 DEF StateSound, GoodTable, Table, MergeRecord
  <2>2. MergePre  BY <1>1, <2>1 DEF MergePre, StateSound, SoundTable
  <2> QED  BY <1>2, <1>7, <2>2, MergeRecordOnly, OnlyRecordKeepsApart
<1>8. CASE RewriteDead  BY <1>3, <1>8 DEF RewriteDead
<1>9. CASE RewriteLive
  <2>1. next \in DOMAIN source.tests /\ GoodTable(source)
    BY <1>1, <1>9 DEF StateSound, GoodTable, Table, RewriteLive
  <2> QED  BY <1>2, <1>9, <2>1, RewriteLiveOnly, OnlyRecordKeepsApart
<1> QED
  BY <1>4, <1>5, <1>6, <1>7, <1>8, <1>9
  DEF Next, New, Open, Serialize, MergeBegin, MergePanics, MergeEnd, Unwind, RewriteSkip,
      RewriteBegin, RewriteEnd, Ready

\* No step of insert, and no turn of the loops of merge and rewrite, changes
\* more than one record: every other one keeps its place, its valid_data and
\* its buckets, whatever the number of days and the selected ranges are.
THEOREM RecordsStayApart == Spec => RecordsApart
<1>1. IInv /\ [Next]_vars =>
        [(phase' = phase /\ phase \in {"session", "merge", "rewrite"}) => KeepsRecordsApart]_vars
  BY StepKeepsApart
<1> QED  BY <1>1, Invariant, PTL DEF Spec, RecordsApart

-----------------------------------------------------------------------------
(* The buckets of a table, whatever is known of each of them: S is a set of *)
(* buckets with the empty one.                                              *)

BucketsIn(t, S) == \A b \in DOMAIN t.testdata : t.testdata[b] \in S

LEMMA InsertFullBuckets ==
  ASSUME NEW t, GoodTable(t), NEW key \in Keys, NEW S, NoData \in S, BucketsIn(t, S)
  PROVE  BucketsIn(InsertFull(t, key), S)
<1> DEFINE len == (Len(t.tests) + 1) * t.num_days
<1>1. /\ t \in Table /\ t.testdata \in Seq(TestData) /\ len \in Nat
      /\ DOMAIN t.testdata = 1 .. Len(t.testdata)
  BY DEF GoodTable, Table
<1>2. CASE key \in KeysOf(t)  BY <1>1, <1>2 DEF InsertFull, BucketsIn, Table
<1>3. CASE key \notin KeysOf(t)
  <2>1. InsertFull(t, key).testdata = Resize(t.testdata, len)
    BY <1>1, <1>3 DEF InsertFull, Table
  <2> HIDE DEF len
  <2>2. Resize(t.testdata, len) = [b \in 1 .. len |->
                                     IF b <= Len(t.testdata) THEN t.testdata[b] ELSE NoData]
    BY DEF Resize
  <2>3. \A b \in 1 .. len : b <= Len(t.testdata) => b \in DOMAIN t.testdata
    BY <1>1
  <2> QED  BY <2>1, <2>2, <2>3 DEF BucketsIn
<1> QED  BY <1>2, <1>3

LEMMA ShiftRecordBuckets ==
  ASSUME NEW t, GoodTable(t), NEW i \in DOMAIN t.tests, NEW off \in Nat,
         NEW S, NoData \in S, BucketsIn(t, S)
  PROVE  BucketsIn(ShiftRecord(t, i, off), S)
<1> DEFINE r == RecordRange(t, i)
           data == ShiftData(t.testdata, r, off, NoData)
<1>1. /\ t \in Table /\ t.testdata \in Seq(TestData) /\ t.tests \in Seq(Test)
      /\ DOMAIN t.testdata = 1 .. Len(t.testdata) /\ i \in 1 .. Len(t.tests)
  BY DEF GoodTable, Table
<1>2. r \in [start : Nat, end : Nat] /\ r.end <= Len(t.testdata)
  BY <1>1, RecordInData, <1>1 DEF RecordRange, GoodTable, Table
<1>3. ShiftRecord(t, i, off).testdata = data  BY <1>1 DEF ShiftRecord, Table
<1> HIDE DEF r
<1>4. ASSUME NEW b \in DOMAIN t.testdata PROVE data[b] \in S
  <2>1. data[b] = IF b \notin Indices(r) THEN t.testdata[b]
                  ELSE IF b - r.start <= off THEN NoData
                  ELSE t.testdata[b - off]
    BY <1>1, <1>2, ShiftDataProperties
  <2>2. b \in Indices(r) /\ ~ (b - r.start <= off) => b - off \in DOMAIN t.testdata
    BY <1>1, <1>2 DEF Indices
  <2> QED  BY <2>1, <2>2 DEF BucketsIn
<1>5. DOMAIN data = DOMAIN t.testdata  BY DEF ShiftData
<1> QED  BY <1>3, <1>4, <1>5 DEF BucketsIn

\* A run is counted in one bucket; the others may be in S only.
LEMMA InsertIntoBuckets ==
  ASSUME NEW t, GoodTable(t), NEW i \in DOMAIN t.tests, NEW j \in 0 .. t.num_days - 1,
         NEW s, NEW outcome, NEW S, NEW U, BucketsIn(t, S), S \subseteq U,
         \A data \in S : CountRun(data, t.timestamp, outcome, s.commit) \in U
  PROVE  BucketsIn(InsertInto(t, i, j, s, outcome), U)
<1> DEFINE at == RecordRange(t, i).start + j + 1
           bucket == CountRun(t.testdata[at], t.timestamp, outcome, s.commit)
<1>1. t \in Table /\ t.testdata \in Seq(TestData) /\ t.num_days \in Nat \ {0}
      /\ DOMAIN t.testdata = 1 .. Len(t.testdata) /\ Len(t.testdata) \in Nat
  BY DEF GoodTable, Table
<1>2. at \in DOMAIN t.testdata
  <2>1. /\ RecordRange(t, i).start \in Nat
        /\ RecordRange(t, i).end = RecordRange(t, i).start + t.num_days
        /\ RecordRange(t, i).end <= Len(t.testdata)
    BY RecordInData
  <2> QED  BY <1>1, <2>1
<1>3. InsertInto(t, i, j, s, outcome).testdata = [t.testdata EXCEPT ![at] = bucket]
  BY <1>1 DEF InsertInto, Table
<1> HIDE DEF at
<1> QED  BY <1>2, <1>3 DEF BucketsIn

LEMMA MergeShiftedBuckets ==
  ASSUME MergePre, NEW S, NoData \in S, BucketsIn(writer, S)
  PROVE  BucketsIn(MergeShifted, S)
<1> DEFINE shifted == IF SmallerIsNewer
                      THEN ShiftRecord(MergeTarget, MergeIndex, MergeOffset)
                      ELSE MergeTarget
           covered == MergeTo.end - RecordRange(writer, MergeIndex).start
           v == MinOf(MaxOf(shifted.tests[MergeIndex].valid_data, covered), writer.num_days)
<1>1. GoodTable(MergeTarget) /\ MergeIndex \in DOMAIN MergeTarget.tests /\ MergeOffset \in Nat
  BY MergeRanges
<1>2. BucketsIn(MergeTarget, S)
  <2>1. source.tests[next] \in Test  BY ElementOfSeq DEF MergePre, GoodTable, Table
  <2>2. MergeKey \in Keys  BY <2>1 DEF MergeKey, Test
  <2> QED  BY <2>2, InsertFullBuckets DEF MergePre, MergeTarget
<1>3. SameShape(shifted, MergeTarget) /\ BucketsIn(shifted, S)
  <2>1. CASE SmallerIsNewer
    BY <2>1, <1>1, <1>2, ShiftRecordProperties, ShiftRecordBuckets
  <2>2. CASE ~ SmallerIsNewer
    BY <2>2, <1>1, <1>2 DEF SameShape
  <2> QED  BY <2>1, <2>2
<1>4. MergeShifted = [shifted EXCEPT !.tests[MergeIndex].valid_data = v]
  BY DEF MergeShifted
<1> HIDE DEF shifted, v
<1>5. shifted \in Table  BY <1>3 DEF SameShape, GoodTable
<1>6. MergeShifted.testdata = shifted.testdata  BY <1>4, <1>5 DEF Table
<1> QED  BY <1>3, <1>6 DEF BucketsIn

LEMMA MergeRecordBuckets ==
  ASSUME MergePre, MergeRecord, NEW S, NEW T, NEW U, NoData \in S, S \subseteq U,
         BucketsIn(writer, S), BucketsIn(source, T),
         \A a \in S, b \in T : MergeData(a, b) \in U
  PROVE  BucketsIn(writer', U)
<1> DEFINE old == MergeShifted.testdata
           from(b) == b - MergeTo.start + MergeFrom.start
<1>1. GoodTable(MergeShifted) /\ BucketsIn(MergeShifted, S)
  BY MergeShiftedProperties, MergeShiftedBuckets DEF SameShape
<1>2. /\ writer'.testdata = MergeBuckets(old)
      /\ DOMAIN old = 1 .. Len(old) /\ Len(old) \in Nat
      /\ DOMAIN source.testdata = 1 .. Len(source.testdata) /\ Len(source.testdata) \in Nat
  BY <1>1 DEF MergeRecord, MergePre, GoodTable, Table
<1>3. ASSUME NEW b \in DOMAIN old, b \in Indices(MergeTo)
      PROVE  from(b) \in DOMAIN source.testdata
  BY <1>2, <1>3, MergeRanges DEF Indices, IsRange
<1> HIDE DEF old
<1> SUFFICES ASSUME NEW b \in DOMAIN old PROVE MergeBuckets(old)[b] \in U
  BY <1>2 DEF BucketsIn, MergeBuckets
<1>4. old[b] \in S  BY <1>1 DEF BucketsIn, old
<1>5. CASE b \in Indices(MergeTo)
  <2>1. source.testdata[from(b)] \in T  BY <1>3, <1>5 DEF BucketsIn
  <2> QED  BY <1>4, <1>5, <2>1 DEF MergeBuckets
<1>6. CASE b \notin Indices(MergeTo)  BY <1>4, <1>6 DEF MergeBuckets
<1> QED  BY <1>5, <1>6

LEMMA RewriteLiveBuckets ==
  ASSUME GoodTable(writer), GoodTable(source), next \in DOMAIN source.tests, RewriteLive,
         NEW S, NoData \in S, BucketsIn(writer, S), BucketsIn(source, S)
  PROVE  BucketsIn(writer', S)
<1> DEFINE start == RecordRange(source, next).start
           overlap == MinOf(source.num_days, writer.num_days)
           len == (Len(writer.tests) + 1) * writer.num_days
           all == writer.testdata \o KeptBuckets
<1>1. /\ writer \in Table /\ Len(writer.tests) \in Nat
      /\ writer.testdata \in Seq(TestData) /\ Len(writer.testdata) \in Nat
      /\ DOMAIN writer.testdata = 1 .. Len(writer.testdata)
      /\ writer.num_days \in Nat \ {0} /\ source.num_days \in Nat \ {0}
      /\ source.testdata \in Seq(TestData) /\ Len(source.testdata) \in Nat
      /\ DOMAIN source.testdata = 1 .. Len(source.testdata)
  BY DEF GoodTable, Table
<1>2. writer.testdata \in Seq(S)
  BY <1>1, SMTT(30) DEF BucketsIn
<1>3. KeptBuckets \in Seq(S)
  <2>1. /\ start \in Nat
        /\ RecordRange(source, next).end = start + source.num_days
        /\ RecordRange(source, next).end <= Len(source.testdata)
    BY RecordInData
  <2>2. overlap \in Nat /\ overlap <= source.num_days  BY <1>1 DEF MinOf
  <2> HIDE DEF start, overlap
  <2>3. \A b \in start + 1 .. start + overlap : source.testdata[b] \in S
    <3> SUFFICES ASSUME NEW b \in start + 1 .. start + overlap
                 PROVE  source.testdata[b] \in S
      OBVIOUS
    <3>1. b \in 1 .. Len(source.testdata)  BY <1>1, <2>1, <2>2
    <3> QED  BY <1>1, <3>1 DEF BucketsIn
  <2>4. SubSeq(source.testdata, start + 1, start + overlap) \in Seq(S)
    BY <2>1, <2>2, <2>3, SubSeqProperties
  <2> QED  BY <2>4 DEF KeptBuckets, start, overlap
<1>4. all \in Seq(S)  BY <1>2, <1>3, ConcatProperties
<1>5. len \in Nat  BY <1>1
<1>6. writer'.testdata = Resize(all, len)
  BY <1>1 DEF RewriteLive, RewrittenData, Table
<1> HIDE DEF all, len
<1>7. \A b \in 1 .. len : b <= Len(all) => all[b] \in S
  <2> SUFFICES ASSUME NEW b \in 1 .. len, b <= Len(all) PROVE all[b] \in S  OBVIOUS
  <2>1. b \in 1 .. Len(all)  BY <1>4, <1>5
  <2> QED  BY <1>4, <2>1, ElementOfSeq
<1> QED  BY <1>6, <1>7 DEF BucketsIn, Resize

-----------------------------------------------------------------------------
(* CommitsMatchFailures, as long as no counter wraps around.                *)

\* The buckets that name as many commits as their failures allow.
Matched ==
  {data \in TestData :
     /\ data.counts["fail"] < CounterModulus
     /\ IsFiniteSet(data.failing_commits)
     /\ data.counts["fail"] = 0 <=> data.failing_commits = {}
     /\ Cardinality(data.failing_commits) <= data.counts["fail"]}

\* There is room in the u16 for the failures that the next step may count.
FailuresFit ==
  \A b \in DOMAIN writer.testdata :
    LET failures == writer.testdata[b].counts["fail"]
    IN /\ failures + 1 < CounterModulus
       /\ \A s \in DOMAIN source.testdata :
            failures + source.testdata[s].counts["fail"] < CounterModulus

Roomy == {data \in Matched : data.counts["fail"] + 1 < CounterModulus}

MatchInv ==
  /\ BucketsIn(writer, Matched)
  /\ BucketsIn(source, Matched)
  /\ \A f \in DOMAIN files : BucketsIn(files[f], Matched)

LEMMA NoDataMatched == NoData \in Matched /\ NoData \in Roomy
<1>1. NoData.counts["fail"] = 0 /\ NoData.failing_commits = {}
  BY DEF NoData, Counters
<1> QED  BY <1>1, NoDataType, FS_EmptySet, ConstantsAssumption DEF Matched, Roomy

LEMMA OneMoreElement ==
  ASSUME NEW S, IsFiniteSet(S), NEW x
  PROVE  /\ IsFiniteSet(S \cup {x})
         /\ Cardinality(S) \in Nat /\ Cardinality(S \cup {x}) \in Nat
         /\ Cardinality(S \cup {x}) <= Cardinality(S) + 1
         /\ S \cup {x} # {}
<1>1. IsFiniteSet(S \cup {x})  BY FS_AddElement
<1>2. Cardinality(S \cup {x}) = IF x \in S THEN Cardinality(S) ELSE Cardinality(S) + 1
  BY FS_AddElement
<1>3. Cardinality(S) \in Nat /\ Cardinality(S \cup {x}) \in Nat
  BY <1>1, FS_CardinalityType
<1> QED  BY <1>1, <1>2, <1>3

LEMMA CountRunMatched ==
  ASSUME NEW data \in Roomy, NEW now \in Nat, NEW outcome \in Outcomes, NEW commit \in Commits
  PROVE  CountRun(data, now, outcome, commit) \in Matched
<1> DEFINE counted == CountRun(data, now, outcome, commit)
           failures == data.counts["fail"]
           commits == data.failing_commits
<1>1. /\ data \in TestData /\ failures \in Nat /\ failures + 1 < CounterModulus
      /\ IsFiniteSet(commits) /\ (failures = 0 <=> commits = {})
      /\ Cardinality(commits) <= failures
      /\ DOMAIN data.counts = Counters /\ "fail" \in Counters
  BY DEF Roomy, Matched, TestData, Counters
<1>2. counted \in TestData  BY <1>1, CountRunType
<1>3. CASE CounterOf(outcome) = "fail"
  <2>1. counted.counts["fail"] = (failures + 1) % CounterModulus
    BY <1>1, <1>3 DEF CountRun
  <2>2. (failures + 1) % CounterModulus = failures + 1
    BY <1>1, ConstantsAssumption
  <2>3. counted.failing_commits = commits \cup {commit}  BY <1>3 DEF CountRun
  <2> HIDE DEF counted, failures, commits
  <2>4. /\ IsFiniteSet(commits \cup {commit})
        /\ Cardinality(commits) \in Nat /\ Cardinality(commits \cup {commit}) \in Nat
        /\ Cardinality(commits \cup {commit}) <= Cardinality(commits) + 1
        /\ commits \cup {commit} # {}
    BY <1>1, OneMoreElement
  <2>5. counted.counts["fail"] = failures + 1  BY <2>1, <2>2
  <2>6. /\ counted.counts["fail"] < CounterModulus
        /\ counted.counts["fail"] # 0
        /\ Cardinality(counted.failing_commits) <= counted.counts["fail"]
    BY <1>1, <2>3, <2>4, <2>5
  <2>7. counted \in Matched  BY <1>2, <2>3, <2>4, <2>6 DEF Matched
  <2> QED  BY <2>7 DEF counted
<1>4. CASE CounterOf(outcome) # "fail"
  <2>1. counted.counts["fail"] = failures /\ counted.failing_commits = commits
    BY <1>1, <1>4 DEF CountRun
  <2> HIDE DEF counted, failures, commits
  <2>2. counted \in Matched
    BY <1>1, <1>2, <2>1, ConstantsAssumption DEF Matched
  <2> QED  BY <2>2 DEF counted
<1> QED  BY <1>3, <1>4

LEMMA MergeDataMatched ==
  ASSUME NEW a \in Matched, NEW b \in Matched,
         a.counts["fail"] + b.counts["fail"] < CounterModulus
  PROVE  MergeData(a, b) \in Matched
<1> DEFINE merged == MergeData(a, b)
<1>1. /\ a \in TestData /\ b \in TestData
      /\ a.counts["fail"] \in Nat /\ b.counts["fail"] \in Nat
      /\ IsFiniteSet(a.failing_commits) /\ IsFiniteSet(b.failing_commits)
  BY DEF Matched, TestData, Counters
<1>2. merged \in TestData  BY <1>1, MergeDataType
<1>3. merged.counts["fail"] = (a.counts["fail"] + b.counts["fail"]) % CounterModulus
  BY DEF MergeData, Counters
<1>4. merged.counts["fail"] = a.counts["fail"] + b.counts["fail"]
  BY <1>1, <1>3, ConstantsAssumption
<1>5. merged.failing_commits = a.failing_commits \cup b.failing_commits
  BY DEF MergeData
<1> HIDE DEF merged
<1>6. /\ IsFiniteSet(merged.failing_commits)
      /\ Cardinality(merged.failing_commits)
           <= Cardinality(a.failing_commits) + Cardinality(b.failing_commits)
      /\ Cardinality(a.failing_commits) \in Nat /\ Cardinality(b.failing_commits) \in Nat
      /\ Cardinality(merged.failing_commits) \in Nat
  <2>1. /\ IsFiniteSet(a.failing_commits \cup b.failing_commits)
        /\ Cardinality(a.failing_commits \cup b.failing_commits)
             = Cardinality(a.failing_commits) + Cardinality(b.failing_commits)
                 - Cardinality(a.failing_commits \cap b.failing_commits)
    BY <1>1, FS_Union
  <2>2. IsFiniteSet(a.failing_commits \cap b.failing_commits)  BY <1>1, FS_Intersection
  <2> QED  BY <1>1, <1>5, <2>1, <2>2, FS_CardinalityType
<1>7. /\ a.counts["fail"] = 0 <=> a.failing_commits = {}
      /\ b.counts["fail"] = 0 <=> b.failing_commits = {}
      /\ Cardinality(a.failing_commits) <= a.counts["fail"]
      /\ Cardinality(b.failing_commits) <= b.counts["fail"]
  BY DEF Matched
<1>8. merged.counts["fail"] = 0 <=> merged.failing_commits = {}
  BY <1>1, <1>4, <1>5, <1>7
<1>9. Cardinality(merged.failing_commits) <= merged.counts["fail"]
  BY <1>1, <1>4, <1>6, <1>7
<1>10. merged \in Matched  BY <1>1, <1>2, <1>4, <1>6, <1>8, <1>9 DEF Matched
<1> QED  BY <1>10 DEF merged

\* Where an insert may take the buckets of the writer.
LEMMA InsertsBuckets ==
  ASSUME IInv, NEW test \in Tests, NEW outcome \in Outcomes,
         NEW S, NEW U, NoData \in S, S \subseteq U, BucketsIn(writer, S),
         \A data \in S, now \in Nat : CountRun(data, now, outcome, session.commit) \in U,
         \/ InsertNew(test, outcome)
         \/ InsertNewer(test, outcome)
         \/ InsertHistoric(test, outcome)
  PROVE  BucketsIn(writer', U)
<1> DEFINE w == InsertFull(writer, SessionKey(test))
           i == IndexOf(w, SessionKey(test))
<1>1. phase = "session"
  BY DEF InsertNew, InsertNewer, InsertHistoric, Historic
<1>2. GoodTable(writer) /\ SessionKey(test) \in Keys
  <2>1. StateSound(phase, writer, session, source, next, files)  BY IInvIsSound
  <2> QED  BY <2>1 DEF StateSound, SoundTable, SessionKey, Keys, Session
<1>3. /\ GoodTable(w) /\ w.num_days = writer.num_days /\ w.num_days \in Nat \ {0}
      /\ i \in DOMAIN w.tests /\ session.timestamp \in Nat /\ w.timestamp \in Nat
      /\ Known(test) => i = KnownIndex(test) /\ KnownLatest(test) \in Nat
      /\ ~ Known(test) => i = Len(writer.tests) + 1
  BY <1>1, InsertTarget
<1>4. BucketsIn(w, S)  BY <1>2, InsertFullBuckets
<1> HIDE DEF w, i
<1>5. ASSUME NEW t, GoodTable(t), t.num_days = w.num_days, t.timestamp \in Nat,
             i \in DOMAIN t.tests, BucketsIn(t, S), NEW j \in 0 .. w.num_days - 1,
             writer' = InsertInto(t, i, j, session, outcome)
      PROVE  BucketsIn(writer', U)
  <2>1. \A data \in S : CountRun(data, t.timestamp, outcome, session.commit) \in U
    BY <1>5
  <2> QED  BY <1>5, <2>1, InsertIntoBuckets
<1>6. CASE InsertNew(test, outcome)
  <2>1. writer' = InsertInto(w, i, 0, session, outcome)
    BY <1>3, <1>6 DEF InsertNew, w
  <2>2. 0 \in 0 .. w.num_days - 1  BY <1>3
  <2> QED  BY <1>3, <1>4, <1>5, <2>1, <2>2
<1>7. CASE InsertNewer(test, outcome)
  <2> DEFINE off == OffsetFromToday(KnownLatest(test), session.timestamp)
             shifted == ShiftRecord(w, i, off)
  <2>1. Known(test) /\ off \in Nat  BY <1>3, <1>7, OffsetIsNatural DEF InsertNewer
  <2>2. writer' = InsertInto(shifted, i, 0, session, outcome)
    BY <1>3, <1>7 DEF InsertNewer, w
  <2> HIDE DEF off
  <2>3. SameShape(shifted, w) /\ BucketsIn(shifted, S)
    BY <1>3, <1>4, <2>1, ShiftRecordProperties, ShiftRecordBuckets
  <2> HIDE DEF shifted
  <2>4. 0 \in 0 .. w.num_days - 1  BY <1>3
  <2> QED  BY <1>3, <1>5, <2>2, <2>3, <2>4 DEF SameShape
<1>8. CASE InsertHistoric(test, outcome)
  <2> DEFINE off == HistoricOffset(test)
             v == HistoricValidData(w.tests[i].valid_data, off)
             valid == [w EXCEPT !.tests[i].valid_data = v]
  <2>1. Known(test) /\ off \in Nat /\ off < writer.num_days
    BY <1>3, <1>8, OffsetIsNatural DEF InsertHistoric, Historic, HistoricOffset
  <2>2. writer' = InsertInto(valid, i, off, session, outcome)
    BY <1>3, <1>8, <2>1 DEF InsertHistoric, w
  <2> HIDE DEF off
  <2>3. v \in Nat
    <3>1. w.tests[i] \in Test  BY <1>3, ElementOfSeq DEF GoodTable, Table
    <3> QED  BY <2>1, <3>1 DEF HistoricValidData, MaxOf, Test
  <2> HIDE DEF v
  <2>4. SameShape(valid, w) /\ valid.testdata = w.testdata
    BY <1>3, <2>3, SetValidData
  <2> HIDE DEF valid
  <2>5. off \in 0 .. w.num_days - 1  BY <1>3, <2>1
  <2> QED  BY <1>3, <1>4, <1>5, <2>2, <2>4, <2>5 DEF SameShape, BucketsIn
<1> QED  BY <1>6, <1>7, <1>8

LEMMA InsertsMatched ==
  ASSUME IInv, MatchInv, FailuresFit, NEW test \in Tests, NEW outcome \in Outcomes,
         \/ InsertNew(test, outcome)
         \/ InsertNewer(test, outcome)
         \/ InsertHistoric(test, outcome)
  PROVE  BucketsIn(writer', Matched)
<1>1. phase = "session"
  BY DEF InsertNew, InsertNewer, InsertHistoric, Historic
<1>2. session.commit \in Commits
  <2>1. StateSound(phase, writer, session, source, next, files)  BY IInvIsSound
  <2> QED  BY <2>1 DEF StateSound, Session
<1>3. BucketsIn(writer, Roomy)  BY DEF MatchInv, BucketsIn, FailuresFit, Roomy
<1>4. \A data \in Roomy, now \in Nat : CountRun(data, now, outcome, session.commit) \in Matched
  BY <1>2, CountRunMatched
<1>5. Roomy \subseteq Matched  BY DEF Roomy
<1> QED  BY <1>3, <1>4, <1>5, NoDataMatched, InsertsBuckets

LEMMA InitMatchInv == Init => MatchInv
<1>1. BucketsIn(NoTable, Matched)
  BY EmptySeq DEF BucketsIn, NoTable, NewTable
<1> QED  BY <1>1, EmptySeq DEF Init, MatchInv

LEMMA NextMatchInv ==
  ASSUME IInv, MatchInv, FailuresFit, [Next]_vars
  PROVE  MatchInv'
<1>1. StateSound(phase, writer, session, source, next, files)  BY IInvIsSound
<1>2. /\ GoodTable(writer) /\ writer \in Table /\ GoodTable(source) /\ source \in Table
      /\ files \in Seq(Table) /\ \A f \in DOMAIN files : GoodTable(files[f]) /\ files[f] \in Table
  BY <1>1 DEF StateSound, SoundTable, GoodTable
<1>3. \A num_days : BucketsIn(NewTable(num_days), Matched)
  BY EmptySeq DEF BucketsIn, NewTable
<1>4. BucketsIn(NoTable, Matched)  BY <1>3 DEF NoTable
<1>5. \A t \in Table : \A now : BucketsIn(t, Matched) => BucketsIn([t EXCEPT !.timestamp = now], Matched)
  BY DEF BucketsIn, Table
\* The steps that do not count anything.
<1>6. ASSUME BucketsIn(writer', Matched), BucketsIn(source', Matched), files' = files
      PROVE  MatchInv'
  BY <1>6 DEF MatchInv
<1>7. ASSUME NEW num_days \in Windows, New(num_days) PROVE MatchInv'
  BY <1>3, <1>6, <1>7 DEF New, MatchInv
<1>8. ASSUME NEW f \in DOMAIN files, NEW now \in ClockTimes, Open(f, now) PROVE MatchInv'
  BY <1>2, <1>5, <1>6, <1>8 DEF Open, Parse, MatchInv
<1>9. CASE Serialize
  <2>1. /\ Len(files') = Len(files) + 1 /\ Len(files) \in Nat /\ DOMAIN files = 1 .. Len(files)
        /\ DOMAIN files' = 1 .. Len(files')
        /\ \A f \in 1 .. Len(files) : files'[f] = files[f]
        /\ files'[Len(files) + 1] = writer
    BY <1>2, <1>9, AppendProperties DEF Serialize
  <2>2. \A f \in DOMAIN files' : f \in 1 .. Len(files) \/ f = Len(files) + 1  BY <2>1
  <2> QED  BY <1>4, <1>9, <2>1, <2>2 DEF Serialize, MatchInv
<1>10. ASSUME NEW timestamp \in Times, NEW commit \in Commits, NEW flags \in FlagSets,
              StartSession(timestamp, commit, flags)
       PROVE  MatchInv'
  BY <1>2, <1>5, <1>6, <1>10 DEF StartSession, MatchInv
<1>11. ASSUME NEW test \in Tests, NEW outcome \in Outcomes,
              \/ InsertNew(test, outcome)
              \/ InsertNewer(test, outcome)
              \/ InsertHistoric(test, outcome)
       PROVE  MatchInv'
  <2>1. BucketsIn(writer', Matched)  BY <1>11, InsertsMatched
  <2> QED  BY <1>6, <1>11, <2>1 DEF InsertNew, InsertNewer, InsertHistoric, MatchInv
<1>12. ASSUME NEW test \in Tests, InsertExpired(test) PROVE MatchInv'
  <2>1. SessionKey(test) \in Keys
    BY <1>1 DEF StateSound, SessionKey, Keys, Session
  <2>2. BucketsIn(writer', Matched)
    BY <1>2, <1>12, <2>1, NoDataMatched, InsertFullBuckets DEF InsertExpired, MatchInv
  <2> QED  BY <1>6, <1>12, <2>2 DEF InsertExpired, MatchInv
<1>13. ASSUME NEW f \in DOMAIN files, NEW g \in DOMAIN files, NEW now \in ClockTimes,
              MergeBegin(Parse(files[f], now), Parse(files[g], now))
       PROVE  MatchInv'
  <2> DEFINE a == Parse(files[f], now)
             b == Parse(files[g], now)
  <2>1. BucketsIn(a, Matched) /\ BucketsIn(b, Matched) /\ a \in Table /\ b \in Table
    <3>1. now \in Nat  BY ConstantsAssumption
    <3>2. a \in Table /\ b \in Table
      BY <1>1, <3>1, ParseSound DEF StateSound, SoundTable, GoodTable
    <3> QED  BY <1>2, <1>5, <3>2 DEF Parse, MatchInv
  <2>2. writer' = [Larger(a, b) EXCEPT !.timestamp = MaxOf(a.timestamp, b.timestamp)]
        /\ source' = Smaller(a, b) /\ files' = files
    BY <1>13 DEF MergeBegin
  <2> HIDE DEF a, b
  <2> QED  BY <1>5, <1>6, <2>1, <2>2, LargerOrSmaller
<1>14. CASE MergeRecord
  <2>1. next \in DOMAIN source.tests
    BY <1>1, <1>14 DEF StateSound, GoodTable, Table, MergeRecord
  <2>2. MergePre  BY <1>1, <2>1 DEF MergePre, StateSound, SoundTable
  <2> DEFINE T == {source.testdata[s] : s \in DOMAIN source.testdata}
             S == {data \in Matched : \A b \in T :
                     data.counts["fail"] + b.counts["fail"] < CounterModulus}
  <2>3. T \subseteq Matched  BY DEF MatchInv, BucketsIn
  <2>4. NoData \in S
    <3>1. \A b \in T : b.counts["fail"] \in Nat /\ b.counts["fail"] < CounterModulus
      BY <2>3 DEF Matched, TestData, Counters
    <3>2. NoData.counts["fail"] = 0  BY DEF NoData, Counters
    <3> QED  BY <3>1, <3>2, NoDataMatched
  <2>5. BucketsIn(writer, S)  BY DEF MatchInv, BucketsIn, FailuresFit
  <2>6. BucketsIn(source, T)  BY DEF BucketsIn
  <2>7. \A a \in S, b \in T : MergeData(a, b) \in Matched
    BY <2>3, MergeDataMatched
  <2>8. S \subseteq Matched  OBVIOUS
  <2> HIDE DEF S, T
  <2>9. BucketsIn(writer', Matched)
    BY <1>14, <2>2, <2>4, <2>5, <2>6, <2>7, <2>8, MergeRecordBuckets
  <2> QED  BY <1>6, <1>14, <2>9 DEF MergeRecord, MatchInv
<1>15. CASE MergePanics \/ MergeEnd \/ Unwind
  BY <1>4, <1>6, <1>15 DEF MergePanics, MergeEnd, Unwind, MatchInv
<1>16. ASSUME NEW num_days \in Windows, NEW timestamp \in ClockTimes,
              NEW threshold \in Thresholds \cup {DefaultThreshold},
              \/ RewriteSkip(num_days, timestamp, threshold)
              \/ RewriteBegin(num_days, timestamp, threshold)
       PROVE  MatchInv'
  <2>1. CASE RewriteSkip(num_days, timestamp, threshold)
    BY <1>2, <1>5, <1>6, <2>1 DEF RewriteSkip, MatchInv
  <2>2. CASE RewriteBegin(num_days, timestamp, threshold)
    <3>1. BucketsIn(source', Matched)  BY <1>2, <1>5, <2>2 DEF RewriteBegin, MatchInv
    <3>2. writer'.testdata = <<>>  BY <2>2 DEF RewriteBegin, NewTable
    <3>3. BucketsIn(writer', Matched)  BY <3>2, EmptySeq DEF BucketsIn
    <3> QED  BY <1>6, <2>2, <3>1, <3>3 DEF RewriteBegin
  <2> QED  BY <1>16, <2>1, <2>2
<1>17. CASE RewriteDead  BY <1>6, <1>17 DEF RewriteDead, MatchInv
<1>18. CASE RewriteLive
  <2>1. next \in DOMAIN source.tests
    BY <1>1, <1>18 DEF StateSound, GoodTable, Table, RewriteLive
  <2>2. BucketsIn(writer', Matched)
    BY <1>2, <1>18, <2>1, NoDataMatched, RewriteLiveBuckets DEF MatchInv
  <2> QED  BY <1>6, <1>18, <2>2 DEF RewriteLive, MatchInv
<1>19. CASE RewriteEnd  BY <1>4, <1>6, <1>19 DEF RewriteEnd, MatchInv
<1>20. CASE UNCHANGED vars  BY <1>20 DEF vars, MatchInv
<1> QED
  BY <1>7, <1>8, <1>9, <1>10, <1>11, <1>12, <1>13, <1>14, <1>15, <1>16, <1>17, <1>18, <1>19,
     <1>20 DEF Next

LEMMA MatchInvImplies == MatchInv => CommitsMatchFailures
  BY DEF MatchInv, BucketsIn, Matched, CommitsMatchFailures, AllTables

\* While the failures of a bucket fit into its u16, every bucket of the writer
\* and of every file names commits exactly when it counts failures, and never
\* more commits than failures.
THEOREM CommitsAlwaysMatchFailures == Spec /\ []FailuresFit => []CommitsMatchFailures
<1>1. IInv /\ MatchInv /\ FailuresFit /\ [Next]_vars => MatchInv'
  BY NextMatchInv
<1> QED  BY <1>1, InitMatchInv, MatchInvImplies, Invariant, PTL DEF Spec

-----------------------------------------------------------------------------
(* ValidDataInRecord, as long as rewrite never makes the window smaller.    *)

ValidIn(t) == \A i \in DOMAIN t.tests : t.tests[i].valid_data \in 1 .. t.num_days

\* rewrite to fewer days keeps the old number of days as valid_data.
Narrows == phase' = "rewrite" /\ writer'.num_days < source'.num_days

ValidInv ==
  /\ ValidIn(writer)
  /\ ValidIn(source)
  /\ \A f \in DOMAIN files : ValidIn(files[f])
  /\ phase = "rewrite" => source.num_days <= writer.num_days

LEMMA SetValidDataValid ==
  ASSUME NEW t, GoodTable(t), ValidIn(t), NEW i \in DOMAIN t.tests, NEW v \in 1 .. t.num_days
  PROVE  ValidIn([t EXCEPT !.tests[i].valid_data = v])
<1>1. t \in Table /\ t.tests \in Seq(Test) /\ DOMAIN t.tests = 1 .. Len(t.tests)
  BY DEF GoodTable, Table
<1>2. \A j \in DOMAIN t.tests : t.tests[j] \in Test  BY <1>1, ElementOfSeq
<1> QED  BY <1>1, <1>2 DEF ValidIn, Table, Test

LEMMA SetTestdataValid ==
  ASSUME NEW t \in Table, ValidIn(t), NEW data
  PROVE  ValidIn([t EXCEPT !.testdata = data])
  BY DEF ValidIn, Table

LEMMA InsertFullValid ==
  ASSUME NEW t, GoodTable(t), ValidIn(t), NEW key \in Keys
  PROVE  ValidIn(InsertFull(t, key))
<1> DEFINE w == InsertFull(t, key)
           i == IndexOf(w, key)
           record == [key |-> key, valid_data |-> 1]
<1>1. /\ GoodTable(w) /\ w.num_days = t.num_days /\ i \in DOMAIN w.tests
      /\ key \in KeysOf(t) => i = IndexOf(t, key)
      /\ key \notin KeysOf(t) => i = Len(t.tests) + 1
  BY InsertFullProperties
<1>2. /\ t \in Table /\ t.tests \in Seq(Test) /\ DOMAIN t.tests = 1 .. Len(t.tests)
      /\ t.num_days \in Nat \ {0} /\ Len(t.tests) \in Nat
  BY DEF GoodTable, Table
<1>3. record \in Test  BY DEF Test
<1>4. CASE key \in KeysOf(t)
  <2>1. w.tests = [t.tests EXCEPT ![IndexOf(t, key)] = record]
    BY <1>2, <1>4 DEF InsertFull, Table
  <2>2. IndexOf(t, key) \in DOMAIN t.tests  BY <1>4, IndexOfKnown
  <2> HIDE DEF w
  <2>3. ValidIn(w)  BY <1>1, <1>2, <2>1, <2>2 DEF ValidIn
  <2> QED  BY <2>3 DEF w
<1>5. CASE key \notin KeysOf(t)
  <2>1. w.tests = Append(t.tests, record)
    BY <1>2, <1>5 DEF InsertFull, Table
  <2> HIDE DEF w
  <2>2. /\ DOMAIN w.tests = 1 .. Len(t.tests) + 1
        /\ \A j \in 1 .. Len(t.tests) : w.tests[j] = t.tests[j]
        /\ w.tests[Len(t.tests) + 1] = record
    BY <1>2, <1>3, <2>1, AppendProperties
  <2>3. ValidIn(w)
    <3> SUFFICES ASSUME NEW j \in 1 .. Len(t.tests) + 1
                 PROVE  w.tests[j].valid_data \in 1 .. t.num_days
      BY <1>1, <2>2 DEF ValidIn
    <3>1. CASE j \in 1 .. Len(t.tests)  BY <1>2, <2>2, <3>1 DEF ValidIn
    <3>2. CASE j = Len(t.tests) + 1  BY <1>2, <2>2, <3>2
    <3> QED  BY <1>2, <3>1, <3>2
  <2> QED  BY <2>3 DEF w
<1> QED  BY <1>4, <1>5

LEMMA ShiftRecordValid ==
  ASSUME NEW t, GoodTable(t), ValidIn(t), NEW i \in DOMAIN t.tests, NEW off \in Nat
  PROVE  ValidIn(ShiftRecord(t, i, off))
<1> DEFINE data == ShiftData(t.testdata, RecordRange(t, i), off, NoData)
           v == ExtendValidData(t.tests[i].valid_data, off, t.num_days)
           u == [t EXCEPT !.tests[i].valid_data = v]
<1>1. t \in Table /\ t.num_days \in Nat \ {0}  BY DEF GoodTable, Table
<1>2. v \in 1 .. t.num_days
  <2>1. t.tests[i].valid_data \in 1 .. t.num_days  BY DEF ValidIn
  <2> QED  BY <1>1, <2>1 DEF ExtendValidData, MinOf
<1>3. ShiftRecord(t, i, off) = [u EXCEPT !.testdata = data]
  BY <1>1 DEF ShiftRecord, Table
<1> HIDE DEF v, data
<1>4. ValidIn(u) /\ u \in Table
  <2>1. v \in Nat  BY <1>1, <1>2
  <2> QED  BY <1>2, <2>1, SetValidDataValid, SetValidData DEF SameShape, GoodTable
<1> QED  BY <1>3, <1>4, SetTestdataValid

LEMMA InsertIntoValid ==
  ASSUME NEW t \in Table, ValidIn(t), NEW i, NEW j, NEW s, NEW outcome
  PROVE  ValidIn(InsertInto(t, i, j, s, outcome))
  BY DEF InsertInto, ValidIn, Table

LEMMA MergeRecordValid ==
  ASSUME MergePre, MergeRecord, ValidIn(writer)
  PROVE  ValidIn(writer')
<1> DEFINE shifted == IF SmallerIsNewer
                      THEN ShiftRecord(MergeTarget, MergeIndex, MergeOffset)
                      ELSE MergeTarget
           covered == MergeTo.end - RecordRange(writer, MergeIndex).start
           v == MinOf(MaxOf(shifted.tests[MergeIndex].valid_data, covered), writer.num_days)
<1>1. /\ GoodTable(MergeTarget) /\ MergeIndex \in DOMAIN MergeTarget.tests
      /\ MergeOffset \in Nat /\ MergeTarget.num_days = writer.num_days
      /\ writer.num_days \in Nat \ {0}
  BY MergeRanges DEF MergePre, GoodTable, Table
<1>2. ValidIn(MergeTarget)
  <2>1. source.tests[next] \in Test  BY ElementOfSeq DEF MergePre, GoodTable, Table
  <2>2. MergeKey \in Keys  BY <2>1 DEF MergeKey, Test
  <2> QED  BY <2>2, InsertFullValid DEF MergePre, MergeTarget
<1>3. SameShape(shifted, MergeTarget) /\ ValidIn(shifted)
  <2>1. CASE SmallerIsNewer
    BY <2>1, <1>1, <1>2, ShiftRecordProperties, ShiftRecordValid
  <2>2. CASE ~ SmallerIsNewer
    BY <2>2, <1>1, <1>2 DEF SameShape
  <2> QED  BY <2>1, <2>2
<1>4. covered \in Nat  BY MergeRanges DEF IsRange
<1>5. MergeShifted = [shifted EXCEPT !.tests[MergeIndex].valid_data = v]
  BY DEF MergeShifted
<1> HIDE DEF shifted, covered
<1>6. GoodTable(shifted) /\ MergeIndex \in DOMAIN shifted.tests /\ shifted.num_days = writer.num_days
  BY <1>1, <1>3 DEF SameShape
<1>7. v \in 1 .. shifted.num_days
  <2>1. shifted.tests[MergeIndex].valid_data \in 1 .. writer.num_days
    BY <1>3, <1>6 DEF ValidIn
  <2> QED  BY <1>1, <1>4, <1>6, <2>1 DEF MinOf, MaxOf
<1> HIDE DEF v
<1>8. ValidIn(MergeShifted)  BY <1>3, <1>5, <1>6, <1>7, SetValidDataValid
<1>9. MergeShifted \in Table  BY MergeShiftedProperties DEF SameShape, GoodTable
<1>10. writer' = [MergeShifted EXCEPT !.testdata = MergeBuckets(@)]  BY DEF MergeRecord
<1> QED  BY <1>8, <1>9, <1>10 DEF ValidIn, Table

LEMMA RewriteLiveValid ==
  ASSUME GoodTable(writer), GoodTable(source), next \in DOMAIN source.tests, RewriteLive,
         ValidIn(writer), ValidIn(source), source.num_days <= writer.num_days
  PROVE  ValidIn(writer')
<1>1. /\ writer \in Table /\ writer.tests \in Seq(Test) /\ Len(writer.tests) \in Nat
      /\ DOMAIN writer.tests = 1 .. Len(writer.tests)
      /\ writer.num_days \in Nat \ {0} /\ source.num_days \in Nat \ {0}
      /\ source.tests[next] \in Test
  BY ElementOfSeq DEF GoodTable, Table
<1>2. RewrittenTest \in Test /\ RewrittenTest.valid_data \in 1 .. writer.num_days
  <2>1. source.tests[next].valid_data \in 1 .. source.num_days  BY DEF ValidIn
  <2> QED  BY <1>1, <2>1 DEF RewrittenTest, Test, MaxOf
<1>3. writer'.tests = Append(writer.tests, RewrittenTest) /\ writer'.num_days = writer.num_days
  BY <1>1 DEF RewriteLive, Table
<1>4. /\ DOMAIN writer'.tests = 1 .. Len(writer.tests) + 1
      /\ \A j \in 1 .. Len(writer.tests) : writer'.tests[j] = writer.tests[j]
      /\ writer'.tests[Len(writer.tests) + 1] = RewrittenTest
  BY <1>1, <1>2, <1>3, AppendProperties
<1> SUFFICES ASSUME NEW j \in 1 .. Len(writer.tests) + 1
             PROVE  writer'.tests[j].valid_data \in 1 .. writer.num_days
  BY <1>3, <1>4 DEF ValidIn
<1>5. CASE j \in 1 .. Len(writer.tests)  BY <1>1, <1>4, <1>5 DEF ValidIn
<1>6. CASE j = Len(writer.tests) + 1  BY <1>2, <1>4, <1>6
<1> QED  BY <1>1, <1>5, <1>6

LEMMA InsertsValid ==
  ASSUME IInv, ValidIn(writer), NEW test \in Tests, NEW outcome \in Outcomes,
         \/ InsertNew(test, outcome)
         \/ InsertNewer(test, outcome)
         \/ InsertHistoric(test, outcome)
  PROVE  ValidIn(writer')
<1> DEFINE w == InsertFull(writer, SessionKey(test))
           i == IndexOf(w, SessionKey(test))
<1>1. phase = "session"
  BY DEF InsertNew, InsertNewer, InsertHistoric, Historic
<1>2. GoodTable(writer) /\ SessionKey(test) \in Keys
  <2>1. StateSound(phase, writer, session, source, next, files)  BY IInvIsSound
  <2> QED  BY <2>1 DEF StateSound, SoundTable, SessionKey, Keys, Session
<1>3. /\ GoodTable(w) /\ w \in Table /\ w.num_days = writer.num_days
      /\ w.num_days \in Nat \ {0}
      /\ i \in DOMAIN w.tests /\ session.timestamp \in Nat
      /\ Known(test) => i = KnownIndex(test) /\ KnownLatest(test) \in Nat
      /\ ~ Known(test) => i = Len(writer.tests) + 1
  BY <1>1, InsertTarget DEF GoodTable
<1>4. ValidIn(w)  BY <1>2, InsertFullValid
<1> HIDE DEF w, i
<1>5. CASE InsertNew(test, outcome)
  <2>1. writer' = InsertInto(w, i, 0, session, outcome)
    BY <1>3, <1>5 DEF InsertNew, w
  <2> QED  BY <1>3, <1>4, <2>1, InsertIntoValid
<1>6. CASE InsertNewer(test, outcome)
  <2> DEFINE off == OffsetFromToday(KnownLatest(test), session.timestamp)
             shifted == ShiftRecord(w, i, off)
  <2>1. Known(test) /\ off \in Nat  BY <1>3, <1>6, OffsetIsNatural DEF InsertNewer
  <2>2. writer' = InsertInto(shifted, i, 0, session, outcome)
    BY <1>3, <1>6 DEF InsertNewer, w
  <2> HIDE DEF off
  <2>3. shifted \in Table /\ ValidIn(shifted)
    BY <1>3, <1>4, <2>1, ShiftRecordProperties, ShiftRecordValid DEF SameShape, GoodTable
  <2> HIDE DEF shifted
  <2> QED  BY <2>2, <2>3, InsertIntoValid
<1>7. CASE InsertHistoric(test, outcome)
  <2> DEFINE off == HistoricOffset(test)
             v == HistoricValidData(w.tests[i].valid_data, off)
             valid == [w EXCEPT !.tests[i].valid_data = v]
  <2>1. Known(test) /\ off \in Nat /\ off < writer.num_days
    BY <1>3, <1>7, OffsetIsNatural DEF InsertHistoric, Historic, HistoricOffset
  <2>2. writer' = InsertInto(valid, i, off, session, outcome)
    BY <1>3, <1>7, <2>1 DEF InsertHistoric, w
  <2> HIDE DEF off
  <2>3. v \in 1 .. w.num_days
    <3>1. w.tests[i].valid_data \in 1 .. w.num_days  BY <1>3, <1>4 DEF ValidIn
    <3> QED  BY <1>3, <2>1, <3>1 DEF HistoricValidData, MaxOf
  <2> HIDE DEF v
  <2>4. valid \in Table /\ ValidIn(valid)
    <3>1. v \in Nat  BY <1>3, <2>3
    <3> QED  BY <1>3, <1>4, <2>3, <3>1, SetValidData, SetValidDataValid DEF SameShape, GoodTable
  <2> HIDE DEF valid
  <2> QED  BY <2>2, <2>4, InsertIntoValid
<1> QED  BY <1>5, <1>6, <1>7

LEMMA InitValidInv == Init => ValidInv
<1>1. ValidIn(NoTable)  BY EmptySeq DEF ValidIn, NoTable, NewTable
<1> QED  BY <1>1, EmptySeq DEF Init, ValidInv

LEMMA NextValidInv ==
  ASSUME IInv, ValidInv, Next, ~ Narrows
  PROVE  ValidInv'
<1>1. StateSound(phase, writer, session, source, next, files)  BY IInvIsSound
<1>2. /\ GoodTable(writer) /\ writer \in Table /\ GoodTable(source) /\ source \in Table
      /\ files \in Seq(Table) /\ \A f \in DOMAIN files : GoodTable(files[f]) /\ files[f] \in Table
  BY <1>1 DEF StateSound, SoundTable, GoodTable
<1>3. \A num_days : ValidIn(NewTable(num_days))
  BY EmptySeq DEF ValidIn, NewTable
<1>4. ValidIn(NoTable)  BY <1>3 DEF NoTable
<1>5. \A t \in Table : \A now : ValidIn(t) => ValidIn([t EXCEPT !.timestamp = now])
  BY DEF ValidIn, Table
\* Outside of the loops.
<1>6. ASSUME ValidIn(writer'), source' \in {source, NoTable}, phase' # "rewrite", files' = files
      PROVE  ValidInv'
  BY <1>4, <1>6 DEF ValidInv
\* In the loops, source stays.
<1>7. ASSUME ValidIn(writer'), writer'.num_days = writer.num_days,
             UNCHANGED <<phase, source, files>>
      PROVE  ValidInv'
  BY <1>7 DEF ValidInv
<1>8. ASSUME NEW num_days \in Windows, New(num_days) PROVE ValidInv'
  BY <1>3, <1>6, <1>8 DEF New
<1>9. ASSUME NEW f \in DOMAIN files, NEW now \in ClockTimes, Open(f, now) PROVE ValidInv'
  BY <1>2, <1>5, <1>6, <1>9 DEF Open, Parse, ValidInv
<1>10. CASE Serialize
  <2>1. /\ Len(files') = Len(files) + 1 /\ Len(files) \in Nat /\ DOMAIN files = 1 .. Len(files)
        /\ DOMAIN files' = 1 .. Len(files')
        /\ \A f \in 1 .. Len(files) : files'[f] = files[f]
        /\ files'[Len(files) + 1] = writer
    BY <1>2, <1>10, AppendProperties DEF Serialize
  <2>2. \A f \in DOMAIN files' : f \in 1 .. Len(files) \/ f = Len(files) + 1  BY <2>1
  <2> QED  BY <1>4, <1>10, <2>1, <2>2 DEF Serialize, ValidInv
<1>11. ASSUME NEW timestamp \in Times, NEW commit \in Commits, NEW flags \in FlagSets,
              StartSession(timestamp, commit, flags)
       PROVE  ValidInv'
  BY <1>2, <1>5, <1>6, <1>11 DEF StartSession, ValidInv
<1>12. ASSUME NEW test \in Tests, NEW outcome \in Outcomes,
              \/ InsertNew(test, outcome)
              \/ InsertNewer(test, outcome)
              \/ InsertHistoric(test, outcome)
       PROVE  ValidInv'
  <2>1. ValidIn(writer')  BY <1>12, InsertsValid DEF ValidInv
  <2> QED
    BY <1>6, <1>12, <2>1 DEF InsertNew, InsertNewer, InsertHistoric, Historic, ValidInv
<1>13. ASSUME NEW test \in Tests, InsertExpired(test) PROVE ValidInv'
  <2>1. SessionKey(test) \in Keys
    BY <1>1 DEF StateSound, SessionKey, Keys, Session
  <2>2. ValidIn(writer')
    BY <1>2, <1>13, <2>1, InsertFullValid DEF InsertExpired, ValidInv
  <2> QED  BY <1>6, <1>13, <2>2 DEF InsertExpired, Historic, ValidInv
<1>14. ASSUME NEW f \in DOMAIN files, NEW g \in DOMAIN files, NEW now \in ClockTimes,
              MergeBegin(Parse(files[f], now), Parse(files[g], now))
       PROVE  ValidInv'
  <2> DEFINE a == Parse(files[f], now)
             b == Parse(files[g], now)
  <2>1. ValidIn(a) /\ ValidIn(b) /\ a \in Table /\ b \in Table
    <3>1. now \in Nat  BY ConstantsAssumption
    <3>2. a \in Table /\ b \in Table
      BY <1>1, <3>1, ParseSound DEF StateSound, SoundTable, GoodTable
    <3> QED  BY <1>2, <1>5, <3>2 DEF Parse, ValidInv
  <2>2. /\ writer' = [Larger(a, b) EXCEPT !.timestamp = MaxOf(a.timestamp, b.timestamp)]
        /\ source' = Smaller(a, b) /\ files' = files /\ phase' = "merge"
    BY <1>14 DEF MergeBegin
  <2> HIDE DEF a, b
  <2>3. ValidIn(writer') /\ ValidIn(source')  BY <1>5, <2>1, <2>2, LargerOrSmaller
  <2> QED  BY <2>2, <2>3 DEF ValidInv
<1>15. CASE MergeRecord
  <2>1. next \in DOMAIN source.tests
    BY <1>1, <1>15 DEF StateSound, GoodTable, Table, MergeRecord
  <2>2. MergePre  BY <1>1, <2>1 DEF MergePre, StateSound, SoundTable
  <2>3. ValidIn(writer') /\ writer'.num_days = writer.num_days
    BY <1>15, <2>2, MergeRecordValid, MergeRecordOnly DEF ValidInv, OnlyRecord
  <2> QED  BY <1>7, <1>15, <2>3 DEF MergeRecord
<1>16. CASE MergePanics \/ MergeEnd \/ Unwind
  BY <1>4, <1>6, <1>16 DEF MergePanics, MergeEnd, Unwind, ValidInv
<1>17. ASSUME NEW num_days \in Windows, NEW timestamp \in ClockTimes,
              NEW threshold \in Thresholds \cup {DefaultThreshold},
              \/ RewriteSkip(num_days, timestamp, threshold)
              \/ RewriteBegin(num_days, timestamp, threshold)
       PROVE  ValidInv'
  <2>1. CASE RewriteSkip(num_days, timestamp, threshold)
    BY <1>2, <1>5, <1>6, <2>1 DEF RewriteSkip, ValidInv
  <2>2. CASE RewriteBegin(num_days, timestamp, threshold)
    <3>1. ValidIn(source') /\ source'.num_days = writer.num_days
      BY <1>2, <1>5, <2>2 DEF RewriteBegin, ValidInv, Table
    <3>2. writer'.tests = <<>> /\ writer'.num_days = num_days
      BY <2>2 DEF RewriteBegin, NewTable
    <3>3. ValidIn(writer')  BY <3>2, EmptySeq DEF ValidIn
    <3>4. source'.num_days <= writer'.num_days
      <4>1. source'.num_days \in Nat /\ writer'.num_days \in Nat
        BY <1>2, <3>1, <3>2, ConstantsAssumption DEF Table
      <4> QED  BY <2>2, <4>1 DEF Narrows, RewriteBegin
    <3> QED  BY <2>2, <3>1, <3>3, <3>4 DEF RewriteBegin, ValidInv
  <2> QED  BY <1>17, <2>1, <2>2
<1>18. CASE RewriteDead  BY <1>7, <1>18 DEF RewriteDead, ValidInv
<1>19. CASE RewriteLive
  <2>1. next \in DOMAIN source.tests
    BY <1>1, <1>19 DEF StateSound, GoodTable, Table, RewriteLive
  <2>2. ValidIn(writer') /\ writer'.num_days = writer.num_days
    BY <1>2, <1>19, <2>1, RewriteLiveValid, RewriteLiveOnly DEF RewriteLive, ValidInv, OnlyRecord
  <2> QED  BY <1>7, <1>19, <2>2 DEF RewriteLive
<1>20. CASE RewriteEnd  BY <1>6, <1>20 DEF RewriteEnd, ValidInv
<1> QED
  BY <1>8, <1>9, <1>10, <1>11, <1>12, <1>13, <1>14, <1>15, <1>16, <1>17, <1>18, <1>19, <1>20
  DEF Next

\* As long as no rewrite makes the window smaller, every record's valid_data
\* lies in the record, through insert, merge and rewrite to more days.
THEOREM ValidDataStaysInRecord == Spec /\ [][~ Narrows]_vars => []ValidDataInRecord
<1>1. IInv /\ ValidInv /\ [Next]_vars /\ [~ Narrows]_vars => ValidInv'
  <2> SUFFICES ASSUME IInv, ValidInv, [Next]_vars, [~ Narrows]_vars PROVE ValidInv'
    OBVIOUS
  <2>1. CASE UNCHANGED vars  BY <2>1 DEF vars, ValidInv, ValidIn
  <2>2. CASE Next /\ ~ Narrows  BY <2>2, NextValidInv
  <2>3. CASE Next /\ UNCHANGED vars  BY <2>1, <2>3
  <2> QED  BY <2>1, <2>2, <2>3
<1>2. ValidInv => ValidDataInRecord
  BY DEF ValidInv, ValidDataInRecord, ValidIn, AllTables
<1> QED  BY Invariant, InitValidInv, <1>1, <1>2, PTL DEF Spec
=============================================================================
