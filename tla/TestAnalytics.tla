---------------------------- MODULE TestAnalytics ----------------------------
(***************************************************************************)
(* The test analytics file and its writer: src/binary/writer.rs,           *)
(* src/binary/raw.rs, and parse of src/binary/format.rs.                   *)
(*                                                                         *)
(* A table is the content of a file, of a parsed file and of a writer      *)
(* alike: a sequence of test records and, for each of them, num_days       *)
(* buckets in ONE flat sequence, newest day first.  Offsets into the       *)
(* string table, the flag sets and the commit sets are replaced by what    *)
(* they refer to; durations are left out.                                  *)
(*                                                                         *)
(* The loops of merge and rewrite run one record per action, so that an    *)
(* invariant of the loop is an invariant of the specification.             *)
(*                                                                         *)
(* A definition whose name starts with "Wrong" is a mutation of the one    *)
(* after it, which shows what a property would say of such a mistake.      *)
(***************************************************************************)
EXTENDS Timestamps, FiniteSets

CONSTANTS
  Tests,          \* (testsuite, name) pairs
  FlagSets,       \* the sets of flags an upload may carry
  Commits,        \* commit hashes
  Outcomes,       \* the outcomes that occur, of the four of Outcome
  Times,          \* timestamps of sessions
  ClockTimes,     \* current times passed to parse and rewrite; 0 is "none"
  Windows,        \* the num_days the callers pass
  Thresholds,     \* the garbage thresholds the callers pass
  CounterModulus  \* counters are u16: 65536

ASSUME ConstantsAssumption ==
  /\ Outcomes \subseteq {"Pass", "Skip", "Error", "Failure"}
  /\ Commits # {} /\ FlagSets # {}
  /\ Times \subseteq Nat
  /\ ClockTimes \subseteq Nat
  /\ Windows \subseteq Nat \ {0}
  /\ CounterModulus \in Nat \ {0, 1}

VARIABLES
  phase,    \* what the one thread that owns the writer is doing
  writer,   \* the TestAnalyticsWriter
  session,  \* the open InsertSession
  source,   \* the records a merge or a rewrite still goes through
  next,     \* the index of the next of them
  files     \* the serialized files

vars == <<phase, writer, session, source, next, files>>

-----------------------------------------------------------------------------
Keys == [test: Tests, flags: FlagSets]

Counters == {"pass", "fail", "skip", "flaky_fail"}

CounterOf(outcome) ==
  CASE outcome = "Skip" -> "skip"
    [] outcome = "Pass" -> "pass"
    [] outcome \in {"Error", "Failure"} -> "fail"

TestData == [last_timestamp: Nat, counts: [Counters -> Nat],
             failing_commits: SUBSET Commits]

NoData == [last_timestamp |-> 0, counts |-> [c \in Counters |-> 0],
           failing_commits |-> {}]

Test == [key: Keys, valid_data: Nat]

Table == [num_days: Nat \ {0}, timestamp: Nat, tests: Seq(Test),
          testdata: Seq(TestData)]

NewTable(num_days) ==
  [num_days |-> num_days, timestamp |-> 0, tests |-> <<>>, testdata |-> <<>>]

NoTable == NewTable(1)

Session == [timestamp: Nat, commit: Commits, flags: FlagSets]

NoSession == [timestamp |-> 0, commit |-> CHOOSE c \in Commits : TRUE,
              flags |-> CHOOSE f \in FlagSets : TRUE]

-----------------------------------------------------------------------------
(* Operators on tables. *)

KeysOf(t) == {t.tests[i].key : i \in DOMAIN t.tests}

IndexOf(t, key) == CHOOSE i \in DOMAIN t.tests : t.tests[i].key = key

RecordRange(t, i) == [start |-> (i - 1) * t.num_days, end |-> i * t.num_days]

\* The timestamp of the newest bucket of record i.
Latest(t, i) == t.testdata[RecordRange(t, i).start + 1].last_timestamp

Resize(data, len) ==
  [i \in 1 .. len |-> IF i <= Len(data) THEN data[i] ELSE NoData]

WrongInsertFullAppends(t, key) ==
  [t EXCEPT !.tests = Append(t.tests, [key |-> key, valid_data |-> 1]),
            !.testdata = Resize(t.testdata, (Len(t.tests) + 1) * t.num_days)]

\* insert_full of a fresh record, and resize_with when the key is new.  When
\* it is not, the stored record is replaced: its valid_data is 1 again.
InsertFull(t, key) ==
  IF key \in KeysOf(t)
  THEN [t EXCEPT !.tests[IndexOf(t, key)] = [key |-> key, valid_data |-> 1]]
  ELSE [t EXCEPT !.tests = Append(t.tests, [key |-> key, valid_data |-> 1]),
                 !.testdata = Resize(t.testdata, (Len(t.tests) + 1) * t.num_days)]

WrongExtendUncapped(valid_data, off, num_days) == valid_data + off
WrongExtendShrinks(valid_data, off, num_days) == MinOf(valid_data - off, num_days)

ExtendValidData(valid_data, off, num_days) == MinOf(valid_data + off, num_days)

WrongShiftToTheEnd(t, i, off) ==
  [t EXCEPT !.testdata = ShiftData(t.testdata,
                                   [start |-> RecordRange(t, i).start, end |-> Len(t.testdata)],
                                   off, NoData),
            !.tests[i].valid_data = ExtendValidData(t.tests[i].valid_data, off, t.num_days)]

\* Makes room for off newer days in record i.
ShiftRecord(t, i, off) ==
  [t EXCEPT !.testdata = ShiftData(t.testdata, RecordRange(t, i), off, NoData),
            !.tests[i].valid_data = ExtendValidData(t.tests[i].valid_data, off, t.num_days)]

WrongHistoricOffByOne(valid_data, off) == MaxOf(valid_data, off)

HistoricValidData(valid_data, off) == MaxOf(valid_data, 1 + off)

\* Counts one run in a bucket.  now is the timestamp of the writer, which may
\* be newer than the one of the session.
CountRun(data, now, outcome, commit) ==
  [last_timestamp |-> MaxOf(data.last_timestamp, now),
   counts |-> [data.counts EXCEPT ![CounterOf(outcome)] = (@ + 1) % CounterModulus],
   failing_commits |-> IF CounterOf(outcome) = "fail"
                       THEN data.failing_commits \cup {commit}
                       ELSE data.failing_commits]

\* Counts a run of the session s in bucket j (0 is the newest) of record i.
InsertInto(t, i, j, s, outcome) ==
  [t EXCEPT !.testdata[RecordRange(t, i).start + j + 1] =
              CountRun(@, t.timestamp, outcome, s.commit)]

WrongMergeReplaces(larger, smaller) ==
  [larger EXCEPT !.counts = smaller.counts,
                 !.failing_commits = @ \cup smaller.failing_commits]

WrongMergeForgetsCommits(larger, smaller) ==
  [last_timestamp |-> MaxOf(larger.last_timestamp, smaller.last_timestamp),
   counts |-> [c \in Counters |->
                 (larger.counts[c] + smaller.counts[c]) % CounterModulus],
   failing_commits |-> larger.failing_commits]

\* What merge makes of two buckets of the same day.
MergeData(larger, smaller) ==
  [last_timestamp |-> MaxOf(larger.last_timestamp, smaller.last_timestamp),
   counts |-> [c \in Counters |->
                 (larger.counts[c] + smaller.counts[c]) % CounterModulus],
   failing_commits |-> larger.failing_commits \cup smaller.failing_commits]

IsLive(t, i, now, num_days) == OffsetFromToday(Latest(t, i), now) < num_days

-----------------------------------------------------------------------------
(* Opening and closing writers. *)

New(num_days) ==
  /\ phase = "none"
  /\ phase' = "idle"
  /\ writer' = NewTable(num_days)
  /\ UNCHANGED <<session, source, next, files>>

\* TestAnalytics::parse of a file.
Parse(file, now) == [file EXCEPT !.timestamp = MaxOf(now, file.timestamp)]

\* parse and from_existing_format.
Open(f, now) ==
  /\ phase = "none"
  /\ phase' = "idle"
  /\ writer' = Parse(files[f], now)
  /\ UNCHANGED <<session, source, next, files>>

Ready == phase \in {"idle", "session"}

\* serialize consumes the writer.
Serialize ==
  /\ Ready
  /\ files' = Append(files, writer)
  /\ phase' = "none"
  /\ writer' = NoTable
  /\ session' = NoSession
  /\ UNCHANGED <<source, next>>

-----------------------------------------------------------------------------
(* Inserting test runs. *)

StartSession(timestamp, commit, flags) ==
  /\ Ready
  /\ phase' = "session"
  /\ writer' = [writer EXCEPT !.timestamp = MaxOf(writer.timestamp, timestamp)]
  /\ session' = [timestamp |-> timestamp, commit |-> commit, flags |-> flags]
  /\ UNCHANGED <<source, next, files>>

SessionKey(test) == [test |-> test, flags |-> session.flags]

\* The index of an already known test of the session, and how far the session
\* is from its newest bucket.
Known(test) == SessionKey(test) \in KeysOf(writer)
KnownIndex(test) == IndexOf(writer, SessionKey(test))
KnownLatest(test) == Latest(writer, KnownIndex(test))

InsertNew(test, outcome) ==
  /\ phase = "session"
  /\ ~ Known(test)
  /\ writer' = InsertInto(InsertFull(writer, SessionKey(test)),
                          Len(writer.tests) + 1, 0, session, outcome)
  /\ UNCHANGED <<phase, session, source, next, files>>

InsertNewer(test, outcome) ==
  /\ phase = "session"
  /\ Known(test)
  /\ KnownLatest(test) < session.timestamp
  /\ LET i == KnownIndex(test)
         off == OffsetFromToday(KnownLatest(test), session.timestamp)
         shifted == ShiftRecord(InsertFull(writer, SessionKey(test)), i, off)
     IN writer' = InsertInto(shifted, i, 0, session, outcome)
  /\ UNCHANGED <<phase, session, source, next, files>>

\* How many days the session is older than the newest bucket of the test.
HistoricOffset(test) == OffsetFromToday(session.timestamp, KnownLatest(test))

Historic(test) ==
  /\ phase = "session"
  /\ Known(test)
  /\ KnownLatest(test) >= session.timestamp

InsertHistoric(test, outcome) ==
  /\ Historic(test)
  /\ HistoricOffset(test) < writer.num_days
  /\ LET i == KnownIndex(test)
         off == HistoricOffset(test)
         replaced == InsertFull(writer, SessionKey(test))
         valid == [replaced EXCEPT !.tests[i].valid_data = HistoricValidData(@, off)]
     IN writer' = InsertInto(valid, i, off, session, outcome)
  /\ UNCHANGED <<phase, session, source, next, files>>

\* The run is too old to be counted; the record has been replaced before the
\* early return.
InsertExpired(test) ==
  /\ Historic(test)
  /\ HistoricOffset(test) >= writer.num_days
  /\ writer' = InsertFull(writer, SessionKey(test))
  /\ UNCHANGED <<phase, session, source, next, files>>

-----------------------------------------------------------------------------
(* merge *)

\* (b.num_days, b.num_tests) > (a.num_tests, a.num_tests), as tuples.
SecondIsLarger(a, b) ==
  \/ b.num_days > Len(a.tests)
  \/ b.num_days = Len(a.tests) /\ Len(b.tests) > Len(a.tests)

Larger(a, b) == IF SecondIsLarger(a, b) THEN b ELSE a
Smaller(a, b) == IF SecondIsLarger(a, b) THEN a ELSE b

WrongMergeTimestamp(a, b) ==
  /\ phase = "none"
  /\ phase' = "merge"
  /\ writer' = Larger(a, b)
  /\ source' = Smaller(a, b)
  /\ next' = 1
  /\ UNCHANGED <<session, files>>

MergeBegin(a, b) ==
  /\ phase = "none"
  /\ phase' = "merge"
  /\ writer' = [Larger(a, b) EXCEPT !.timestamp = MaxOf(a.timestamp, b.timestamp)]
  /\ source' = Smaller(a, b)
  /\ next' = 1
  /\ UNCHANGED <<session, files>>

\* The record the loop is at, and where it is (or will be) in the writer.
MergeKey == source.tests[next].key
MergeTarget == InsertFull(writer, MergeKey)
MergeIndex == IndexOf(MergeTarget, MergeKey)

SmallerLatest == Latest(source, next)
LargerLatest == IF MergeKey \in KeysOf(writer)
                THEN Latest(writer, MergeIndex)
                ELSE SmallerLatest

SmallerIsNewer == SmallerLatest > LargerLatest

MergeOffset == IF SmallerIsNewer
               THEN OffsetFromToday(LargerLatest, SmallerLatest)
               ELSE OffsetFromToday(SmallerLatest, LargerLatest)

\* The buckets of the smaller file that are merged, and where they go: both
\* branches of the code select with the same offset.
MergeFrom == AdjustSelectionRange(RecordRange(source, next),
                                  [start |-> 0, end |-> writer.num_days],
                                  MergeOffset)
WrongMergeToNewest ==
  LET start == RecordRange(writer, MergeIndex).start
  IN [start |-> start, end |-> start + (MergeFrom.end - MergeFrom.start)]

MergeTo ==
  LET start == RecordRange(writer, MergeIndex).start
                 + (IF SmallerIsNewer THEN 0 ELSE MergeOffset)
  IN [start |-> start, end |-> start + (MergeFrom.end - MergeFrom.start)]

\* The writer before its buckets are merged, valid_data included.
MergeShifted ==
  LET shifted == IF SmallerIsNewer
                 THEN ShiftRecord(MergeTarget, MergeIndex, MergeOffset)
                 ELSE MergeTarget
      covered == MergeTo.end - RecordRange(writer, MergeIndex).start
  IN [shifted EXCEPT !.tests[MergeIndex].valid_data =
                       MinOf(MaxOf(@, covered), writer.num_days)]

MergeBuckets(data) ==
  [i \in DOMAIN data |->
     IF i \in Indices(MergeTo)
     THEN MergeData(data[i], source.testdata[i - MergeTo.start + MergeFrom.start])
     ELSE data[i]]

MergeRecord ==
  /\ phase = "merge"
  /\ next <= Len(source.tests)
  /\ MergeTo.end <= Len(MergeTarget.testdata)
  /\ writer' = [MergeShifted EXCEPT !.testdata = MergeBuckets(@)]
  /\ next' = next + 1
  /\ UNCHANGED <<phase, session, source, files>>

\* &mut writer.testdata[larger_range] is out of range.
MergePanics ==
  /\ phase = "merge"
  /\ next <= Len(source.tests)
  /\ MergeTo.end > Len(MergeTarget.testdata)
  /\ phase' = "panicked"
  /\ UNCHANGED <<writer, session, source, next, files>>

\* The panic unwinds: the half merged writer is dropped, the files are not
\* touched.
Unwind ==
  /\ phase = "panicked"
  /\ phase' = "none"
  /\ writer' = NoTable
  /\ source' = NoTable
  /\ next' = 1
  /\ UNCHANGED <<session, files>>

MergeEnd ==
  /\ phase = "merge"
  /\ next > Len(source.tests)
  /\ phase' = "idle"
  /\ source' = NoTable
  /\ next' = 1
  /\ UNCHANGED <<writer, session, files>>

-----------------------------------------------------------------------------
(* rewrite *)

DeadRecords(t, now, num_days) ==
  {i \in DOMAIN t.tests : ~ IsLive(t, i, now, num_days)}

NeedsRewrite(num_days, now, threshold) ==
  \/ num_days # writer.num_days
  \/ Cardinality(DeadRecords(writer, now, num_days)) > threshold

DefaultThreshold == Len(writer.tests) \div 4

RewriteSkip(num_days, timestamp, threshold) ==
  LET now == MaxOf(writer.timestamp, timestamp)
  IN /\ Ready
     /\ ~ NeedsRewrite(num_days, now, threshold)
     /\ phase' = "idle"
     /\ writer' = [writer EXCEPT !.timestamp = now]
     /\ session' = NoSession
     /\ UNCHANGED <<source, next, files>>

\* The tables are taken out of the writer before the loop fills it again.
RewriteBegin(num_days, timestamp, threshold) ==
  LET now == MaxOf(writer.timestamp, timestamp)
  IN /\ Ready
     /\ NeedsRewrite(num_days, now, threshold)
     /\ phase' = "rewrite"
     /\ writer' = [NewTable(num_days) EXCEPT !.timestamp = now]
     /\ source' = [writer EXCEPT !.timestamp = now]
     /\ next' = 1
     /\ session' = NoSession
     /\ UNCHANGED files

RewriteDead ==
  /\ phase = "rewrite"
  /\ next <= Len(source.tests)
  /\ ~ IsLive(source, next, writer.timestamp, writer.num_days)
  /\ next' = next + 1
  /\ UNCHANGED <<phase, writer, session, source, files>>

WrongRewriteKeyOneFlagSet ==
  LET old == source.tests[next]
  IN [key |-> [old.key EXCEPT !.flags = source.tests[1].key.flags],
      valid_data |-> MaxOf(old.valid_data, source.num_days)]

\* The record that the loop inserts: max, and with the old number of days.
RewrittenTest ==
  LET old == source.tests[next]
  IN [key |-> old.key, valid_data |-> MaxOf(old.valid_data, source.num_days)]

WrongKeptOldest ==
  LET end == RecordRange(source, next).end
      overlap == MinOf(source.num_days, writer.num_days)
  IN SubSeq(source.testdata, end - overlap + 1, end)

\* The buckets of the record that both windows have.
KeptBuckets ==
  LET start == RecordRange(source, next).start
      overlap == MinOf(source.num_days, writer.num_days)
  IN SubSeq(source.testdata, start + 1, start + overlap)

WrongRewriteNotResized == writer.testdata \o KeptBuckets

RewrittenData ==
  Resize(writer.testdata \o KeptBuckets, (Len(writer.tests) + 1) * writer.num_days)

RewriteLive ==
  /\ phase = "rewrite"
  /\ next <= Len(source.tests)
  /\ IsLive(source, next, writer.timestamp, writer.num_days)
  /\ writer' = [writer EXCEPT !.tests = Append(@, RewrittenTest), !.testdata = RewrittenData]
  /\ next' = next + 1
  /\ UNCHANGED <<phase, session, source, files>>

RewriteEnd ==
  /\ phase = "rewrite"
  /\ next > Len(source.tests)
  /\ phase' = "idle"
  /\ source' = NoTable
  /\ next' = 1
  /\ UNCHANGED <<writer, session, files>>

-----------------------------------------------------------------------------
Init ==
  /\ phase = "none"
  /\ writer = NoTable
  /\ session = NoSession
  /\ source = NoTable
  /\ next = 1
  /\ files = <<>>

Next ==
  \/ \E num_days \in Windows : New(num_days)
  \/ \E f \in DOMAIN files, now \in ClockTimes : Open(f, now)
  \/ Serialize
  \/ \E timestamp \in Times, commit \in Commits, flags \in FlagSets :
       StartSession(timestamp, commit, flags)
  \/ \E test \in Tests, outcome \in Outcomes :
       \/ InsertNew(test, outcome)
       \/ InsertNewer(test, outcome)
       \/ InsertHistoric(test, outcome)
  \/ \E test \in Tests : InsertExpired(test)
  \/ \E f, g \in DOMAIN files, now \in ClockTimes :
       MergeBegin(Parse(files[f], now), Parse(files[g], now))
  \/ MergeRecord
  \/ MergePanics
  \/ MergeEnd
  \/ Unwind
  \/ \E num_days \in Windows, timestamp \in ClockTimes,
        threshold \in Thresholds \cup {DefaultThreshold} :
       \/ RewriteSkip(num_days, timestamp, threshold)
       \/ RewriteBegin(num_days, timestamp, threshold)
  \/ RewriteDead
  \/ RewriteLive
  \/ RewriteEnd

Spec == Init /\ [][Next]_vars

-----------------------------------------------------------------------------
(* Invariants. *)

Phases == {"none", "idle", "session", "merge", "rewrite", "panicked"}

\* The types of the variables.
TypeOK ==
  /\ phase \in Phases
  /\ writer \in Table
  /\ session \in Session
  /\ source \in Table
  /\ next \in Nat \ {0}
  /\ files \in Seq(Table)

\* Every table the program holds.
AllTables == {writer, source} \cup {files[f] : f \in DOMAIN files}

\* Every record has exactly num_days buckets in the flat testdata, so that the
\* index arithmetic idx * num_days of insert, merge, rewrite and tests() meets
\* the buckets of the record it means.
BucketsLaidOut(t) == Len(t.testdata) = Len(t.tests) * t.num_days
Layout == \A t \in AllTables : BucketsLaidOut(t)

\* No two records of a table have the same test and flags.
UniqueKeys(t) ==
  \A i, j \in DOMAIN t.tests : t.tests[i].key = t.tests[j].key => i = j
KeysUnique == \A t \in AllTables : UniqueKeys(t)

\* What the assertion in the loop of rewrite needs: the record it is about to
\* insert is not in the rewritten table yet (assert!(replaced.is_none())).
RewriteNeverReplaces ==
  phase = "rewrite" =>
    \A i \in next .. Len(source.tests) : source.tests[i].key \notin KeysOf(writer)

\* No bucket is newer than its table, and no session newer than the writer, so
\* the unsigned subtraction of offset_from_today never wraps around in insert,
\* merge, rewrite or tests().
NoneAfter(t, now) ==
  \A b \in DOMAIN t.testdata : t.testdata[b].last_timestamp <= now
ClockBound ==
  /\ NoneAfter(writer, writer.timestamp)
  /\ NoneAfter(source, writer.timestamp)
  /\ \A f \in DOMAIN files : NoneAfter(files[f], files[f].timestamp)
  /\ phase = "session" => session.timestamp <= writer.timestamp

\* A bucket names failing commits exactly when it counts failures, and never
\* more commits than failures: append_intersection and the counters are kept
\* in step by insert, merge and rewrite while no counter wraps around.
CommitsMatchFailures ==
  \A t \in AllTables : \A b \in DOMAIN t.testdata :
    LET data == t.testdata[b]
    IN /\ data.counts["fail"] = 0 <=> data.failing_commits = {}
       /\ Cardinality(data.failing_commits) <= data.counts["fail"]

\* raw.rs calls valid_data "the number of valid data entries" of a record that
\* has num_days of them.
ValidDataInRecord ==
  \A t \in AllTables : \A i \in DOMAIN t.tests :
    t.tests[i].valid_data \in 1 .. t.num_days

\* A record never moves, and one step of insert or of the loops changes at
\* most one record: its shifts, its resizes and its merged ranges leave the
\* buckets of all the other records of the flat testdata alone.
SameRecord(i) ==
  /\ writer'.tests[i] = writer.tests[i]
  /\ \A b \in Indices(RecordRange(writer, i)) :
       writer'.testdata[b] = writer.testdata[b]
OneRecordChanges ==
  \E i \in 0 .. Len(writer.tests) :
    \A j \in DOMAIN writer.tests \ {i} : SameRecord(j)
KeepsRecordsApart ==
  /\ Len(writer'.tests) >= Len(writer.tests)
  /\ \A i \in DOMAIN writer.tests : writer'.tests[i].key = writer.tests[i].key
  /\ OneRecordChanges
RecordsApart ==
  [][(phase' = phase /\ phase \in {"session", "merge", "rewrite"})
       => KeepsRecordsApart]_vars
=============================================================================
