-------------------------- MODULE AggregationReader --------------------------
(***************************************************************************)
(* What a parsed file reports: tests() and Aggregates::from_data of        *)
(* src/binary/format.rs, as AggregationReader of src/binary/bindings.rs    *)
(* calls them.  Operators only: reading changes nothing.                   *)
(***************************************************************************)
EXTENDS TestAnalytics, FiniteSetsExt

WrongTodayOfTheHeader(file, i, now, desired_range) ==
  LET start == RecordRange(file, i).start
      data_range == [start |-> start, end |-> start + file.tests[i].valid_data]
  IN AdjustSelectionRange(data_range, desired_range,
                          OffsetFromToday(Latest(file, i), file.timestamp))

\* The buckets of record i that tests() selects for the days of desired_range
\* before `now`.
ReadRange(file, i, now, desired_range) ==
  LET start == RecordRange(file, i).start
      data_range == [start |-> start, end |-> start + file.tests[i].valid_data]
      today == Parse(file, now).timestamp
  IN AdjustSelectionRange(data_range, desired_range,
                          OffsetFromToday(Latest(file, i), today))

\* The argument flags: Option<&[&str]>, as a set with at most one element.
MatchesFlags(file, i, flags) ==
  \A some \in flags : file.tests[i].key.flags \cap some # {}

\* The records for which tests() yields an item.
Yielded(file, now, desired_range, flags) ==
  {i \in DOMAIN file.tests :
     /\ MatchesFlags(file, i, flags)
     /\ LET r == ReadRange(file, i, now, desired_range) IN r.start < r.end}

\* The slice &self.testdata[adjusted_range] is out of range.
ReadPanics(file, i, now, desired_range) ==
  ReadRange(file, i, now, desired_range).end > Len(file.testdata)

\* The sums are on u32, which a few u16 counters cannot overflow.
Aggregate(file, i, now, desired_range) ==
  LET read == Indices(ReadRange(file, i, now, desired_range))
  IN [totals |-> [c \in Counters |->
                    MapThenSumSet(LAMBDA b : file.testdata[b].counts[c], read)],
      failing_commits |-> UNION {file.testdata[b].failing_commits : b \in read}]
=============================================================================
