----------------------------- MODULE RunHistory -----------------------------
(***************************************************************************)
(* The writer composed with a history of the runs it was given.            *)
(*                                                                         *)
(* Every table carries the runs that went into it, by test and by the day  *)
(* of the session that reported them.  The history is what the buckets of  *)
(* the table should say; the invariants compare the two.                   *)
(***************************************************************************)
EXTENDS AggregationReader

CONSTANTS
  MaxInserts,   \* bound on the runs inserted in a behaviour
  MaxFiles      \* bound on the files serialized in a behaviour

\* A timestamp is a u32.
ASSUME HistoryAssumption == IsFiniteSet(Times) /\ IsFiniteSet(ClockTimes)

VARIABLES
  history,      \* the history of the writer
  histories,    \* the histories of the files
  inserts       \* the runs inserted so far

hvars == <<vars, history, histories, inserts>>

Days == {Day(t) : t \in {0} \cup Times \cup ClockTimes}

NoRuns == [counts |-> [c \in Counters |-> 0], failing_commits |-> {}]

(***************************************************************************)
(* runs   what was reported, by test and day.                              *)
(* late   tests with a run that the code dates by the writer although its  *)
(*        session was of an earlier day (writer.rs:60 and 79).             *)
(* shed   tests of which merge or a growing rewrite has left out days that *)
(*        are inside the window of the table (writer.rs:268).              *)
(***************************************************************************)
NoHistory == [runs |-> [k \in Keys |-> [d \in Days |-> NoRuns]],
              late |-> {}, shed |-> {}]

Reported(h, key, day, outcome, commit) ==
  LET c == CounterOf(outcome)
  IN [h EXCEPT !.runs[key][day].counts[c] = @ + 1,
               !.runs[key][day].failing_commits =
                  IF c = "fail" THEN @ \cup {commit} ELSE @]

Combined(h, g) ==
  [runs |-> [k \in Keys |-> [d \in Days |->
              [counts |-> [c \in Counters |-> h.runs[k][d].counts[c] + g.runs[k][d].counts[c]],
               failing_commits |-> h.runs[k][d].failing_commits
                                     \cup g.runs[k][d].failing_commits]]],
   late |-> h.late \cup g.late,
   shed |-> h.shed \cup g.shed]

-----------------------------------------------------------------------------
NewH(num_days) == New(num_days) /\ history' = NoHistory /\ UNCHANGED <<histories, inserts>>

OpenH(f, now) == Open(f, now) /\ history' = histories[f] /\ UNCHANGED <<histories, inserts>>

SerializeH ==
  /\ Len(files) < MaxFiles
  /\ Serialize
  /\ histories' = Append(histories, history)
  /\ history' = NoHistory
  /\ UNCHANGED inserts

StartSessionH(timestamp, commit, flags) ==
  /\ inserts < MaxInserts
  /\ StartSession(timestamp, commit, flags)
  /\ UNCHANGED <<history, histories, inserts>>

\* A run counted in the newest bucket makes the test late when the writer is
\* already on a later day than the session.
Report(test, outcome, newest) ==
  LET key == SessionKey(test)
      told == Reported(history, key, Day(session.timestamp), outcome, session.commit)
      late == newest /\ Day(session.timestamp) < Day(writer.timestamp)
  IN /\ inserts < MaxInserts
     /\ inserts' = inserts + 1
     /\ history' = [told EXCEPT !.late = IF late THEN @ \cup {key} ELSE @]
     /\ UNCHANGED histories

InsertNewH(test, outcome) == InsertNew(test, outcome) /\ Report(test, outcome, TRUE)
InsertNewerH(test, outcome) == InsertNewer(test, outcome) /\ Report(test, outcome, TRUE)
InsertHistoricH(test, outcome) ==
  InsertHistoric(test, outcome) /\ Report(test, outcome, HistoricOffset(test) = 0)
InsertExpiredH(test, outcome) == InsertExpired(test) /\ Report(test, outcome, FALSE)

MergeBeginH(f, g, now) ==
  LET a == Parse(files[f], now)
      b == Parse(files[g], now)
      both == Combined(histories[f], histories[g])
  IN /\ MergeBegin(a, b)
     /\ history' = IF Smaller(a, b).num_days < Larger(a, b).num_days
                   THEN [both EXCEPT !.shed = Keys]
                   ELSE both
     /\ UNCHANGED <<histories, inserts>>

MergeRecordH ==
  /\ MergeRecord
  /\ history' = IF SmallerIsNewer /\ MergeOffset > 0
                THEN [history EXCEPT !.shed = @ \cup {MergeKey}]
                ELSE history
  /\ UNCHANGED <<histories, inserts>>

RewriteBeginH(num_days, timestamp, threshold) ==
  /\ RewriteBegin(num_days, timestamp, threshold)
  /\ history' = IF num_days > writer.num_days
                THEN [history EXCEPT !.shed = Keys]
                ELSE history
  /\ UNCHANGED <<histories, inserts>>

UnwindH == Unwind /\ history' = NoHistory /\ UNCHANGED <<histories, inserts>>

\* The other steps leave the history alone.
StepH(A) == A /\ UNCHANGED <<history, histories, inserts>>

InitH ==
  /\ Init
  /\ history = NoHistory
  /\ histories = <<>>
  /\ inserts = 0

NextH ==
  \/ \E num_days \in Windows : NewH(num_days)
  \/ \E f \in DOMAIN files, now \in ClockTimes : OpenH(f, now)
  \/ SerializeH
  \/ \E timestamp \in Times, commit \in Commits, flags \in FlagSets :
       StartSessionH(timestamp, commit, flags)
  \/ \E test \in Tests, outcome \in Outcomes :
       \/ InsertNewH(test, outcome)
       \/ InsertNewerH(test, outcome)
       \/ InsertHistoricH(test, outcome)
       \/ InsertExpiredH(test, outcome)
  \/ \E f, g \in DOMAIN files, now \in ClockTimes : MergeBeginH(f, g, now)
  \/ MergeRecordH
  \/ StepH(MergePanics)
  \/ StepH(MergeEnd)
  \/ UnwindH
  \/ \E num_days \in Windows, timestamp \in ClockTimes,
        threshold \in Thresholds \cup {DefaultThreshold} :
       \/ StepH(RewriteSkip(num_days, timestamp, threshold))
       \/ RewriteBeginH(num_days, timestamp, threshold)
  \/ StepH(RewriteDead)
  \/ StepH(RewriteLive)
  \/ StepH(RewriteEnd)

SpecH == InitH /\ [][NextH]_hvars

-----------------------------------------------------------------------------
(* What a table says of a test on a day, and what is true. *)

StoredOn(t, key, day) ==
  IF key \notin KeysOf(t) THEN NoData
  ELSE LET i == IndexOf(t, key)
           age == Day(Latest(t, i)) - day
       IN IF age \in 0 .. t.num_days - 1
          THEN t.testdata[RecordRange(t, i).start + age + 1]
          ELSE NoData

\* The days a table has buckets for, counted from its own timestamp.
Window(t) == {d \in Days : Day(t.timestamp) - d < t.num_days}

\* A bucket never counts more runs of a day than were reported for it, nor a
\* commit that did not fail on it, whatever order sessions, files and merges
\* come in (insert and merge of writer.rs).  Late tests are exempt: their runs
\* are counted on another day.
InventsNothing(t, h) ==
  \A key \in Keys \ h.late, day \in Days :
    LET stored == StoredOn(t, key, day)
        told == h.runs[key][day]
    IN /\ \A c \in Counters : stored.counts[c] <= told.counts[c]
       /\ stored.failing_commits \subseteq told.failing_commits
NothingInvented == InventsNothing(writer, history)

\* Every run reported for a day inside the window is counted on that day, the
\* commits that failed included: garbage collection, historic inserts, round
\* trips through a file and the merges that shed nothing lose none of it.
ForgetsNothing(t, h) ==
  \A key \in Keys \ (h.late \cup h.shed), day \in Window(t) :
    LET stored == StoredOn(t, key, day)
        told == h.runs[key][day]
    IN /\ \A c \in Counters : stored.counts[c] = told.counts[c] % CounterModulus
       /\ stored.failing_commits = told.failing_commits
NothingForgotten == Ready => ForgetsNothing(writer, history)

\* Even for late tests a run is counted at most once: the buckets of a record
\* together count no more than the runs that were ever reported for it.
CountsOnce(t, h) ==
  \A i \in DOMAIN t.tests, c \in Counters :
    MapThenSumSet(LAMBDA b : t.testdata[b].counts[c], Indices(RecordRange(t, i)))
      <= MapThenSumSet(LAMBDA d : h.runs[t.tests[i].key][d].counts[c], Days)
CountedOnce == CountsOnce(writer, history)

\* What get_test_aggregates reports for an interval of a file never panics and
\* never counts a run, or a failing commit, of a day outside that interval.
ReadsSoundly(file, h, now) ==
  LET today == Day(Parse(file, now).timestamp)
  IN \A s \in 0 .. file.num_days, e \in 1 .. file.num_days + 1 :
       LET want == [start |-> s, end |-> e]
           asked == {d \in Days : today - d \in s .. e - 1}
       IN \A i \in Yielded(file, now, want, {}) :
            LET key == file.tests[i].key
                told == h.runs[key]
                answer == Aggregate(file, i, now, want)
            IN /\ ~ ReadPanics(file, i, now, want)
               /\ key \notin h.late =>
                    /\ \A c \in Counters :
                         answer.totals[c] <= MapThenSumSet(LAMBDA d : told[d].counts[c], asked)
                    /\ answer.failing_commits \subseteq
                         UNION {told[d].failing_commits : d \in asked}
ReaderSound ==
  phase = "none" /\ files # <<>> =>
    \A now \in Times \cup ClockTimes :
      ReadsSoundly(files[Len(files)], histories[Len(files)], now)

\* Some bucket of record i holds runs although valid_data does not reach it.
HidesData(t, i) ==
  \E j \in 0 .. t.num_days - 1 :
    /\ j >= t.tests[i].valid_data
    /\ t.testdata[RecordRange(t, i).start + j + 1].counts # NoData.counts

\* As long as nothing of a record is hidden, get_test_aggregates reports every
\* run of the days asked for, whatever the interval and the current time.
ReadsCompletely(file, h, now) ==
  LET today == Day(Parse(file, now).timestamp)
  IN \A i \in DOMAIN file.tests :
       LET key == file.tests[i].key
           told == h.runs[key]
       IN key \notin h.late \cup h.shed /\ ~ HidesData(file, i) =>
            \A s, e \in 0 .. file.num_days :
              LET want == [start |-> s, end |-> e]
                  asked == {d \in Days : today - d \in s .. e - 1}
                  answer == Aggregate(file, i, now, want)
              IN /\ \A c \in Counters :
                      answer.totals[c] = MapThenSumSet(LAMBDA d : told[d].counts[c], asked)
                 /\ answer.failing_commits = UNION {told[d].failing_commits : d \in asked}
ReaderComplete ==
  phase = "none" /\ files # <<>> =>
    \A now \in Times \cup ClockTimes :
      ReadsCompletely(files[Len(files)], histories[Len(files)], now)

\* A run that insert has counted can be read: valid_data of its record reaches
\* the bucket of its day, even when the record has just been replaced.
CountedVisibly(key) ==
  LET i == IndexOf(writer', key)
      age == OffsetFromToday(session.timestamp, Latest(writer', i))
  IN age < writer'.num_days => age < writer'.tests[i].valid_data
NewRunsVisible ==
  [][\A key \in Keys \ history'.late :
       inserts' > inserts /\ history'.runs[key] # history.runs[key]
         => CountedVisibly(key)]_hvars

-----------------------------------------------------------------------------
(* What the code's documentation and comments say, and the code does not do. *)

\* raw.rs calls valid_data the number of valid data entries: none of them
\* should be hidden from tests().
NoDataHidden == Ready => \A i \in DOMAIN writer.tests : ~ HidesData(writer, i)

\* merge is documented to return the merged writer, or an error.
MergeNeverPanics == phase # "panicked"
=============================================================================
