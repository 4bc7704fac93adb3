# Verification of test-results-parser

`test-results-parser` is a Rust library with Python bindings.  It does two
things for a service that collects test results: it turns uploaded JUnit XML
into test runs (`parse_raw_upload`), and it keeps, per repository, a binary
*test analytics* file in which the runs of each test are counted by day
(`src/binary`).  The file is read, changed and written over and over for months;
a wrong bucket in it is never noticed and never repaired.  That file, its writer
and its reader are the core of this project.

Everything here is checked by TLC on small instances; the theorems listed below
are proved by TLAPS for every value of the constants.

## Inventory

| component | source | state | operations | what makes it correct |
|---|---|---|---|---|
| day arithmetic | `binary/timestamps.rs` | none | `offset_from_today`, `shift_data`, `adjust_selection_range` | shifting and selecting mean the same days; nothing wraps around |
| writer | `binary/writer.rs`, `raw.rs` | number of days, timestamp, records, one flat vector of buckets | `new`, `from_existing_format`, `start_session`, `insert`, `merge`, `rewrite`, `serialize` | every run of the window is counted once, on its day, in its own record; the layout of the vector |
| reader | `binary/format.rs`, `error.rs` | the borrowed file; the set of failing commits that an iterator reuses | `parse`, `tests`, `Aggregates::from_data` | what it reports is what was inserted for the days asked for; a cut file is refused; no test gets the commits of another |
| interning tables | `binary/flags_set.rs`, `commithashes_set.rs`, external `watto` | strings, flag sets and commit sets by offset | `insert`, `load`, `resolve`, `append_intersection`, `read` | an offset keeps its meaning; equal sets have equal offsets |
| Python classes | `binary/bindings.rs` | `Option` of a writer; a buffer and a parsed file | `open`, `add_testruns`, `serialize`, `get_test_aggregates` | a consumed writer is never used again |
| JUnit parser | `junit.rs` | open test case, stacks of suites, flags, framework | one per XML event | a test case becomes one run with its own outcome and message |
| evals properties | `junit.rs` (`parse_property_element`) | the JSON value of the open test case | one per `property` element | the value does not depend on the parts made on the way: a property is at its place or refused |
| upload parser | `raw_upload.rs`, `warning.rs` | results so far | one per file, `format_warnings` | all files or an error; warnings at their positions |
| test runs | `testrun.rs`, `validated_string.rs` | none | framework detection, conversions | first match wins; strings of at most 1000 bytes |
| computed names | `compute_name.rs` | none | `compute_name` | longest path of the network that is a prefix of the class name |
| failure messages | `failure_message.rs`, template | none | `build_message`, `shorten_file_paths` | three failures; a fence longer than any in the message |

The components interact by calls only.  Python calls the parser, and hands the
runs it gets to `BinaryFormatWriter.add_testruns`; the writer calls the day
arithmetic and the interning tables; `serialize` makes a file that a later
process opens with `parse`, for another writer, a merge or a reader.  There are
no threads, no callbacks and no asynchronous calls.  What is hard is

- *order*: sessions arrive out of order, so a run may be newer or older than
  anything stored for its test, and the clock of a reader, of a session and of
  a file are three different ones;
- *long sequences*: a file goes through sessions, garbage collection, changes
  of its window and merges, and each operation relies on what all the earlier
  ones left (layout, unique records, `valid_data`, timestamps);
- *index arithmetic*: all records share one flat vector of buckets and one wrong
  stride or range changes another test;
- *limits*: u16 counters, unsigned subtractions, offsets as long as the window;
- *failures in the middle*: of `merge` and `rewrite`, of a file that is written
  section by section, of a property that is applied part by part.

`PROJECT.json` lists these hazards at their lines.

## Modules

| module | what it is |
|---|---|
| `Timestamps` | the functions of `timestamps.rs`, as operators |
| `DaysPassing` | one record that is shifted and read as days pass |
| `TestAnalytics` | the writer and the files: one action per operation, and per record in the loops of `merge` and `rewrite` |
| `AggregationReader` | what the reader reports for a file, as operators |
| `RunHistory` | the writer composed with a history of the runs it was given |
| `FailingTests` | what the interning tables are for, without tables: a map from tests and flags to failing commits |
| `InternedTables` | the same writer as `TestAnalytics`, with its tables of strings, flag sets and commit sets; implements `FailingTests` |
| `JUnit` | `use_reader`: one action per XML event it handles |
| `JUnitDocument` | the parser beside the document it reads, as a tree |
| `RawUpload` | `parse_raw_upload`: the loop over files, composed with the parser |
| `WarningPositions` | `format_warnings` and `get_position_info` |
| `EvalValues` | what evals properties are for: a map from places to strings |
| `EvalsProperties` | `parse_property_element`, part by part of a name; implements `EvalValues` |
| `AnalyticsFile` | the sections of a file: `serialize` into a sink that may fail, and `parse` with its errors |
| `TestAggregates` | one call of `get_test_aggregates`, with the set its tests share and the errors that end it |
| `ComputedNames` | `compute_name`, with the loop over the prefixes of a class name |
| `FailureMessages` | `build_message`, with the loop over the characters of a message |
| `MCRunHistory`, `MCInternedTables`, `MCJUnit`, `MCRawUpload`, `MCWarningPositions` | small instances for TLC |
| `MCParts` | small instances of the parts that compute something on their own |
| `TimestampsProofs`, `TestAnalyticsProofs`, `RunHistoryProofs`, `ReaderProofs` (for the sums of `RunHistory` and `AggregationReader`), `EvalsPropertiesProofs`, `InterningProofs` (for `InternedTables`), `UploadProofs` (for `JUnitDocument` and `RawUpload`), `PartsProofs` (for `DaysPassing`, `AnalyticsFile`, `TestAggregates`, `ComputedNames`, `FailureMessages` and `WarningPositions`) | theorems |

### How the model relates to the code

`TestAnalytics` has one value for the content of a writer, of a parsed file and
of a file: a *table*, with `num_days`, `timestamp`, the sequence `tests` of
records and the sequence `testdata` of buckets.  `tests` is the `IndexMap`,
which is iterated by index; `testdata` is the flat vector, in which record *i*
(from 1) has the buckets `(i-1) * num_days + 1 .. i * num_days`, the newest day
first.  Index arithmetic is kept as it is in the code.  Ranges are Rust ranges,
zero-based with the end excluded, and are turned into sequence indices in one
place (`Indices`).

- `writer` is the `TestAnalyticsWriter`, `session` the `InsertSession` that
  borrows it, `files` everything serialized so far.  `phase` says which call is
  running: `"none"` is a process without a writer, `"idle"` and `"session"` are
  between two calls, `"merge"` and `"rewrite"` are inside a loop, `"panicked"`
  is a call that panicked and has not unwound yet.
- `insert` has four actions, one per way through the function: `InsertNew`,
  `InsertNewer`, `InsertHistoric` and `InsertExpired` (the early return, which
  comes after the record has been replaced).
- `merge` is `MergeBegin`, then `MergeRecord` for each record of the smaller
  file, then `MergeEnd`; `MergePanics` is the slice `writer.testdata[larger_range]`
  out of range, and `Unwind` drops the writer.  `source` holds the smaller file
  and `next` the index of the loop.
- `rewrite` is `RewriteSkip` when it returns `false`, and otherwise
  `RewriteBegin`, then `RewriteDead` or `RewriteLive` for each record, then
  `RewriteEnd`.  `source` holds the tables that were taken out of the writer.
- `Open`, `MergeBegin` and the reader use `Parse`, which is `parse` on a file
  that the program has written: its timestamp is the later of the header's and
  the caller's.  `MergeBegin` gives both files the same current time; only the
  maximum of the two timestamps is used.
- The offsets of strings, flag sets and commit sets are replaced by what they
  refer to.  This is sound as long as the interning tables keep the meaning of
  an offset and give equal sets equal offsets, which is what `InternedTables`
  is about.
- u16 counters wrap at `CounterModulus`, as they do in a release build (a debug
  build panics).  `total_flaky_fail_count` is merged and reported but no code
  ever increments it; the model keeps it for that reason.
- Durations, rates and averages are floating point numbers and are left out.

`RunHistory` adds what the code does not keep: for each table, how many runs of
each test were reported for each day and with which failing commits.  Two sets
exempt tests from some properties, because the code is known (see *Findings*)
not to treat them as one would expect: `late` has the tests with a run that
`insert` dates by the writer although its session was of an earlier day, `shed`
the tests of which `merge` has left out days, or of which a growing `rewrite`
cannot have them.  The exemptions are computed from the reported runs and the
offset, not from the outcome, so that they do not hide anything else.

`InternedTables` is the same writer seen from the other side: no days and no
counters, one bucket per record, and all the tables.  Strings are numbers, so
that they have the order in which `FlagsSet` sorts them; an offset is a position
in a table.  `flags_table` keeps the layout of the code, a length followed by
that many string offsets, and `flags_map` is the index that `load` makes again
from it.  `MergeFlags` takes the flag sets of the smaller file one by one in any
order, because the code iterates over a `HashMap`.  The offsets of the flag sets in a
table are the positions that the walk of `load` reaches; the walk is stated as the
smallest set that has 0 and, with a position, the one after its entry.  `FailingTests`
knows neither tables nor offsets: the refinement mapping (`Known`, `Pending`, `Saved`)
resolves every offset of a record through the tables, so an offset that loses its
meaning anywhere is a step that the abstract writer cannot take.

`JUnit` is `use_reader` on the events of quick_xml.  quick_xml is external: it
checks that end tags match (`Closes`), accepts a document that ends too early
(`Eof` at any time) and may fail at any event (`Malformed`, which stands for the
errors of `get_attribute` too).  `status` is what the call has returned, or
`"reading"`; a failed call drops all its variables.  The constant `Nesting` says
which elements occur in which, so that a run can look at one part of the parser
in depth; `junit_nesting` allows nearly everything, test cases inside of test
cases and failures outside of them included.  `JUnitDocument` builds the document
as a tree of frames and reads the meaning of a test case off the tree when the
element is closed.  A test case inside another one is not compared with the tree:
it replaces the outer one.  `NoTestcaseLost` compares the runs with the test cases
that have ended at every event, whatever the nesting: one run each, in order, with its
own name and the suite and time around it; a call that replaced a test case fails.  `FollowsSchema` is the nesting JUnit's schema allows: outcomes are leaves
of test cases, and test cases and suites are in suites or alone.

`RawUpload` runs the parser for each file of an upload.  Decoding base64 and
decompressing are one outcome, `Data`; the readable file is the order of its
files.  `WarningPositions` is `format_warnings`, with one action per warning; a
byte is a newline or not, and `u64` wraps at `U64`, as in a release build (a debug
build panics).

`EvalsProperties` is the code that `JUnit` treats as one step with an outcome.  The
`serde_json::Value` is `existing`, a function from places to nodes, and the mutable
reference that walks down into it is the place `current`.  A step enters one part of
the name and makes the node that is missing there, as `entry().or_insert_with()` and
`resize` do, before it is known whether the rest of the name can be followed.
`EvalValues` has only the strings: the refinement mapping hides the containers, so
that what a refused property leaves behind must be a stuttering step, and an accepted
one must change one place and what was below it.  `NumberOf` is `str::parse`, which
reads `0` and `00` as the same index.

`AnalyticsFile` keeps of each section the range of its bytes.  `SinkFails` ends
`serialize` after any number of bytes, and `parse` is given what there is then; or the
whole file, with something after it.  A buffer may also be unaligned, or no such file
or one of another version.  Bytes that are changed inside of a file are not
considered: there is no checksum and the code makes no promise about them.

`TestAggregates` is the loop of `get_test_aggregates` over the lazy iterator.  It is
about the set of failing commits: each test's `from_data` fills it and clears it again,
unless it fails before that (`BucketFails`), which is why it matters that the caller
stops (`call`).  What the sums and the selection of buckets are is
`AggregationReader`'s part.

In `ComputedNames` a class name is the sequence of its parts between dots and a path
that of its parts between slashes, so `Prefix` is `path_from_classname`; a name is
kept as the path, the classes and the separator that it is printed with.  In
`FailureMessages` a message is a sequence of characters of which one is the backtick.
`SeeBacktick` and `SeeOther` are the body of `longest_repeated_substring`, and
`Render` is the condition of the template.  `failed` is what a caller passes for a
payload that includes every failure.

## Runs

All runs check for deadlock, except `parts` and `single_failure`, in which functions
return.  `DAY` is 2 seconds in the runs of `MCRunHistory`.

| run | question |
|---|---|
| `sessions` | Does a window of two days keep every run, whatever the order of sessions, with files, reopening and garbage collection in between?  Does the reader report exactly the runs of the days asked for, for every interval and every current time? |
| `merge` | Does a merge of any two files of up to three runs invent and lose nothing, leave other records alone, and keep commits and clock in order? |
| `resize` | The same for `rewrite` between windows of one and two days and two flag sets, one a part of the other, and for counters that wrap around. |
| `interning` | Does every set of flags, however it is spelled, keep one offset in memory, after loading, merging and rewriting; does `rewrite` leave only what is used; and do two files with different tables, merged either way, still refer to the right tests, flags and commits (`FailingTests`)? |
| `junit_documents` | Does each run have the outcome and message of its own elements and the suite and time around it, and is one framework found and kept? |
| `junit_nesting` | With elements nested in any way: is there one run for each test case that has ended, in order and with its own name, suite and time; do stacks and flags follow the open elements, are warnings in order? |
| `upload` | Is each result about its own file, is an upload all or nothing, and does every call return? |
| `parts` | Do `shift_data` and `adjust_selection_range` agree on what a day is?  Are one and two warnings placed at their line and column?  Is the longest path of the repository found in a class name?  Do evals properties make one JSON value, and the one that `EvalValues` promises?  Is a fence longer than any run of backticks?  Is a cut file refused, and a whole one read as it was written?  Does each answer have its own commits? |

| violated run | what the run shows |
|---|---|
| `hidden_data` | an insert into a known test hides its older buckets from the reader |
| `merge_panic` | a merge of files further apart than the window panics |
| `third_warning` | the third warning of a file is placed elsewhere |
| `single_failure` | one failed test is reported as "All tests successful" |

### Bounds, and why they are enough

- `DAY`: 2 seconds, so that two different times may be of the same day
  (`SameDayTimes`), or 86400 in `parts`, where no time occurs.
- `Windows`: one and two days.  Two is the smallest window with an inner and an
  outer edge: data that stays, data that moves and data that falls out.
- `Times`: three or four, over three to five days.  `DayTimes` are successive
  days; in `FarTimes` the last is further away than a window, and 0 is also the
  timestamp of an empty bucket.
- `Tests`, `FlagSets`: two records in all, so that one has the other next to it
  in the flat vector, on either side.
- `Commits`: one, or two in `interning`; a set of commits is only ever united
  with another.
- `MaxInserts`: 2 or 3 runs in a behaviour.  Three runs are enough for a file
  with two records, or two days, to be merged with another, and for a known
  test to be inserted into again after its window has moved.
- `MaxFiles`: one or two files in a behaviour; with one, it may be opened again
  as often as one likes; merge needs two at most.
- `Thresholds`: 0, besides the default of the code, which is 0 for tables of
  fewer than four records.
- `CounterModulus`: the real 65536 where wrapping is not the question; 3 in
  `resize`, where a file merged with itself and inserted into again reaches it.
- `MaxInserts` and `MaxFiles` 2 in `interning`: two runs make two flag sets, two
  tests or a commit set that grows, and no session starts after them.
  `SpelledFlags` has one set in two spellings and a part of it; in `SwappedTests`
  names, suites and flags share strings.
- `MaxEvents`: 6 events per document, 4 in `upload`.  Six are a `testsuites` with
  two nested suites, a test case in them and its end, and one that comes after; or
  two test cases, the first with a failure, its text and a second outcome.
- `AnyNesting`, in `junit_nesting`: test cases, failures, properties and other elements
  in one another, suites in suites and errors in test cases and failures, so both flags
  may be set and stacks grow; `testsuites`, which has no part in its properties, is left
  to `junit_documents`.  Other nestings and longer documents are the theorems' part.
- `Attrs`, `SuiteNames`, `SuiteTimes`, `Messages`: one value of each kind that the
  parser tells apart, and two names, so that an inner suite differs from an outer
  one.
- `MaxUpload`: two files, the first of which may leave something to the second.
- `Inputs`: all files of at most five bytes; `MaxWarnings`: 2, or 3 in
  `third_warning`; `U64`: 2^20, because only being larger than any file matters.
- `Buckets`, `MaxOffset`: 5 and 7, so that records of every
  length at every place have offsets inside, at and beyond their end.
- A behaviour of `MCParts` is one of one part while the others are idle.  The parts
  share no state, so nothing is lost by that, and one run is enough for them.
- `Classnames`: up to three parts of two kinds; `Networks`: every set of five paths, of
  which up to three fit one class name.
- `Paths`: ten, with lists at the end, in the middle and in each other, indices with a
  gap, in two spellings and of another kind, and places below places of other paths;
  `MaxProperties` 3: one to make something, one to meet it, one to see what is left
  (1 in `single_failure`, which does not ask about properties).
- `MaxFailures` 4, one more than is shown; `Durations`: two and NaN, so that there are
  ties.  `Traces`: with the longest run of backticks last, and before a shorter one.
- `Lengths` 0 and 2, so that each table may be empty; the sink fails at every byte.
  `Trailing`: one byte.
- `MaxTests` and `MaxSelected` 2 and two commits: the second bucket of a test and the
  second test meet what the first left in the set (0 in `single_failure`).

## Findings

`PROJECT.json` quotes the lines.  `insert` resets `valid_data` to 1 for a known
test, so buckets that hold data are not reported any more (`hidden_data`).
`merge` panics for files that are further apart than the window (`merge_panic`);
it is not reachable from the Python classes and concerns users of the Rust crate.
`format_warnings` adds up the locations of warnings instead of keeping the last
one, so the third warning of a file is placed wrongly (`third_warning`); the test
file has two.  The template of failure messages takes its branch for failures when
there is more than one, so that a payload with one failed test says that all were
successful (`single_failure`).

Eight more things a reader of the code should know, all but the last of
which the model reproduces; where a property has to except them, it does so by name:

- A new or newer bucket gets the timestamp of the writer, which is the latest
  session it has seen (`writer.rs:79`): the first run of a test in a session of
  yesterday, after one of today, is counted today.  Such tests are in `late`.
- When the smaller file of a merge has the newer data of a test, its buckets are
  selected with `today_offset` although the writer has been shifted by it already
  (`writer.rs:268`): its oldest days are left out.  Such tests are in `shed`.
- `merge` compares the number of days of one file with the number of tests of the
  other (`writer.rs:193`), so the larger file may be merged into the smaller.
- After `rewrite` to fewer days, `valid_data` is at least the old number of days
  (`writer.rs:400`), more than the record has buckets.  `ValidDataInRecord` is
  therefore checked for one size of window only.
- A failure whose duration is not a number makes `build_message` panic as soon as it
  is sorted with another (`failure_message.rs:103`, `SortPanics`).
- `from_data` returns before it clears the set of commits when a set cannot be read
  (`format.rs:232`).  The Python class stops there; a Rust caller that goes on with the
  iterator counts those commits for the next test.
- `parse_property_element` looks only at the beginning of a name (`junit.rs:200`): a
  property `evalsuite.a` is put at the same place as `evals.a`.
- The fence of a message is measured before `escape_message` takes out carriage
  returns (`failure_message.rs:116`), which may join two runs of backticks.

## Fairness

Of the writer none is assumed: every operation is a call that some client makes,
or does not make, and its properties are safety properties.  `FairSpecU` of
`RawUpload` assumes weak fairness of `Running`, what a call of `parse_raw_upload`
does next once it has begun: the call is sequential and waits for nothing.  It is
not assumed that anyone calls.  `CallReturns` then says that the loops over files
and events end.

## Proofs

Every theorem holds for all values of the constants that satisfy these assumptions,
which TLC evaluates in the runs; that a set is finite is assumed only of times.

- `ConstantsAssumption` (`TestAnalytics`): times are natural numbers, windows are not
  empty, there is a commit and a flag set, and a counter can hold more than 0 and 1;
  `DayAssumption`: a day has a positive number of seconds.  `HistoryAssumption`
  (`RunHistory`): there are finitely many times, which are `u32` in the code; only the
  sums over days need it.
- `TestsAssumption`, `FlagListsAssumption`, `MaxInsertsAssumption` (`InternedTables`):
  strings are numbers, so that they have an order.
- `NestingAssumption`, `AttrsAssumption`, `NoneAssumption`, `SkippedAssumption`,
  `MaxEventsAssumption` (`JUnit`): the nesting is one of the elements the parser knows,
  attributes are of their type, and what stands for nothing is no value.
  `UploadAssumption` (`RawUpload`): the number of files is a natural number.
- `InputsAssumption`, `U64Assumption`, `BoundsAssumption`, `ClassnamesAssumption`,
  `NotComputedAssumption`, `DurationsAssumption`, `TracesAssumption`,
  `LengthsAssumption`, `AggregatesAssumption` and the five of
  `EvalsProperties` type the inputs of the other parts; a file is shorter than 2^64.

Where a theorem needs more than that of a behaviour, its statement says so:
`FailuresFit`, `Narrows`, `CountersSuffice` and `FollowsSchema` below.

### The writer

`TestAnalyticsProofs` proves `Spec => []IInv` with

    IInv == TypeOK /\ Layout /\ KeysUnique /\ ClockBound /\ RewriteNeverReplaces /\ SourceIdle

The parts need each other.  `Layout` needs types.  `ClockBound`, that no
timestamp is ever subtracted from an older one, makes the offsets natural
numbers, which the shifts and ranges need for `TypeOK`.  `KeysUnique` is what
`RewriteNeverReplaces`, the assertion in the loop of `rewrite`, follows from: the
records still to come have keys that none of the records before them has.
`SourceIdle`, that `source` is empty outside of the loops, is the strengthening
no property asks for: without it a new writer, whose timestamp is 0, would be
older than the buckets of a source that was left behind, and `ClockBound` would
not be inductive.  `GoodTable` and `SoundTable` collect what `IInv` says of one
table; each operator on tables has a lemma that it keeps them, each action a
lemma that it keeps `IInv`, and `NextIInv` puts them together.

Three properties follow with `IInv`:

- `RecordsApart` (`RecordsStayApart`).  `OnlyRecord(w, t, i)` says that `w` is `t` with
  records added at its end and record `i` changed at most; it is transitive, each
  operator on tables satisfies it for the record it is called for, and record
  ranges are disjoint by `Layout`.
- `CommitsMatchFailures` (`CommitsAlwaysMatchFailures`), for the behaviours in which
  `FailuresFit` always holds: there is room in the `u16` of every bucket for one
  more failure, and for those of a bucket of the file that is merged.  Without it
  the property is wrong: 65536 failures are counted as none, and their commits stay.
  The invariant is that of every bucket of the writer, the source and the files.
- `ValidDataInRecord` (`ValidDataStaysInRecord`), for the behaviours without a step that
  `Narrows` the window: see *Findings* for what such a `rewrite` does.

### The writer and its history

`RunHistoryProofs` shows that `RunHistory` implements `TestAnalytics`
(`HistoryWatches`), which carries `IInv` over to the specification that the runs
check, and then proves what the file is for.  The inductive invariant,
`HistoryInv` (`AccountsKept`), is an account for each test and day:

- what a table says of a test on a day, its bucket of that day (`StoredOn`), together
  with what is still to come, `Pending`, is at most what was told, unless the test is
  in `late`;
- it is exactly that, modulo the width of a counter, if the day is in the window and
  the test neither in `late` nor in `shed`;
- the same holds of every file and the history it was written with.

`Pending` is the bucket of the source of a `merge` or `rewrite` whose record the loop
has not reached, and nothing otherwise: it makes the account hold in the middle of the
loops, where neither table has everything.  The lemmas say for every way through
`insert`, for a merged and a kept record, and for a change of the timestamp or of the
window, which bucket is of which day afterwards and what is added to it.
`NothingIsInvented` and `NothingIsForgotten` are the two halves of the account between
the calls.

`NewRunsAreVisible` proves the action property `NewRunsVisible`: a run that is counted on
the day of its session is at once in a bucket that `valid_data` reaches.
`InsertsLatest` and `InsertsValidData` say what the newest bucket and `valid_data` of
the record are after each of the four inserts.

### Sums, and the reader

`CountedOnce`, `ReaderSound` and `ReaderComplete` compare sums over buckets with sums over
days.  `MapThenSumSet` picks one element after the other with `CHOOSE`, so even that a
sum is a number, or that a new element adds its value, needs an induction.  The
library's induction theorems take an operator, but `WFMin` and
`FS_StrictSubsetOrderingWellFounded` do not:
`ReaderProofs` gets from them that a set of subsets of a finite set has a smallest one
(`SmallestSubset`), and proves about sums by looking at a smallest counterexample.  The
existence of the function that `CHOOSE` picks is an induction on the size of the subsets
(`SumsExist`).  What the rest uses is `SumMoved`: if part of a set can be
moved, one to one, to places of another set with values that are at least as large, and
the rest of it counts nothing, then the sum of the first is at most that of the second.

`TotalsInv` (`TotalsKept`) is the inductive invariant behind `CountedOnce`.  It is not an
account by days, because late tests are counted on another day than they were told of:

- what the buckets of a test's record count in the writer, together with those of a record
  of the source that the loop has not reached, is at most what was told of the test on all
  days together;
- the same holds of every file and its history.

An insert adds one on both sides (a counter that wraps makes the left side smaller); a
shift or a narrower window moves buckets and drops some; a merge adds buckets of the
source to those of the same age in the writer, and they are no longer pending.

For the reader, `ReadsByAge` says which bucket of a record is read: one that
`valid_data` reaches and whose age is asked for, whatever the offset to the current time,
and so for an empty interval too.  `ReaderIsSound` moves every bucket that is read to its
day, where `HistoryInv` says that it holds no more than was told; `ReaderIsComplete` moves
every day that is asked for to its bucket, which holds what was told because
the day is in the window of the file.  A bucket that is not read has no counts, as the
record hides nothing; that it has no commits either needs one more invariant of the
histories, `CommitsAllTold`: a commit is only told with a failure.  Both theorems are about
behaviours without a step that `Narrows` the window, after which `valid_data` reaches into
the next record (see *Findings*); completeness also needs `CountersSuffice`, that
no test has more runs of one outcome on a day than a `u16` can count.

### The interning tables

`InterningProofs` is about `InternedTables`.  `Sound(t)` says that the tables of a writer
or a file belong together: no string, set or record occurs twice, the empty set of
commits is first, the index of the flag sets is the one of the flat table, its keys are
sorted and each refers to strings, and so do the records.  `Extends(t, u)` says that
what an offset means in `t`, it means in `u`.  Each `insert` of a table has a lemma that it
keeps `Sound` and extends what was there (`FlagsInsert`, `Added`).  The invariant

    TablesInv == Scalars /\ AllSound /\ InSession /\ SameFlags /\ AtRest /\ Collected

adds that the session has an offset of its own writer, that `mapping` takes an offset of
the smaller file to one with the same flags (`SameFlags`), and what a half-done
`rewrite` has built: nothing that is not part of a record (`Collected`).  The last needs
that each record of the writer means what a record before `next` meant; as meanings
are unique, `rewrite` never finds the record it is adding, so no set of commits is ever
replaced, and none becomes garbage.  From `TablesInv` follow the five invariants that the
run `interning` checks.

`TablesImplementFailingTests` is the refinement `Spec => Abstract!Spec`, action by action:

| `InternedTables` | `FailingTests` |
|---|---|
| `New`, `DropWriter` | `Forget` |
| `Open` | `Open` |
| `StartSession`, `EndSession`, `MergeFlags` | a stuttering step |
| `Insert` | `Run` |
| `Serialize` | `Save` |
| `MergeBegin`, `RewriteBegin` | the same |
| `MergeRecord`, `RewriteLive` | `CarryOver` of the meaning of record `next` |
| `RewriteDead` | `Drop` |
| `LoopEnd` | `Finish` |

### The parsers

`UploadProofs` proves `SpecD => []DocumentInv` for every `Nesting`.  `DocumentInv` relates
the parser to the document read so far: the tree has the open elements and their
attributes (`Mirror`), the stacks have the names and times of the open suites, in order
(`Stacked`), the saved test run belongs to the innermost open test case (`Saved`), a flag is
only set inside an element of its kind (`Flags`), and there are as many runs as test cases
that ended (`SameLength`).  `TypeOK` with the heights of the stacks,
`FlagsMatchElements` and `WarningsOrdered` follow for any document.

`NoTestcaseLost` says more than that the numbers agree and needs an invariant of its own,
`GivenInv`: the saved run has the name, suite and time of the innermost open test case
(`SavedGiven`), so that the run saved at an end tag is the one that the document asks for
there.  When a test case is opened, `Stacked` says that the tops of the stacks are what
the frames around it give it; when one is closed while another is open, nothing is saved
any more, and the call fails at the next end of a test case.

`RunsMatchDocument` and `OneFramework` are proved from `FollowsSchema`.  Without it they are
wrong, and not in the model only: after a failure inside of another failure the text
that follows the inner one is lost, and a `testsuites` inside of a test case replaces the
framework (`junit.rs:410`) after the name of that test case has been computed.  `SchemaInv` adds where elements may be open
(`Leaves`), that a flag is set exactly while the last open element is of its kind
(`FlagsExact`), and that the saved run says what the document says of its test case so
far (`SavedMatches`); it is a theorem too, `ParserFollowsSchema`.  In other documents
`FlagsMatchElements` is all there is: a flag is reset by the end of an inner failure
while the outer one is still open.  The runs `junit_documents` and `upload` use nestings that follow the
schema; `junit_nesting` does not, and checks the other four properties.

For an upload, `UploadInv` adds that the results are those of the first files, each of
which could be read (`Collected`), and that the parser is at work on the next one
(`Progress`).  `UploadsAreAllOrNothing` holds of any documents; `FilesStayApart`, that
each result is that of its document alone, again of those that follow the schema.

### The other parts

`PartsProofs` proves the two properties that `parts` checks of the day
arithmetic for records of any size, from the bounds lemma `SelectionInData` and the
main theorem `SelectionIsByDay` of `TimestampsProofs`.  A third, `ShiftsAlwaysAddUp`, that
shifting a few days at a time is the same as all at once, is proved and not run.

It proves that up to two warnings are placed correctly in
files of any length.  The strengthening `PInv` says where the iterator stands and
that `offset` equals the last location as long as fewer than two warnings are
formatted; that part is what fails for the third.

`EvalsPropertiesProofs` proves `OneDocument` and the refinement `SpecEvals =>
Promised!Spec` for any paths and values.  The inductive invariant adds to `OneDocument`
where the parser stands: `current` is a place in the value, its steps are the parts of
the name that are done, and every node on the way down to it is a container.  From that
follow the two facts the refinement needs: the walk ends at `Place(path)` if no string
is in the way, and it is refused exactly when `Accepts` is false.  `pending` in
`EvalValues` is mapped to the property that is being parsed, so accepting or refusing is
the last step of the walk.

`PartsProofs` also proves `ParsedAsWritten` and `AnswersApart`.  For a file the invariant says
that the header is the one of the tables as soon as a section is written, that `Claimed`
is then `Size` for every section, that sections are contiguous, and that a sink which
failed is shorter than the section that is missing; so the sections taken are a prefix of
those written, and a missing one does not fit.  For the answers it says that the shared
set is that of the buckets read so far of the current test, and empty between tests.

It proves `LongestPathFound`, whose invariant is that no longer prefix is
a path of the repository, and `FencesHold`.  The invariant of the loop, `Scan`, says that
the current run goes back to a character that is no backtick, and that `max_length` is
the length of some run and not less than that of any.

### What the properties do not say

- Late tests (`writer.rs:79`) are exempt from `NothingInvented`, `NothingForgotten`,
  `ReaderSound` and `ReaderComplete`: that their runs are counted once is checked
  (`CountedOnce`), on which day is not.  Tests in `shed` are exempt from
  `NothingForgotten` and `ReaderComplete`.
- `NothingForgotten` compares counts modulo the counter and `CountedOnce` is an upper
  bound, so neither refutes that a `u16` wraps to 0 (`writer.rs:85`); no line of the
  repository says how many runs of a day must be counted.
- What replacing a record does to the data it had (`writer.rs:39`, and before the early
  return at `writer.rs:67`) is seen by `NoDataHidden` alone, which the code violates;
  `ReaderComplete` excepts records that hide data.
- `ValidDataInRecord`, and with it the reader, is for windows that do not get smaller.
- `OneFramework` is about the runs since the last `testsuites`, and lets those before the
  first that tells the framework be computed without one, as the code does.

### Only model-checked

Every safety property of the runs that pass is also a theorem, under the hypotheses named
above, and so are the two refinements.  `CallReturns` stays with TLC: it is a liveness
property, and its proof would need `ENABLED`.  The violations are counterexamples, which
only TLC finds.

## Plan

Done are all modules of the table above.  What remains, in this order:

1. An abstract specification of counts by test and day that `RunHistory`
   implements for the behaviours without merges.
2. A `rewrite` that fails in its loop, on a file with references that lead nowhere.

## Not modelled

- `escape_message` and the regular expression of `shorten_file_paths`, formatting, the
  text of the template besides its condition, and conversions to and from Python:
  character processing without state.
- The search for the name of a framework in a string, and XML escapes in names.
- The decoding of a commit hash in `add_testruns`, which fails before anything is
  changed, and calls of a writer that `serialize` has consumed, which return an error
  and do nothing else.
- Durations, averages and rates in the analytics file: floating point numbers.
- Bytes changed inside of a file, and a `rewrite` or `merge` over such a file.
- A Rust caller of the reader that goes on after an error; the Python class does not.
- The Python package, which registers functions, and the benchmarks.

The table in `PROJECT.json` gives the reason for each component.
