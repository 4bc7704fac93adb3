---------------------------- MODULE TestAggregates ----------------------------
(***************************************************************************)
(* One call of get_test_aggregates: the lazy iterator of tests() with the  *)
(* set of commits that it keeps from one test to the next, from_data and   *)
(* its errors, and the caller that stops at the first error.  One bucket   *)
(* per action.                                                             *)
(*                                                                         *)
(* A test is given by the buckets that the interval selects of it, and a   *)
(* bucket by the commits in its set, readable if the offset of the set     *)
(* leads anywhere.  The sums are in AggregationReader.                     *)
(***************************************************************************)
EXTENDS Naturals, Sequences, FiniteSets

CONSTANTS
  Hashes,        \* commit hashes
  MaxTests,      \* bounds on the tests of a file and the buckets selected
  MaxSelected

ASSUME AggregatesAssumption == IsFiniteSet(Hashes) /\ MaxTests \in Nat /\ MaxSelected \in Nat

Bucket == {b \in [readable: BOOLEAN, failing_commits: SUBSET Hashes] :
             b.readable \/ b.failing_commits = {}}

\* matches: one of the flags asked for is among the flags of the test.
\* resolves: its name, suite and flags can be read.
Entries == [matches: BOOLEAN, resolves: BOOLEAN,
            data: UNION {[1 .. n -> Bucket] : n \in 0 .. MaxSelected}]

VARIABLES
  entries,               \* the tests of the file
  call,                  \* "iterating", "returned" or "failed"
  entry,                 \* how many of the entries are done
  bucket,                \* how many buckets of the next one are read
  all_failing_commits,   \* the set that from_data is given
  collected_tests        \* the tests in the answer

aggregate_vars == <<entries, call, entry, bucket, all_failing_commits, collected_tests>>

InitAggregates ==
  /\ entries \in UNION {[1 .. n -> Entries] : n \in 0 .. MaxTests}
  /\ call = "iterating"
  /\ entry = 0
  /\ bucket = 0
  /\ all_failing_commits = {}
  /\ collected_tests = <<>>

-----------------------------------------------------------------------------
Test == entries[entry + 1]

\* The closure of filter_map returns None.
Selected(test) == test.matches /\ test.data # <<>>

Iterating == call = "iterating" /\ entry < Len(entries)

SkipTest ==
  /\ Iterating
  /\ ~ Selected(Test)
  /\ entry' = entry + 1
  /\ UNCHANGED <<entries, call, bucket, all_failing_commits, collected_tests>>

ReadBucket ==
  /\ Iterating
  /\ Selected(Test)
  /\ bucket < Len(Test.data)
  /\ Test.data[bucket + 1].readable
  /\ all_failing_commits' = all_failing_commits \cup Test.data[bucket + 1].failing_commits
  /\ bucket' = bucket + 1
  /\ UNCHANGED <<entries, call, entry, collected_tests>>

\* from_data returns before it clears the set.
BucketFails ==
  /\ Iterating
  /\ Selected(Test)
  /\ bucket < Len(Test.data)
  /\ ~ Test.data[bucket + 1].readable
  /\ call' = "failed"
  /\ UNCHANGED <<entries, entry, bucket, all_failing_commits, collected_tests>>

FromDataDone ==
  /\ Iterating
  /\ Selected(Test)
  /\ bucket = Len(Test.data)
  /\ UNCHANGED entries

\* Mutant: the set is not cleared.
WrongCollect ==
  /\ FromDataDone
  /\ Test.resolves
  /\ collected_tests' =
       Append(collected_tests,
              [entry |-> entry + 1, failing_commits |-> Cardinality(all_failing_commits)])
  /\ entry' = entry + 1
  /\ bucket' = 0
  /\ UNCHANGED <<call, all_failing_commits>>

Collect ==
  /\ FromDataDone
  /\ Test.resolves
  /\ collected_tests' =
       Append(collected_tests,
              [entry |-> entry + 1, failing_commits |-> Cardinality(all_failing_commits)])
  /\ all_failing_commits' = {}
  /\ entry' = entry + 1
  /\ bucket' = 0
  /\ UNCHANGED call

Unresolved ==
  /\ FromDataDone
  /\ ~ Test.resolves
  /\ all_failing_commits' = {}
  /\ call' = "failed"
  /\ UNCHANGED <<entry, bucket, collected_tests>>

ReturnTests ==
  /\ call = "iterating"
  /\ entry = Len(entries)
  /\ call' = "returned"
  /\ UNCHANGED <<entries, entry, bucket, all_failing_commits, collected_tests>>

NextAggregates ==
  \/ SkipTest
  \/ ReadBucket
  \/ BucketFails
  \/ Collect
  \/ Unresolved
  \/ ReturnTests

SpecAggregates == InitAggregates /\ [][NextAggregates]_aggregate_vars

-----------------------------------------------------------------------------
CommitsOf(test) == UNION {test.data[b].failing_commits : b \in DOMAIN test.data}

\* The number of failing commits of a test in the answer is that of its own
\* buckets, each commit counted once, whatever the tests before it left in the
\* set that they share; and an answer without an error has every test selected.
AnswersApart ==
  /\ \A k \in DOMAIN collected_tests :
       LET test == entries[collected_tests[k].entry]
       IN /\ Selected(test) /\ test.resolves
          /\ \A b \in DOMAIN test.data : test.data[b].readable
          /\ collected_tests[k].failing_commits = Cardinality(CommitsOf(test))
  /\ \A k, l \in DOMAIN collected_tests :
       k < l => collected_tests[k].entry < collected_tests[l].entry
  /\ call = "returned" =>
       {collected_tests[k].entry : k \in DOMAIN collected_tests}
         = {e \in DOMAIN entries : Selected(entries[e])}
=============================================================================
