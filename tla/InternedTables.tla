---------------------------- MODULE InternedTables ----------------------------
(***************************************************************************)
(* How the test analytics file names things.  A record holds the offsets   *)
(* of its testsuite and name in a table of strings, the offset of its      *)
(* flags in a table of flag sets, which are offsets of strings again, and  *)
(* the offset of the commits it failed on in a table of commit sets.       *)
(* TestAnalytics models the same writer without these tables; this module  *)
(* leaves out days and counters and keeps one bucket per record.           *)
(*                                                                         *)
(* StringTable and OffsetSet come from the crate watto: they store a value *)
(* once, at the end, and offsets are positions here.  Strings are numbers, *)
(* so that they have an order, and a commit set is a set, because the code *)
(* sorts it and removes duplicates.                                        *)
(***************************************************************************)
EXTENDS Naturals, Sequences, SequencesExt

CONSTANTS
  Tests,        \* records of a testsuite and a name, both strings
  FlagLists,    \* the lists of flags a session may be started with
  Commits,
  MaxInserts,   \* bound on the runs inserted in a behaviour; no session starts after
  MaxFiles      \* bound on the files serialized in a behaviour

ASSUME TestsAssumption == Tests \subseteq [testsuite : Nat, name : Nat]
ASSUME FlagListsAssumption == FlagLists \subseteq Seq(Nat)
ASSUME MaxInsertsAssumption == MaxInserts \in Nat

VARIABLES
  phase,     \* "none", "idle", "session", "merge" or "rewrite"
  writer,    \* the tables of the TestAnalyticsWriter
  session,   \* flag_set_offset and commit of the InsertSession
  source,    \* the smaller file of merge, the taken tables of rewrite
  mapping,   \* flags_mapping of merge and rewrite
  next,      \* the record of source that is next in the loop
  files,     \* what was serialized
  inserts    \* the runs inserted so far

vars == <<phase, writer, session, source, mapping, next, files, inserts>>

-----------------------------------------------------------------------------
(* The tables of watto.                                                    *)

Interned(table, value) ==
  IF value \in ToSet(table) THEN table ELSE Append(table, value)

OffsetOf(table, value) == (CHOOSE i \in DOMAIN table : table[i] = value) - 1

ReadAt(table, offset) == table[offset + 1]

-----------------------------------------------------------------------------
(* FlagsSet.  The table has, for each set, its length and its strings.     *)

\* Mutant: neither sorted nor without duplicates.
WrongFlagsKeyUnsorted(strings, flags) ==
  [i \in DOMAIN flags |-> OffsetOf(strings, flags[i])]

\* What sort and dedup make of the strings of a set.
Sorted(set) ==
  CHOOSE s \in [1 .. Cardinality(set) -> set] : \A i, j \in DOMAIN s : i < j => s[i] < s[j]

\* A set of flags as the offsets of its strings, in the order of the strings.
FlagsKey(strings, flags) ==
  LET sorted == Sorted(ToSet(flags))
  IN [i \in DOMAIN sorted |-> OffsetOf(strings, sorted[i])]

\* Each flag in turn goes to the end of the table, if it is not there already.
InternAll(strings, flags) == strings \o Sorted(ToSet(flags) \ ToSet(strings))

FlagsInsert(t, flags) ==
  LET strings == InternAll(t.strings, flags)
      key     == FlagsKey(strings, flags)
  IN IF key \in DOMAIN t.flags_map
     THEN [t EXCEPT !.strings = strings]
     ELSE [t EXCEPT !.strings = strings,
                    !.flags_map = [k \in DOMAIN @ \cup {key} |->
                       IF k = key THEN Len(t.flags_table) ELSE t.flags_map[k]],
                    !.flags_table = @ \o <<Len(key)>> \o key]

FlagsOffset(t, flags) == t.flags_map[FlagsKey(t.strings, flags)]

FlagsAt(table, offset) == SubSeq(table, offset + 2, offset + 1 + ReadAt(table, offset))

\* Whatever has the first offset, and after each set the offset behind it.
Steps(table, found) ==
  /\ 0 \in found
  /\ \A o \in found : o < Len(table) => o + 1 + ReadAt(table, o) \in found

\* The offsets at which load finds a set.
Walk(table) ==
  {o \in 0 .. Len(table) - 1 :
     \A found \in SUBSET (0 .. Len(table)) : Steps(table, found) => o \in found}

\* Mutant: the length itself is not counted when load goes on.
WrongLoadSkipsLengths(table) ==
  [key \in {FlagsAt(table, o) : o \in Walk(table)} |->
     LET o == CHOOSE o \in Walk(table) : FlagsAt(table, o) = key
     IN o - Cardinality({p \in Walk(table) : p < o})]

\* A set that occurs twice gets the offset of its last occurrence.
LoadFlags(table) ==
  LET found == Walk(table)
  IN [key \in {FlagsAt(table, o) : o \in found} |->
        CHOOSE o \in found :
          /\ FlagsAt(table, o) = key
          /\ \A p \in found : FlagsAt(table, p) = key => p <= o]

ResolveFlags(t, offset) ==
  LET key == FlagsAt(t.flags_table, offset)
  IN [i \in DOMAIN key |-> ReadAt(t.strings, key[i])]

-----------------------------------------------------------------------------
(* CommitHashesSet.                                                        *)

NewCommits == <<{}>>

ReadCommits(commits, offset) == IF offset = 0 THEN {} ELSE ReadAt(commits, offset)

\* Mutant: the offset is the end of the table after the insertion.
WrongAppendOffset(commits, offset, hashes) ==
  LET table == Interned(commits, ReadAt(commits, offset) \cup hashes)
  IN [commits |-> table, offset |-> Len(table)]

\* Mutant: does not look for the set among those that are stored.
WrongAppendAlways(commits, offset, hashes) ==
  [commits |-> Append(commits, ReadAt(commits, offset) \cup hashes), offset |-> Len(commits)]

\* Mutant: stores the new hashes without the existing ones.
WrongAppendReplaces(commits, offset, hashes) ==
  LET table == Interned(commits, hashes)
  IN [commits |-> table, offset |-> OffsetOf(table, hashes)]

AppendIntersection(commits, offset, hashes) ==
  LET all   == ReadAt(commits, offset) \cup hashes
      table == Interned(commits, all)
  IN [commits |-> table, offset |-> OffsetOf(table, all)]

-----------------------------------------------------------------------------
(* The tables of a writer.                                                 *)

NewTables ==
  [strings |-> <<>>, flags_map |-> [k \in {} |-> 0], flags_table |-> <<>>,
   commits |-> NewCommits, tests |-> <<>>, failing |-> <<>>]

Key(t, test, flag_set_offset) ==
  [testsuite_offset |-> OffsetOf(t.strings, test.testsuite),
   name_offset |-> OffsetOf(t.strings, test.name),
   flag_set_offset |-> flag_set_offset]

Named(t, test) ==
  [t EXCEPT !.strings = Interned(Interned(@, test.testsuite), test.name)]

TestOf(t, record) ==
  [testsuite |-> ReadAt(t.strings, record.testsuite_offset),
   name |-> ReadAt(t.strings, record.name_offset)]

\* insert_full: a record that is there already stays where it is.
Recorded(t, key) ==
  IF key \in ToSet(t.tests) THEN t
  ELSE [t EXCEPT !.tests = Append(@, key), !.failing = Append(@, 0)]

IndexOf(t, key) == CHOOSE i \in DOMAIN t.tests : t.tests[i] = key

Failed(t, key, hashes) ==
  LET appended == AppendIntersection(t.commits, t.failing[IndexOf(t, key)], hashes)
  IN [t EXCEPT !.commits = appended.commits,
               !.failing[IndexOf(t, key)] = appended.offset]

\* What insert, merge and rewrite do with a test: names, record, commits.  An
\* empty set of hashes leaves the offset and the table as they are; rewrite does
\* not test for it, and finds the empty set at offset 0.
Added(t, test, flag_set_offset, hashes) ==
  LET named == Named(t, test)
      key   == Key(named, test, flag_set_offset)
      with  == Recorded(named, key)
  IN IF hashes = {} THEN with ELSE Failed(with, key, hashes)

Parsed(f) ==
  [strings |-> f.strings, flags_map |-> LoadFlags(f.flags_table),
   flags_table |-> f.flags_table, commits |-> f.commits,
   tests |-> f.tests, failing |-> f.failing]

-----------------------------------------------------------------------------
NoCommit == "none"
NoSession == [flag_set_offset |-> 0, commit |-> NoCommit]

Init ==
  /\ phase = "none"
  /\ writer = NewTables
  /\ session = NoSession
  /\ source = NewTables
  /\ mapping = [o \in {} |-> 0]
  /\ next = 1
  /\ files = <<>>
  /\ inserts = 0

New ==
  /\ phase = "none"
  /\ phase' = "idle"
  /\ writer' = NewTables
  /\ UNCHANGED <<session, source, mapping, next, files, inserts>>

Open(f) ==
  /\ phase = "none"
  /\ phase' = "idle"
  /\ writer' = Parsed(files[f])
  /\ UNCHANGED <<session, source, mapping, next, files, inserts>>

StartSession(flags, commit) ==
  /\ phase = "idle"
  /\ inserts < MaxInserts
  /\ phase' = "session"
  /\ writer' = FlagsInsert(writer, flags)
  /\ session' = [flag_set_offset |-> FlagsOffset(writer', flags), commit |-> commit]
  /\ UNCHANGED <<source, mapping, next, files, inserts>>

Insert(test, failed) ==
  /\ phase = "session"
  /\ inserts < MaxInserts
  /\ writer' = Added(writer, test, session.flag_set_offset,
                     IF failed THEN {session.commit} ELSE {})
  /\ inserts' = inserts + 1
  /\ UNCHANGED <<phase, session, source, mapping, next, files>>

EndSession ==
  /\ phase = "session"
  /\ phase' = "idle"
  /\ session' = NoSession
  /\ UNCHANGED <<writer, source, mapping, next, files, inserts>>

\* flags_map is not written; load makes it again.
Serialize ==
  /\ phase = "idle"
  /\ Len(files) < MaxFiles
  /\ phase' = "none"
  /\ files' = Append(files, [strings |-> writer.strings,
                             flags_table |-> writer.flags_table,
                             commits |-> writer.commits,
                             tests |-> writer.tests, failing |-> writer.failing])
  /\ writer' = NewTables
  /\ UNCHANGED <<session, source, mapping, next, inserts>>

DropWriter ==
  /\ phase = "idle"
  /\ phase' = "none"
  /\ writer' = NewTables
  /\ UNCHANGED <<session, source, mapping, next, files, inserts>>

MergeBegin(f, g) ==
  /\ phase = "none"
  /\ phase' = "merge"
  /\ writer' = Parsed(files[f])
  /\ source' = Parsed(files[g])
  /\ mapping' = [o \in {} |-> 0]
  /\ next' = 1
  /\ UNCHANGED <<session, files, inserts>>

Mapped(offset, to) ==
  [o \in DOMAIN mapping \cup {offset} |-> IF o = offset THEN to ELSE mapping[o]]

Unmapped == {source.flags_map[key] : key \in DOMAIN source.flags_map} \ DOMAIN mapping

\* The first loop of merge goes through a HashMap, in any order.
MergeFlags(offset) ==
  /\ phase = "merge"
  /\ offset \in Unmapped
  /\ writer' = FlagsInsert(writer, ResolveFlags(source, offset))
  /\ mapping' = Mapped(offset, FlagsOffset(writer', ResolveFlags(source, offset)))
  /\ UNCHANGED <<phase, session, source, next, files, inserts>>

MergeRecord ==
  /\ phase = "merge"
  /\ Unmapped = {}
  /\ next <= Len(source.tests)
  /\ writer' = Added(writer, TestOf(source, source.tests[next]),
                     mapping[source.tests[next].flag_set_offset],
                     ReadCommits(source.commits, source.failing[next]))
  /\ next' = next + 1
  /\ UNCHANGED <<phase, session, source, mapping, files, inserts>>

\* Mutant: the string table is not taken out of the writer.
WrongRewriteKeepsStrings ==
  /\ phase = "idle"
  /\ phase' = "rewrite"
  /\ writer' = [NewTables EXCEPT !.strings = writer.strings]
  /\ source' = writer
  /\ mapping' = [o \in {} |-> 0]
  /\ next' = 1
  /\ UNCHANGED <<session, files, inserts>>

RewriteBegin ==
  /\ phase = "idle"
  /\ phase' = "rewrite"
  /\ writer' = NewTables
  /\ source' = writer
  /\ mapping' = [o \in {} |-> 0]
  /\ next' = 1
  /\ UNCHANGED <<session, files, inserts>>

\* Which records are older than the window is a question of days.
RewriteDead ==
  /\ phase = "rewrite"
  /\ next <= Len(source.tests)
  /\ next' = next + 1
  /\ UNCHANGED <<phase, writer, session, source, mapping, files, inserts>>

RewriteLive ==
  /\ phase = "rewrite"
  /\ next <= Len(source.tests)
  /\ LET record == source.tests[next]
         offset == record.flag_set_offset
         flags  == ResolveFlags(source, offset)
         known  == offset \in DOMAIN mapping
         t      == IF known THEN writer ELSE FlagsInsert(writer, flags)
     IN /\ mapping' = IF known THEN mapping ELSE Mapped(offset, FlagsOffset(t, flags))
        /\ writer' = Added(t, TestOf(source, record), mapping'[offset],
                           ReadCommits(source.commits, source.failing[next]))
  /\ next' = next + 1
  /\ UNCHANGED <<phase, session, source, files, inserts>>

LoopEnd ==
  /\ phase \in {"merge", "rewrite"}
  /\ phase = "merge" => Unmapped = {}
  /\ next > Len(source.tests)
  /\ phase' = "idle"
  /\ source' = NewTables
  /\ mapping' = [o \in {} |-> 0]
  /\ next' = 1
  /\ UNCHANGED <<writer, session, files, inserts>>

Next ==
  \/ New
  \/ \E f \in DOMAIN files : Open(f)
  \/ \E flags \in FlagLists, commit \in Commits : StartSession(flags, commit)
  \/ \E test \in Tests, failed \in BOOLEAN : Insert(test, failed)
  \/ EndSession
  \/ Serialize
  \/ DropWriter
  \/ \E f, g \in DOMAIN files : MergeBegin(f, g)
  \/ \E offset \in Unmapped : MergeFlags(offset)
  \/ MergeRecord
  \/ RewriteBegin
  \/ RewriteDead
  \/ RewriteLive
  \/ LoopEnd

Spec == Init /\ [][Next]_vars
-----------------------------------------------------------------------------
(* Properties.                                                             *)

(***************************************************************************)
(* Type invariant.  It includes that every offset in a record is one of    *)
(* the table it refers to, which is what the error kinds                   *)
(* InvalidStringReference, InvalidFlagSetReference and                     *)
(* InvalidCommitSetReference are about: merge, rewrite and the reader do   *)
(* not fail on a file the program has written.                             *)
(***************************************************************************)
GoodTables(t) ==
  /\ t.strings \in Seq(Nat)
  /\ t.flags_table \in Seq(Nat)
  /\ \A key \in DOMAIN t.flags_map : \A i \in DOMAIN key : key[i] + 1 \in DOMAIN t.strings
  /\ t.commits \in Seq(SUBSET Commits)
  /\ Len(t.failing) = Len(t.tests)
  /\ \A i \in DOMAIN t.tests :
       /\ t.tests[i].testsuite_offset + 1 \in DOMAIN t.strings
       /\ t.tests[i].name_offset + 1 \in DOMAIN t.strings
       /\ \E key \in DOMAIN t.flags_map : t.flags_map[key] = t.tests[i].flag_set_offset
       /\ t.failing[i] + 1 \in DOMAIN t.commits

TypeOK ==
  /\ phase \in {"none", "idle", "session", "merge", "rewrite"}
  /\ GoodTables(writer)
  /\ GoodTables(source)
  /\ files # <<>> /\ phase = "none" => GoodTables(Parsed(Last(files)))
  /\ session.commit \in Commits \cup {NoCommit}
  /\ phase = "session" => \E key \in DOMAIN writer.flags_map :
                             writer.flags_map[key] = session.flag_set_offset
  /\ \A o \in DOMAIN mapping : \E key \in DOMAIN writer.flags_map :
                             writer.flags_map[key] = mapping[o]
  /\ next \in 1 .. Len(source.tests) + 1
  /\ inserts \in 0 .. MaxInserts

Meaning(t, i) ==
  [test |-> TestOf(t, t.tests[i]),
   flags |-> ToSet(ResolveFlags(t, t.tests[i].flag_set_offset))]

(***************************************************************************)
(* Two records of a table never mean the same test with the same flags,    *)
(* however the flags were spelled, and through whatever merges, rewrites   *)
(* and files they came.  The index of the writer only compares offsets; it *)
(* relies on equal sets having equal offsets.                              *)
(***************************************************************************)
MeaningsUnique ==
  \A i, j \in DOMAIN writer.tests : Meaning(writer, i) = Meaning(writer, j) => i = j

(***************************************************************************)
(* FlagsSet::load, which walks a table of lengths and offsets, finds       *)
(* exactly the index that insert has built in memory, so a writer made     *)
(* from a file goes on handing out the offsets of the one that wrote it.   *)
(***************************************************************************)
LoadMatchesInsert == LoadFlags(writer.flags_table) = writer.flags_map

(***************************************************************************)
(* The doc of append_intersection: it "returns the existing_offset         *)
(* unmodified in case the existing set already includes all the            *)
(* commit_hashes".  It relies on every set being stored only once.         *)
(***************************************************************************)
KnownCommitsKeepOffset ==
  \A o \in 0 .. Len(writer.commits) - 1 :
    \A hashes \in SUBSET ReadAt(writer.commits, o) :
      AppendIntersection(writer.commits, o, hashes)
        = [commits |-> writer.commits, offset |-> o]

(***************************************************************************)
(* rewrite collects garbage: in the tables it builds, every string, every  *)
(* set of flags and every set of commits is used by one of the records it  *)
(* has kept.                                                               *)
(***************************************************************************)
UsedStrings(t) ==
  (UNION {{r.testsuite_offset, r.name_offset} : r \in ToSet(t.tests)})
    \cup (UNION {ToSet(key) : key \in DOMAIN t.flags_map})

RewriteLeavesNoGarbage ==
  phase = "rewrite" =>
    /\ {o + 1 : o \in UsedStrings(writer)} = DOMAIN writer.strings
    /\ {writer.flags_map[key] : key \in DOMAIN writer.flags_map}
         = {r.flag_set_offset : r \in ToSet(writer.tests)}
    /\ ToSet(writer.failing) \cup {0} = 0 .. Len(writer.commits) - 1

(***************************************************************************)
(* The tables implement FailingTests: resolved, they say of every test and *)
(* set of flags which commits it failed on, and no operation changes more  *)
(* of that than it should.                                                 *)
(***************************************************************************)
Resolved(t, from) ==
  [k \in {Meaning(t, i) : i \in from .. Len(t.tests)} |->
     ReadCommits(t.commits, t.failing[CHOOSE i \in from .. Len(t.tests) : Meaning(t, i) = k])]

Known == Resolved(writer, 1)
Pending == Resolved(source, next)
Task == IF phase \in {"merge", "rewrite"} THEN phase ELSE "none"
Saved == [f \in DOMAIN files |-> Resolved(files[f], 1)]

Abstract == INSTANCE FailingTests WITH
  FlagSets <- {ToSet(flags) : flags \in FlagLists},
  known <- Known, pending <- Pending, task <- Task, saved <- Saved

ImplementsFailingTests == Abstract!Spec
=============================================================================
