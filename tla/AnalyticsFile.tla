---------------------------- MODULE AnalyticsFile ----------------------------
(***************************************************************************)
(* The layout of a test analytics file: serialize writes its sections one  *)
(* after the other into a sink that may fail, and parse takes them from    *)
(* the buffer again, told by the header alone how long each of them is.    *)
(*                                                                         *)
(* What the sections contain is left out; a section is a range of bytes.   *)
(***************************************************************************)
EXTENDS Naturals, Sequences

CONSTANTS
  Lengths,     \* lengths of the tables of a writer
  Trailing     \* how many bytes a buffer may have after a complete file

ASSUME LengthsAssumption == Lengths \subseteq Nat /\ Trailing \subseteq Nat

VARIABLES
  doing,       \* "serializing", "written", "failed", "parsing", "parsed" or "refused"
  tables,      \* the writer: the lengths of its tables
  header,      \* the header, as it is in the file
  written,     \* the ranges of the sections in the sink
  length,      \* the length of the sink, and of the buffer
  buffer,      \* what else parse notices about the buffer
  taken,       \* the ranges of the sections that parse has found
  error        \* TestAnalyticsErrorKind, or "none"

file_vars == <<doing, tables, header, written, length, buffer, taken, error>>

NoHeader == [num_tests |-> 0, num_days |-> 0, flags_set_len |-> 0,
             commithashes_bytes |-> 0, string_bytes |-> 0]

Good == [aligned |-> TRUE, magic |-> TRUE, version |-> TRUE]
Buffers == [aligned: BOOLEAN, magic: BOOLEAN, version: BOOLEAN]

\* The flat vector of buckets has num_days for every test: Layout of
\* TestAnalytics.
Tables ==
  {[tests |-> n, num_days |-> d, testdata |-> n * d, flags_set |-> f, commithashes |-> c,
    strings |-> s] : n, d, f, c, s \in Lengths}

InitFile ==
  /\ doing = "serializing"
  /\ tables \in Tables
  /\ header = NoHeader
  /\ written = <<>>
  /\ length = 0
  /\ buffer = Good
  /\ taken = <<>>
  /\ error = "none"

-----------------------------------------------------------------------------
\* The bytes of the section that serialize writes after k others.
Size(k) ==
  CASE k = 0 -> 32
    [] k = 1 -> 16 * tables.tests
    [] k = 2 -> 24 * tables.testdata
    [] k = 3 -> 4 * tables.flags_set
    [] k = 4 -> tables.commithashes
    [] OTHER -> tables.strings

HeaderOf(t) ==
  [num_tests |-> t.tests, num_days |-> t.num_days, flags_set_len |-> t.flags_set,
   commithashes_bytes |-> t.commithashes, string_bytes |-> t.strings]

SECTIONS == 6

WriteSection ==
  /\ doing = "serializing"
  /\ Len(written) < SECTIONS
  /\ written' = Append(written, [start |-> length, end |-> length + Size(Len(written))])
  /\ length' = length + Size(Len(written))
  /\ header' = HeaderOf(tables)
  /\ UNCHANGED <<doing, tables, buffer, taken, error>>

\* write_all fails, or the process ends, within a section.
SinkFails(n) ==
  /\ doing = "serializing"
  /\ Len(written) < SECTIONS
  /\ n < Size(Len(written))
  /\ doing' = "failed"
  /\ length' = length + n
  /\ UNCHANGED <<tables, header, written, buffer, taken, error>>

Written ==
  /\ doing = "serializing"
  /\ Len(written) = SECTIONS
  /\ doing' = "written"
  /\ UNCHANGED <<tables, header, written, length, buffer, taken, error>>

-----------------------------------------------------------------------------
(* parse *)

StartParse(b, trailing) ==
  /\ doing \in {"written", "failed"}
  /\ doing = "failed" => trailing = 0
  /\ doing' = "parsing"
  /\ buffer' = b
  /\ length' = length + trailing
  /\ UNCHANGED <<tables, header, written, taken, error>>

\* Mutant: the buckets of one day.
WrongClaimed(k) ==
  CASE k = 0 -> 32
    [] k = 1 -> 16 * header.num_tests
    [] k = 2 -> 24 * header.num_tests
    [] k = 3 -> 4 * header.flags_set_len
    [] k = 4 -> header.commithashes_bytes
    [] OTHER -> header.string_bytes

\* The bytes of the section that parse takes after k others.
Claimed(k) ==
  CASE k = 0 -> 32
    [] k = 1 -> 16 * header.num_tests
    [] k = 2 -> 24 * (header.num_tests * header.num_days)
    [] k = 3 -> 4 * header.flags_set_len
    [] k = 4 -> header.commithashes_bytes
    [] OTHER -> header.string_bytes

Position == IF taken = <<>> THEN 0 ELSE taken[Len(taken)].end

Fits == Position + Claimed(Len(taken)) <= length

Parsing == doing = "parsing" /\ Len(taken) < SECTIONS
Refuses(kind) ==
  /\ doing' = "refused"
  /\ error' = kind
  /\ UNCHANGED <<tables, header, written, length, buffer, taken>>

InvalidHeader ==
  Parsing /\ taken = <<>> /\ ~ (Fits /\ buffer.aligned) /\ Refuses("InvalidHeader")

InvalidMagic == Parsing /\ Len(taken) = 1 /\ ~ buffer.magic /\ Refuses("InvalidMagic")

OtherVersion ==
  Parsing /\ Len(taken) = 1 /\ buffer.magic /\ ~ buffer.version /\ Refuses("WrongVersion")

Accepted == CASE taken = <<>> -> buffer.aligned
              [] Len(taken) = 1 -> buffer.magic /\ buffer.version
              [] OTHER -> TRUE

InvalidTables ==
  Parsing /\ Len(taken) \in 1 .. 4 /\ Accepted /\ ~ Fits /\ Refuses("InvalidTables")

UnexpectedStringBytes ==
  Parsing /\ Len(taken) = 5 /\ ~ Fits /\ Refuses("UnexpectedStringBytes")

TakeSection ==
  /\ Parsing /\ Accepted /\ Fits
  /\ taken' = Append(taken, [start |-> Position, end |-> Position + Claimed(Len(taken))])
  /\ UNCHANGED <<doing, tables, header, written, length, buffer, error>>

Parsed ==
  /\ doing = "parsing"
  /\ Len(taken) = SECTIONS
  /\ doing' = "parsed"
  /\ UNCHANGED <<tables, header, written, length, buffer, taken, error>>

NextFile ==
  \/ WriteSection
  \/ \E n \in 0 .. Size(Len(written)) : SinkFails(n)
  \/ Written
  \/ \E b \in Buffers, trailing \in Trailing \cup {0} : StartParse(b, trailing)
  \/ InvalidHeader
  \/ InvalidMagic
  \/ OtherVersion
  \/ InvalidTables
  \/ UnexpectedStringBytes
  \/ TakeSection
  \/ Parsed

SpecFile == InitFile /\ [][NextFile]_file_vars

-----------------------------------------------------------------------------
\* Whatever serialize was doing when it was stopped, parse refuses the file or
\* finds every section exactly where it was written, and has all of them.
ParsedAsWritten ==
  doing = "parsed" =>
    /\ Len(written) = SECTIONS
    /\ taken = written
    /\ written[SECTIONS].end <= length
=============================================================================
