--------------------------- MODULE WarningPositions ---------------------------
(***************************************************************************)
(* format_warnings: the line and column of each warning of a file, found   *)
(* by one pass over its bytes.  A byte is TRUE if it is a newline.  The    *)
(* locations are in ascending order (WarningsOrdered of JUnitDocument).    *)
(***************************************************************************)
EXTENDS Naturals, Integers, Sequences, FiniteSets

CONSTANTS
  Inputs,        \* files, as sequences of BOOLEAN
  MaxWarnings,   \* bound on the warnings of a file
  U64            \* the number of values of a u64, more than any file has bytes

ASSUME InputsAssumption == Inputs \subseteq Seq(BOOLEAN)
ASSUME U64Assumption == U64 \in Nat /\ \A input \in Inputs : Len(input) < U64

VARIABLES
  input,
  locations,   \* of the warnings
  offset,
  line,
  col,
  consumed,    \* how far input_iter has come
  result       \* line and column of the warnings formatted so far

vars == <<input, locations, offset, line, col, consumed, result>>

Ascending(n, max) ==
  {l \in [1 .. n -> 0 .. max] : \A i, j \in 1 .. n : i < j => l[i] <= l[j]}

Newlines(from, to) == {i \in from + 1 .. to : input[i]}

LastOf(S) == CHOOSE i \in S : \A j \in S : j <= i

Init ==
  /\ input \in Inputs
  /\ locations \in UNION {Ascending(n, Len(input)) : n \in 0 .. MaxWarnings}
  /\ offset = 0
  /\ line = 1
  /\ col = 0
  /\ consumed = 0
  /\ result = <<>>

\* Mutant: a newline does not start a new column.
WrongColumn(to) == col + (to - consumed) - Cardinality(Newlines(consumed, to))

ColumnAt(to) ==
  IF Newlines(consumed, to) = {} THEN col + (to - consumed)
  ELSE to - LastOf(Newlines(consumed, to))

Location == locations[Len(result) + 1]

\* take() stops at the end of the input.
Taken ==
  LET n == (Location - offset) % U64
  IN IF consumed + n > Len(input) THEN Len(input) ELSE consumed + n

FormatWarning ==
  /\ Len(result) < Len(locations)
  /\ consumed' = Taken
  /\ line' = line + Cardinality(Newlines(consumed, Taken))
  /\ col' = ColumnAt(Taken)
  /\ offset' = (offset + Location) % U64
  /\ result' = Append(result, [line |-> line', col |-> col'])
  /\ UNCHANGED <<input, locations>>

Finished == Len(result) = Len(locations) /\ UNCHANGED vars

Next == FormatWarning \/ Finished

Spec == Init /\ [][Next]_vars

-----------------------------------------------------------------------------
(* get_position_info: line and column of an offset, both from 1.           *)

LastNewline(byte_offset) ==
  IF Newlines(0, byte_offset) = {} THEN 0 ELSE LastOf(Newlines(0, byte_offset))

GetPositionInfo(byte_offset) ==
  [line |-> 1 + Cardinality(Newlines(0, byte_offset)),
   column |-> byte_offset - LastNewline(byte_offset) + 1]

(***************************************************************************)
(* Every warning is placed at its own location, the place that             *)
(* get_position_info gives for the same offset of an error, but with       *)
(* columns from 0.                                                         *)
(***************************************************************************)
WarningsAtLocations ==
  \A i \in DOMAIN result :
    LET place == GetPositionInfo(locations[i])
    IN result[i] = [line |-> place.line, col |-> place.column - 1]
=============================================================================
