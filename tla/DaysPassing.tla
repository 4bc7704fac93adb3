----------------------------- MODULE DaysPassing -----------------------------
(***************************************************************************)
(* One record of a table as days pass: the reader looks at it with a       *)
(* growing offset, the writer shifts it by that offset.  The two functions *)
(* of src/binary/timestamps.rs have to agree on what a day is.             *)
(***************************************************************************)
EXTENDS Timestamps

CONSTANTS
  Buckets,      \* bound on the buckets of the table and on a desired range
  MaxOffset     \* bound on the days between the data and today

ASSUME BoundsAssumption == Buckets \in Nat /\ MaxOffset \in Nat

VARIABLES
  data_range,     \* the buckets of the record
  desired_range,  \* the days asked for, 0 is today
  off             \* how many days old the newest bucket is

dvars == <<data_range, desired_range, off>>

Ranges == {r \in [start : 0 .. Buckets, end : 0 .. Buckets] : r.start <= r.end}

InitDays ==
  /\ data_range \in Ranges
  /\ desired_range \in Ranges
  /\ off = 0

\* The file is used again, another number of days after its newest bucket.
UsedAgain ==
  /\ off' \in 0 .. MaxOffset
  /\ UNCHANGED <<data_range, desired_range>>

SpecDays == InitDays /\ [][UsedAgain]_dvars

\* Data whose buckets are named by their positions; 0 is an empty one.
Data == [b \in 1 .. Buckets |-> b]
Shifted(days) == ShiftData(Data, data_range, days, 0)

\* adjust_selection_range selects exactly the buckets of the desired days,
\* whatever part of the table the record occupies.
SelectionByDay == SelectsTheDays(data_range, desired_range, off)

\* Shifting and selecting agree: after shift_data by off days, a selection of
\* days of the window with the offset 0 finds the buckets that the same
\* selection with the offset off finds in the data that was not shifted, and
\* only empty ones besides.
ShiftMatchesSelection ==
  desired_range.end <= data_range.end - data_range.start =>
    {Shifted(off)[b] : b \in Indices(AdjustSelectionRange(data_range, desired_range, 0))}
      \ {0} = Indices(AdjustSelectionRange(data_range, desired_range, off))

\* A few days at a time or all at once: shifting by off and then by one more
\* day is shifting by off + 1, however far that is out of the window, and the
\* buckets of the other records stay.
ShiftsAddUp ==
  /\ ShiftData(Shifted(off), data_range, 1, 0) = Shifted(off + 1)
  /\ \A b \in DOMAIN Data \ Indices(data_range) : Shifted(off)[b] = b
=============================================================================
