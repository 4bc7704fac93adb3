----------------------------- MODULE Timestamps -----------------------------
(***************************************************************************)
(* The day arithmetic of src/binary/timestamps.rs.                         *)
(*                                                                         *)
(* Timestamps are seconds; buckets of test data are days, the newest day   *)
(* first.  A Rust range start..end (zero-based, end excluded) is the       *)
(* record [start |-> s, end |-> e]; it selects the elements (s+1)..e of    *)
(* the sequence that models the Vec.                                       *)
(***************************************************************************)
EXTENDS Integers, Sequences

CONSTANT DAY    \* seconds in a day

ASSUME DayAssumption == DAY \in Nat \ {0}

MaxOf(a, b) == IF a >= b THEN a ELSE b
MinOf(a, b) == IF a <= b THEN a ELSE b

Day(timestamp) == timestamp \div DAY

\* The subtraction is on usize: it is exact only while the result is not
\* negative, which its callers have to guarantee (see ClockBound in
\* TestAnalytics).
OffsetFromToday(saved, now) == Day(now) - Day(saved)

WrongShiftUnfilled(data, r, off, default) ==
  [i \in DOMAIN data |->
     IF i \notin (r.start + 1) .. r.end \/ i - r.start <= off THEN data[i]
     ELSE data[i - off]]

\* Moves the slice r of data off places towards the past.  What falls off
\* its end is gone, what is freed at its start is filled with default.
ShiftData(data, r, off, default) ==
  [i \in DOMAIN data |->
     IF i \notin (r.start + 1) .. r.end THEN data[i]
     ELSE IF i - r.start <= off THEN default
     ELSE data[i - off]]

SaturatingSub(a, b) == IF a >= b THEN a - b ELSE 0

Clamp(n, r) == MaxOf(MinOf(n, r.end), r.start)

WrongSelectionStart(data_range, desired_range, off) ==
  [start |-> Clamp(data_range.start + desired_range.start, data_range),
   end   |-> Clamp(SaturatingSub(data_range.start + desired_range.end, off), data_range)]

\* The part of data_range whose days are in desired_range, when the newest
\* day of the data is off days in the past.
AdjustSelectionRange(data_range, desired_range, off) ==
  [start |-> Clamp(SaturatingSub(data_range.start + desired_range.start, off), data_range),
   end   |-> Clamp(SaturatingSub(data_range.start + desired_range.end, off), data_range)]

Indices(r) == (r.start + 1) .. r.end

\* What the example in the documentation of adjust_selection_range means:
\* bucket b of the data is selected exactly when its age in days, counted from
\* today, is in the desired range.
SelectsTheDays(data_range, desired_range, off) ==
  \A b \in Indices(data_range) :
    b \in Indices(AdjustSelectionRange(data_range, desired_range, off)) <=>
      b - 1 - data_range.start + off
        \in desired_range.start .. desired_range.end - 1
=============================================================================
