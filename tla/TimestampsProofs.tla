-------------------------- MODULE TimestampsProofs --------------------------
(***************************************************************************)
(* What the day arithmetic guarantees, for every length of a day and all   *)
(* ranges.                                                                 *)
(***************************************************************************)
EXTENDS Timestamps, TLAPS

IsRange(r) == r \in [start : Nat, end : Nat] /\ r.start <= r.end

\* Days do not run backwards, so offset_from_today is a natural number when
\* its first argument is not the newer one.
LEMMA DayMonotone ==
  ASSUME NEW a \in Nat, NEW b \in Nat, a <= b
  PROVE  Day(a) \in Nat /\ Day(b) \in Nat /\ Day(a) <= Day(b)
<1>1. DAY \in Nat \ {0}  BY DayAssumption
<1>2. Day(a) \in Nat /\ Day(b) \in Nat  BY <1>1 DEF Day
<1>3. /\ DAY * Day(a) <= a
      /\ b < DAY * Day(b) + DAY
  BY <1>1 DEF Day
<1>4. Day(a) <= Day(b)
  <2> SUFFICES ASSUME Day(b) + 1 <= Day(a) PROVE FALSE  BY <1>2
  <2> DEFINE more == Day(a) - Day(b) - 1
  <2>1. more \in Nat /\ Day(a) = Day(b) + 1 + more  BY <1>2
  <2>2. DAY * more \in Nat  BY <1>1, <2>1
  <2>3. DAY * Day(a) = DAY * Day(b) + DAY + DAY * more  BY <1>1, <1>2, <2>1
  <2> QED  BY <1>1, <1>2, <1>3, <2>2, <2>3
<1> QED  BY <1>2, <1>4

LEMMA OffsetIsNatural ==
  ASSUME NEW saved \in Nat, NEW now \in Nat, saved <= now
  PROVE  OffsetFromToday(saved, now) \in Nat
  BY DayMonotone DEF OffsetFromToday

\* adjust_selection_range returns a part of the data it is given.
THEOREM SelectionInData ==
  ASSUME NEW data_range, IsRange(data_range),
         NEW desired_range, IsRange(desired_range), NEW off \in Nat
  PROVE  LET r == AdjustSelectionRange(data_range, desired_range, off)
         IN /\ IsRange(r)
            /\ data_range.start <= r.start
            /\ r.end <= data_range.end
  BY DEF IsRange, AdjustSelectionRange, Clamp, SaturatingSub, MaxOf, MinOf

\* adjust_selection_range selects exactly the buckets whose age in days, the
\* offset of the data included, is in the desired range.
THEOREM SelectionIsByDay ==
  ASSUME NEW data_range, IsRange(data_range),
         NEW desired_range, IsRange(desired_range), NEW off \in Nat
  PROVE  SelectsTheDays(data_range, desired_range, off)
  BY DEF IsRange, SelectsTheDays, AdjustSelectionRange, Clamp, SaturatingSub,
         MaxOf, MinOf, Indices
=============================================================================
