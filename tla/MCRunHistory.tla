---------------------------- MODULE MCRunHistory ----------------------------
(***************************************************************************)
(* Small instances of RunHistory for TLC.  A day has two seconds.          *)
(***************************************************************************)
EXTENDS RunHistory, TLC

CONSTANTS t1, t2, c1, c2

OneFlagSet == {{"unit"}}
TwoFlagSets == {{"unit"}, {"unit", "e2e"}}

\* Days 0, 1 and 4: the last is further away than a window of two days, and 0
\* is also the last_timestamp of an empty bucket.
FarTimes == {0, 2, 8}

\* Days 1, 1, 2 and 3: two times of the same day may still differ.
SameDayTimes == {2, 3, 4, 6}

\* Days 1, 2 and 3.
DayTimes == {2, 4, 6}

Symmetry == Permutations({t1, t2})
=============================================================================
