--------------------------- MODULE FailureMessages ---------------------------
(***************************************************************************)
(* build_message: the comment about failed tests.  The failures are sorted *)
(* by duration and cut to three; the fence around the message of each is   *)
(* longer than any run of backticks in it.  The loop over the characters   *)
(* of a message runs one character per action.                             *)
(*                                                                         *)
(* A message is a sequence of characters of which only the backtick        *)
(* matters; the layout of the comment is left out.                         *)
(***************************************************************************)
EXTENDS Naturals, Sequences, FiniteSets

CONSTANTS
  Durations,     \* numbers
  NaN,           \* a duration that is not a number
  Traces,        \* failure messages, the one for none included
  MaxFailures    \* bound on the failures of a payload

ASSUME DurationsAssumption == Durations \subseteq Nat /\ NaN \notin Durations
ASSUME TracesAssumption == Traces \subseteq Seq(STRING) /\ MaxFailures \in Nat

Tick == "tick"

Failures == [trace: Traces, duration: Durations \cup {NaN}]

VARIABLES
  stage,            \* "called", "formatting", "returned" or "panicked"
  failed,           \* the number of failed tests: the caller gives all of them
  failures,         \* the failures of the payload
  top,              \* the indices of the failures that are shown
  num_backticks,    \* the fences of those that are formatted
  char,             \* the characters of the next one seen so far
  current_length,
  max_length,
  heading           \* what the comment says: "none" yet, "failed" or "successful"

message_vars == <<stage, failed, failures, top, num_backticks, char, current_length,
                  max_length, heading>>

Payloads == UNION {[1 .. n -> Failures] : n \in 0 .. MaxFailures}

InitMessage ==
  /\ stage = "called"
  /\ failures \in Payloads
  /\ failed = Len(failures)
  /\ top = <<>>
  /\ num_backticks = <<>>
  /\ char = 0
  /\ current_length = 0
  /\ max_length = 0
  /\ heading = "none"

-----------------------------------------------------------------------------
Incomparable == \E i \in DOMAIN failures : failures[i].duration = NaN

\* sort_by is stable.
Before(i, j) ==
  \/ failures[i].duration < failures[j].duration
  \/ failures[i].duration = failures[j].duration /\ i < j

Rank(i) == 1 + Cardinality({j \in DOMAIN failures : Before(j, i)})

Shown == IF Len(failures) < 3 THEN Len(failures) ELSE 3

\* A payload of one failure is not compared at all.
Firsts ==
  {first \in [1 .. Shown -> DOMAIN failures] :
     Incomparable \/ \A k \in 1 .. Shown : Rank(first[k]) = k}

Sort ==
  /\ stage = "called"
  /\ Len(failures) < 2 \/ ~ Incomparable
  /\ stage' = "formatting"
  /\ top' \in Firsts
  /\ UNCHANGED <<failed, failures, num_backticks, char, current_length, max_length, heading>>

\* partial_cmp has no answer for a NaN, and every sort compares each element.
SortPanics ==
  /\ stage = "called"
  /\ Len(failures) >= 2 /\ Incomparable
  /\ stage' = "panicked"
  /\ UNCHANGED <<failed, failures, top, num_backticks, char, current_length, max_length,
                 heading>>

Formatting == stage = "formatting" /\ Len(num_backticks) < Len(top)
Trace == failures[top[Len(num_backticks) + 1]].trace

SeeBacktick ==
  /\ Formatting
  /\ char < Len(Trace)
  /\ Trace[char + 1] = Tick
  /\ char' = char + 1
  /\ current_length' = current_length + 1
  /\ max_length' = IF current_length' > max_length THEN current_length' ELSE max_length
  /\ UNCHANGED <<stage, failed, failures, top, num_backticks, heading>>

\* Mutant: the run before this character goes on.
WrongSeeOther ==
  /\ Formatting
  /\ char < Len(Trace)
  /\ Trace[char + 1] # Tick
  /\ char' = char + 1
  /\ UNCHANGED current_length
  /\ UNCHANGED <<stage, failed, failures, top, num_backticks, max_length, heading>>

SeeOther ==
  /\ Formatting
  /\ char < Len(Trace)
  /\ Trace[char + 1] # Tick
  /\ char' = char + 1
  /\ current_length' = 0
  /\ UNCHANGED <<stage, failed, failures, top, num_backticks, max_length, heading>>

Fence == IF max_length + 1 > 3 THEN max_length + 1 ELSE 3

FormatFailure ==
  /\ Formatting
  /\ char = Len(Trace)
  /\ num_backticks' = Append(num_backticks, Fence)
  /\ char' = 0
  /\ current_length' = 0
  /\ max_length' = 0
  /\ UNCHANGED <<stage, failed, failures, top, heading>>

\* The condition of the template.
Render ==
  /\ stage = "formatting"
  /\ Len(num_backticks) = Len(top)
  /\ stage' = "returned"
  /\ heading' = IF failed > 1 THEN "failed" ELSE "successful"
  /\ UNCHANGED <<failed, failures, top, num_backticks, char, current_length, max_length>>

NextMessage ==
  \/ Sort
  \/ SortPanics
  \/ SeeBacktick
  \/ SeeOther
  \/ FormatFailure
  \/ Render

SpecMessage == InitMessage /\ [][NextMessage]_message_vars

-----------------------------------------------------------------------------
IsRun(trace, from, to) ==
  /\ 0 <= from /\ from <= to /\ to <= Len(trace)
  /\ \A i \in from + 1 .. to : trace[i] = Tick

\* The code block around a message is not closed by the message itself, and
\* its fence is no longer than it has to be.
FenceOf(trace, n) ==
  /\ n >= 3
  /\ \A from, to \in 0 .. Len(trace) : IsRun(trace, from, to) => to - from < n
  /\ n > 3 => \E from \in 0 .. Len(trace) : IsRun(trace, from, from + n - 1)
FencesHold ==
  \A k \in DOMAIN num_backticks : FenceOf(failures[top[k]].trace, num_backticks[k])

\* templates/test_results_message.md: "All tests successful. No failed tests
\* were found."
SuccessMeansNoFailure == heading = "successful" => failed = 0
=============================================================================
