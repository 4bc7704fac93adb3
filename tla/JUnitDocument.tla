---------------------------- MODULE JUnitDocument ----------------------------
(***************************************************************************)
(* The parser beside the document it reads.  The document is built as a    *)
(* tree: every open element has a frame with its attributes, the outcomes  *)
(* among its children and its last text.  What a test case means is read   *)
(* off its frame and the frames around it when it is closed, without the   *)
(* flags, stacks and overwriting of the parser.                            *)
(***************************************************************************)
EXTENDS JUnit, FiniteSets

VARIABLES
  tree,       \* the frames of the open elements
  expected,   \* the runs of the test cases closed so far
  since,      \* length of testruns at the last testsuites
  hinted      \* frameworks that anything in the document belongs to

dvars == <<vars, tree, expected, since, hinted>>

Frame(element) ==
  [element |-> element, name |-> None, time |-> None, attrs |-> None, message |-> None,
   text |-> None, outcomes |-> <<>>]

\* Innermost frame with a value: a suite without a name is transparent.
Innermost(frames, i, value(_)) ==
  /\ i \in DOMAIN frames
  /\ value(frames[i]) # None
  /\ \A j \in DOMAIN frames : j > i => value(frames[j]) = None

Inherited(frames, value(_)) ==
  IF \E i \in DOMAIN frames : Innermost(frames, i, value)
  THEN value(frames[CHOOSE i \in DOMAIN frames : Innermost(frames, i, value)])
  ELSE None

ExpectedOutcome(outcomes) ==
  IF outcomes = <<>> THEN "Pass" ELSE OutcomeOf(Last(outcomes).element)

\* The text of the last failure or error, or its message.
LastFailed(outcomes, i) ==
  /\ i \in DOMAIN outcomes
  /\ outcomes[i].element # "skipped"
  /\ \A j \in DOMAIN outcomes : j > i => outcomes[j].element = "skipped"

ExpectedMessage(outcomes) ==
  IF \E i \in DOMAIN outcomes : LastFailed(outcomes, i)
  THEN LET last == outcomes[CHOOSE i \in DOMAIN outcomes : LastFailed(outcomes, i)]
       IN Some(last.text, last.message)
  ELSE None

\* The runs of a test case with this frame, inside the frames around it.
ExpectedRuns(frames, frame) ==
  IF frame.attrs.parsed # "Ok" THEN <<>>
  ELSE <<[name |-> frame.attrs.name,
          testsuite |-> Inherited(frames, LAMBDA f : f.name),
          duration |-> ParseTime(Some(frame.attrs.time, Inherited(frames, LAMBDA f : f.time))),
          outcome |-> ExpectedOutcome(frame.outcomes),
          failure_message |-> ExpectedMessage(frame.outcomes)]>>

Grows(frame) == tree' = Append(tree, frame) /\ UNCHANGED <<expected, since, hinted>>

\* The last frame becomes part of the one around it.
Closed(frames) ==
  LET frame == Last(frames) rest == Front(frames)
  IN IF frame.element \in {"skipped", "failure", "error"} /\ rest # <<>>
     THEN [rest EXCEPT ![Len(rest)].outcomes =
             Append(@, [element |-> frame.element, message |-> frame.message,
                        text |-> frame.text])]
     ELSE rest

CloseFrame == tree' = Closed(tree) /\ UNCHANGED <<expected, since, hinted>>

Hints(names) == hinted' = hinted \cup (names \cap Frameworks)

TestcaseHints(attrs) ==
  Hints(IF attrs.parsed = "Ok" THEN {attrs.hint, Inherited(tree, LAMBDA f : f.name)} ELSE {})

TestcaseFrame(attrs) == [Frame("testcase") EXCEPT !.attrs = attrs]
OutcomeFrame(element, message) == [Frame(element) EXCEPT !.message = message]

InitD == Init /\ tree = <<>> /\ expected = <<>> /\ since = 0 /\ hinted = {}

NoTree == tree' = <<>> /\ expected' = <<>> /\ since' = 0 /\ hinted' = {}

UseReaderD == UseReader /\ NoTree

EventD ==
  \/ \E attrs \in Attrs :
       \/ /\ StartTestcase(attrs)
          /\ tree' = Append(tree, TestcaseFrame(attrs))
          /\ TestcaseHints(attrs)
          /\ UNCHANGED <<expected, since>>
       \/ /\ EmptyTestcase(attrs)
          /\ expected' = expected \o ExpectedRuns(tree, TestcaseFrame(attrs))
          /\ TestcaseHints(attrs)
          /\ UNCHANGED <<tree, since>>
       \/ BadTestcase(attrs) /\ NoTree
  \/ /\ EndTestcase
     /\ tree' = Closed(tree)
     /\ expected' = expected \o ExpectedRuns(Front(tree), Last(tree))
     /\ UNCHANGED <<since, hinted>>
  \/ \E element \in {"failure", "error"}, message \in Messages \cup {None} :
       \/ StartOutcome(element, message) /\ Grows(OutcomeFrame(element, message))
       \/ /\ EmptyOutcome(element, message)
          /\ tree' = Closed(Append(tree, OutcomeFrame(element, message)))
          /\ UNCHANGED <<expected, since, hinted>>
  \/ StartOutcome("skipped", None) /\ Grows(Frame("skipped"))
  \/ /\ EmptyOutcome("skipped", None)
     /\ tree' = Closed(Append(tree, Frame("skipped")))
     /\ UNCHANGED <<expected, since, hinted>>
  \/ \E element \in {"skipped", "failure", "error"} : EndOutcome(element) /\ CloseFrame
  \/ \E message \in Messages :
       /\ Text(message)
       /\ tree' = IF tree = <<>> THEN tree ELSE [tree EXCEPT ![Len(tree)].text = message]
       /\ UNCHANGED <<expected, since, hinted>>
  \/ \E name \in SuiteNames \cup {None}, time \in SuiteTimes \cup {None} :
       /\ StartTestsuite(name, time)
       /\ Grows([Frame("testsuite") EXCEPT !.name = name, !.time = time])
  \/ EndTestsuite /\ CloseFrame
  \/ \E name \in SuiteNames \cup {None} :
       /\ StartTestsuites(name)
       /\ tree' = Append(tree, Frame("testsuites"))
       /\ since' = Len(testruns)
       /\ Hints({name})
       /\ UNCHANGED expected
  \/ \E valid \in BOOLEAN :
       /\ Property(valid)
       /\ tree' = IF open' = open THEN tree ELSE Append(tree, Frame("property"))
       /\ UNCHANGED <<expected, since, hinted>>
  \/ /\ Ignored
     /\ tree' = CASE Len(open') > Len(open) -> Append(tree, Frame("other"))
                  [] Len(open') < Len(open) -> Front(tree)
                  [] OTHER -> tree
     /\ UNCHANGED <<expected, since, hinted>>
  \/ (NoTestrun \/ Malformed) /\ NoTree
  \/ Eof /\ UNCHANGED <<tree, expected, since, hinted>>

NextD == UseReaderD \/ EventD

SpecD == InitD /\ [][NextD]_dvars

-----------------------------------------------------------------------------
(***************************************************************************)
(* Type invariant, with the two stacks as high as testsuite elements are   *)
(* open: an empty one is not on them and its end must not pop another's.   *)
(***************************************************************************)
TypeOK ==
  /\ status \in {"reading", "done", "failed"}
  /\ open \in Seq(Elements)
  /\ position \in 0 .. MaxEvents
  /\ in_failure \in BOOLEAN /\ in_error \in BOOLEAN
  /\ framework \in Frameworks \cup {None}
  /\ LET suites == {i \in DOMAIN open : open[i] = "testsuite"}
     IN status = "reading" => /\ Len(testsuite_names) = Cardinality(suites)
                              /\ Len(testsuite_times) = Cardinality(suites)
  /\ saved_testrun \in Testruns \cup {None, Skipped}

(***************************************************************************)
(* The runs are those of the document, in its order: each with the         *)
(* innermost name and time around it, the outcome of its own last outcome  *)
(* element and the message or text of its own last failure, and none of    *)
(* them left over from the test case before.                               *)
(***************************************************************************)
Without(run) ==
  [name |-> run.name, testsuite |-> run.testsuite, duration |-> run.duration,
   outcome |-> run.outcome, failure_message |-> run.failure_message]

RunsMatchDocument ==
  status # "failed" => [i \in DOMAIN testruns |-> Without(testruns[i])] = expected

(***************************************************************************)
(* The documents that JUnit's schema allows: outcomes are leaves of test   *)
(* cases, and test cases and suites are in suites or alone.                *)
(***************************************************************************)
FollowsSchema ==
  \A pair \in Nesting :
    LET parent == pair[1] child == pair[2]
    IN /\ parent \notin {"skipped", "failure", "error"}
       /\ child \in {"skipped", "failure", "error"} => parent = "testcase"
       /\ child \in {"testcase", "testsuite"} =>
            parent \in {"document", "testsuites", "testsuite"}
       /\ child = "testsuites" => parent = "document"

(***************************************************************************)
(* Whatever elements are nested in whatever others: at every point there   *)
(* is one run for each test case closed so far whose attributes are fine,  *)
(* in their order, with its own name and the suite and time around it.  A  *)
(* test case that replaces an open one makes use_reader fail at the outer  *)
(* one's end: no run is lost to it, given twice or kept for another.       *)
(***************************************************************************)
Given(run) == [name |-> run.name, testsuite |-> run.testsuite, duration |-> run.duration]

NoTestcaseLost ==
  [i \in DOMAIN testruns |-> Given(testruns[i])] = [i \in DOMAIN expected |-> Given(expected[i])]

(***************************************************************************)
(* The flags do not outlive their elements: text is only taken for a       *)
(* message inside an open failure or error.                                *)
(***************************************************************************)
FlagsMatchElements ==
  status = "reading" =>
    /\ in_failure => "failure" \in ToSet(open)
    /\ in_error => "error" \in ToSet(open)

FrameworkOfRuns ==
  \A i \in since + 1 .. Len(testruns) :
    /\ testruns[i].computed_by \in {None, framework}
    /\ \A j \in i .. Len(testruns) :
         testruns[i].computed_by # None => testruns[j].computed_by = testruns[i].computed_by

(***************************************************************************)
(* The names of all runs of a testsuites are computed by one framework,    *)
(* the one that use_reader returns, from the first run on that tells which *)
(* it is; and that is the framework of something in this document.         *)
(***************************************************************************)
OneFramework ==
  /\ framework \in hinted \cup {None}
  /\ FrameworkOfRuns

(***************************************************************************)
(* The comment above format_warnings: "we can guarantee that               *)
(* warning[x].location >= warning[x - 1].location", although a test case   *)
(* is placed at its start and a property at its end.                       *)
(***************************************************************************)
WarningsOrdered ==
  /\ \A i \in 2 .. Len(warnings) : warnings[i] >= warnings[i - 1]
  /\ \A i \in DOMAIN warnings : warnings[i] < BufferPosition
=============================================================================
