-------------------------------- MODULE JUnit --------------------------------
(***************************************************************************)
(* use_reader: test runs from the events of one XML document.              *)
(*                                                                         *)
(* The events come from quick_xml, which is external: it keeps the names   *)
(* of the elements that are open, fails for an end tag that does not match *)
(* the last of them, and does not mind a document that ends too early.     *)
(* Names of tests and messages are numbers; an attribute that is not there *)
(* is None.  Every event takes up two positions of the document, so that   *)
(* the place of a warning is the first for a test case and the second for  *)
(* a property.                                                             *)
(***************************************************************************)
EXTENDS Naturals, Sequences, SequencesExt

CONSTANTS
  Skipped,       \* TestrunOrSkipped::Skipped
  None,          \* an Option without a value, or a name of no framework
  Frameworks,    \* names of suites and hints of test cases that name a framework
  SuiteNames,    \* names a testsuite or testsuites may have
  SuiteTimes,    \* times a testsuite may have
  TestTimes,     \* times a test case may have
  Attrs,         \* attributes of a test case, see Attributes
  Messages,      \* messages and texts of failures and errors
  Nesting,       \* pairs of an element and a child it may have
  MaxEvents      \* bound on the events of a document

ASSUME NoneAssumption == None \notin SuiteTimes \cup Messages \cup Frameworks
ASSUME MaxEventsAssumption == MaxEvents \in Nat

Elements == {"testsuites", "testsuite", "testcase", "skipped", "failure",
             "error", "property", "other"}

ASSUME NestingAssumption == Nesting \subseteq ({"document"} \cup Elements) \X Elements

VARIABLES
  status,           \* "reading", "done" or "failed": what use_reader returned
  open,             \* the elements quick_xml has open
  position,         \* events read so far
  saved_testrun,    \* None, Skipped or the run of the open test case
  in_failure,
  in_error,
  framework,
  testsuite_names,
  testsuite_times,
  testruns,
  warnings          \* the positions of the warnings

parser == <<saved_testrun, in_failure, in_error, framework, testsuite_names,
            testsuite_times, testruns, warnings>>
vars == <<status, open, position, parser>>

-----------------------------------------------------------------------------
(* A test case: parsed says what parse_testcase_attrs makes of it, hint is *)
(* the framework its class name, name or file belongs to, and long_name    *)
(* that its computed name is longer than 1000 bytes.                       *)
Attributes ==
  [parsed : {"Ok", "AttrTooLong", "Err"}, name : Nat,
   time : TestTimes \cup {None}, hint : Frameworks \cup {None}, long_name : BOOLEAN]

ASSUME AttrsAssumption == Attrs \subseteq Attributes

Testruns ==
  [name : Nat, testsuite : SuiteNames \cup {None},
   duration : SuiteTimes \cup TestTimes \cup {None},
   outcome : {"Pass", "Skip", "Failure", "Error"},
   failure_message : Messages \cup {None}, computed_by : Frameworks \cup {None}]

ASSUME SkippedAssumption == Skipped # None /\ Skipped \notin Testruns /\ None \notin Testruns

BadTime == "bad"

ParseTime(time) == IF time = BadTime THEN None ELSE time

\* iter().rev().find_map(..)
LastSome(stack) ==
  LET some == {i \in DOMAIN stack : stack[i] # None}
  IN IF some = {} THEN None ELSE stack[CHOOSE i \in some : \A j \in some : j <= i]

CheckTestsuitesName(name) == IF name \in Frameworks THEN name ELSE None

\* Testrun::framework: the name of the suite goes before the extensions.
TestrunFramework(testsuite, attrs) ==
  IF testsuite \in Frameworks THEN testsuite ELSE attrs.hint

Some(first, second) == IF first # None THEN first ELSE second

\* Mutant: what the test case says goes before what is known already.
WrongPopulatedFramework(attrs) ==
  Some(TestrunFramework(LastSome(testsuite_names), attrs), framework)

PopulatedFramework(attrs) ==
  Some(framework, TestrunFramework(LastSome(testsuite_names), attrs))

Populate(attrs) ==
  [name |-> attrs.name,
   testsuite |-> LastSome(testsuite_names),
   duration |-> ParseTime(Some(attrs.time, LastSome(testsuite_times))),
   outcome |-> "Pass",
   failure_message |-> None,
   computed_by |-> PopulatedFramework(attrs)]

-----------------------------------------------------------------------------
(* The events of quick_xml.                                                *)

Parent == IF open = <<>> THEN "document" ELSE Last(open)
Nested(element) == <<Parent, element>> \in Nesting

\* Mutant: subtracts more than the tag is long.
WrongStartOf(event) == 2 * event - 2

\* The position of the start of an event and, once read, of its end.
StartOf(event) == 2 * event
BufferPosition == 2 * position + 1

Reads ==
  /\ status = "reading"
  /\ position < MaxEvents
  /\ position' = position + 1

Opens(element) ==
  /\ Reads
  /\ Nested(element)
  /\ open' = Append(open, element)

Empties(element) ==
  /\ Reads
  /\ Nested(element)
  /\ UNCHANGED open

Closes(element) ==
  /\ Reads
  /\ open # <<>>
  /\ Last(open) = element
  /\ open' = Front(open)

-----------------------------------------------------------------------------
(* The start of use_reader.  status is "done" while it is not running.     *)

NewParser ==
  [saved_testrun |-> None, in_failure |-> FALSE, in_error |-> FALSE, framework |-> None,
   testsuite_names |-> <<>>, testsuite_times |-> <<>>, testruns |-> <<>>, warnings |-> <<>>]

\* Mutant: the framework is not a local variable.
WrongNoDocument ==
  /\ open' = <<>>
  /\ position' = 0
  /\ saved_testrun' = NewParser.saved_testrun
  /\ in_failure' = NewParser.in_failure
  /\ in_error' = NewParser.in_error
  /\ testsuite_names' = NewParser.testsuite_names
  /\ testsuite_times' = NewParser.testsuite_times
  /\ testruns' = NewParser.testruns
  /\ warnings' = NewParser.warnings
  /\ UNCHANGED framework

NoDocument ==
  /\ open' = <<>>
  /\ position' = 0
  /\ saved_testrun' = NewParser.saved_testrun
  /\ in_failure' = NewParser.in_failure
  /\ in_error' = NewParser.in_error
  /\ framework' = NewParser.framework
  /\ testsuite_names' = NewParser.testsuite_names
  /\ testsuite_times' = NewParser.testsuite_times
  /\ testruns' = NewParser.testruns
  /\ warnings' = NewParser.warnings

Init ==
  /\ status = "done"
  /\ open = <<>>
  /\ position = 0
  /\ saved_testrun = NewParser.saved_testrun
  /\ in_failure = NewParser.in_failure
  /\ in_error = NewParser.in_error
  /\ framework = NewParser.framework
  /\ testsuite_names = NewParser.testsuite_names
  /\ testsuite_times = NewParser.testsuite_times
  /\ testruns = NewParser.testruns
  /\ warnings = NewParser.warnings

UseReader ==
  /\ status # "reading"
  /\ status' = "reading"
  /\ NoDocument

\* An error is returned, and nothing of what was read so far.
Fails ==
  /\ status = "reading"
  /\ position < MaxEvents
  /\ status' = "failed"
  /\ NoDocument

-----------------------------------------------------------------------------
(* Test cases.                                                             *)

TestcaseFails(attrs) ==
  \/ attrs.parsed = "Err"
  \/ attrs.parsed = "Ok" /\ attrs.long_name

StartTestcase(attrs) ==
  /\ Opens("testcase")
  /\ ~TestcaseFails(attrs)
  /\ IF attrs.parsed = "Ok"
     THEN /\ saved_testrun' = Populate(attrs)
          /\ framework' = PopulatedFramework(attrs)
          /\ UNCHANGED warnings
     ELSE /\ saved_testrun' = Skipped
          /\ warnings' = Append(warnings, StartOf(position))
          /\ UNCHANGED framework
  /\ UNCHANGED <<status, in_failure, in_error, testsuite_names, testsuite_times, testruns>>

EmptyTestcase(attrs) ==
  /\ Empties("testcase")
  /\ ~TestcaseFails(attrs)
  /\ IF attrs.parsed = "Ok"
     THEN /\ testruns' = Append(testruns, Populate(attrs))
          /\ framework' = PopulatedFramework(attrs)
          /\ UNCHANGED warnings
     ELSE /\ warnings' = Append(warnings, StartOf(position))
          /\ UNCHANGED <<testruns, framework>>
  /\ UNCHANGED <<status, saved_testrun, in_failure, in_error, testsuite_names, testsuite_times>>

\* Attributes without a name, or a computed name that is too long.
BadTestcase(attrs) ==
  /\ Nested("testcase")
  /\ TestcaseFails(attrs)
  /\ Fails

\* Mutant: a closing tag without an open test case is not an error.
WrongEndTestcase ==
  /\ Closes("testcase")
  /\ testruns' = IF saved_testrun \in {None, Skipped} THEN testruns
                 ELSE Append(testruns, saved_testrun)
  /\ saved_testrun' = None
  /\ UNCHANGED <<status, in_failure, in_error, framework, testsuite_names, testsuite_times,
                 warnings>>

EndTestcase ==
  /\ Closes("testcase")
  /\ saved_testrun # None
  /\ testruns' = IF saved_testrun = Skipped THEN testruns ELSE Append(testruns, saved_testrun)
  /\ saved_testrun' = None
  /\ UNCHANGED <<status, in_failure, in_error, framework, testsuite_names, testsuite_times,
                 warnings>>

-----------------------------------------------------------------------------
(* Outcomes.                                                               *)

OutcomeOf(element) ==
  CASE element = "skipped" -> "Skip"
    [] element = "failure" -> "Failure"
    [] element = "error"   -> "Error"

\* Mutant: an outcome without a message keeps that of the one before.
WrongMark(element, message) ==
  /\ saved_testrun # None
  /\ saved_testrun' =
       IF saved_testrun = Skipped THEN saved_testrun
       ELSE [saved_testrun EXCEPT
               !.outcome = OutcomeOf(element),
               !.failure_message = Some(message, @)]

\* message is None for skipped, which has no effect on the message.
Mark(element, message) ==
  /\ saved_testrun # None
  /\ saved_testrun' =
       IF saved_testrun = Skipped THEN saved_testrun
       ELSE [saved_testrun EXCEPT
               !.outcome = OutcomeOf(element),
               !.failure_message = IF element = "skipped" THEN @ ELSE message]

StartOutcome(element, message) ==
  /\ Opens(element)
  /\ Mark(element, message)
  /\ in_failure' = (in_failure \/ element = "failure")
  /\ in_error' = (in_error \/ element = "error")
  /\ UNCHANGED <<status, framework, testsuite_names, testsuite_times, testruns, warnings>>

EmptyOutcome(element, message) ==
  /\ Empties(element)
  /\ Mark(element, message)
  /\ UNCHANGED <<status, in_failure, in_error, framework, testsuite_names, testsuite_times,
                 testruns, warnings>>

\* Mutant: the flags are not reset.
WrongEndOutcome(element) == Closes(element) /\ UNCHANGED <<status, parser>>

EndOutcome(element) ==
  /\ Closes(element)
  /\ in_failure' = (in_failure /\ element # "failure")
  /\ in_error' = (in_error /\ element # "error")
  /\ UNCHANGED <<status, saved_testrun, framework, testsuite_names, testsuite_times, testruns,
                 warnings>>

\* trim_text(true) drops text of white space only.
Text(message) ==
  /\ Reads
  /\ UNCHANGED open
  /\ (in_failure \/ in_error) => saved_testrun # None
  /\ saved_testrun' =
       IF (in_failure \/ in_error) /\ saved_testrun # Skipped
       THEN [saved_testrun EXCEPT !.failure_message = message]
       ELSE saved_testrun
  /\ UNCHANGED <<status, in_failure, in_error, framework, testsuite_names, testsuite_times,
                 testruns, warnings>>

\* An outcome, its text or the end of a test case while no test case is open.
NoTestrun ==
  /\ saved_testrun = None
  /\ \/ \E element \in {"skipped", "failure", "error"} : Nested(element)
     \/ Parent = "testcase"
     \/ in_failure \/ in_error
  /\ Fails

-----------------------------------------------------------------------------
(* Suites, properties and the rest.                                        *)

StartTestsuite(name, time) ==
  /\ Opens("testsuite")
  /\ testsuite_names' = Append(testsuite_names, name)
  /\ testsuite_times' = Append(testsuite_times, time)
  /\ UNCHANGED <<status, saved_testrun, in_failure, in_error, framework, testruns, warnings>>

\* Mutant: the time stays on its stack.
WrongEndTestsuite ==
  /\ Closes("testsuite")
  /\ testsuite_names' = Front(testsuite_names)
  /\ UNCHANGED <<status, saved_testrun, in_failure, in_error, framework, testsuite_times,
                 testruns, warnings>>

EndTestsuite ==
  /\ Closes("testsuite")
  /\ testsuite_names' = Front(testsuite_names)
  /\ testsuite_times' = Front(testsuite_times)
  /\ UNCHANGED <<status, saved_testrun, in_failure, in_error, framework, testruns, warnings>>

StartTestsuites(name) ==
  /\ Opens("testsuites")
  /\ framework' = CheckTestsuitesName(name)
  /\ UNCHANGED <<status, saved_testrun, in_failure, in_error, testsuite_names, testsuite_times,
                 testruns, warnings>>

\* valid is FALSE for an evals property that parse_property_element refuses;
\* the values of properties are left out.
Property(valid) ==
  /\ Opens("property") \/ Empties("property")
  /\ warnings' = IF saved_testrun \in {None, Skipped} \/ valid THEN warnings
                 ELSE Append(warnings, BufferPosition)
  /\ UNCHANGED <<status, saved_testrun, in_failure, in_error, framework, testsuite_names,
                 testsuite_times, testruns>>

\* Other elements, comments, CDATA and so on.
Ignored ==
  /\ \/ Reads /\ UNCHANGED open
     \/ Opens("other")
     \/ \E element \in {"other", "testsuite", "testsuites"} : Empties(element)
     \/ \E element \in {"other", "property", "testsuites"} : Closes(element)
  /\ UNCHANGED <<status, parser>>

\* quick_xml or get_attribute return an error, or a suite's name is too long.
Malformed == Fails

\* Mutant: the loop goes on after the end.
WrongEof == status = "reading" /\ UNCHANGED vars

\* The document ends, wherever that is.
Eof ==
  /\ status = "reading"
  /\ status' = "done"
  /\ UNCHANGED <<open, position, parser>>

Event ==
  \/ \E attrs \in Attrs : StartTestcase(attrs) \/ EmptyTestcase(attrs) \/ BadTestcase(attrs)
  \/ EndTestcase
  \/ \E element \in {"failure", "error"}, message \in Messages \cup {None} :
       StartOutcome(element, message) \/ EmptyOutcome(element, message)
  \/ StartOutcome("skipped", None) \/ EmptyOutcome("skipped", None)
  \/ \E element \in {"skipped", "failure", "error"} : EndOutcome(element)
  \/ \E message \in Messages : Text(message)
  \/ NoTestrun
  \/ \E name \in SuiteNames \cup {None}, time \in SuiteTimes \cup {None} :
       StartTestsuite(name, time)
  \/ EndTestsuite
  \/ \E name \in SuiteNames \cup {None} : StartTestsuites(name)
  \/ \E valid \in BOOLEAN : Property(valid)
  \/ Ignored
  \/ Malformed
  \/ Eof

Next == UseReader \/ Event

Spec == Init /\ [][Next]_vars
=============================================================================
