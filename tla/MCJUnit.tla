------------------------------- MODULE MCJUnit -------------------------------
(***************************************************************************)
(* Small instances of JUnitDocument for TLC.                               *)
(***************************************************************************)
EXTENDS JUnitDocument

Attr(parsed, name, time, hint, long_name) ==
  [parsed |-> parsed, name |-> name, time |-> time, hint |-> hint, long_name |-> long_name]

\* Without and with a time, and with a name that is too long.
GoodAttrs ==
  {Attr("Ok", 1, None, None, FALSE), Attr("Ok", 2, "own", "Pytest", FALSE),
   Attr("AttrTooLong", 5, None, None, FALSE)}

\* A time that is not a number, a computed name that is too long, no name.
OddAttrs ==
  {Attr("Ok", 3, BadTime, "Pytest", FALSE), Attr("Ok", 4, None, None, TRUE),
   Attr("AttrTooLong", 5, None, None, FALSE), Attr("Err", 6, None, None, FALSE)}

Outcomes == {"skipped", "failure", "error"}

\* Suites in suites, test cases in suites or alone, outcomes in test cases.
DocumentSchema ==
  {<<"document", "testsuites">>, <<"testsuites", "testsuite">>, <<"testsuite", "testsuite">>}
    \cup ({"document", "testsuite"} \X {"testcase"})
    \cup ({"testcase"} \X Outcomes)

\* Anything in anything else, but for testsuites; errors are in test cases and
\* failures, with test cases in them, and suites alone or in suites.
AnyNesting ==
  {<<"document", "testsuite">>, <<"testsuite", "testsuite">>}
    \cup ({"document", "testsuite", "testcase", "failure", "other"}
            \X {"testcase", "failure", "property", "other"})
    \cup {<<"testcase", "error">>, <<"failure", "error">>, <<"error", "testcase">>}
=============================================================================
