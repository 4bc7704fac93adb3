-------------------------- MODULE MCInternedTables --------------------------
(***************************************************************************)
(* A small instance of InternedTables for TLC.                             *)
(***************************************************************************)
EXTENDS InternedTables, TLC

CONSTANTS c1, c2

\* Names and flags share the table of strings: 1 is a name, a testsuite and a
\* flag, and each test is the other with testsuite and name exchanged.
SwappedTests == {[testsuite |-> 0, name |-> 1], [testsuite |-> 1, name |-> 0]}

\* One set in two spellings, and a part of that set.
SpelledFlags == {<<2, 1>>, <<1, 2, 2>>, <<2>>}

Symmetry == Permutations({c1, c2})
=============================================================================
