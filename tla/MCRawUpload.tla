----------------------------- MODULE MCRawUpload -----------------------------
(***************************************************************************)
(* A small instance of RawUpload for TLC: files with test cases, some of   *)
(* which tell their framework, and failures.                               *)
(***************************************************************************)
EXTENDS RawUpload

Attr(parsed, name, hint) ==
  [parsed |-> parsed, name |-> name, time |-> None, hint |-> hint, long_name |-> FALSE]

FewAttrs == {Attr("Ok", 1, None), Attr("Ok", 2, "Pytest"), Attr("Err", 3, None)}

FewElements == {<<"document", "testcase">>, <<"testcase", "failure">>}
=============================================================================
