-------------------------- MODULE MCWarningPositions --------------------------
(***************************************************************************)
(* Small instances of WarningPositions for TLC: every file of at most five *)
(* bytes.                                                                  *)
(***************************************************************************)
EXTENDS WarningPositions

ShortFiles == UNION {[1 .. n -> BOOLEAN] : n \in 0 .. 5}
=============================================================================
