----------------------------- MODULE FailingTests -----------------------------
(***************************************************************************)
(* What the interning tables of the test analytics file are for: a writer  *)
(* knows, for every test and set of flags it has a record of, which        *)
(* commits it failed on.  Files, merge and rewrite carry that over.  There *)
(* are no offsets here, no tables, and no order of records.                *)
(***************************************************************************)
EXTENDS Naturals, Sequences

CONSTANTS Tests, FlagSets, Commits

VARIABLES
  known,    \* the commits each recorded test failed on
  pending,  \* what merge or rewrite still has to carry over
  task,     \* "none", "merge" or "rewrite"
  saved     \* what was known when each file was written

vars == <<known, pending, task, saved>>

Keys == [test : Tests, flags : FlagSets]

Nothing == [k \in {} |-> {}]

Failures(k, key) == IF key \in DOMAIN k THEN k[key] ELSE {}

\* k with a record of key, which failed on commits too.
Adding(k, key, commits) ==
  [x \in DOMAIN k \cup {key} |->
     IF x = key THEN Failures(k, key) \cup commits ELSE k[x]]

Without(k, key) == [x \in DOMAIN k \ {key} |-> k[x]]

Init == known = Nothing /\ pending = Nothing /\ task = "none" /\ saved = <<>>

\* A run that failed on the commits: one, or none if it did not fail.
Run(key, commits) ==
  /\ task = "none"
  /\ known' = Adding(known, key, commits)
  /\ UNCHANGED <<pending, task, saved>>

Forget ==
  /\ task = "none"
  /\ known' = Nothing
  /\ UNCHANGED <<pending, task, saved>>

Save ==
  /\ task = "none"
  /\ saved' = Append(saved, known)
  /\ known' = Nothing
  /\ UNCHANGED <<pending, task>>

Open(f) ==
  /\ task = "none"
  /\ known' = saved[f]
  /\ UNCHANGED <<pending, task, saved>>

MergeBegin(f, g) ==
  /\ task = "none"
  /\ task' = "merge"
  /\ known' = saved[f]
  /\ pending' = saved[g]
  /\ UNCHANGED saved

RewriteBegin ==
  /\ task = "none"
  /\ task' = "rewrite"
  /\ known' = Nothing
  /\ pending' = known
  /\ UNCHANGED saved

CarryOver(key) ==
  /\ task # "none"
  /\ known' = Adding(known, key, pending[key])
  /\ pending' = Without(pending, key)
  /\ UNCHANGED <<task, saved>>

\* Only rewrite drops records: those that are older than its window.
Drop(key) ==
  /\ task = "rewrite"
  /\ pending' = Without(pending, key)
  /\ UNCHANGED <<known, task, saved>>

Finish ==
  /\ task # "none"
  /\ pending = Nothing
  /\ task' = "none"
  /\ UNCHANGED <<known, pending, saved>>

Next ==
  \/ \E key \in Keys : Run(key, {}) \/ \E commit \in Commits : Run(key, {commit})
  \/ Forget
  \/ Save
  \/ \E f \in DOMAIN saved : Open(f)
  \/ \E f, g \in DOMAIN saved : MergeBegin(f, g)
  \/ RewriteBegin
  \/ \E key \in DOMAIN pending : CarryOver(key) \/ Drop(key)
  \/ Finish

Spec == Init /\ [][Next]_vars
=============================================================================
