---------------------------- MODULE ComputedNames ----------------------------
(***************************************************************************)
(* compute_name: the name of a test for its framework, from its class name *)
(* and either its file or the paths of the repository (the network).       *)
(*                                                                         *)
(* Class names are split at the dots and paths at the slashes; the suffix  *)
(* .py, the name of the test itself and XML escapes are left out.  The     *)
(* loop over the prefixes of a class name runs one prefix per action.      *)
(***************************************************************************)
EXTENDS Naturals, Sequences, SequencesExt

CONSTANTS
  Classnames,    \* sequences of components, never empty
  Filenames,     \* files a test case may name
  Networks,      \* sets of paths
  NoFilename,
  NoNetwork,
  NotComputed    \* the name is not computed yet

ASSUME ClassnamesAssumption ==
  /\ Classnames \subseteq Seq(STRING) \ {<<>>}
  /\ Filenames \subseteq Seq(STRING) \ {<<>>}
  /\ NoFilename \notin Filenames

ASSUME NotComputedAssumption ==
  NotComputed \notin [path: Seq(STRING), classes: Seq(STRING), separator: STRING]

NoPath == <<>>

VARIABLES
  classname,
  framework,
  filename,
  network,
  path_component_count,
  computed      \* the parts of the computed name, or NotComputed

name_vars == <<classname, framework, filename, network, path_component_count, computed>>

InitName ==
  /\ classname \in Classnames
  /\ framework \in {"Pytest", "Vitest", "Jest", "PHPUnit", "none"}
  /\ filename \in Filenames \cup {NoFilename}
  /\ network \in Networks \cup {NoNetwork}
  /\ path_component_count = 0
  /\ computed = NotComputed

\* separator: "::" after each of the classes, "." the class name as it is before
\* "::", ">" the class name as it is before " > ".
Name(path, classes, separator) == [path |-> path, classes |-> classes, separator |-> separator]

Computed(name) ==
  /\ computed = NotComputed
  /\ computed' = name
  /\ UNCHANGED <<classname, framework, filename, network, path_component_count>>

\* Only the name of the test.
ComputeJest == framework = "Jest" /\ Computed(Name(NoPath, <<>>, ""))

ComputeVitest == framework = "Vitest" /\ Computed(Name(NoPath, classname, ">"))

ComputePlain ==
  /\ \/ framework \in {"PHPUnit", "none"}
     \/ framework = "Pytest" /\ filename = NoFilename /\ network = NoNetwork
  /\ Computed(Name(NoPath, classname, "."))

\* Mutant: skips the components before the file itself.
WrongSkip(components, n) == SubSeq(components, n, Len(components))

\* Iterator::skip
Skip(components, n) == SubSeq(components, n + 1, Len(components))

\* The class name is taken to begin with the path of the file.
ComputePytestUsingFilename ==
  /\ framework = "Pytest"
  /\ filename # NoFilename
  /\ Computed(Name(filename, Skip(classname, Len(filename)), "::"))

UsesNetwork == framework = "Pytest" /\ filename = NoFilename /\ network # NoNetwork

Start == Len(classname)
Prefix == SubSeq(classname, 1, Start - path_component_count)

PathFound ==
  /\ UsesNetwork
  /\ path_component_count < Start
  /\ Prefix \in network
  /\ Computed(Name(Prefix, Skip(classname, Start - path_component_count), "::"))

PathNotFound ==
  /\ UsesNetwork
  /\ computed = NotComputed
  /\ path_component_count < Start
  /\ Prefix \notin network
  /\ path_component_count' = path_component_count + 1
  /\ UNCHANGED <<classname, framework, filename, network, computed>>

NoPrefixFound ==
  /\ UsesNetwork
  /\ path_component_count = Start
  /\ Computed(Name(NoPath, classname, "."))

NextName ==
  \/ ComputeJest
  \/ ComputeVitest
  \/ ComputePlain
  \/ ComputePytestUsingFilename
  \/ PathFound
  \/ PathNotFound
  \/ NoPrefixFound

SpecName == InitName /\ [][NextName]_name_vars

-----------------------------------------------------------------------------
PathsOf(s) == {p \in Prefixes(s) : p # <<>>}

\* The name that a pytest test should have when these are the repository's
\* paths: the longest of them that the class name begins with, and the rest.
IsNameIn(name, paths) ==
  IF paths \cap PathsOf(classname) = {}
  THEN name = Name(NoPath, classname, ".")
  ELSE /\ name.path \in paths
       /\ name.separator = "::"
       /\ name.path \o name.classes = classname
       /\ \A p \in paths \cap PathsOf(classname) : Len(p) <= Len(name.path)

\* The paths a pytest test is looked for in: its file, if its class name begins
\* with it, or those of the repository.
KnownPaths == IF filename = NoFilename THEN network ELSE {filename}

\* However many of the repository's paths fit, the computed name has the
\* longest of them, and no part of the class name is lost or said twice; and a
\* test that names its file is called what it would be called if that file had
\* been found in the repository.
LongestPathFound ==
  /\ framework = "Pytest" /\ computed # NotComputed
  /\ IF filename = NoFilename THEN network # NoNetwork ELSE IsPrefix(filename, classname)
  => IsNameIn(computed, KnownPaths)
=============================================================================
