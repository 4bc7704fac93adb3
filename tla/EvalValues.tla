------------------------------ MODULE EvalValues ------------------------------
(***************************************************************************)
(* What the evals properties of a test run promise: a map from places to   *)
(* strings.  The name of a property alone says what place it is about, and *)
(* nothing is left of a property that is refused.                          *)
(*                                                                         *)
(* A path is a name without its first part, split at the dots.  A place is *)
(* a sequence of keys of objects and numbers of list items; "evaluations"  *)
(* is the key of a list.                                                   *)
(***************************************************************************)
EXTENDS SequencesExt

CONSTANTS
  Paths,      \* the paths of the properties
  NumberOf,   \* a function from the parts that are written like a number
  Strings,    \* the values of properties
  NoValue,    \* a property has no value, or attributes that cannot be read
  NoProperty  \* nothing is pending

\* evals: the name begins with "evals", be it only a part of a longer word.
Properties == [evals: BOOLEAN, path: Paths, value: Strings \cup {NoValue}]

VARIABLES
  pending,    \* the property that is being looked at, or NoProperty
  values,     \* a function from places to strings
  refused     \* how many properties were refused, with a warning each

Key(part) == <<"key", part>>
Item(number) == <<"item", number>>
Steps == {Key(part) : part \in STRING} \cup {Item(number) : number \in Nat}

InList(path, i) == i > 1 /\ path[i - 1] = "evaluations"

Place(path) ==
  [i \in DOMAIN path |-> IF InList(path, i) THEN Item(NumberOf[path[i]]) ELSE Key(path[i])]

\* A place, and what is below it.
Covers(place, other) == IsPrefix(place, other)

\* A value cannot be one of the items of a list itself.
NamesPlace(path) ==
  /\ path # <<>>
  /\ \A i \in DOMAIN path : InList(path, i) => path[i] \in DOMAIN NumberOf /\ i < Len(path)

\* There is no way through a string.
Free(place) ==
  \A p \in DOMAIN values : Covers(p, place) => p = place

Accepts(property) ==
  /\ property.value # NoValue
  /\ NamesPlace(property.path)
  /\ Free(Place(property.path))

Receive(property) ==
  /\ pending = NoProperty
  /\ pending' = property
  /\ UNCHANGED <<values, refused>>

\* The value replaces what there was at its place and below.
Accept ==
  LET place == Place(pending.path)
      kept == {p \in DOMAIN values : ~ Covers(place, p)}
  IN /\ pending # NoProperty
     /\ Accepts(pending)
     /\ pending' = NoProperty
     /\ values' = [p \in kept \cup {place} |-> IF p = place THEN pending.value ELSE values[p]]
     /\ UNCHANGED refused

Refuse ==
  /\ pending # NoProperty
  /\ ~ Accepts(pending)
  /\ pending' = NoProperty
  /\ refused' = refused + 1
  /\ UNCHANGED values

RefuseAtOnce(property) ==
  /\ pending = NoProperty
  /\ ~ Accepts(property)
  /\ refused' = refused + 1
  /\ UNCHANGED <<pending, values>>

Init == pending = NoProperty /\ values = <<>> /\ refused = 0

Next ==
  \/ Accept
  \/ Refuse
  \/ \E property \in Properties :
       property.evals /\ (Receive(property) \/ RefuseAtOnce(property))

Spec == Init /\ [][Next]_<<pending, values, refused>>
=============================================================================
