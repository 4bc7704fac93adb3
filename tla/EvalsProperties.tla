--------------------------- MODULE EvalsProperties ---------------------------
(***************************************************************************)
(* parse_property_element: the evals properties of one test run are put    *)
(* into its JSON value, part by part of the name.                          *)
(*                                                                         *)
(* The JSON value is a function from the places in it to the nodes there:  *)
(* an object, a list or a string.  It has no place at all while the        *)
(* properties are None.  The loop over the parts runs one part per action. *)
(***************************************************************************)
EXTENDS Naturals, Sequences

CONSTANTS
  Paths, NumberOf, Strings, NoValue, NoProperty,   \* see EvalValues
  Object, List,                                    \* serde_json's {} and []
  MaxProperties                                    \* bound on the properties of a test run

ASSUME PathsAssumption == \A path \in Paths : path \in Seq(STRING)
ASSUME NumberOfAssumption ==
  /\ DOMAIN NumberOf \subseteq STRING \ {"evaluations"}
  /\ \A part \in DOMAIN NumberOf : NumberOf[part] \in Nat
ASSUME NodesAssumption == Object # List /\ {Object, List} \cap Strings = {}
ASSUME NoValueAssumption == NoValue \notin Strings

VARIABLES
  existing,    \* existing_properties, from places to nodes
  property,    \* the property that is being parsed, or NoProperty
  current,     \* the place of the node that `current` refers to
  warned,      \* the warnings of properties
  read         \* the properties read so far

evals_vars == <<existing, property, current, warned, read>>

\* The places, the properties and what is promised about them.
Promised == INSTANCE EvalValues WITH
  pending <- property,
  values <- [p \in {q \in DOMAIN existing : existing[q] \in Strings} |-> existing[p]],
  refused <- warned

ASSUME NoPropertyAssumption == NoProperty \notin Promised!Properties

Key(part) == Promised!Key(part)
Item(number) == Promised!Item(number)

InitEvals ==
  /\ existing = <<>>
  /\ property = NoProperty
  /\ current = <<>>
  /\ warned = 0
  /\ read = 0

-----------------------------------------------------------------------------
Reads ==
  /\ property = NoProperty
  /\ read < MaxProperties
  /\ read' = read + 1

\* The function returns an error, and handle_property_element warns of it.
Fail ==
  /\ warned' = warned + 1
  /\ property' = NoProperty
  /\ current' = <<>>

\* Not an evals property: no warning.
OtherProperty(p) ==
  /\ Reads
  /\ ~ p.evals
  /\ UNCHANGED <<existing, property, current, warned>>

BadProperty(p) ==
  /\ Reads
  /\ p.evals
  /\ p.value = NoValue \/ p.path = <<>>
  /\ Fail
  /\ UNCHANGED existing

\* The properties become an object if they are None.
StartProperty(p) ==
  /\ Reads
  /\ p.evals
  /\ p.value # NoValue /\ p.path # <<>>
  /\ property' = p
  /\ current' = <<>>
  /\ existing' = [q \in DOMAIN existing \cup {<<>>} |->
                    IF q \in DOMAIN existing THEN existing[q] ELSE Object]
  /\ UNCHANGED warned

Part == property.path[Len(current) + 1]

\* The loop goes over all parts but the last.
Inner == property # NoProperty /\ Len(current) < Len(property.path) - 1
Final == property # NoProperty /\ Len(current) = Len(property.path) - 1

\* The nodes at these places are made where there is none yet.
WithNodes(places, node) ==
  [q \in DOMAIN existing \cup places |-> IF q \in DOMAIN existing THEN existing[q] ELSE node]

EnterKey ==
  /\ Inner
  /\ existing[current] = Object
  /\ current' = Append(current, Key(Part))
  /\ existing' = WithNodes({current'}, IF Part = "evaluations" THEN List ELSE Object)
  /\ UNCHANGED <<property, warned, read>>

\* Mutant: only the last item is made.
WrongItemsUpTo(number) == {Append(current, Item(number))}

\* array.resize(idx + 1)
ItemsUpTo(number) == {Append(current, Item(n)) : n \in 0 .. number}

EnterItem ==
  /\ Inner
  /\ existing[current] = List
  /\ Part \in DOMAIN NumberOf
  /\ current' = Append(current, Item(NumberOf[Part]))
  /\ existing' = WithNodes(ItemsUpTo(NumberOf[Part]), Object)
  /\ UNCHANGED <<property, warned, read>>

\* A part that is no index, or a string on the way.
CannotEnter ==
  /\ Inner
  /\ \/ existing[current] = List /\ Part \notin DOMAIN NumberOf
     \/ existing[current] \in Strings
  /\ Fail
  /\ UNCHANGED <<existing, read>>

Below(place) == {q \in DOMAIN existing : Promised!Covers(place, q)}

\* Mutant: a value does not replace one.
WrongSetValue ==
  /\ Final
  /\ existing[current] = Object
  /\ existing' = WithNodes({Append(current, Key(Part))}, property.value)
  /\ property' = NoProperty
  /\ current' = <<>>
  /\ UNCHANGED <<warned, read>>

\* map.insert drops the node that was there, with everything below it.
SetValue ==
  /\ Final
  /\ existing[current] = Object
  /\ LET place == Append(current, Key(Part))
     IN existing' = [q \in (DOMAIN existing \ Below(place)) \cup {place} |->
                       IF q = place THEN property.value ELSE existing[q]]
  /\ property' = NoProperty
  /\ current' = <<>>
  /\ UNCHANGED <<warned, read>>

CannotSet ==
  /\ Final
  /\ existing[current] # Object
  /\ Fail
  /\ UNCHANGED <<existing, read>>

NextEvals ==
  \/ \E p \in Promised!Properties : OtherProperty(p) \/ BadProperty(p) \/ StartProperty(p)
  \/ EnterKey
  \/ EnterItem
  \/ CannotEnter
  \/ SetValue
  \/ CannotSet

SpecEvals == InitEvals /\ [][NextEvals]_evals_vars

-----------------------------------------------------------------------------
Containers == {Object, List}

ParentOf(place) == SubSeq(place, 1, Len(place) - 1)
LastStep(place) == place[Len(place)]

\* Whatever comes in whatever order, the properties are one JSON value that a
\* consumer can rely on: every node is in an object or a list, a list is at an
\* "evaluations" key, its items are objects, and none of them is missing.
NodeInPlace(place) ==
  place # <<>> =>
    /\ ParentOf(place) \in DOMAIN existing
    /\ CASE existing[ParentOf(place)] = Object ->
              /\ LastStep(place)[1] = "key"
              /\ existing[place] = List => LastStep(place) = Key("evaluations")
              /\ existing[place] = Object => LastStep(place) # Key("evaluations")
         [] existing[ParentOf(place)] = List ->
              /\ existing[place] = Object
              /\ LastStep(place)[1] = "item"
              /\ \A n \in 0 .. LastStep(place)[2] :
                   Append(ParentOf(place), Item(n)) \in DOMAIN existing
         [] OTHER -> FALSE
OneDocument ==
  /\ DOMAIN existing # {} => <<>> \in DOMAIN existing /\ existing[<<>>] = Object
  /\ \A place \in DOMAIN existing : NodeInPlace(place)

\* The strings in the JSON value are those of a plain map: each property is
\* put at the place that its name alone tells or is refused with a warning as
\* a whole, although containers are made on the way to where it fails.
ImplementsEvalValues == Promised!Spec
=============================================================================
