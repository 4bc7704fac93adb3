------------------------ MODULE EvalsPropertiesProofs ------------------------
(***************************************************************************)
(* The JSON value of the evals properties is one document, and implements  *)
(* EvalValues, for any names and values.                                   *)
(***************************************************************************)
EXTENDS EvalsProperties, SequenceTheorems, TLAPS

Places == Seq(Promised!Steps)

USE DEF Places

LEMMA CoversPointwise ==
  ASSUME NEW p \in Places, NEW q \in Places
  PROVE  Promised!Covers(p, q) <=> Len(p) <= Len(q) /\ \A i \in 1 .. Len(p) : p[i] = q[i]
BY DEF Promised!Covers, Promised!IsPrefix

LEMMA ParentOfAppend ==
  ASSUME NEW p \in Places, NEW s \in Promised!Steps
  PROVE  /\ Append(p, s) \in Places
         /\ Append(p, s) # <<>>
         /\ ParentOf(Append(p, s)) = p
         /\ LastStep(Append(p, s)) = s
BY AppendProperties DEF ParentOf, LastStep

LEMMA ParentIsPlace ==
  ASSUME NEW p \in Places, p # <<>>
  PROVE  /\ ParentOf(p) \in Places
         /\ LastStep(p) \in Promised!Steps
         /\ p = Append(ParentOf(p), LastStep(p))
         /\ Len(ParentOf(p)) = Len(p) - 1
         /\ \A i \in 1 .. Len(p) - 1 : ParentOf(p)[i] = p[i]
BY DEF ParentOf, LastStep

-----------------------------------------------------------------------------
(* The inductive invariant.                                                *)

Types ==
  /\ existing = [q \in DOMAIN existing |-> existing[q]]
  /\ DOMAIN existing \subseteq Places
  /\ \A q \in DOMAIN existing : existing[q] \in Containers \cup Strings
  /\ current \in Places
  /\ warned \in Nat

\* The loop has come the way that the name tells, through containers.
OnTheWay ==
  property # NoProperty =>
    /\ property \in Promised!Properties
    /\ property.evals
    /\ property.value # NoValue
    /\ Len(current) < Len(property.path)
    /\ current \in DOMAIN existing
    /\ \A i \in 1 .. Len(current) : current[i] = Promised!Place(property.path)[i]
    /\ \A i \in 1 .. Len(current) :
         Promised!InList(property.path, i) => property.path[i] \in DOMAIN NumberOf
    /\ \A q \in DOMAIN existing :
         Promised!Covers(q, current) /\ q # current => existing[q] \in Containers

Inductive == Types /\ OneDocument /\ OnTheWay

-----------------------------------------------------------------------------
LEMMA StepFacts ==
  /\ \A part \in STRING : Key(part) \in Promised!Steps /\ Key(part)[1] = "key"
                          /\ Key(part)[2] = part
  /\ \A n \in Nat : Item(n) \in Promised!Steps /\ Item(n)[1] = "item" /\ Item(n)[2] = n
  /\ \A part \in STRING, n \in Nat : Key(part) # Item(n)
  /\ \A s \in Promised!Steps : s[1] = "item" => s[2] \in Nat /\ s = Item(s[2])
  /\ \A s \in Promised!Steps : s[1] = "key" => s[2] \in STRING /\ s = Key(s[2])
BY DEF Key, Item, Promised!Key, Promised!Item, Promised!Steps

LEMMA PathFacts ==
  ASSUME NEW p \in Promised!Properties
  PROVE  /\ p.path \in Seq(STRING)
         /\ DOMAIN p.path = 1 .. Len(p.path)
         /\ p.evals \in BOOLEAN
         /\ p.value \in Strings \cup {NoValue}
         /\ p # NoProperty
BY PathsAssumption, NoPropertyAssumption DEF Promised!Properties

\* What kind of container the loop is at tells whether the next part is an
\* index.
LEMMA KindOfContainer ==
  ASSUME Inductive, property # NoProperty
  PROVE  /\ existing[current] = List => Promised!InList(property.path, Len(current) + 1)
         /\ existing[current] = Object => ~ Promised!InList(property.path, Len(current) + 1)
<1> DEFINE path == property.path
           n == Len(current)
<1>0. path \in Seq(STRING) /\ n \in Nat /\ n < Len(path) /\ DOMAIN path = 1 .. Len(path)
  BY PathFacts DEF Inductive, OnTheWay, Types
<1>1. CASE current = <<>>
  <2>1. n = 0 /\ existing[current] = Object
    BY <1>1, <1>0 DEF Inductive, OnTheWay, OneDocument
  <2> QED BY <2>1, NodesAssumption DEF Promised!InList
<1>2. CASE current # <<>>
  <2>1. current \in Places /\ current \in DOMAIN existing /\ n \in 1 .. Len(path)
    BY <1>0, <1>2 DEF Inductive, OnTheWay, Types
  <2>2. NodeInPlace(current)
    BY <2>1 DEF Inductive, OneDocument
  <2>3. LastStep(current) = Promised!Place(path)[n]
    BY <2>1 DEF Inductive, OnTheWay, LastStep
  <2>4. Promised!Place(path)[n] =
          IF Promised!InList(path, n) THEN Item(NumberOf[path[n]]) ELSE Key(path[n])
    BY <1>0, <2>1 DEF Promised!Place, Item, Key
  <2>5. Promised!InList(path, n) => path[n] \in DOMAIN NumberOf /\ path[n] # "evaluations"
                                     /\ NumberOf[path[n]] \in Nat
    BY <2>1, NumberOfAssumption DEF Inductive, OnTheWay
  <2>6. path[n] \in STRING
    BY <1>0, <2>1
  <2>7. Promised!InList(path, n + 1) <=> path[n] = "evaluations"
    BY <1>0, <2>1 DEF Promised!InList
  <2>8. Key(path[n]) = Key("evaluations") <=> path[n] = "evaluations"
    BY <2>6 DEF Key, Promised!Key
  <2>9. CASE existing[ParentOf(current)] = Object
    BY <1>2, <2>2, <2>3, <2>4, <2>5, <2>6, <2>7, <2>8, <2>9, StepFacts, NodesAssumption
      DEF NodeInPlace
  <2>10. CASE existing[ParentOf(current)] = List
    <3>1. existing[current] = Object /\ LastStep(current)[1] = "item"
      BY <1>2, <2>2, <2>10, NodesAssumption DEF NodeInPlace
    <3>2. Promised!InList(path, n)
      BY <3>1, <2>3, <2>4, <2>6, StepFacts
    <3> QED BY <3>1, <3>2, <2>5, <2>7, NodesAssumption
  <2> QED BY <1>2, <2>2, <2>9, <2>10 DEF NodeInPlace
<1> QED BY <1>1, <1>2

-----------------------------------------------------------------------------
(* Steps of the loop.                                                      *)

Stored(doc) == [p \in {q \in DOMAIN doc : doc[q] \in Strings} |-> doc[p]]

\* Containers that are made where there was nothing leave the strings alone,
\* and the other nodes in their places.
LEMMA NewContainers ==
  ASSUME Types, NEW P \in SUBSET Places, NEW node \in Containers,
         existing' = WithNodes(P, node)
  PROVE  /\ existing' = [q \in DOMAIN existing' |-> existing'[q]]
         /\ DOMAIN existing' = DOMAIN existing \cup P
         /\ DOMAIN existing' \subseteq Places
         /\ \A q \in DOMAIN existing : existing'[q] = existing[q]
         /\ \A q \in DOMAIN existing' \ DOMAIN existing : q \in P /\ existing'[q] = node
         /\ \A q \in DOMAIN existing' : existing'[q] \in Containers \cup Strings
         /\ Stored(existing') = Stored(existing)
         /\ \A q \in DOMAIN existing : NodeInPlace(q) => NodeInPlace(q)'
<1>1. /\ existing' = [q \in DOMAIN existing' |-> existing'[q]]
      /\ DOMAIN existing' = DOMAIN existing \cup P
      /\ DOMAIN existing' \subseteq Places
      /\ \A q \in DOMAIN existing : existing'[q] = existing[q]
      /\ \A q \in DOMAIN existing' \ DOMAIN existing : q \in P /\ existing'[q] = node
  BY DEF WithNodes, Types
<1>2. \A q \in DOMAIN existing' : existing'[q] \in Containers \cup Strings
  BY <1>1 DEF Types
<1>3. Containers \cap Strings = {}
  BY NodesAssumption DEF Containers
<1>4. {q \in DOMAIN existing' : existing'[q] \in Strings} =
        {q \in DOMAIN existing : existing[q] \in Strings}
  BY <1>1, <1>3
<1>5. Stored(existing') = Stored(existing)
  BY <1>1, <1>4 DEF Stored
<1>6. ASSUME NEW q \in DOMAIN existing, NodeInPlace(q)
      PROVE  NodeInPlace(q)'
  BY <1>1, <1>6 DEF NodeInPlace
<1> QED BY <1>1, <1>2, <1>5, <1>6

\* The loop stays on its way when it goes to the node that the next part of
\* the name stands for.
LEMMA GoesOn ==
  ASSUME Inductive, Inner, Types', existing[current] \in Containers,
         NEW node \in Containers, NEW P \in SUBSET Places,
         existing' = WithNodes(P, node),
         property' = property,
         Promised!InList(property.path, Len(current) + 1) => Part \in DOMAIN NumberOf,
         current' = Append(current, Promised!Place(property.path)[Len(current) + 1]),
         Promised!Place(property.path)[Len(current) + 1] \in Promised!Steps,
         current' \in P
  PROVE  OnTheWay'
<1> DEFINE path == property.path
           n == Len(current)
<1>0. /\ property # NoProperty /\ path \in Seq(STRING) /\ n \in Nat /\ n + 1 < Len(path)
      /\ current \in Places /\ current' \in Places /\ property \in Promised!Properties
  BY PathFacts DEF Inductive, OnTheWay, Types, Inner
<1>n. /\ DOMAIN existing' = DOMAIN existing \cup P
      /\ \A q \in DOMAIN existing : existing'[q] = existing[q]
      /\ \A q \in DOMAIN existing' \ DOMAIN existing : existing'[q] = node
  BY DEF WithNodes, Inductive, Types
<1>1. /\ Len(current') = n + 1
      /\ \A i \in 1 .. n : current'[i] = current[i]
      /\ current'[n + 1] = Promised!Place(path)[n + 1]
  BY <1>0
<1>2. \A i \in 1 .. n + 1 : current'[i] = Promised!Place(path)[i]
  BY <1>0, <1>1 DEF Inductive, OnTheWay
<1>3. ASSUME NEW i \in 1 .. n + 1, Promised!InList(path, i)
      PROVE  path[i] \in DOMAIN NumberOf
  BY <1>0, <1>3 DEF Inductive, OnTheWay, Part
<1>4. ASSUME NEW q \in DOMAIN existing', Promised!Covers(q, current'), q # current'
      PROVE  existing'[q] \in Containers
  <2>1. CASE q \notin DOMAIN existing
    BY <2>1, <1>4, <1>n
  <2>2. CASE q \in DOMAIN existing
    <3>1. q \in Places /\ existing'[q] = existing[q]
      BY <2>2, <1>n DEF Inductive, Types
    <3>2. Len(q) <= n + 1 /\ \A i \in 1 .. Len(q) : q[i] = current'[i]
      BY <1>0, <1>1, <1>4, <3>1, CoversPointwise
    <3>3. Len(q) # n + 1
      BY <1>0, <1>1, <1>4, <3>1, <3>2, SeqEqual
    <3>4. Promised!Covers(q, current)
      BY <1>0, <1>1, <3>1, <3>2, <3>3, CoversPointwise
    <3> QED BY <1>0, <2>2, <3>1, <3>4 DEF Inductive, OnTheWay
  <2> QED BY <2>1, <2>2
<1>5. current' \in DOMAIN existing'
  BY <1>n
<1> QED
  BY <1>0, <1>1, <1>2, <1>3, <1>4, <1>5 DEF Inductive, OnTheWay

LEMMA InitOk ==
  ASSUME InitEvals
  PROVE  Inductive
BY DEF InitEvals, Inductive, Types, OneDocument, OnTheWay

LEMMA StartOk ==
  ASSUME Inductive, NEW p \in Promised!Properties, StartProperty(p)
  PROVE  Inductive' /\ Stored(existing') = Stored(existing)
<1>1. existing' = WithNodes({<<>>}, Object) /\ <<>> \in Places /\ Object \in Containers
  BY DEF StartProperty, WithNodes, Containers
<1>2. /\ existing' = [q \in DOMAIN existing' |-> existing'[q]]
      /\ DOMAIN existing' = DOMAIN existing \cup {<<>>}
      /\ DOMAIN existing' \subseteq Places
      /\ \A q \in DOMAIN existing : existing'[q] = existing[q]
      /\ \A q \in DOMAIN existing' \ DOMAIN existing : q = <<>> /\ existing'[q] = Object
      /\ \A q \in DOMAIN existing' : existing'[q] \in Containers \cup Strings
      /\ Stored(existing') = Stored(existing)
      /\ \A q \in DOMAIN existing : NodeInPlace(q) => NodeInPlace(q)'
  BY <1>1, NewContainers DEF Inductive
<1>3. Types'
  BY <1>2 DEF StartProperty, Inductive, Types
<1>4. OneDocument'
  <2>1. <<>> \in DOMAIN existing' /\ existing'[<<>>] = Object
    BY <1>2 DEF Inductive, OneDocument
  <2>2. ASSUME NEW q \in DOMAIN existing' PROVE NodeInPlace(q)'
    <3>1. CASE q \in DOMAIN existing
      BY <3>1, <1>2 DEF Inductive, OneDocument
    <3>2. CASE q \notin DOMAIN existing
      BY <3>2, <1>2 DEF NodeInPlace
    <3> QED BY <3>1, <3>2
  <2> QED BY <2>1, <2>2 DEF OneDocument
<1>5. OnTheWay'
  <2>1. property' = p /\ current' = <<>> /\ p.evals /\ p.value # NoValue /\ p.path # <<>>
    BY DEF StartProperty
  <2>2. Len(current') < Len(p.path)
    BY <2>1, PathFacts
  <2>3. \A q \in DOMAIN existing' : Promised!Covers(q, current') => q = current'
    BY <2>1, <1>2, CoversPointwise
  <2> QED BY <2>1, <2>2, <2>3, <1>2 DEF OnTheWay
<1> QED BY <1>2, <1>3, <1>4, <1>5 DEF Inductive

LEMMA EnterKeyOk ==
  ASSUME Inductive, EnterKey
  PROVE  Inductive' /\ Stored(existing') = Stored(existing)
<1> DEFINE node == IF Part = "evaluations" THEN List ELSE Object
           new == Append(current, Key(Part))
           n == Len(current)
<1>0. /\ current \in Places /\ current \in DOMAIN existing /\ existing[current] = Object
      /\ property # NoProperty /\ Part \in STRING /\ n + 1 \in 1 .. Len(property.path)
      /\ Part = property.path[n + 1] /\ DOMAIN property.path = 1 .. Len(property.path)
  BY PathFacts DEF Inductive, OnTheWay, Types, EnterKey, Inner, Part
<1>1. /\ new \in Places /\ new # <<>> /\ ParentOf(new) = current
      /\ LastStep(new) = Key(Part)
      /\ Key(Part) \in Promised!Steps
  BY <1>0, ParentOfAppend, StepFacts
<1>2. existing' = WithNodes({new}, node) /\ node \in Containers /\ current' = new
  BY DEF EnterKey, Containers
<1>a. {new} \in SUBSET Places /\ Types
  BY <1>1 DEF Inductive
<1> HIDE DEF new, node
<1>3. /\ existing' = [q \in DOMAIN existing' |-> existing'[q]]
      /\ DOMAIN existing' = DOMAIN existing \cup {new}
      /\ DOMAIN existing' \subseteq Places
      /\ \A q \in DOMAIN existing : existing'[q] = existing[q]
      /\ \A q \in DOMAIN existing' \ DOMAIN existing : q = new /\ existing'[q] = node
      /\ \A q \in DOMAIN existing' : existing'[q] \in Containers \cup Strings
      /\ Stored(existing') = Stored(existing)
      /\ \A q \in DOMAIN existing : NodeInPlace(q) => NodeInPlace(q)'
  BY <1>1, <1>2, <1>a, NewContainers
<1>4. Types'
  BY <1>1, <1>2, <1>3 DEF EnterKey, Inductive, Types
<1>5. OneDocument'
  <2>1. <<>> \in DOMAIN existing' /\ existing'[<<>>] = Object
    BY <1>0, <1>3 DEF Inductive, OneDocument
  <2>2. ASSUME NEW q \in DOMAIN existing' PROVE NodeInPlace(q)'
    <3>1. CASE q \in DOMAIN existing
      BY <3>1, <1>3 DEF Inductive, OneDocument
    <3>2. CASE q \notin DOMAIN existing
      <4>1. q = new /\ existing'[q] = node /\ existing'[current] = Object
        BY <3>2, <1>0, <1>3
      <4>2. Key(Part)[1] = "key" /\ (Key(Part) = Key("evaluations") <=> Part = "evaluations")
        BY <1>0 DEF Key, Promised!Key
      <4> QED BY <4>1, <4>2, <1>0, <1>1, <1>3, NodesAssumption DEF NodeInPlace, node
    <3> QED BY <3>1, <3>2
  <2> QED BY <2>1, <2>2 DEF OneDocument
<1>6. OnTheWay'
  <2>1. ~ Promised!InList(property.path, n + 1)
    BY <1>0, KindOfContainer
  <2>2. Promised!Place(property.path)[n + 1] = Key(Part)
    BY <1>0, <2>1 DEF Promised!Place, Key
  <2>3. existing[current] \in Containers /\ property' = property /\ Inner
    BY <1>0 DEF EnterKey, Containers
  <2> QED BY <1>1, <1>2, <1>a, <1>4, <2>1, <2>2, <2>3, GoesOn DEF new
<1> QED BY <1>3, <1>4, <1>5, <1>6 DEF Inductive

LEMMA EnterItemOk ==
  ASSUME Inductive, EnterItem
  PROVE  Inductive' /\ Stored(existing') = Stored(existing)
<1> DEFINE number == NumberOf[Part]
           new == Append(current, Item(number))
           P == ItemsUpTo(number)
           n == Len(current)
<1>0. /\ current \in Places /\ current \in DOMAIN existing /\ existing[current] = List
      /\ property # NoProperty /\ Part \in STRING /\ n + 1 \in 1 .. Len(property.path)
      /\ Part = property.path[n + 1] /\ DOMAIN property.path = 1 .. Len(property.path)
      /\ Part \in DOMAIN NumberOf /\ number \in Nat
  BY PathFacts, NumberOfAssumption DEF Inductive, OnTheWay, Types, EnterItem, Inner, Part
<1>1. \A m \in Nat : /\ Append(current, Item(m)) \in Places
                     /\ Append(current, Item(m)) # <<>>
                     /\ ParentOf(Append(current, Item(m))) = current
                     /\ LastStep(Append(current, Item(m))) = Item(m)
                     /\ Item(m) \in Promised!Steps
                     /\ Item(m)[1] = "item" /\ Item(m)[2] = m
  BY <1>0, ParentOfAppend, StepFacts
<1>a. existing' = WithNodes(P, Object) /\ Object \in Containers /\ current' = new
  BY DEF EnterItem, Containers
<1>b. P \in SUBSET Places /\ new \in P
  BY <1>0, <1>1 DEF ItemsUpTo
<1>2. /\ existing' = WithNodes(P, Object) /\ Object \in Containers /\ current' = new
      /\ P \in SUBSET Places /\ new \in P
  BY <1>a, <1>b
<1>3. /\ existing' = [q \in DOMAIN existing' |-> existing'[q]]
      /\ DOMAIN existing' = DOMAIN existing \cup P
      /\ DOMAIN existing' \subseteq Places
      /\ \A q \in DOMAIN existing : existing'[q] = existing[q]
      /\ \A q \in DOMAIN existing' \ DOMAIN existing : q \in P /\ existing'[q] = Object
      /\ \A q \in DOMAIN existing' : existing'[q] \in Containers \cup Strings
      /\ Stored(existing') = Stored(existing)
      /\ \A q \in DOMAIN existing : NodeInPlace(q) => NodeInPlace(q)'
  BY <1>2, NewContainers DEF Inductive
<1>4. Types'
  BY <1>0, <1>1, <1>2, <1>3 DEF EnterItem, Inductive, Types
<1>5. OneDocument'
  <2>1. <<>> \in DOMAIN existing' /\ existing'[<<>>] = Object
    BY <1>0, <1>3 DEF Inductive, OneDocument
  <2>2. ASSUME NEW q \in DOMAIN existing' PROVE NodeInPlace(q)'
    <3>1. CASE q \in DOMAIN existing
      BY <3>1, <1>3 DEF Inductive, OneDocument
    <3>2. CASE q \notin DOMAIN existing
      <4>1. PICK m \in 0 .. number : q = Append(current, Item(m))
        BY <3>2, <1>3 DEF ItemsUpTo
      <4>2. existing'[q] = Object /\ existing'[current] = List /\ current \in DOMAIN existing'
        BY <3>2, <1>0, <1>3
      <4>3. \A k \in 0 .. m : Append(current, Item(k)) \in DOMAIN existing'
        BY <1>0, <1>3 DEF ItemsUpTo
      <4>4. /\ ParentOf(q) = current /\ LastStep(q)[1] = "item" /\ LastStep(q)[2] = m
        BY <4>1, <1>0, <1>1
      <4> QED BY <4>2, <4>3, <4>4, NodesAssumption DEF NodeInPlace
    <3> QED BY <3>1, <3>2
  <2> QED BY <2>1, <2>2 DEF OneDocument
<1>6. OnTheWay'
  <2>1. Promised!InList(property.path, n + 1)
    BY <1>0, KindOfContainer
  <2>2. Promised!Place(property.path)[n + 1] = Item(number)
    BY <1>0, <2>1 DEF Promised!Place, Item
  <2>3. existing[current] \in Containers /\ property' = property /\ Inner
    BY <1>0 DEF EnterItem, Containers
  <2> QED BY <1>0, <1>1, <1>2, <1>4, <2>1, <2>2, <2>3, GoesOn
<1> QED BY <1>3, <1>4, <1>5, <1>6 DEF Inductive

LEMMA SetValueOk ==
  ASSUME Inductive, SetValue
  PROVE  Inductive'
<1> DEFINE new == Append(current, Key(Part))
           n == Len(current)
<1>0. /\ current \in Places /\ current \in DOMAIN existing /\ existing[current] = Object
      /\ property # NoProperty /\ property.value \in Strings
      /\ Part \in STRING /\ n \in Nat /\ DOMAIN existing \subseteq Places
  BY PathFacts DEF Inductive, OnTheWay, Types, SetValue, Final, Part
<1>1. /\ new \in Places /\ new # <<>> /\ ParentOf(new) = current /\ Len(new) = n + 1
      /\ LastStep(new) = Key(Part) /\ Key(Part) \in Promised!Steps
      /\ Key(Part)[1] = "key" /\ \A m \in Nat : Key(Part) # Item(m)
  BY <1>0, ParentOfAppend, StepFacts
<1>2. existing' = [q \in (DOMAIN existing \ Below(new)) \cup {new} |->
                    IF q = new THEN property.value ELSE existing[q]]
  BY DEF SetValue
<1> HIDE DEF new
<1>3. Types'
  <2>1. /\ existing' = [q \in DOMAIN existing' |-> existing'[q]]
        /\ DOMAIN existing' \subseteq DOMAIN existing \cup {new}
        /\ \A q \in DOMAIN existing' : existing'[q] \in {property.value, existing[q]}
        /\ \A q \in DOMAIN existing' : q # new => q \in DOMAIN existing /\ existing'[q] = existing[q]
        /\ existing'[new] = property.value
    BY <1>2
  <2>2. \A q \in DOMAIN existing' : existing'[q] \in Containers \cup Strings
    BY <2>1, <1>0 DEF Inductive, Types
  <2>3. current' \in Places /\ warned' \in Nat
    BY DEF SetValue, Inductive, Types
  <2> QED BY <2>1, <2>2, <2>3, <1>0, <1>1 DEF Types
<1>4. \A q \in Places : Promised!Covers(new, q)
                          <=> Len(new) <= Len(q) /\ \A i \in 1 .. Len(new) : new[i] = q[i]
  BY <1>1, CoversPointwise
\* What is above or beside the new value stays.
<1>5. current \in DOMAIN existing' /\ existing'[current] = Object
  BY <1>0, <1>1, <1>2, <1>4 DEF Below
<1>6. <<>> \in DOMAIN existing' /\ existing'[<<>>] = Object
  <2>1. <<>> \in DOMAIN existing /\ existing[<<>>] = Object /\ Len(<<>>) = 0
    BY <1>0 DEF Inductive, OneDocument
  <2> QED BY <2>1, <1>0, <1>1, <1>2, <1>4 DEF Below
<1>7. ASSUME NEW q \in DOMAIN existing' PROVE NodeInPlace(q)'
  <2>1. CASE q = new
    <3>1. existing'[q] \in Strings
      BY <2>1, <1>0, <1>2
    <3> QED
      BY <2>1, <3>1, <1>1, <1>5, NodesAssumption DEF NodeInPlace
  <2>2. CASE q # new /\ q # <<>>
    <3>1. /\ q \in DOMAIN existing /\ q \in Places /\ ~ Promised!Covers(new, q)
          /\ existing'[q] = existing[q] /\ NodeInPlace(q)
      BY <2>2, <1>0, <1>2 DEF Below, Inductive, OneDocument
    <3>2. /\ ParentOf(q) \in Places /\ Len(ParentOf(q)) = Len(q) - 1
          /\ \A i \in 1 .. Len(q) - 1 : ParentOf(q)[i] = q[i]
          /\ LastStep(q) \in Promised!Steps /\ ParentOf(q) \in DOMAIN existing
      BY <2>2, <3>1, ParentIsPlace DEF NodeInPlace
    <3>3. ~ Promised!Covers(new, ParentOf(q))
      BY <3>1, <3>2, <1>1, <1>4
    <3>4. ParentOf(q) # new
      BY <3>3, <1>1, <1>4
    <3>5. ParentOf(q) \in DOMAIN existing' /\ existing'[ParentOf(q)] = existing[ParentOf(q)]
      BY <3>2, <3>3, <3>4, <1>2 DEF Below
    <3>6. ASSUME NEW m \in Nat, Append(ParentOf(q), Item(m)) \in DOMAIN existing
          PROVE  Append(ParentOf(q), Item(m)) \in DOMAIN existing'
      <4> DEFINE a == Append(ParentOf(q), Item(m))
      <4>1. a \in Places /\ Item(m) \in Promised!Steps
        BY <3>2, StepFacts, ParentOfAppend
      <4>2. /\ Len(a) = Len(q)
            /\ \A i \in 1 .. Len(q) - 1 : a[i] = q[i]
            /\ a[Len(q)] = Item(m)
        BY <3>1, <3>2, <4>1, AppendProperties
      <4>3. new[n + 1] = Key(Part) /\ n + 1 \in 1 .. Len(new) /\ Key(Part) # Item(m)
        BY <1>0, <1>1 DEF LastStep
      <4>5. Len(q) \in Nat /\ Len(new) \in Nat
        BY <3>1, <1>0, <1>1
      <4> HIDE DEF a
      <4>4. ~ Promised!Covers(new, a)
        <5>1. CASE Len(new) = Len(q)
          BY <5>1, <4>1, <4>2, <4>3, <4>5, <1>1, <1>4
        <5>2. CASE Len(new) # Len(q)
          BY <5>2, <4>1, <4>2, <4>5, <3>1, <1>4
        <5> QED BY <5>1, <5>2
      <4> QED BY <4>4, <3>6, <1>2 DEF Below, a
    <3>7. CASE existing[ParentOf(q)] = Object
      BY <3>1, <3>5, <3>7, NodesAssumption DEF NodeInPlace
    <3>8. CASE existing[ParentOf(q)] = List
      <4>1. /\ existing[q] = Object /\ LastStep(q)[1] = "item"
            /\ \A k \in 0 .. LastStep(q)[2] : Append(ParentOf(q), Item(k)) \in DOMAIN existing
        BY <2>2, <3>1, <3>8, NodesAssumption DEF NodeInPlace
      <4>2. LastStep(q)[2] \in Nat
        BY <4>1, <3>2, StepFacts
      <4>3. \A k \in 0 .. LastStep(q)[2] : Append(ParentOf(q), Item(k)) \in DOMAIN existing'
        BY <4>1, <4>2, <3>6
      <4> QED BY <4>1, <4>3, <3>1, <3>5, <3>8, NodesAssumption DEF NodeInPlace
    <3> QED BY <2>2, <3>1, <3>7, <3>8 DEF NodeInPlace
  <2>3. CASE q = <<>>
    BY <2>3 DEF NodeInPlace
  <2> QED BY <2>1, <2>2, <2>3
<1>8. OneDocument'
  BY <1>6, <1>7 DEF OneDocument
<1>9. OnTheWay'
  BY DEF SetValue, OnTheWay
<1> QED BY <1>3, <1>8, <1>9 DEF Inductive

\* The other steps leave the JSON value alone.
LEMMA OthersOk ==
  ASSUME Inductive, UNCHANGED existing, warned' \in Nat, current' \in Places,
         property' = NoProperty \/ UNCHANGED <<property, current>>
  PROVE  Inductive'
<1>1. Types' /\ OneDocument'
  BY DEF Inductive, Types, OneDocument, NodeInPlace
<1>2. OnTheWay'
  BY DEF Inductive, OnTheWay, Promised!Place, Promised!InList
<1> QED BY <1>1, <1>2 DEF Inductive

LEMMA StepOk ==
  ASSUME Inductive, [NextEvals]_evals_vars
  PROVE  Inductive'
<1>1. CASE UNCHANGED evals_vars
  BY <1>1, OthersOk DEF evals_vars, Inductive, Types
<1>2. ASSUME NEW p \in Promised!Properties, OtherProperty(p) PROVE Inductive'
  BY <1>2, OthersOk DEF OtherProperty, Inductive, Types
<1>3. ASSUME NEW p \in Promised!Properties, BadProperty(p) PROVE Inductive'
  BY <1>3, OthersOk DEF BadProperty, Fail, Inductive, Types
<1>4. ASSUME NEW p \in Promised!Properties, StartProperty(p) PROVE Inductive'
  BY <1>4, StartOk
<1>5. CASE EnterKey
  BY <1>5, EnterKeyOk
<1>6. CASE EnterItem
  BY <1>6, EnterItemOk
<1>7. CASE CannotEnter
  BY <1>7, OthersOk DEF CannotEnter, Fail, Inductive, Types
<1>8. CASE SetValue
  BY <1>8, SetValueOk
<1>9. CASE CannotSet
  BY <1>9, OthersOk DEF CannotSet, Fail, Inductive, Types
<1> QED
  BY <1>1, <1>2, <1>3, <1>4, <1>5, <1>6, <1>7, <1>8, <1>9 DEF NextEvals

THEOREM InductiveInvariant == SpecEvals => []Inductive
<1>1. InitEvals => Inductive
  BY InitOk
<1>2. Inductive /\ [NextEvals]_evals_vars => Inductive'
  BY StepOk
<1> QED BY <1>1, <1>2, PTL DEF SpecEvals

\* However the properties of a test run come, their JSON value is one document
\* (parse_property_element of junit.rs).
THEOREM OneDocumentTheorem == SpecEvals => []OneDocument
<1>1. Inductive => OneDocument
  BY DEF Inductive
<1> QED BY <1>1, InductiveInvariant, PTL

-----------------------------------------------------------------------------
(* The refinement.                                                         *)

PromisedValues == [p \in {q \in DOMAIN existing : existing[q] \in Strings} |-> existing[p]]

LEMMA PlaceOfPath ==
  ASSUME NEW path \in Seq(STRING),
         \A i \in DOMAIN path : Promised!InList(path, i) => path[i] \in DOMAIN NumberOf
  PROVE  Promised!Place(path) \in Places /\ Len(Promised!Place(path)) = Len(path)
<1> DEFINE step(i) == IF Promised!InList(path, i) THEN Item(NumberOf[path[i]]) ELSE Key(path[i])
<1>0. DOMAIN path = 1 .. Len(path) /\ Len(path) \in Nat
  OBVIOUS
<1>1. ASSUME NEW i \in 1 .. Len(path)
      PROVE  step(i) \in Promised!Steps
  <2>1. CASE Promised!InList(path, i)
    <3>1. NumberOf[path[i]] \in Nat
      BY <1>0, <2>1, NumberOfAssumption
    <3> QED BY <2>1, <3>1, StepFacts
  <2>2. CASE ~ Promised!InList(path, i)
    <3>1. path[i] \in STRING
      BY <1>0
    <3> QED BY <2>2, <3>1, StepFacts
  <2> QED BY <2>1, <2>2
<1>2. Promised!Place(path) = [i \in 1 .. Len(path) |-> step(i)]
  BY <1>0 DEF Promised!Place, Key, Item
<1> HIDE DEF step
<1>3. [i \in 1 .. Len(path) |-> step(i)] \in Places
  BY <1>0, <1>1, IsASeq
<1>4. Len([i \in 1 .. Len(path) |-> step(i)]) = Len(path)
  BY <1>0, <1>3
<1> QED BY <1>2, <1>3, <1>4

\* A string on the way, or a list where the value should go.
LEMMA Blocked ==
  ASSUME Inductive, property # NoProperty,
         \/ existing[current] \in Strings
         \/ existing[current] = List /\ Len(current) + 1 = Len(property.path)
         \/ existing[current] = List /\ Part \notin DOMAIN NumberOf
  PROVE  ~ Promised!Accepts(property)
<1> DEFINE path == property.path
           n == Len(current)
<1>0. /\ current \in Places /\ path \in Seq(STRING) /\ n \in Nat /\ n + 1 \in DOMAIN path
      /\ current \in DOMAIN existing /\ DOMAIN path = 1 .. Len(path) /\ n + 1 <= Len(path)
  BY PathFacts DEF Inductive, OnTheWay, Types
<1>1. CASE existing[current] = List
  <2>1. Promised!InList(path, n + 1)
    BY <1>1, KindOfContainer
  <2>2. ~ (Part \in DOMAIN NumberOf /\ n + 1 < Len(path))
    BY <1>0, <1>1, NodesAssumption
  <2>3. ~ Promised!NamesPlace(path)
    BY <1>0, <2>1, <2>2 DEF Promised!NamesPlace, Part
  <2> QED BY <2>3 DEF Promised!Accepts
<1>2. CASE existing[current] \in Strings
  <2>1. SUFFICES ASSUME Promised!NamesPlace(path), Promised!Free(Promised!Place(path))
                 PROVE  FALSE
    BY DEF Promised!Accepts
  <2>2. Promised!Place(path) \in Places /\ Len(Promised!Place(path)) = Len(path)
    BY <1>0, <2>1, PlaceOfPath DEF Promised!NamesPlace
  <2>3. Promised!Covers(current, Promised!Place(path))
    BY <1>0, <2>2, CoversPointwise DEF Inductive, OnTheWay
  <2>4. current # Promised!Place(path)
    BY <1>0, <2>2
  <2>5. current \in DOMAIN PromisedValues
    BY <1>0, <1>2 DEF PromisedValues
  <2> QED
    BY <2>1, <2>3, <2>4, <2>5 DEF Promised!Free, PromisedValues
<1> QED BY <1>1, <1>2

\* What SetValue does is what is promised.
LEMMA SetAccepts ==
  ASSUME Inductive, SetValue
  PROVE  Promised!Accept
<1> DEFINE path == property.path
           n == Len(current)
           place == Append(current, Key(Part))
<1>0. /\ current \in Places /\ path \in Seq(STRING) /\ n \in Nat /\ Len(path) = n + 1
      /\ current \in DOMAIN existing /\ DOMAIN path = 1 .. Len(path)
      /\ existing[current] = Object /\ property # NoProperty /\ property.value \in Strings
      /\ property.value # NoValue /\ Part \in STRING /\ Part = path[n + 1]
      /\ DOMAIN existing \subseteq Places /\ path # <<>>
  BY PathFacts, NoValueAssumption DEF Inductive, OnTheWay, Types, SetValue, Final, Part
<1>1. ~ Promised!InList(path, n + 1)
  BY <1>0, KindOfContainer
<1>2. \A i \in 1 .. n : Promised!InList(path, i) => path[i] \in DOMAIN NumberOf
  BY <1>0 DEF Inductive, OnTheWay
<1>3. \A i \in DOMAIN path : Promised!InList(path, i) => path[i] \in DOMAIN NumberOf /\ i < Len(path)
  BY <1>0, <1>1, <1>2
<1>4. Promised!NamesPlace(path)
  BY <1>0, <1>3 DEF Promised!NamesPlace
<1>5. Promised!Place(path) \in Places /\ Len(Promised!Place(path)) = n + 1
  BY <1>0, <1>3, PlaceOfPath
<1>6. Promised!Place(path)[n + 1] = Key(Part)
  BY <1>0, <1>1 DEF Promised!Place, Key
<1>7. /\ place \in Places /\ Len(place) = n + 1 /\ place[n + 1] = Key(Part)
      /\ \A i \in 1 .. n : place[i] = current[i]
  BY <1>0, StepFacts, AppendProperties
<1>8. \A i \in 1 .. n : Promised!Place(path)[i] = current[i]
  BY <1>0 DEF Inductive, OnTheWay
<1>9. Promised!Place(path) = place
  BY <1>0, <1>5, <1>6, <1>7, <1>8, SeqEqual
<1>10. existing' = [q \in (DOMAIN existing \ Below(place)) \cup {place} |->
                     IF q = place THEN property.value ELSE existing[q]]
  BY DEF SetValue
<1> HIDE DEF place
<1>11. Promised!Free(place)
  <2>1. ASSUME NEW p \in DOMAIN existing, existing[p] \in Strings,
               Promised!Covers(p, place), p # place
        PROVE  FALSE
    <3>1. p \in Places /\ Len(p) <= n + 1 /\ \A i \in 1 .. Len(p) : p[i] = place[i]
      BY <1>0, <1>7, <2>1, CoversPointwise
    <3>2. Len(p) # n + 1
      BY <1>0, <1>7, <2>1, <3>1, SeqEqual
    <3>3. Promised!Covers(p, current)
      BY <1>0, <1>7, <3>1, <3>2, CoversPointwise
    <3>4. p # current
      BY <1>0, <2>1, NodesAssumption
    <3>5. existing[p] \in Containers
      BY <1>0, <3>3, <3>4 DEF Inductive, OnTheWay
    <3> QED BY <2>1, <3>5, NodesAssumption DEF Containers
  <2>2. DOMAIN PromisedValues = {q \in DOMAIN existing : existing[q] \in Strings}
    BY DEF PromisedValues
  <2> QED BY <2>1, <2>2 DEF Promised!Free, PromisedValues
<1>12. Promised!Accepts(property)
  BY <1>0, <1>4, <1>9, <1>11 DEF Promised!Accepts
<1>13. PromisedValues' =
         [p \in {p \in DOMAIN PromisedValues : ~ Promised!Covers(place, p)} \cup {place} |->
            IF p = place THEN property.value ELSE PromisedValues[p]]
  <2>1. {q \in DOMAIN existing' : existing'[q] \in Strings}
          = {p \in DOMAIN PromisedValues : ~ Promised!Covers(place, p)} \cup {place}
    BY <1>0, <1>10 DEF Below, PromisedValues
  <2>2. ASSUME NEW p \in {p \in DOMAIN PromisedValues : ~ Promised!Covers(place, p)} \cup {place}
        PROVE  existing'[p] = IF p = place THEN property.value ELSE PromisedValues[p]
    BY <2>2, <1>10 DEF Below, PromisedValues
  <2> QED BY <2>1, <2>2 DEF PromisedValues
<1>14. UNCHANGED warned /\ property # NoProperty /\ property' = NoProperty
  BY DEF SetValue, Final
<1> QED
  BY <1>9, <1>12, <1>13, <1>14 DEF Promised!Accept, PromisedValues

LEMMA SameValues ==
  ASSUME Stored(existing') = Stored(existing)
  PROVE  UNCHANGED PromisedValues
BY DEF Stored, PromisedValues

\* The abstract specification of EvalValues with the mapped variables.
LEMMA PromisedStep ==
  ASSUME Inductive, [NextEvals]_evals_vars
  PROVE  [Promised!Next]_<<property, PromisedValues, warned>>
<1> DEFINE same == UNCHANGED <<property, PromisedValues, warned>>
<1>1. ASSUME UNCHANGED evals_vars PROVE same
  BY <1>1 DEF evals_vars, PromisedValues
<1>2. ASSUME NEW p \in Promised!Properties, OtherProperty(p) PROVE same
  BY <1>2 DEF OtherProperty, PromisedValues
<1>3. ASSUME NEW p \in Promised!Properties, BadProperty(p)
      PROVE  Promised!Next
  <2>1. /\ p.evals /\ warned' = warned + 1 /\ UNCHANGED existing
        /\ property = NoProperty /\ property' = NoProperty
    BY <1>3 DEF BadProperty, Fail, Reads
  <2>2. ~ Promised!Accepts(p)
    BY <1>3 DEF BadProperty, Promised!Accepts, Promised!NamesPlace
  <2>3. Promised!RefuseAtOnce(p)
    BY <2>1, <2>2 DEF Promised!RefuseAtOnce
  <2> QED BY <2>1, <2>3 DEF Promised!Next
<1>4. ASSUME NEW p \in Promised!Properties, StartProperty(p)
      PROVE  Promised!Next
  <2>1. UNCHANGED PromisedValues
    BY <1>4, StartOk, SameValues
  <2>2. /\ p.evals /\ UNCHANGED warned
        /\ property = NoProperty /\ property' = p
    BY <1>4 DEF StartProperty, Reads
  <2>3. Promised!Receive(p)
    BY <2>1, <2>2 DEF Promised!Receive, PromisedValues
  <2> QED BY <2>2, <2>3 DEF Promised!Next
<1>5. ASSUME EnterKey PROVE same
  BY <1>5, EnterKeyOk, SameValues DEF EnterKey
<1>6. ASSUME EnterItem PROVE same
  BY <1>6, EnterItemOk, SameValues DEF EnterItem
<1>7. ASSUME CannotEnter \/ CannotSet PROVE Promised!Next
  <2>1. /\ property # NoProperty /\ warned' = warned + 1 /\ UNCHANGED existing
        /\ property' = NoProperty
    BY <1>7 DEF CannotEnter, CannotSet, Inner, Final, Fail
  <2>2. \/ existing[current] \in Strings
        \/ existing[current] = List /\ Len(current) + 1 = Len(property.path)
        \/ existing[current] = List /\ Part \notin DOMAIN NumberOf
    <3>1. existing[current] \in Containers \cup Strings
      BY <2>1 DEF Inductive, OnTheWay, Types
    <3>2. CASE CannotEnter
      BY <3>2 DEF CannotEnter
    <3>3. CASE CannotSet
      <4>1. Len(current) + 1 = Len(property.path) /\ existing[current] # Object
        BY <3>3, <2>1, PathFacts DEF CannotSet, Final, Inductive, OnTheWay, Types
      <4> QED BY <4>1, <3>1 DEF Containers
    <3> QED BY <1>7, <3>2, <3>3
  <2>3. ~ Promised!Accepts(property)
    BY <2>1, <2>2, Blocked
  <2>4. Promised!Refuse
    BY <2>1, <2>3 DEF Promised!Refuse
  <2> QED BY <2>4 DEF Promised!Next
<1>8. ASSUME SetValue PROVE Promised!Next
  BY <1>8, SetAccepts DEF Promised!Next
<1> QED
  BY <1>1, <1>2, <1>3, <1>4, <1>5, <1>6, <1>7, <1>8 DEF NextEvals

\* parse_property_element keeps what EvalValues promises: every property is
\* either stored as a whole at the place its name tells, or refused.
THEOREM Refinement == SpecEvals => ImplementsEvalValues
<1>1. InitEvals => Promised!Init
  <2>1. ASSUME existing = <<>> PROVE PromisedValues = <<>>
    BY <2>1 DEF PromisedValues
  <2> QED BY <2>1 DEF InitEvals, Promised!Init, PromisedValues
<1>2. Inductive /\ [NextEvals]_evals_vars
        => [Promised!Next]_<<property,
                             [p \in {q \in DOMAIN existing : existing[q] \in Strings} |->
                                existing[p]], warned>>
  BY PromisedStep DEF PromisedValues
<1> QED
  BY <1>1, <1>2, InductiveInvariant, PTL DEF SpecEvals, ImplementsEvalValues, Promised!Spec
=============================================================================
