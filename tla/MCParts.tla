------------------------------- MODULE MCParts -------------------------------
(***************************************************************************)
(* The parts of the library that compute something on their own, in small  *)
(* instances for TLC.  A behaviour is one of one part: the others are idle *)
(* in some state of their own.                                             *)
(***************************************************************************)
EXTENDS DaysPassing, WarningPositions, ComputedNames, EvalsProperties, FailureMessages,
        AnalyticsFile, TestAggregates

VARIABLE part

all_parts == <<part, dvars, vars, name_vars, evals_vars, message_vars, file_vars,
               aggregate_vars>>

\* Every file of at most five bytes.
ShortFiles == UNION {[1 .. n -> BOOLEAN] : n \in 0 .. 5}

\* Every class name of at most three components, and some of its paths.
ShortClassnames == UNION {[1 .. n -> {"a", "b"}] : n \in 1 .. 3}
ShortPaths == {<<"a">>, <<"b">>, <<"a", "b">>, <<"a", "b", "a">>, <<"b", "b">>}
SomeNetworks == SUBSET ShortPaths

\* Names of properties, with a zero that is written in two ways.
Numbers == "0" :> 0 @@ "00" :> 0 @@ "1" :> 1
SomePaths ==
  {<<>>, <<"a">>, <<"a", "b">>, <<"evaluations">>, <<"evaluations", "0">>,
   <<"evaluations", "1", "a">>, <<"evaluations", "00", "a">>, <<"evaluations", "a", "0">>,
   <<"a", "evaluations", "0", "b">>, <<"evaluations", "0", "a", "b">>}

\* Messages with one long run of backticks, at the end or before the end.
SomeTraces == {<<"x", "tick", "tick", "tick", "tick">>, <<"tick", "tick", "tick", "x", "tick">>}

-----------------------------------------------------------------------------
DaysIdle == InitDays /\ data_range = [start |-> 0, end |-> 0] /\ desired_range = data_range
WarningsIdle == Init /\ input = <<>> /\ locations = <<>>
NamesIdle ==
  InitName /\ classname = <<"a">> /\ framework = "none" /\ filename = NoFilename
           /\ network = NoNetwork
MessagesIdle == InitMessage /\ failures = <<>> /\ failed = 0

FileIdle == InitFile /\ tables.strings = 0 /\ tables.commithashes = 0 /\ tables.tests = 0
                     /\ tables.num_days = 0 /\ tables.flags_set = 0
AggregatesIdle == InitAggregates /\ entries = <<>>

Idle(name, idle) == IF part = name THEN TRUE ELSE idle

\* One part begins anywhere and the others are idle.
InitPart ==
  /\ part \in {"days", "warnings", "names", "properties", "messages", "file", "aggregates"}
  /\ Idle("days", DaysIdle)
  /\ Idle("warnings", WarningsIdle)
  /\ Idle("names", NamesIdle)
  /\ Idle("properties", InitEvals)
  /\ Idle("messages", MessagesIdle)
  /\ Idle("file", FileIdle)
  /\ Idle("aggregates", AggregatesIdle)
  /\ CASE part = "days" -> InitDays
       [] part = "warnings" -> Init
       [] part = "names" -> InitName
       [] part = "properties" -> InitEvals
       [] part = "messages" -> InitMessage
       [] part = "file" -> InitFile
       [] part = "aggregates" -> InitAggregates

OthersStay ==
  /\ UNCHANGED part
  /\ part # "days" => UNCHANGED dvars
  /\ part # "warnings" => UNCHANGED vars
  /\ part # "names" => UNCHANGED name_vars
  /\ part # "properties" => UNCHANGED evals_vars
  /\ part # "messages" => UNCHANGED message_vars
  /\ part # "file" => UNCHANGED file_vars
  /\ part # "aggregates" => UNCHANGED aggregate_vars

NextPart ==
  \/ part = "days" /\ UsedAgain /\ OthersStay
  \/ part = "warnings" /\ Next /\ OthersStay
  \/ part = "names" /\ NextName /\ OthersStay
  \/ part = "properties" /\ NextEvals /\ OthersStay
  \/ part = "messages" /\ NextMessage /\ OthersStay
  \/ part = "file" /\ NextFile /\ OthersStay
  \/ part = "aggregates" /\ NextAggregates /\ OthersStay

SpecPart == InitPart /\ [][NextPart]_all_parts
=============================================================================
