---------------------------- MODULE MCAutomation ----------------------------
(* One task of one project, two rules that make three tasks of its completion, *)
(* and another that comes later; two days of instants 0 .. 5 and a day that     *)
(* may start at another hour.                                                  *)
EXTENDS Automation

MCDayOf == [h \in {0, 4} |-> [i \in 0 .. 5 |-> IF i + h >= 5 THEN 2 ELSE 1]]

V == <<"v">>
R == <<"r">>
P == <<"p">>
T == <<"t">>
Spawned == SpawnedTaskId(<<"r1">>, T, 1)

Node(type, parent, title) ==
  [type |-> type, parent |-> parent, habit |-> None, title |-> <<title>>, done |-> None,
   estimate |-> None, created |-> 0, due |-> None]

MCNodes ==
  (V :> Node("vision", None, "v")) @@ (R :> Node("roadmap", V, "r"))
  @@ (P :> Node("project", R, "p")) @@ (T :> Node("task", P, "draft"))

Leaf(op, fact, want) ==
  [op |-> op, fact |-> fact, key |-> "{today}", field |-> "rain", args |-> {}, want |-> want]
Gate(op, args) == [Leaf(op, "", Num(0)) EXCEPT !.args = args]

Always == <<Gate("all", {})>>
Titled(word) == <<Leaf("eq", "node.title", Str(<<word>>))>>

Act(slot, title, from) ==
  [slot |-> slot, title |-> title, parent |-> Same, due |-> [of |-> "completed_at", plus |-> 2],
   edgeFrom |-> from, kind |-> "FS", lag |-> 0]

Rule(id, trigger, conditions, actions) ==
  [id |-> id, trigger |-> trigger, conditions |-> conditions, actions |-> actions,
   enabled |-> TRUE, version |-> 1]

R1 == Rule(<<"r1">>, "task_completed", Always, {Act(1, <<"review">>, None), Act(2, <<"ship", Placeholder>>, 1)})
R2 == Rule(<<"r2">>, "task_created", Titled("review"), {Act(1, <<"invite">>, None)})
R3 == Rule(<<"r3">>, "task_created", Titled("idea"), {Act(1, <<"outline">>, None)})

MCRules == (R1.id :> R1) @@ (R2.id :> R2)

\* A rule whose condition looks at the tree above the task that triggers it.
MCKindRules ==
  <<"r4">> :> Rule(<<"r4">>, "task_created",
                   <<Gate("all", {2, 3})>> \o Titled("idea") \o <<Leaf("eq", "ancestor.type", Str("project"))>>,
                   {Act(1, <<"outline">>, None)})

MCIdeas == [verb : {"create"}, node : {<<"u">>}, parent : {P}, title : {<<"idea">>}]

MCCommands ==
  [verb : {"checkOff", "uncheck"}, node : {T}]
  \cup [verb : {"checkOff", "delete"}, node : {Spawned}]
  \cup [verb : {"checkOff"}, node : {SpawnedTaskId(<<"r1">>, T, 2)}]
  \cup [verb : {"create"}, node : {<<"u">>}, parent : {P}, title : {<<"idea">>}]
  \cup [verb : {"createRule"}, rule : {R3}]

Blocker(id, on, pred) == [id |-> id, types |-> {"task"}, root |-> P, pred |-> pred, enabled |-> on]
Rain == <<Leaf("eq", "weather", [kind |-> "boolean", v |-> TRUE])>>
Forecast(id, key, at, rain) ==
  [id |-> id, kind |-> "weather_forecast", key |-> key, segment |-> 1, at |-> at,
   payload |-> [rain |-> [kind |-> "boolean", v |-> rain]]]

Link(id) == [id |-> id, node |-> P, sprint |-> <<"s1">>]
MCFacts ==
  ("time_entries" :> (<<"e1">> :> [id |-> <<"e1">>, task |-> T, start |-> 1, end |-> None]))
  @@ ("sprints" :> (<<"s1">> :> [id |-> <<"s1">>, from |-> 1, to |-> 1]))
  @@ ("sprint_memberships" :> ((<<"m1">> :> Link(<<"m1">>)) @@ (<<"m2">> :> Link(<<"m2">>))))

MCArrivals ==
  [table : {"time_entries"}, id : {<<"e1">>}, row : [id : {<<"e1">>}, task : {T}, start : {1}, end : {2}]]
  \cup [table : {"schedule_blocks"}, id : {<<"k1">>},
        row : [id : {<<"k1">>}, task : {T}, end : {3}, status : {"committed", "suggested"}]]
  \cup [table : {"sprints"}, id : {<<"s1">>}, row : {None} \cup [id : {<<"s1">>}, from : {1}, to : {1}]]
  \cup [table : {"sprint_memberships"}, id : {<<"m1">>, <<"m2">>}, row : {None}]
  \cup [table : {"blocker_rules"}, id : {<<"b1">>},
        row : {Blocker(<<"b1">>, TRUE, <<Gate("not", {2}), Leaf("ne", "project.phase", Str("executing"))>>),
               Blocker(<<"b1">>, FALSE, Rain), Blocker(<<"b1">>, TRUE, Rain)}]
  \cup [table : {"external_facts"}, id : {<<"f1">>}, row : {Forecast(<<"f1">>, 101, 1, TRUE), None}]
  \cup [table : {"external_facts"}, id : {<<"f2">>}, row : {Forecast(<<"f2">>, 102, 2, FALSE)}]
  \cup [table : {"user_settings"}, id : {<<"s">>}, row : {0}]
=============================================================================
