---------------------------- MODULE MCStructure ----------------------------
EXTENDS Structure, TLC
\* A vision with one project and its milestone, a task in each, and an activity.
\* 8 and 9 are ids of nodes yet to come.

Row(type, parent, habit) == [type |-> type, parent |-> parent, habit |-> habit, live |-> TRUE]

MCInitNodes ==
  1 :> Row("vision", 0, 0) @@ 2 :> Row("roadmap", 1, 0) @@ 3 :> Row("project", 2, 0)
  @@ 4 :> Row("milestone", 3, 0) @@ 5 :> Row("task", 4, 0) @@ 6 :> Row("task", 3, 0)
  @@ 7 :> Row("activity", 0, 0)

\* One or two payloads for every check: those that pass alone and collide.
MCCommands ==
  {[verb |-> "create", node |-> 8, type |-> "task", parent |-> 4, habit |-> 0],
   [verb |-> "create", node |-> 8, type |-> "milestone", parent |-> 3, habit |-> 0],
   [verb |-> "create", node |-> 8, type |-> "vision", parent |-> 0, habit |-> 0],
   [verb |-> "move", node |-> 5, parent |-> 3], [verb |-> "move", node |-> 5, parent |-> 8],
   [verb |-> "move", node |-> 5, parent |-> 6],
   [verb |-> "move", node |-> 6, parent |-> 4], [verb |-> "move", node |-> 6, parent |-> 5],
   [verb |-> "move", node |-> 7, parent |-> 0],
   [verb |-> "retype", node |-> 4, type |-> "task"],
   [verb |-> "retype", node |-> 5, type |-> "milestone"],
   [verb |-> "retype", node |-> 6, type |-> "milestone"],
   [verb |-> "retype", node |-> 7, type |-> "vision"],
   [verb |-> "retype", node |-> 1, type |-> "activity"],
   [verb |-> "promote", node |-> 1, parent |-> 3, habit |-> 0],
   [verb |-> "promote", node |-> 7, parent |-> 3, habit |-> 0],
   [verb |-> "promote", node |-> 7, parent |-> 0, habit |-> 1],
   [verb |-> "promote", node |-> 7, parent |-> 3, habit |-> 1],
   [verb |-> "delete", node |-> 4], [verb |-> "delete", node |-> 5],
   [verb |-> "link", edge |-> 1, pred |-> 5, succ |-> 6],
   [verb |-> "link", edge |-> 2, pred |-> 6, succ |-> 5],
   [verb |-> "unlink", edge |-> 1]}

\* A vision alone, and four commands that together close a ring of parents when
\* two requests overlap: NoParentCycle fails with MaxCommands = 4.
MCRingNodes == 1 :> Row("vision", 0, 0)
MCRingCommands ==
  {[verb |-> "create", node |-> 2, type |-> "roadmap", parent |-> 1, habit |-> 0],
   [verb |-> "create", node |-> 3, type |-> "project", parent |-> 2, habit |-> 0],
   [verb |-> "retype", node |-> 1, type |-> "activity"],
   [verb |-> "promote", node |-> 1, parent |-> 3, habit |-> 0]}

CONSTANTS q1, q2

Symm == Permutations(Requests)
=============================================================================
