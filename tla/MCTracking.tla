----------------------------- MODULE MCTracking -----------------------------
(* Two tasks, the second after the first with a lag, and three time entries of *)
(* two devices; instants 1 .. 3.                                              *)
EXTENDS Tracking, Views, TLC

MCLinks == {[pred |-> 1, succ |-> 2, kind |-> "FS", lag |-> 1]}

\* Tasks are blocked while something before them is not finished.
MCRules ==
  {[types |-> {"task"}, root |-> None,
    pred |-> <<[op |-> "gt", fact |-> "graph.unfinished_predecessors", key |-> "", field |-> "",
                args |-> {}, want |-> Num(0)]>>]}

MCCommands ==
  [verb : {"clockIn"}, entry : {1}, task : {1}, at : {2}, device : {"a"}, force : {FALSE}]
  \cup [verb : {"clockIn"}, entry : {2}, task : {2}, at : {1, 2}, device : {"b"}, force : {TRUE}]
  \cup [verb : {"clockIn"}, entry : {2}, task : {2}, at : {3}, device : {"b"}, force : {FALSE}]
  \cup [verb : {"clockOut"}, entry : {2}, at : {2, 3}]
  \cup [verb : {"review"}, entry : {1, 2}, finished : {TRUE}]
  \cup [verb : {"checkOff"}, task : {1, 2}, at : {1}]
  \cup [verb : {"uncheck"}, task : {1}]

-----------------------------------------------------------------------------
(* What the screens show of some 500 sets of facts: two tasks, the second of a *)
(* project and maybe after the first, an item of the inbox, sessions, blocks.   *)

Shown(type, parent, completed, due, estimate) ==
  [type |-> type, parent |-> parent, habit |-> None, done |-> completed, due |-> due,
   estimate |-> estimate, order |-> 1, title |-> 1]

Session(id, task, start, end) == [id |-> id, task |-> task, start |-> start, end |-> end]
BlockRow(id, task, start, status) ==
  [id |-> id, task |-> task, start |-> start, end |-> start + 1, status |-> status, anchored |-> FALSE]

ViewFacts ==
  {[tree |-> 1 :> Shown("task", None, c, d, None) @@ 2 :> [Shown("task", 9, None, 2, 3) EXCEPT !.order = 2]
             @@ 3 :> Shown("activity", None, None, None, None) @@ 9 :> Shown("project", None, None, None, None),
    edges |-> E, entries |-> S, blocks |-> B,
    sprints |-> {[id |-> 1, from |-> 1, to |-> 1]}, members |-> {[node |-> 9, sprint |-> 1]},
    weather |-> << >>, rules |-> {}, dayOf |-> [t \in 0 .. 9 |-> t \div 5 + 1]] :
     c \in {None, 3}, d \in {None, 1, 4}, E \in {{}, MCLinks},
     S \in SUBSET {Session(1, 1, 1, 3), Session(2, 1, 2, None), Session(3, 2, 2, None), Session(4, 1, 2, 7)},
     B \in {{}} \cup {{BlockRow(1, 1, t, "committed"), BlockRow(2, 2, 6, st)} : t \in {1, 9}, st \in {"committed", "suggested"}}}

Moments == {4, 6}

\* A task that is not done is either on the worklist or among the blocked ones,
\* and one that is blocked is reached by a timer that is forced on it.
ASSUME EveryTaskHasItsList ==
  \A F \in ViewFacts, at \in Moments :
    LET listed == {i.task : i \in Worklist(F, at)}
        held   == {i.task : i \in BlockedTasks(F, at)}
    IN /\ listed \cup held = Unfinished(F, "task") /\ listed \cap held = {}
       /\ \A n \in held :
            LET forced == [F EXCEPT !.entries = @ \cup {Session(9, n, at, None)}]
            IN n \in {i.task : i \in Worklist(forced, at)} /\ RunningTask(forced) = {n}

\* The bar of the day and the itinerary agree on blocks, states and their order,
\* and no block falls off the bar.
ASSUME BarAgreesWithItinerary ==
  \A F \in ViewFacts, day \in {1, 2} :
    LET bar == DayMap(F, day, 5 * (day - 1))
    IN /\ {<<s.block, s.state, s.logged>> : s \in {x \in bar : x.state # "suggested"}}
          = {<<r.block, r.state, r.logged>> : r \in Itinerary(F, day)}
       /\ \A s \in bar : 0 <= s.from /\ s.from + MinSegmentMinutes <= s.to /\ s.to <= DayMinutes
       /\ \A s, r \in bar : \A b, c \in F.blocks :
            b.id = s.block /\ c.id = r.block /\ b.start < c.start => s.from <= r.from

\* Every card is in one column, and the scoped board is a part of the whole.
ASSUME KanbanDealsEachCardOnce ==
  \A F \in ViewFacts, at \in Moments :
    LET board == Kanban(F, at, None, 2)
    IN /\ \A n \in Unfinished(F, "task") : Cardinality({c \in DOMAIN board : n \in board[c]}) = 1
       /\ \A c \in DOMAIN board : Kanban(F, at, 9, 2)[c] = board[c] \cap {2}

\* The panel of what is to be scheduled and the blocks on the agenda miss nothing
\* the scheduler plans, and a committed block picks itself for a completion.
ASSUME NothingUnplaced ==
  \A F \in ViewFacts, at \in Moments :
    /\ {t.id : t \in AgendaTasks(F, at)}
       \subseteq {t.schedulable.id : t \in Todo(F, at)} \cup {b.task : b \in AgendaCommitted(F)}
    /\ \A i \in Worklist(F, at) : i.scheduled <=> i.block # {}

\* My Day orders the tasks the same way round whoever is compared first.
ASSUME MyDayIsAnOrder ==
  \A F \in ViewFacts :
    \A boards \in {{}, {[created |-> 1, criteria |-> {[id |-> 1, weight |-> 2]},
                        scores |-> {[criterion |-> 1, project |-> 9, score |-> 3]}]}} :
      LET first == ProjectPriorities(F, boards)
      IN MyDayBefore(F, first, 1, 2) # MyDayBefore(F, first, 2, 1)
=============================================================================
