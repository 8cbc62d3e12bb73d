----------------------------- MODULE StatusIndex -----------------------------
(***************************************************************************)
(* The facts the screens read, kept up to date by differences                *)
(* (packages/core/src/status/status-index.ts in view-only mode, which is how  *)
(* packages/ui/src/powersync/data-provider.tsx runs it), beside the facts     *)
(* built from scratch (status/context.ts).                                   *)
(*                                                                          *)
(* The merged rows R of a device are a record of tables, each a function from *)
(* the ids of its live rows to the rows, and `user_settings`, the hour the    *)
(* user's day starts at or None.  DayOf[h] is the day of each instant when    *)
(* days start at hour h.                                                     *)
(***************************************************************************)
EXTENDS Status, Functions, TLC

CONSTANTS
  DayOf,
  DefaultResetHour,   \* DEFAULT_DAY_RESET_HOUR
  RebuildThreshold    \* REBUILD_THRESHOLD

SharedTables == {"nodes", "edges", "time_entries", "schedule_blocks", "sprints",
                 "sprint_memberships", "blocker_rules", "external_facts"}

NoRows == [t \in SharedTables |-> << >>]

At(f, k, otherwise) == IF k \in DOMAIN f THEN f[k] ELSE otherwise
Put(f, k, v) == [x \in {k} \cup DOMAIN f |-> IF x = k THEN v ELSE f[x]]
Without(f, k) == Restrict(f, DOMAIN f \ {k})

\* Maps to sets and maps to maps.
PutIn(f, k, x) == Put(f, k, At(f, k, {}) \cup {x})
TakeOut(f, k, x) == Put(f, k, At(f, k, {}) \ {x})
PutAt(f, k, i, v) == Put(f, k, Put(At(f, k, << >>), i, v))
TakeAt(f, k, i) == Put(f, k, Without(At(f, k, << >>), i))

-----------------------------------------------------------------------------
(* From scratch.                                                             *)

\* A forecast is found under its key, `<place>/<day>`, or else, the latest of
\* several, under the last segment of it.
WeatherFacts(rows) ==
  LET forecasts == {x \in Range(rows) : x.kind = "weather_forecast"}
      under(k)  == {x \in forecasts : x.segment = k}
  IN [k \in {x.key : x \in forecasts} \cup {x.segment : x \in forecasts} |->
        IF \E x \in forecasts : x.key = k THEN (CHOOSE x \in forecasts : x.key = k).payload
        ELSE (CHOOSE x \in under(k) : \A y \in under(k) : y.at <= x.at).payload]

BuildFactContext(R) ==
  [tree    |-> R.nodes,
   edges   |-> Range(R.edges),
   entries |-> Range(R.time_entries),
   blocks  |-> Range(R.schedule_blocks),
   sprints |-> Range(R.sprints),
   members |-> {m \in Range(R.sprint_memberships) : m.sprint \in DOMAIN R.sprints},
   rules   |-> {r \in Range(R.blocker_rules) : r.enabled},
   weather |-> WeatherFacts(R.external_facts),
   dayOf   |-> DayOf[IF R.user_settings = None THEN DefaultResetHour ELSE R.user_settings]]

-----------------------------------------------------------------------------
(* The index: the rows and the maps derived from them.                       *)

EmptyIndex ==
  [nodes |-> << >>, children |-> << >>,
   edges |-> << >>, incoming |-> << >>, outgoing |-> << >>,
   entries |-> << >>, open |-> << >>, count |-> << >>, starts |-> << >>,
   blocks |-> << >>, ends |-> << >>,
   sprints |-> << >>, members |-> << >>, sprintsOf |-> << >>, pairs |-> << >>,
   rules |-> << >>, enabled |-> {}, facts |-> << >>, weather |-> << >>,
   reset |-> DefaultResetHour]

AddNode(ix, n) ==
  [ix EXCEPT !.nodes = Put(@, n.id, n), !.children = PutIn(@, n.parent, n.id)]

RemoveNode(ix, n) ==
  [ix EXCEPT !.nodes = Without(@, n.id), !.children = TakeOut(@, n.parent, n.id)]

AddEdge(ix, e) ==
  [ix EXCEPT !.edges = Put(@, e.id, e),
             !.incoming = PutIn(@, e.succ, e), !.outgoing = PutIn(@, e.pred, e)]

RemoveEdge(ix, e) ==
  [ix EXCEPT !.edges = Without(@, e.id),
             !.incoming = TakeOut(@, e.succ, e), !.outgoing = TakeOut(@, e.pred, e)]

AddEntry(ix, e) ==
  [ix EXCEPT !.entries = Put(@, e.id, e),
             !.count = Put(@, e.task, At(@, e.task, 0) + 1),
             !.starts = PutAt(@, e.task, e.id, e.start),
             !.open = IF e.end = None THEN PutIn(@, e.task, e.id) ELSE @]

\* Seeded fault of RemoveEntry: a timer that stopped stays in the open ones.
RemoveEntryKeepingOpen(ix, e) ==
  [ix EXCEPT !.entries = Without(@, e.id),
             !.count = Put(@, e.task, At(@, e.task, 1) - 1),
             !.starts = TakeAt(@, e.task, e.id)]

RemoveEntry(ix, e) ==
  [ix EXCEPT !.entries = Without(@, e.id),
             !.count = Put(@, e.task, At(@, e.task, 1) - 1),
             !.starts = TakeAt(@, e.task, e.id),
             !.open = TakeOut(@, e.task, e.id)]

AddBlock(ix, b) ==
  [ix EXCEPT !.blocks = Put(@, b.id, b),
             !.ends = IF b.status = "committed" THEN PutAt(@, b.task, b.id, b.end) ELSE @]

RemoveBlock(ix, b) ==
  [ix EXCEPT !.blocks = Without(@, b.id), !.ends = TakeAt(@, b.task, b.id)]

AddSprint(ix, s) == [ix EXCEPT !.sprints = Put(@, s.id, s)]
RemoveSprint(ix, s) == [ix EXCEPT !.sprints = Without(@, s.id)]

\* Two memberships may link the same pair; the last one to go unlinks it.
AddMembership(ix, m) ==
  LET pair == <<m.node, m.sprint>>
      n    == At(ix.pairs, pair, 0) + 1
  IN [ix EXCEPT !.members = Put(@, m.id, m),
                !.pairs = Put(@, pair, n),
                !.sprintsOf = IF n = 1 THEN PutIn(@, m.node, m.sprint) ELSE @]

RemoveMembership(ix, m) ==
  LET pair == <<m.node, m.sprint>>
      n    == At(ix.pairs, pair, 1) - 1
  IN [ix EXCEPT !.members = Without(@, m.id),
                !.pairs = IF n > 0 THEN Put(@, pair, n) ELSE Without(@, pair),
                !.sprintsOf = IF n > 0 THEN @ ELSE TakeOut(@, m.node, m.sprint)]

SetRules(ix, rules) ==
  [ix EXCEPT !.rules = rules, !.enabled = {r \in Range(rules) : r.enabled}]

SetFacts(ix, facts) == [ix EXCEPT !.facts = facts, !.weather = WeatherFacts(facts)]

-----------------------------------------------------------------------------
(* apply.  An effect is [table, op, id, fields].                              *)

\* The maps of the tables whose rows are spread over several of them.
Enter(ix, table, r) ==
  CASE table = "nodes" -> AddNode(ix, r)
    [] table = "edges" -> AddEdge(ix, r)
    [] table = "time_entries" -> AddEntry(ix, r)
    [] table = "schedule_blocks" -> AddBlock(ix, r)
    [] table = "sprints" -> AddSprint(ix, r)
    [] table = "sprint_memberships" -> AddMembership(ix, r)

Leave(ix, table, r) ==
  CASE table = "nodes" -> RemoveNode(ix, r)
    [] table = "edges" -> RemoveEdge(ix, r)
    [] table = "time_entries" -> RemoveEntry(ix, r)
    [] table = "schedule_blocks" -> RemoveBlock(ix, r)
    [] table = "sprints" -> RemoveSprint(ix, r)
    [] table = "sprint_memberships" -> RemoveMembership(ix, r)

RowsOf(ix, table) ==
  CASE table = "nodes" -> ix.nodes       [] table = "edges" -> ix.edges
    [] table = "time_entries" -> ix.entries  [] table = "schedule_blocks" -> ix.blocks
    [] table = "sprints" -> ix.sprints   [] table = "sprint_memberships" -> ix.members

\* Inserts are the only way in: an update of an unknown row does nothing.  A
\* known one goes out of the maps and comes back patched.
Applied(ix, e) ==
  LET rows  == RowsOf(ix, e.table)
      known == e.id \in DOMAIN rows
      gone  == IF known THEN Leave(ix, e.table, rows[e.id]) ELSE ix
  IN IF e.op = "delete" THEN gone
     ELSE IF known THEN Enter(gone, e.table, e.fields ++ rows[e.id])
     ELSE IF e.op = "insert" THEN Enter(ix, e.table, e.fields)
     ELSE ix

Patched(rows, e) ==
  IF e.op = "delete" THEN Without(rows, e.id)
  ELSE Put(rows, e.id, e.fields ++ At(rows, e.id, << >>))

ApplyOne(ix, e) ==
  CASE e.table = "blocker_rules" -> SetRules(ix, Patched(ix.rules, e))
    [] e.table = "external_facts" -> SetFacts(ix, Patched(ix.facts, e))
    [] e.table = "user_settings" -> [ix EXCEPT !.reset = e.fields.day_reset_hour]
    [] OTHER -> Applied(ix, e)

ApplyNext(s) ==
  LET e == CHOOSE x \in s.left : TRUE
  IN [left |-> s.left \ {e}, index |-> ApplyOne(s.index, e)]

\* The effects of a change are of different rows, so that their order makes no
\* difference.
Apply(ix, effects) ==
  LET after[k \in 0 .. Cardinality(effects)] ==
        IF k = 0 THEN [left |-> effects, index |-> ix] ELSE ApplyNext(after[k - 1])
  IN after[Cardinality(effects)].index

-----------------------------------------------------------------------------
(* The engine of the data provider: the index and the rows it reflects.       *)

DiffTable(prev, table, rows) ==
  {[table |-> table, op |-> IF n \in DOMAIN prev THEN "update" ELSE "insert",
    id |-> n, fields |-> rows[n]] :
     n \in {x \in DOMAIN rows : x \notin DOMAIN prev \/ prev[x] # rows[x]}}
  \cup {[table |-> table, op |-> "delete", id |-> n, fields |-> << >>] :
          n \in DOMAIN prev \ DOMAIN rows}

\* A settings row that is gone leaves the index as it was.
DiffSettings(prev, now) ==
  {[table |-> "user_settings", op |-> "update", id |-> <<"settings">>, fields |-> [day_reset_hour |-> h]] :
     h \in {now} \ {prev, None}}

Diff(prev, R) ==
  (UNION {DiffTable(prev[t], t, R[t]) : t \in SharedTables})
  \cup DiffSettings(prev.user_settings, R.user_settings)

Unseeded == [index |-> EmptyIndex, rows |-> [user_settings |-> None] ++ NoRows]

Seed(R) == [index |-> Apply(EmptyIndex, Diff(Unseeded.rows, R)), rows |-> R]

Maintain(engine, R) ==
  LET effects == Diff(engine.rows, R) IN
  IF Cardinality(effects) > RebuildThreshold THEN Seed(R)
  ELSE [index |-> Apply(engine.index, effects), rows |-> R]

-----------------------------------------------------------------------------
(* What the index answers, as facts: nothing here reads the stored rows where  *)
(* the code reads a derived map.                                             *)

View(ix) ==
  [tree    |-> ix.nodes,
   edges   |-> UNION Range(ix.incoming),
   entries |-> UNION {{[task |-> t, start |-> ix.starts[t][i],
                        end |-> IF i \in At(ix.open, t, {}) THEN None ELSE ix.entries[i].end] :
                         i \in DOMAIN ix.starts[t]} : t \in DOMAIN ix.starts},
   blocks  |-> UNION {{[task |-> t, end |-> x, status |-> "committed"] : x \in Range(ix.ends[t])} :
                        t \in DOMAIN ix.ends},
   sprints |-> Range(ix.sprints),
   members |-> UNION {{[node |-> n, sprint |-> s] : s \in ix.sprintsOf[n]} : n \in DOMAIN ix.sprintsOf},
   rules   |-> ix.enabled,
   weather |-> ix.weather,
   dayOf   |-> DayOf[ix.reset]]

-----------------------------------------------------------------------------
\* The view without the columns no answer depends on.
Essence(F) ==
  [tree    |-> F.tree,
   edges   |-> F.edges,
   entries |-> {[task |-> e.task, start |-> e.start, end |-> e.end] : e \in F.entries},
   blocks  |-> {[task |-> b.task, end |-> b.end] : b \in {x \in F.blocks : x.status = "committed"}},
   sprints |-> F.sprints,
   members |-> {[node |-> m.node, sprint |-> m.sprint] :
                  m \in {x \in F.members : x.sprint \in {s.id : s \in F.sprints}}},
   rules   |-> F.rules,
   weather |-> F.weather,
   dayOf   |-> F.dayOf]

\* The index answers every question as facts built from the rows R would: on the
\* tree from above and from below, on the edges from both ends, on the timers,
\* and so on the status of every task at every instant.
Agrees(ix, R) ==
  LET F == BuildFactContext(R)
      V == View(ix)
  IN /\ Essence(V) = Essence(F)
     /\ \A p \in DOMAIN ix.children \cup {n.parent : n \in Range(R.nodes)} :
          At(ix.children, p, {}) = Children(R.nodes, p)
     /\ UNION Range(ix.outgoing) = F.edges
     /\ \A n \in DOMAIN R.nodes :
          /\ (At(ix.count, n, 0) > 0) <=> (Starts(F, n) # {})
          /\ At(ix.incoming, n, {}) = Incoming(F.edges, n)
          /\ At(ix.outgoing, n, {}) = Outgoing(F.edges, n)
     /\ \A n \in {x \in DOMAIN R.nodes : R.nodes[x].type = "task"}, now \in DOMAIN F.dayOf :
          TaskStatus(V, n, now) = TaskStatus(F, n, now)
=============================================================================
