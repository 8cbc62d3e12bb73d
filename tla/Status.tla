------------------------------- MODULE Status -------------------------------
(***************************************************************************)
(* What Prisms derives from the rows and never stores                       *)
(* (packages/core/src/status, commands/invariants.ts): the facts of a task,  *)
(* the phase of a project, the blocker rules and the status.                 *)
(*                                                                          *)
(* The facts F are a record of live rows:                                    *)
(*   tree     a tree index (Hierarchy) with `done`, the completion time or   *)
(*            None, and the columns blocker rules read                       *)
(*   edges    [pred, succ, kind, lag]                                        *)
(*   entries  [task, start, end], end None while the timer runs              *)
(*   blocks   [task, end, status]                                            *)
(*   sprints  [id, from, to], days;  members [node, sprint]                  *)
(*   rules    blocker rules [types, root, pred], enabled ones                *)
(*   weather  a function from keys to functions from fields to values        *)
(*   dayOf    the user's day, a number, that each instant falls on           *)
(* Instants and lags are numbers of one unit.                                *)
(***************************************************************************)
EXTENDS Hierarchy, DepGraph

\* The function f, and where f has nothing what g has.
f ++ g == [x \in DOMAIN f \cup DOMAIN g |-> IF x \in DOMAIN f THEN f[x] ELSE g[x]]

EdgeKinds == {"FS", "SS", "FF", "SF"}

\* The nearest ancestor of a type that is in S, n itself first; {} when none.
Nearest(t, n, S) ==
  {a \in ({n} \cup Ancestors(t, n)) \cap S :
     \A b \in ({n} \cup Ancestors(t, n)) \cap S : b = a \/ a \notin Ancestors(t, b) }

-----------------------------------------------------------------------------
(* FactContext.                                                              *)

OpenEntries(F, n) == {e \in F.entries : e.task = n /\ e.end = None}

Starts(F, n) == {e.start : e \in {x \in F.entries : x.task = n}}

CommittedAfter(F, n, now) ==
  \E b \in F.blocks : b.task = n /\ b.status = "committed" /\ b.end > now

\* Membership is inherited from the ancestors.
InActiveSprint(F, n, now) ==
  \E m \in F.members, s \in F.sprints :
    /\ m.node \in {n} \cup Ancestors(F.tree, n)
    /\ s.id = m.sprint /\ s.from <= F.dayOf[now] /\ F.dayOf[now] <= s.to

-----------------------------------------------------------------------------
(* Edges.                                                                    *)

\* An edge holds its successor back from being worked on.  FS waits for the end
\* of the predecessor, SS for its start, and any lag counts from its completion.
Holds(F, e, now) ==
  LET p == F.tree[e.pred] IN
  \/ e.kind = "FS" /\ p.done = None
  \/ /\ e.kind = "SS" /\ p.done = None
     /\ Starts(F, e.pred) = {} \/ (e.lag > 0 /\ now < Min(Starts(F, e.pred)) + e.lag)
  \/ p.done # None /\ e.lag > 0 /\ now < p.done + e.lag

\* A predecessor that is gone holds nothing.
DependencyBlocked(F, n, now) ==
  \E e \in Incoming(F.edges, n) : e.pred \in DOMAIN F.tree /\ Holds(F, e, now)

\* An edge allows its successor to be completed.  SS does not matter here.
Allows(F, e, now) ==
  LET p == F.tree[e.pred] IN
  /\ e.kind \in {"FS", "FF"} => p.done # None /\ now >= p.done + e.lag
  /\ e.kind = "SF" =>
       /\ Starts(F, e.pred) # {} \/ p.done # None
       /\ e.lag > 0 /\ Starts(F, e.pred) # {} => now >= Min(Starts(F, e.pred)) + e.lag

CheckCompletion(F, n, now) ==
  \A e \in Incoming(F.edges, n) : e.pred \in DOMAIN F.tree => Allows(F, e, now)

-----------------------------------------------------------------------------
(* projectPhase reads execution facts only, so that rules may read it.       *)

Phase(F, p, now) ==
  LET tasks == {n \in Subtree(F.tree, p) \ {p} : F.tree[n].type = "task"}
      done  == {n \in tasks : F.tree[n].done # None}
      begun == done \cup {n \in tasks : OpenEntries(F, n) # {}}
  IN CASE done = tasks -> IF tasks = {} THEN "idle" ELSE "completed"
       [] done # tasks /\ begun # {} -> "executing"
       [] OTHER -> IF \E n \in tasks : CommittedAfter(F, n, now) THEN "planned" ELSE "idle"

-----------------------------------------------------------------------------
(* Predicates.  One is a sequence of its nodes, the root first and every node  *)
(* before its arguments; << >> is one that does not parse.  A value is         *)
(* [kind, v]; of the strings, those the comparisons tell apart are numbers, so *)
(* that their order is the order of the strings.                              *)

TriOf(b) == IF b THEN "true" ELSE "false"
TriNot(x) == CASE x = "true" -> "false" [] x = "false" -> "true" [] OTHER -> "unknown"

Negative == {"ne", "outside"}
Positive(op) == CASE op = "ne" -> "eq" [] op = "outside" -> "inside" [] OTHER -> op

Holding(op, a, b) ==
  CASE op = "gt" -> a > b [] op = "gte" -> a >= b [] op = "lt" -> a < b [] op = "lte" -> a <= b

\* compareSingle for a positive operator.  An expected value is [kind, v]; a
\* range has `from` and `to`, a pattern says whether it is `safe` to run and the
\* strings in its language.
Compare(op, fact, want) ==
  CASE op = "eq" ->
         IF want.kind \in {"none", "null", "range"} THEN "unknown"
         ELSE TriOf(fact.kind = want.kind /\ fact.v = want.v)
    [] op \in {"gt", "gte", "lt", "lte"} ->
         IF fact.kind = want.kind /\ fact.kind \in {"number", "string"}
         THEN TriOf(Holding(op, fact.v, want.v)) ELSE "unknown"
    [] op = "matches" ->
         IF fact.kind = "string" /\ want.kind = "pattern" /\ want.safe
         THEN TriOf(fact.v \in want.language) ELSE "unknown"
    [] op = "inside" ->
         IF fact.kind = "string" /\ want.kind = "range"
         THEN TriOf(fact.v \in want.from .. want.to) ELSE "unknown"

\* A fact is a set of values, empty when it cannot be resolved; only
\* ancestor.type may have several, or none and still be known.
CompareFact(op, many, values, want) ==
  LET results == {Compare(Positive(op), v, want) : v \in values}
      found   == CASE "true" \in results -> "true"
                   [] "true" \notin results /\ "unknown" \in results -> "unknown"
                   [] OTHER -> "false"
  IN IF values = {} /\ ~many THEN "unknown"
     ELSE IF op \in Negative THEN TriNot(found) ELSE found

Str(x) == [kind |-> "string", v |-> x]
Num(x) == [kind |-> "number", v |-> x]
Known(x, Kind(_)) == IF x = None THEN {} ELSE {Kind(x)}

\* resolveFact of condition c for node n as the row `row`, which need not be the
\* one in the tree; `block` is the day of the block it is asked for, or None.
ResolveFact(F, n, row, c, now, block) ==
  LET key      == CASE c.key = "{today}" -> F.dayOf[now] [] c.key = "{block_date}" -> block
                    [] OTHER -> c.key
      projects == IF row.type = "project" THEN {n}
                  ELSE Nearest(F.tree, n, {a \in Ancestors(F.tree, n) : F.tree[a].type = "project"})
  IN CASE c.fact = "node.type" -> {Str(row.type)}
       [] c.fact = "node.title" -> {Str(row.title)}
       [] c.fact = "node.due_date" -> Known(row.due, Str)
       [] c.fact = "node.estimate_minutes" -> Known(row.estimate, Num)
       [] c.fact = "node.habit_id" -> Known(row.habit, Str)
       [] c.fact = "node.completed" -> {[kind |-> "boolean", v |-> row.done # None]}
       [] c.fact = "ancestor.type" -> {Str(F.tree[a].type) : a \in Ancestors(F.tree, n)}
       [] c.fact = "project.phase" -> {Str(Phase(F, p, now)) : p \in projects}
       [] c.fact = "graph.unfinished_predecessors" ->
            {Num(Cardinality({e \in Incoming(F.edges, n) :
                                e.pred \in DOMAIN F.tree /\ F.tree[e.pred].done = None}))}
       [] c.fact = "date.window" -> {Str(F.dayOf[now])}
       [] c.fact = "weather" ->
            IF key \in DOMAIN F.weather /\ c.field \in DOMAIN F.weather[key]
            THEN {F.weather[key][c.field]} ELSE {}
       [] OTHER -> {}

Gates == {"all", "any", "not"}

\* The facts that the leaves of P read.
Resolved(F, n, row, P, now, block) ==
  [i \in {x \in DOMAIN P : P[x].op \notin Gates} |-> ResolveFact(F, n, row, P[i], now, block)]

Evaluate(P, known) ==
  LET val[i \in DOMAIN P] ==
        LET p    == P[i]
            args == {val[j] : j \in p.args}
        IN CASE p.op = "all" ->
                  IF "false" \in args THEN "false" ELSE IF "unknown" \in args THEN "unknown" ELSE "true"
             [] p.op = "any" ->
                  IF "true" \in args THEN "true" ELSE IF "unknown" \in args THEN "unknown" ELSE "false"
             [] p.op = "not" -> TriNot(CHOOSE x \in args : TRUE)
             [] OTHER -> CompareFact(p.op, p.fact = "ancestor.type", known[i], p.want)
  IN IF P = << >> THEN "unknown" ELSE val[1]

EvalPredicate(F, n, row, P, now, block) == Evaluate(P, Resolved(F, n, row, P, now, block))

ReferencesExternalFacts(P) ==
  \E i \in DOMAIN P : P[i].op \notin Gates /\ P[i].fact = "weather"

-----------------------------------------------------------------------------
(* Blocker rules and the status.                                             *)

\* A scope that does not parse has no types and applies to nothing.
InScope(F, n, r) ==
  /\ F.tree[n].type \in r.types
  /\ r.root # None => r.root \in {n} \cup Ancestors(F.tree, n)

\* The rules that block n, and those that could not be told.
RulesAt(F, n, now, verdict, acceptance) ==
  {r \in F.rules : /\ InScope(F, n, r)
                   /\ acceptance => ~ReferencesExternalFacts(r.pred)
                   /\ EvalPredicate(F, n, F.tree[n], r.pred, now, None) = verdict}

IsBlocked(F, n, now) == DependencyBlocked(F, n, now) \/ RulesAt(F, n, now, "true", FALSE) # {}

\* What timer.clock_in asks: the weather never rejects a command.
IsBlockedForAcceptance(F, n, now) ==
  DependencyBlocked(F, n, now) \/ RulesAt(F, n, now, "true", TRUE) # {}

TaskStatus(F, n, now) ==
  CASE F.tree[n].done # None -> "done"
    [] F.tree[n].done = None /\ OpenEntries(F, n) # {} -> "ongoing"
    [] OTHER ->
         IF IsBlocked(F, n, now) THEN "blocked"
         ELSE IF CommittedAfter(F, n, now) THEN "scheduled"
         ELSE IF InActiveSprint(F, n, now) THEN "prioritized" ELSE "available"
=============================================================================
