----------------------------- MODULE RulesEngine -----------------------------
(***************************************************************************)
(* The automation rules of Prisms (packages/core/src/rules): what a trigger   *)
(* spawns, run to a fixpoint, and the check of a rule when it is written.     *)
(*                                                                          *)
(* A rule is [id, trigger, conditions, actions, enabled, version]; its actions*)
(* are a set of [slot, title, parent, due, edgeFrom, kind, lag], {} when the  *)
(* stored ones do not parse.  A title is a sequence of words, of which        *)
(* "{trigger.title}" is a placeholder; `parent` is Same, or a node;  `due` is *)
(* None or [of, plus], the instant it counts from and the duration added.     *)
(* A trigger is [kind, node, row].  Ids of nodes are sequences, so that        *)
(* uuidv5, which no two different names share, is a constructor.              *)
(***************************************************************************)
EXTENDS Status, Functions, TLC

CONSTANTS
  MaxDepth,    \* MAX_DEPTH
  Same         \* 'same_as_trigger'

Placeholder == "{trigger.title}"

SpawnedTaskId(rule, node, slot) == <<rule, node, slot>>
SpawnedEdgeId(rule, node, slot) == <<rule, node, slot, "edge">>

\* automationActionsSchema: distinct slots, each edge from another slot of the list.
WellFormed(actions) ==
  /\ actions # {}
  /\ \A a, b \in actions : a.slot = b.slot => a = b
  /\ \A a \in actions : a.edgeFrom # None => a.edgeFrom \in {b.slot : b \in actions} \ {a.slot}

Interpolate(title, row) ==
  LET word[i \in 0 .. Len(title)] ==
        IF i = 0 THEN << >>
        ELSE word[i - 1] \o (IF title[i] = Placeholder THEN row.title ELSE <<title[i]>>)
  IN word[Len(title)]

TriggerInstant(trig) ==
  IF trig.kind = "task_completed" /\ trig.row.done # None THEN trig.row.done ELSE trig.row.created

\* The day of the instant and the offset; none when the trigger lacks the instant.
ResolveTriggerDate(F, due, row) ==
  LET base == IF due.of = "completed_at" THEN row.done ELSE row.created
  IN IF base = None THEN None ELSE F.dayOf[base + due.plus]

SpawnedRow(F, trig, a) ==
  [type     |-> "task",
   parent   |-> IF a.parent = Same THEN trig.row.parent ELSE a.parent,
   habit    |-> IF a.parent = Same THEN trig.row.habit ELSE None,
   title    |-> Interpolate(a.title, trig.row),
   done     |-> None,
   estimate |-> None,
   created  |-> TriggerInstant(trig),
   due      |-> IF a.due = None THEN None ELSE ResolveTriggerDate(F, a.due, trig.row)]

\* What the backstop compares.
Content(row) == <<row.type, row.title, row.parent, row.due, row.estimate, row.habit>>

\* The rules that fire: an unknown condition does not, and stored actions that do
\* not parse are passed over.
Matching(F, rules, triggers) ==
  {f \in rules \X triggers :
     /\ f[1].enabled /\ f[1].trigger = f[2].kind
     /\ EvalPredicate(F, f[2].node, f[2].row, f[1].conditions, TriggerInstant(f[2]), None) = "true"}

Firings(F, rules, triggers) == {f \in Matching(F, rules, triggers) : WellFormed(f[1].actions)}

\* The rows of a wave: the base rows and everything spawned so far.
With(F, out) ==
  [F EXCEPT !.tree = out.nodes ++ @, !.edges = @ \cup {out.edges[e] : e \in DOMAIN out.edges}]

Spawns(firings) ==
  UNION {{[rule |-> f[1], trig |-> f[2], act |-> a, id |-> SpawnedTaskId(f[1].id, f[2].node, a.slot)] :
            a \in f[1].actions} : f \in firings}

SpawnedEdge(s) ==
  [id   |-> SpawnedEdgeId(s.rule.id, s.trig.node, s.act.slot),
   pred |-> SpawnedTaskId(s.rule.id, s.trig.node, s.act.edgeFrom), succ |-> s.id,
   kind |-> s.act.kind, lag |-> s.act.lag]

\* One wave on the rows G.  The rules go in the order of their ids and their
\* actions in that of the slots; as every output has an id of its own and the
\* conditions of a wave are read before it, the order leaves no trace in the rows.
\* Where a row is there already the wave goes on from it.
AfterWave(G, out, spawns) ==
  LET rows  == [n \in {s.id : s \in spawns} |->
                  LET s == CHOOSE x \in spawns : x.id = n IN SpawnedRow(G, s.trig, s.act)]
      fresh == DOMAIN rows \ DOMAIN G.tree
      new   == {SpawnedEdge(s) : s \in {x \in spawns :
                  x.act.edgeFrom # None /\ \A e \in Outgoing(G.edges, SpawnedEdge(x).pred) : e.succ # x.id}}
  IN [nodes    |-> Restrict(rows, fresh) ++ out.nodes,
      edges    |-> [i \in {e.id : e \in new} |-> CHOOSE e \in new : e.id = i] ++ out.edges,
      replayed |-> Restrict(rows, DOMAIN rows \ fresh) ++ out.replayed,
      versions |-> [n \in DOMAIN rows |-> (CHOOSE s \in spawns : s.id = n).rule.version] ++ out.versions,
      queue    |-> {[kind |-> "task_created", node |-> n, row |-> (G.tree ++ rows)[n]] : n \in DOMAIN rows}]

NextWave(F, rules, out) ==
  LET G == With(F, out) IN AfterWave(G, out, Spawns(Firings(G, rules, out.queue)))

NothingYet(trigger) ==
  [nodes |-> << >>, edges |-> << >>, replayed |-> << >>, versions |-> << >>, queue |-> {trigger}]

\* Without the queue; rules that would still fire have been cut off.
Limited(F, rules, out) ==
  [x \in DOMAIN out \ {"queue"} |-> out[x]] ++ [depthLimited |-> Matching(With(F, out), rules, out.queue) # {}]

\* runAutomations on the live rows F.
RunAutomations(F, rules, trigger) ==
  LET wave[k \in 0 .. MaxDepth] ==
        IF k = 0 THEN NothingYet(trigger) ELSE NextWave(F, rules, wave[k - 1])
  IN Limited(F, rules, wave[MaxDepth])

\* What is kept of it: the nodes that would pass node.create beside the others,
\* and the edges between nodes that are there or kept.
KeptNodes(t, out) ==
  LET all == out.nodes ++ t
  IN {n \in DOMAIN out.nodes :
        CheckNodeCreate(all, "task", out.nodes[n].parent, out.nodes[n].habit)}

\* Seeded fault of KeptEdges: an edge is kept between nodes of the tables alone.
KeptEdgesOfOld(t, out) ==
  {e \in DOMAIN out.edges : {out.edges[e].pred, out.edges[e].succ} \subseteq DOMAIN t}

KeptEdges(t, out) ==
  {e \in DOMAIN out.edges :
     {out.edges[e].pred, out.edges[e].succ} \subseteq DOMAIN t \cup KeptNodes(t, out)}

-----------------------------------------------------------------------------
(* validateAutomationRule.                                                   *)

\* A spawned task as the check imagines it, alone in the world.
Synthetic(a) ==
  [type |-> "task", parent |-> None, habit |-> None, title |-> a.title,
   done |-> None, estimate |-> None, created |-> 0, due |-> None]

CouldMatchSpawn(dayOf, conditions, a) ==
  LET n     == <<"synthetic">>
      row   == Synthetic(a)
      alone == [tree |-> n :> row, edges |-> {}, entries |-> {}, blocks |-> {}, sprints |-> {},
                members |-> {}, rules |-> {}, weather |-> << >>, dayOf |-> dayOf]
  IN \/ \E i \in DOMAIN a.title : a.title[i] = Placeholder
     \/ EvalPredicate(alone, n, row, conditions, 0, None) # "false"

LinksTo(dayOf, r, s) ==
  s.trigger = "task_created" /\ \E a \in r.actions : CouldMatchSpawn(dayOf, s.conditions, a)

\* The candidate must not be reached again from its own spawns; the rules that
\* are off, or cannot spawn, take no part.
SelfTriggers(dayOf, candidate, others) ==
  LET all == {candidate} \cup {r \in others : r.enabled /\ WellFormed(r.actions)}
      Step(S) == {s \in all : \E r \in S : LinksTo(dayOf, r, s)}
      reach[k \in Nat] == IF k = 0 THEN Step({candidate}) ELSE reach[k - 1] \cup Step(reach[k - 1])
  IN candidate \in reach[Cardinality(all)]

ValidateRule(dayOf, candidate, others) ==
  /\ WellFormed(candidate.actions)
  /\ candidate.conditions # << >>
  /\ ~ReferencesExternalFacts(candidate.conditions)
  /\ \A i \in DOMAIN candidate.conditions :
       candidate.conditions[i].op = "matches" => candidate.conditions[i].want.safe
  /\ ~SelfTriggers(dayOf, candidate, others)
=============================================================================
