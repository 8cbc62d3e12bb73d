-------------------------- MODULE AutomationProofs --------------------------
(***************************************************************************)
(* Proofs about Automation: the index of the engine, maintained one effect *)
(* at a time, agrees with facts built from the merged rows, for any tables,*)
(* rules, commands and arrivals.                                           *)
(*                                                                         *)
(* The argument: an index that holds what some rows give (Reflects) holds  *)
(* what the changed rows give after an effect that fits them; the effects  *)
(* of a change fit the rows they find, in whatever order they come (Mid);   *)
(* so the engine, maintained with sound rows that may follow its own, holds*)
(* what the new rows give, and an index that does answers as the facts do. *)
(* That the merged rows are sound needs an invariant of every table, effect*)
(* and command: rows have the columns of their table and bear their ids.   *)
(***************************************************************************)
EXTENDS Automation, FiniteSetTheorems, SequenceTheorems, WellFoundedInduction, TLAPS

-----------------------------------------------------------------------------
(* Maps.                                                                     *)

\* Looking an entry up after one was put in.
LEMMA AtPut ==
  ASSUME NEW f, NEW k, NEW v, NEW j, NEW d
  PROVE  At(Put(f, k, v), j, d) = IF j = k THEN v ELSE At(f, j, d)
  BY DEF Put, At

\* Looking an entry up after one was taken out.
LEMMA AtWithout ==
  ASSUME NEW f, NEW k, NEW j, NEW d
  PROVE  At(Without(f, k), j, d) = IF j = k THEN d ELSE At(f, j, d)
  BY DEF Without, Restrict, At

\* Looking a set up after a member was put in.
LEMMA AtPutIn ==
  ASSUME NEW f, NEW k, NEW x, NEW j
  PROVE  At(PutIn(f, k, x), j, {}) = IF j = k THEN At(f, j, {}) \cup {x} ELSE At(f, j, {})
  BY AtPut DEF PutIn

\* Looking a set up after a member was taken out.
LEMMA AtTakeOut ==
  ASSUME NEW f, NEW k, NEW x, NEW j
  PROVE  At(TakeOut(f, k, x), j, {}) = IF j = k THEN At(f, j, {}) \ {x} ELSE At(f, j, {})
  BY AtPut DEF TakeOut

\* Looking a map up after an entry was put in.
LEMMA AtPutAt ==
  ASSUME NEW f, NEW k, NEW i, NEW v, NEW j
  PROVE  At(PutAt(f, k, i, v), j, << >>) = IF j = k THEN Put(At(f, j, << >>), i, v) ELSE At(f, j, << >>)
  BY AtPut DEF PutAt

\* Looking a map up after an entry was taken out.
LEMMA AtTakeAt ==
  ASSUME NEW f, NEW k, NEW i, NEW j
  PROVE  At(TakeAt(f, k, i), j, << >>) = IF j = k THEN Without(At(f, j, << >>), i) ELSE At(f, j, << >>)
  BY AtPut DEF TakeAt

\* The fields of an index.
IndexFields ==
  {"nodes", "children", "edges", "incoming", "outgoing", "entries", "open", "count", "starts",
   "blocks", "ends", "sprints", "members", "sprintsOf", "pairs", "rules", "enabled", "facts",
   "weather", "reset"}

\* Every row bears its id.
Keyed(rows) == \A n \in DOMAIN rows : rows[n].id = n

-----------------------------------------------------------------------------
(* What the maps of a table hold when its rows are `rows`.                    *)

\* The nodes and the children of each parent.
NodesReflect(ix, rows) ==
  /\ ix.nodes = rows
  /\ \A p : At(ix.children, p, {}) = {n \in DOMAIN rows : rows[n].parent = p}

\* The edges, by the node they lead to and by the one they come from.
EdgesReflect(ix, rows) ==
  /\ ix.edges = rows
  /\ \A k : At(ix.incoming, k, {}) = {e \in Range(rows) : e.succ = k}
  /\ \A k : At(ix.outgoing, k, {}) = {e \in Range(rows) : e.pred = k}

\* The entries, or the blocks, of a task.
OfTask(rows, t) == {i \in DOMAIN rows : rows[i].task = t}

\* The entries: of each task how many, when they started and which run.
EntriesReflect(ix, rows) ==
  /\ ix.entries = rows
  /\ \A t : At(ix.count, t, 0) = Cardinality(OfTask(rows, t))
  /\ \A t : At(ix.starts, t, << >>) = [i \in OfTask(rows, t) |-> rows[i].start]
  /\ \A t : At(ix.open, t, {}) = {i \in OfTask(rows, t) : rows[i].end = None}

\* The committed blocks of a task.
CommittedTo(rows, t) == {i \in OfTask(rows, t) : rows[i].status = "committed"}

\* The blocks: when the committed ones of each task end.
BlocksReflect(ix, rows) ==
  /\ ix.blocks = rows
  /\ \A t : At(ix.ends, t, << >>) = [i \in CommittedTo(rows, t) |-> rows[i].end]

\* The memberships that bind a node to a sprint.
Linking(rows, pair) == {i \in DOMAIN rows : <<rows[i].node, rows[i].sprint>> = pair}

\* The memberships: how many bind each pair, and the sprints of each node.
MembersReflect(ix, rows) ==
  /\ ix.members = rows
  /\ \A pair : At(ix.pairs, pair, 0) = Cardinality(Linking(rows, pair))
  /\ \A n : At(ix.sprintsOf, n, {}) = {rows[i].sprint : i \in {x \in DOMAIN rows : rows[x].node = n}}

\* The blocker rules and the enabled ones.
RulesReflect(ix, rows) ==
  ix.rules = rows /\ ix.enabled = {r \in Range(rows) : r.enabled}

\* The external facts and the weather in them.
FactsReflect(ix, rows) ==
  ix.facts = rows /\ ix.weather = WeatherFacts(rows)

\* The hour at which the day begins.
HourOf(settings) == IF settings = None THEN DefaultResetHour ELSE settings

\* The index holds what the rows R give.
Reflects(ix, R) ==
  /\ DOMAIN ix = IndexFields
  /\ NodesReflect(ix, R["nodes"])
  /\ EdgesReflect(ix, R["edges"])
  /\ EntriesReflect(ix, R["time_entries"])
  /\ BlocksReflect(ix, R["schedule_blocks"])
  /\ ix.sprints = R["sprints"]
  /\ MembersReflect(ix, R["sprint_memberships"])
  /\ RulesReflect(ix, R["blocker_rules"])
  /\ FactsReflect(ix, R["external_facts"])
  /\ ix.reset = HourOf(R["user_settings"])

-----------------------------------------------------------------------------
(* A row goes into the maps and comes out of them.                           *)

\* A node goes in.
LEMMA NodeIn ==
  ASSUME NEW ix, DOMAIN ix = IndexFields, NEW rows, NodesReflect(ix, rows),
         NEW n, n \notin DOMAIN rows, NEW r, r.id = n
  PROVE  NodesReflect(AddNode(ix, r), Put(rows, n, r))
<1>. DEFINE to == AddNode(ix, r)
            now == Put(rows, n, r)
<1>1. to.nodes = now /\ to.children = PutIn(ix.children, r.parent, n)
  BY DEF AddNode, NodesReflect, IndexFields
<1>2. ASSUME NEW p PROVE At(to.children, p, {}) = {m \in DOMAIN now : now[m].parent = p}
  <2>1. At(to.children, p, {}) = IF p = r.parent THEN At(ix.children, p, {}) \cup {n} ELSE At(ix.children, p, {})
    BY <1>1, AtPutIn
  <2>2. At(ix.children, p, {}) = {m \in DOMAIN rows : rows[m].parent = p}
    BY DEF NodesReflect
  <2>3. DOMAIN now = {n} \cup DOMAIN rows /\ now[n] = r /\ \A x \in DOMAIN rows : now[x] = rows[x]
    BY DEF Put
  <2>. HIDE DEF now, to
  <2>. QED BY <2>1, <2>2, <2>3
<1>. HIDE DEF to, now
<1>. QED BY <1>1, <1>2 DEF NodesReflect, to, now

\* A node goes out.
LEMMA NodeOut ==
  ASSUME NEW ix, DOMAIN ix = IndexFields, NEW rows, NodesReflect(ix, rows), Keyed(rows),
         NEW n \in DOMAIN rows
  PROVE  NodesReflect(RemoveNode(ix, rows[n]), Without(rows, n))
<1>. DEFINE to == RemoveNode(ix, rows[n])
            now == Without(rows, n)
<1>0. rows[n].id = n
  BY DEF Keyed
<1>1. to.nodes = now /\ to.children = TakeOut(ix.children, rows[n].parent, n)
  BY <1>0 DEF RemoveNode, NodesReflect, IndexFields
<1>2. ASSUME NEW p PROVE At(to.children, p, {}) = {m \in DOMAIN now : now[m].parent = p}
  <2>1. At(to.children, p, {}) = IF p = rows[n].parent THEN At(ix.children, p, {}) \ {n} ELSE At(ix.children, p, {})
    BY <1>1, AtTakeOut
  <2>2. At(ix.children, p, {}) = {m \in DOMAIN rows : rows[m].parent = p}
    BY DEF NodesReflect
  <2>3. DOMAIN now = DOMAIN rows \ {n} /\ \A x \in DOMAIN rows : x # n => now[x] = rows[x]
    BY DEF Without, Restrict
  <2>. HIDE DEF now, to
  <2>. QED BY <2>1, <2>2, <2>3
<1>. HIDE DEF to, now
<1>. QED BY <1>1, <1>2 DEF NodesReflect, to, now

\* The range of a map with one row more, or one less.
LEMMA Ranges ==
  ASSUME NEW rows, NEW n
  PROVE  /\ \A r : n \notin DOMAIN rows => Range(Put(rows, n, r)) = Range(rows) \cup {r}
         /\ Keyed(rows) /\ n \in DOMAIN rows => Range(Without(rows, n)) = Range(rows) \ {rows[n]}
<1>1. ASSUME NEW r, n \notin DOMAIN rows PROVE Range(Put(rows, n, r)) = Range(rows) \cup {r}
  <2>1. DOMAIN Put(rows, n, r) = {n} \cup DOMAIN rows /\ Put(rows, n, r)[n] = r
        /\ \A x \in DOMAIN rows : Put(rows, n, r)[x] = rows[x]
    BY <1>1 DEF Put
  <2>. QED BY <2>1 DEF Range
<1>2. ASSUME Keyed(rows), n \in DOMAIN rows PROVE Range(Without(rows, n)) = Range(rows) \ {rows[n]}
  <2>1. DOMAIN Without(rows, n) = DOMAIN rows \ {n} /\ \A x \in DOMAIN rows : x # n => Without(rows, n)[x] = rows[x]
    BY DEF Without, Restrict
  <2>2. \A x \in DOMAIN rows : x # n => rows[x] # rows[n]
    BY <1>2 DEF Keyed
  <2>. QED BY <1>2, <2>1, <2>2 DEF Range
<1>. QED BY <1>1, <1>2

\* An edge goes in.
LEMMA EdgeIn ==
  ASSUME NEW ix, DOMAIN ix = IndexFields, NEW rows, EdgesReflect(ix, rows),
         NEW n, n \notin DOMAIN rows, NEW r, r.id = n
  PROVE  EdgesReflect(AddEdge(ix, r), Put(rows, n, r))
<1>. DEFINE to == AddEdge(ix, r)
            now == Put(rows, n, r)
<1>1. /\ to.edges = now
      /\ to.incoming = PutIn(ix.incoming, r.succ, r) /\ to.outgoing = PutIn(ix.outgoing, r.pred, r)
  BY DEF AddEdge, EdgesReflect, IndexFields
<1>2. Range(now) = Range(rows) \cup {r}
  BY Ranges
<1>3. ASSUME NEW k PROVE At(to.incoming, k, {}) = {e \in Range(now) : e.succ = k}
  <2>1. At(to.incoming, k, {}) = IF k = r.succ THEN At(ix.incoming, k, {}) \cup {r} ELSE At(ix.incoming, k, {})
    BY <1>1, AtPutIn
  <2>2. At(ix.incoming, k, {}) = {e \in Range(rows) : e.succ = k}
    BY DEF EdgesReflect
  <2>. HIDE DEF now, to
  <2>. QED BY <1>2, <2>1, <2>2
<1>4. ASSUME NEW k PROVE At(to.outgoing, k, {}) = {e \in Range(now) : e.pred = k}
  <2>1. At(to.outgoing, k, {}) = IF k = r.pred THEN At(ix.outgoing, k, {}) \cup {r} ELSE At(ix.outgoing, k, {})
    BY <1>1, AtPutIn
  <2>2. At(ix.outgoing, k, {}) = {e \in Range(rows) : e.pred = k}
    BY DEF EdgesReflect
  <2>. HIDE DEF now, to
  <2>. QED BY <1>2, <2>1, <2>2
<1>. HIDE DEF to, now
<1>. QED BY <1>1, <1>3, <1>4 DEF EdgesReflect, to, now

\* An edge goes out.
LEMMA EdgeOut ==
  ASSUME NEW ix, DOMAIN ix = IndexFields, NEW rows, EdgesReflect(ix, rows), Keyed(rows),
         NEW n \in DOMAIN rows
  PROVE  EdgesReflect(RemoveEdge(ix, rows[n]), Without(rows, n))
<1>. DEFINE r == rows[n]
            to == RemoveEdge(ix, r)
            now == Without(rows, n)
<1>0. r.id = n
  BY DEF Keyed
<1>. HIDE DEF r
<1>1. /\ to.edges = now
      /\ to.incoming = TakeOut(ix.incoming, r.succ, r) /\ to.outgoing = TakeOut(ix.outgoing, r.pred, r)
  BY <1>0 DEF RemoveEdge, EdgesReflect, IndexFields
<1>2. Range(now) = Range(rows) \ {r}
  BY Ranges DEF r
<1>3. ASSUME NEW k PROVE At(to.incoming, k, {}) = {e \in Range(now) : e.succ = k}
  <2>1. At(to.incoming, k, {}) = IF k = r.succ THEN At(ix.incoming, k, {}) \ {r} ELSE At(ix.incoming, k, {})
    BY <1>1, AtTakeOut
  <2>2. At(ix.incoming, k, {}) = {e \in Range(rows) : e.succ = k}
    BY DEF EdgesReflect
  <2>. HIDE DEF now, to
  <2>. QED BY <1>2, <2>1, <2>2
<1>4. ASSUME NEW k PROVE At(to.outgoing, k, {}) = {e \in Range(now) : e.pred = k}
  <2>1. At(to.outgoing, k, {}) = IF k = r.pred THEN At(ix.outgoing, k, {}) \ {r} ELSE At(ix.outgoing, k, {})
    BY <1>1, AtTakeOut
  <2>2. At(ix.outgoing, k, {}) = {e \in Range(rows) : e.pred = k}
    BY DEF EdgesReflect
  <2>. HIDE DEF now, to
  <2>. QED BY <1>2, <2>1, <2>2
<1>. HIDE DEF to, now
<1>. QED BY <1>1, <1>3, <1>4 DEF EdgesReflect, to, now, r

\* The rows of a task when a row goes in, or out.
LEMMA OfTaskChanges ==
  ASSUME NEW rows, NEW n, NEW t
  PROVE  /\ \A r : n \notin DOMAIN rows =>
              OfTask(Put(rows, n, r), t) = OfTask(rows, t) \cup (IF r.task = t THEN {n} ELSE {})
         /\ OfTask(Without(rows, n), t) = OfTask(rows, t) \ {n}
<1>1. ASSUME NEW r, n \notin DOMAIN rows
      PROVE  OfTask(Put(rows, n, r), t) = OfTask(rows, t) \cup (IF r.task = t THEN {n} ELSE {})
  BY <1>1 DEF Put, OfTask
<1>2. OfTask(Without(rows, n), t) = OfTask(rows, t) \ {n}
  BY DEF Without, Restrict, OfTask
<1>. QED BY <1>1, <1>2

\* Finitely many rows of a task, none more than there are.
LEMMA OfTaskFinite ==
  ASSUME NEW rows, IsFiniteSet(DOMAIN rows), NEW t
  PROVE  IsFiniteSet(OfTask(rows, t)) /\ Cardinality(OfTask(rows, t)) \in Nat
<1>1. OfTask(rows, t) \in SUBSET DOMAIN rows
  BY DEF OfTask
<1>. QED BY <1>1, FS_Subset, FS_CardinalityType

\* A time entry goes in.
LEMMA EntryIn ==
  ASSUME NEW ix, DOMAIN ix = IndexFields, NEW rows, EntriesReflect(ix, rows),
         IsFiniteSet(DOMAIN rows), NEW n, n \notin DOMAIN rows, NEW r, r.id = n
  PROVE  EntriesReflect(AddEntry(ix, r), Put(rows, n, r))
<1>. DEFINE to == AddEntry(ix, r)
            now == Put(rows, n, r)
<1>1. /\ to.entries = now
      /\ to.count = Put(ix.count, r.task, At(ix.count, r.task, 0) + 1)
      /\ to.starts = PutAt(ix.starts, r.task, n, r.start)
      /\ to.open = IF r.end = None THEN PutIn(ix.open, r.task, n) ELSE ix.open
  BY DEF AddEntry, EntriesReflect, IndexFields
<1>2. DOMAIN now = {n} \cup DOMAIN rows /\ now[n] = r /\ \A x \in DOMAIN rows : now[x] = rows[x]
  BY DEF Put
<1>3. \A t : OfTask(now, t) = OfTask(rows, t) \cup (IF r.task = t THEN {n} ELSE {})
  BY <1>2 DEF OfTask
<1>4. \A t : n \notin OfTask(rows, t)
  BY DEF OfTask
<1>5. /\ \A t : At(ix.count, t, 0) = Cardinality(OfTask(rows, t))
      /\ \A t : At(ix.starts, t, << >>) = [i \in OfTask(rows, t) |-> rows[i].start]
      /\ \A t : At(ix.open, t, {}) = {i \in OfTask(rows, t) : rows[i].end = None}
  BY DEF EntriesReflect
<1>. HIDE DEF to, now
<1>6. ASSUME NEW t PROVE At(to.count, t, 0) = Cardinality(OfTask(now, t))
  <2>1. At(to.count, t, 0) = IF t = r.task THEN At(ix.count, t, 0) + 1 ELSE At(ix.count, t, 0)
    BY <1>1, AtPut
  <2>2. IsFiniteSet(OfTask(rows, t))
    BY OfTaskFinite
  <2>3. t = r.task => Cardinality(OfTask(now, t)) = Cardinality(OfTask(rows, t)) + 1
    BY <1>3, <1>4, <2>2, FS_AddElement
  <2>4. t # r.task => OfTask(now, t) = OfTask(rows, t)
    BY <1>3
  <2>. QED BY <1>5, <2>1, <2>3, <2>4
<1>7. ASSUME NEW t PROVE At(to.starts, t, << >>) = [i \in OfTask(now, t) |-> now[i].start]
  <2>1. At(to.starts, t, << >>) =
          IF t = r.task THEN Put(At(ix.starts, t, << >>), n, r.start) ELSE At(ix.starts, t, << >>)
    BY <1>1, AtPutAt
  <2>2. \A i \in OfTask(rows, t) : i \in DOMAIN rows
    BY DEF OfTask
  <2>3. CASE t = r.task
    <3>1. OfTask(now, t) = {n} \cup OfTask(rows, t)
      BY <1>3, <2>3
    <3>2. Put([i \in OfTask(rows, t) |-> rows[i].start], n, r.start) = [i \in OfTask(now, t) |-> now[i].start]
      BY <1>2, <2>2, <3>1, <1>4 DEF Put
    <3>. QED BY <2>1, <2>3, <3>2, <1>5
  <2>4. CASE t # r.task
    <3>1. OfTask(now, t) = OfTask(rows, t)
      BY <1>3, <2>4
    <3>2. [i \in OfTask(now, t) |-> now[i].start] = [i \in OfTask(rows, t) |-> rows[i].start]
      BY <1>2, <2>2, <3>1
    <3>. QED BY <2>1, <2>4, <3>2, <1>5
  <2>. QED BY <2>3, <2>4
<1>8. ASSUME NEW t PROVE At(to.open, t, {}) = {i \in OfTask(now, t) : now[i].end = None}
  <2>1. r.end = None => At(to.open, t, {}) = IF t = r.task THEN At(ix.open, t, {}) \cup {n} ELSE At(ix.open, t, {})
    BY <1>1, AtPutIn
  <2>2. r.end # None => At(to.open, t, {}) = At(ix.open, t, {})
    BY <1>1
  <2>3. \A i \in OfTask(rows, t) : i \in DOMAIN rows
    BY DEF OfTask
  <2>4. At(ix.open, t, {}) = {i \in OfTask(rows, t) : rows[i].end = None}
    BY <1>5
  <2>5. OfTask(now, t) = OfTask(rows, t) \cup (IF r.task = t THEN {n} ELSE {})
    BY <1>3
  <2>. QED BY <1>2, <2>1, <2>2, <2>3, <2>4, <2>5
<1>. QED BY <1>1, <1>6, <1>7, <1>8 DEF EntriesReflect, to, now

\* A time entry goes out.
LEMMA EntryOut ==
  ASSUME NEW ix, DOMAIN ix = IndexFields, NEW rows, EntriesReflect(ix, rows), Keyed(rows),
         IsFiniteSet(DOMAIN rows), NEW n \in DOMAIN rows
  PROVE  EntriesReflect(RemoveEntry(ix, rows[n]), Without(rows, n))
<1>. DEFINE r == rows[n]
            to == RemoveEntry(ix, r)
            now == Without(rows, n)
<1>0. r.id = n
  BY DEF Keyed
<1>4. n \in OfTask(rows, r.task) /\ \A t : t # r.task => n \notin OfTask(rows, t)
  BY DEF OfTask
<1>. HIDE DEF r
<1>1. /\ to.entries = now
      /\ to.count = Put(ix.count, r.task, At(ix.count, r.task, 1) - 1)
      /\ to.starts = TakeAt(ix.starts, r.task, n)
      /\ to.open = TakeOut(ix.open, r.task, n)
  BY <1>0 DEF RemoveEntry, EntriesReflect, IndexFields
<1>2. DOMAIN now = DOMAIN rows \ {n} /\ \A x \in DOMAIN rows : x # n => now[x] = rows[x]
  BY DEF Without, Restrict
<1>3. \A t : OfTask(now, t) = OfTask(rows, t) \ {n}
  BY OfTaskChanges
<1>5. /\ \A t : At(ix.count, t, 0) = Cardinality(OfTask(rows, t))
      /\ \A t : At(ix.starts, t, << >>) = [i \in OfTask(rows, t) |-> rows[i].start]
      /\ \A t : At(ix.open, t, {}) = {i \in OfTask(rows, t) : rows[i].end = None}
  BY DEF EntriesReflect
<1>. HIDE DEF to, now
<1>6. ASSUME NEW t PROVE At(to.count, t, 0) = Cardinality(OfTask(now, t))
  <2>1. At(to.count, t, 0) = IF t = r.task THEN At(ix.count, t, 1) - 1 ELSE At(ix.count, t, 0)
    BY <1>1, AtPut
  <2>2. IsFiniteSet(OfTask(rows, t)) /\ Cardinality(OfTask(rows, t)) \in Nat
    BY OfTaskFinite
  <2>3. t = r.task =>
          Cardinality(OfTask(rows, t)) # 0 /\ Cardinality(OfTask(now, t)) = Cardinality(OfTask(rows, t)) - 1
    BY <1>3, <1>4, <2>2, FS_RemoveElement, FS_EmptySet
  <2>4. t # r.task => OfTask(now, t) = OfTask(rows, t)
    BY <1>3, <1>4
  <2>5. t = r.task => At(ix.count, t, 1) = At(ix.count, t, 0)
    BY <1>5, <2>3 DEF At
  <2>. QED BY <1>5, <2>1, <2>3, <2>4, <2>5
<1>7. ASSUME NEW t PROVE At(to.starts, t, << >>) = [i \in OfTask(now, t) |-> now[i].start]
  <2>1. At(to.starts, t, << >>) =
          IF t = r.task THEN Without(At(ix.starts, t, << >>), n) ELSE At(ix.starts, t, << >>)
    BY <1>1, AtTakeAt
  <2>2. \A i \in OfTask(rows, t) : i \in DOMAIN rows
    BY DEF OfTask
  <2>3. CASE t = r.task
    <3>1. OfTask(now, t) = OfTask(rows, t) \ {n}
      BY <1>3
    <3>2. Without([i \in OfTask(rows, t) |-> rows[i].start], n) = [i \in OfTask(now, t) |-> now[i].start]
      BY <1>2, <2>2, <3>1 DEF Without, Restrict
    <3>. QED BY <2>1, <2>3, <3>2, <1>5
  <2>4. CASE t # r.task
    <3>1. OfTask(now, t) = OfTask(rows, t) /\ n \notin OfTask(rows, t)
      BY <1>3, <1>4, <2>4
    <3>2. [i \in OfTask(now, t) |-> now[i].start] = [i \in OfTask(rows, t) |-> rows[i].start]
      BY <1>2, <2>2, <3>1
    <3>. QED BY <2>1, <2>4, <3>2, <1>5
  <2>. QED BY <2>3, <2>4
<1>8. ASSUME NEW t PROVE At(to.open, t, {}) = {i \in OfTask(now, t) : now[i].end = None}
  <2>1. At(to.open, t, {}) = IF t = r.task THEN At(ix.open, t, {}) \ {n} ELSE At(ix.open, t, {})
    BY <1>1, AtTakeOut
  <2>3. \A i \in OfTask(rows, t) : i \in DOMAIN rows
    BY DEF OfTask
  <2>4. At(ix.open, t, {}) = {i \in OfTask(rows, t) : rows[i].end = None}
    BY <1>5
  <2>5. OfTask(now, t) = OfTask(rows, t) \ {n} /\ (t # r.task => n \notin OfTask(rows, t))
    BY <1>3, <1>4
  <2>. QED BY <1>2, <2>1, <2>3, <2>4, <2>5
<1>. QED BY <1>1, <1>6, <1>7, <1>8 DEF EntriesReflect, to, now, r

\* A schedule block goes in.
LEMMA BlockIn ==
  ASSUME NEW ix, DOMAIN ix = IndexFields, NEW rows, BlocksReflect(ix, rows),
         NEW n, n \notin DOMAIN rows, NEW r, r.id = n
  PROVE  BlocksReflect(AddBlock(ix, r), Put(rows, n, r))
<1>. DEFINE to == AddBlock(ix, r)
            now == Put(rows, n, r)
<1>1. /\ to.blocks = now
      /\ to.ends = IF r.status = "committed" THEN PutAt(ix.ends, r.task, n, r.end) ELSE ix.ends
  BY DEF AddBlock, BlocksReflect, IndexFields
<1>2. DOMAIN now = {n} \cup DOMAIN rows /\ now[n] = r /\ \A x \in DOMAIN rows : now[x] = rows[x]
  BY DEF Put
<1>3. \A t : CommittedTo(now, t) = CommittedTo(rows, t) \cup (IF r.task = t /\ r.status = "committed" THEN {n} ELSE {})
  BY <1>2 DEF CommittedTo, OfTask
<1>4. \A t : n \notin CommittedTo(rows, t) /\ \A i \in CommittedTo(rows, t) : i \in DOMAIN rows
  BY DEF OfTask, CommittedTo
<1>5. \A t : At(ix.ends, t, << >>) = [i \in CommittedTo(rows, t) |-> rows[i].end]
  BY DEF BlocksReflect
<1>. HIDE DEF to, now
<1>7. ASSUME NEW t PROVE At(to.ends, t, << >>) = [i \in CommittedTo(now, t) |-> now[i].end]
  <2>3. CASE t = r.task /\ r.status = "committed"
    <3>0. At(to.ends, t, << >>) = Put(At(ix.ends, t, << >>), n, r.end)
      BY <1>1, <2>3, AtPutAt
    <3>1. CommittedTo(now, t) = {n} \cup CommittedTo(rows, t)
      BY <1>3, <2>3
    <3>2. Put([i \in CommittedTo(rows, t) |-> rows[i].end], n, r.end) = [i \in CommittedTo(now, t) |-> now[i].end]
      BY <1>2, <3>1, <1>4 DEF Put
    <3>. QED BY <3>0, <3>2, <1>5
  <2>4. CASE ~(t = r.task /\ r.status = "committed")
    <3>0. At(to.ends, t, << >>) = At(ix.ends, t, << >>)
      BY <1>1, <2>4, AtPutAt
    <3>1. CommittedTo(now, t) = CommittedTo(rows, t)
      BY <1>3, <2>4
    <3>2. [i \in CommittedTo(now, t) |-> now[i].end] = [i \in CommittedTo(rows, t) |-> rows[i].end]
      BY <1>2, <1>4, <3>1
    <3>. QED BY <3>0, <3>2, <1>5
  <2>. QED BY <2>3, <2>4
<1>. QED BY <1>1, <1>7 DEF BlocksReflect, to, now

\* A schedule block goes out.
LEMMA BlockOut ==
  ASSUME NEW ix, DOMAIN ix = IndexFields, NEW rows, BlocksReflect(ix, rows), Keyed(rows),
         NEW n \in DOMAIN rows
  PROVE  BlocksReflect(RemoveBlock(ix, rows[n]), Without(rows, n))
<1>. DEFINE r == rows[n]
            to == RemoveBlock(ix, r)
            now == Without(rows, n)
<1>0. r.id = n
  BY DEF Keyed
<1>4. /\ \A t : t # r.task => n \notin CommittedTo(rows, t)
      /\ \A t : \A i \in CommittedTo(rows, t) : i \in DOMAIN rows
  BY DEF OfTask, CommittedTo
<1>. HIDE DEF r
<1>1. to.blocks = now /\ to.ends = TakeAt(ix.ends, r.task, n)
  BY <1>0 DEF RemoveBlock, BlocksReflect, IndexFields
<1>2. DOMAIN now = DOMAIN rows \ {n} /\ \A x \in DOMAIN rows : x # n => now[x] = rows[x]
  BY DEF Without, Restrict
<1>3. \A t : CommittedTo(now, t) = CommittedTo(rows, t) \ {n}
  BY <1>2 DEF CommittedTo, OfTask
<1>5. \A t : At(ix.ends, t, << >>) = [i \in CommittedTo(rows, t) |-> rows[i].end]
  BY DEF BlocksReflect
<1>. HIDE DEF to, now
<1>7. ASSUME NEW t PROVE At(to.ends, t, << >>) = [i \in CommittedTo(now, t) |-> now[i].end]
  <2>1. At(to.ends, t, << >>) =
          IF t = r.task THEN Without(At(ix.ends, t, << >>), n) ELSE At(ix.ends, t, << >>)
    BY <1>1, AtTakeAt
  <2>3. CASE t = r.task
    <3>1. CommittedTo(now, t) = CommittedTo(rows, t) \ {n}
      BY <1>3
    <3>2. Without([i \in CommittedTo(rows, t) |-> rows[i].end], n) = [i \in CommittedTo(now, t) |-> now[i].end]
      BY <1>2, <1>4, <3>1 DEF Without, Restrict
    <3>. QED BY <2>1, <2>3, <3>2, <1>5
  <2>4. CASE t # r.task
    <3>1. CommittedTo(now, t) = CommittedTo(rows, t) /\ n \notin CommittedTo(rows, t)
      BY <1>3, <1>4, <2>4
    <3>2. [i \in CommittedTo(now, t) |-> now[i].end] = [i \in CommittedTo(rows, t) |-> rows[i].end]
      BY <1>2, <1>4, <3>1
    <3>. QED BY <2>1, <2>4, <3>2, <1>5
  <2>. QED BY <2>3, <2>4
<1>. QED BY <1>1, <1>7 DEF BlocksReflect, to, now, r

\* Finitely many rows link a pair.
LEMMA LinkingFinite ==
  ASSUME NEW rows, IsFiniteSet(DOMAIN rows), NEW pair
  PROVE  IsFiniteSet(Linking(rows, pair)) /\ Cardinality(Linking(rows, pair)) \in Nat
<1>1. Linking(rows, pair) \in SUBSET DOMAIN rows
  BY DEF Linking
<1>. QED BY <1>1, FS_Subset, FS_CardinalityType

\* A sprint membership goes in.
LEMMA MemberIn ==
  ASSUME NEW ix, DOMAIN ix = IndexFields, NEW rows, MembersReflect(ix, rows),
         IsFiniteSet(DOMAIN rows), NEW n, n \notin DOMAIN rows, NEW r, r.id = n
  PROVE  MembersReflect(AddMembership(ix, r), Put(rows, n, r))
<1>. DEFINE to == AddMembership(ix, r)
            now == Put(rows, n, r)
            own == <<r.node, r.sprint>>
            many == At(ix.pairs, own, 0) + 1
            S(db, k) == {db[i].sprint : i \in {x \in DOMAIN db : db[x].node = k}}
<1>1. /\ to.members = now
      /\ to.pairs = Put(ix.pairs, own, many)
      /\ to.sprintsOf = IF many = 1 THEN PutIn(ix.sprintsOf, r.node, r.sprint) ELSE ix.sprintsOf
  BY DEF AddMembership, MembersReflect, IndexFields
<1>2. DOMAIN now = {n} \cup DOMAIN rows /\ now[n] = r /\ \A x \in DOMAIN rows : now[x] = rows[x]
  BY DEF Put
<1>3. \A pair : Linking(now, pair) = Linking(rows, pair) \cup (IF pair = own THEN {n} ELSE {})
  BY <1>2 DEF Linking
<1>4. \A pair : n \notin Linking(rows, pair)
  BY DEF Linking
<1>5. /\ \A pair : At(ix.pairs, pair, 0) = Cardinality(Linking(rows, pair))
      /\ \A k : At(ix.sprintsOf, k, {}) = S(rows, k)
  BY DEF MembersReflect
<1>6. \A pair : IsFiniteSet(Linking(rows, pair)) /\ Cardinality(Linking(rows, pair)) \in Nat
  BY LinkingFinite
<1>7. ASSUME NEW k PROVE S(now, k) = S(rows, k) \cup (IF r.node = k THEN {r.sprint} ELSE {})
  BY <1>2
<1>8. many # 1 => r.sprint \in S(rows, r.node)
  <2>1. ASSUME many # 1 PROVE r.sprint \in S(rows, r.node)
    <3>1. Linking(rows, own) # {}
      BY <1>5, <1>6, <2>1, FS_EmptySet
    <3>2. PICK i : i \in Linking(rows, own)
      BY <3>1
    <3>3. i \in DOMAIN rows /\ rows[i].node = r.node /\ rows[i].sprint = r.sprint
      BY <3>2 DEF Linking
    <3>. QED BY <3>3
  <2>. QED BY <2>1
<1>. HIDE DEF to, now, own, S
<1>9. ASSUME NEW pair PROVE At(to.pairs, pair, 0) = Cardinality(Linking(now, pair))
  <2>1. At(to.pairs, pair, 0) = IF pair = own THEN many ELSE At(ix.pairs, pair, 0)
    BY <1>1, AtPut
  <2>2. pair = own => Cardinality(Linking(now, pair)) = Cardinality(Linking(rows, pair)) + 1
    BY <1>3, <1>4, <1>6, FS_AddElement
  <2>3. pair # own => Linking(now, pair) = Linking(rows, pair)
    BY <1>3
  <2>. QED BY <1>5, <2>1, <2>2, <2>3
<1>10. ASSUME NEW k PROVE At(to.sprintsOf, k, {}) = S(now, k)
  <2>1. many = 1 => At(to.sprintsOf, k, {}) =
                      IF k = r.node THEN At(ix.sprintsOf, k, {}) \cup {r.sprint} ELSE At(ix.sprintsOf, k, {})
    BY <1>1, AtPutIn
  <2>2. many # 1 => At(to.sprintsOf, k, {}) = At(ix.sprintsOf, k, {})
    BY <1>1
  <2>3. At(ix.sprintsOf, k, {}) = S(rows, k)
    BY <1>5
  <2>4. S(now, k) = S(rows, k) \cup (IF r.node = k THEN {r.sprint} ELSE {})
    BY <1>7
  <2>. HIDE DEF many
  <2>. QED BY <1>8, <2>1, <2>2, <2>3, <2>4
<1>. QED BY <1>1, <1>9, <1>10 DEF MembersReflect, to, now, S

\* A sprint membership goes out.
LEMMA MemberOut ==
  ASSUME NEW ix, DOMAIN ix = IndexFields, NEW rows, MembersReflect(ix, rows), Keyed(rows),
         IsFiniteSet(DOMAIN rows), NEW n \in DOMAIN rows
  PROVE  MembersReflect(RemoveMembership(ix, rows[n]), Without(rows, n))
<1>. DEFINE r == rows[n]
            to == RemoveMembership(ix, r)
            now == Without(rows, n)
            own == <<r.node, r.sprint>>
            many == At(ix.pairs, own, 1) - 1
            S(db, k) == {db[i].sprint : i \in {x \in DOMAIN db : db[x].node = k}}
<1>0. r.id = n
  BY DEF Keyed
<1>1. /\ to.members = now
      /\ to.pairs = IF many > 0 THEN Put(ix.pairs, own, many) ELSE Without(ix.pairs, own)
      /\ to.sprintsOf = IF many > 0 THEN ix.sprintsOf ELSE TakeOut(ix.sprintsOf, r.node, r.sprint)
  <2>. HIDE DEF r
  <2>. QED BY <1>0 DEF RemoveMembership, MembersReflect, IndexFields
<1>2. DOMAIN now = DOMAIN rows \ {n} /\ \A x \in DOMAIN rows : x # n => now[x] = rows[x]
  BY DEF Without, Restrict
<1>3. \A pair : Linking(now, pair) = Linking(rows, pair) \ {n}
  BY <1>2 DEF Linking
<1>4. n \in Linking(rows, own) /\ \A pair : pair # own => n \notin Linking(rows, pair)
  BY DEF Linking
<1>5. /\ \A pair : At(ix.pairs, pair, 0) = Cardinality(Linking(rows, pair))
      /\ \A k : At(ix.sprintsOf, k, {}) = S(rows, k)
  BY DEF MembersReflect
<1>6. \A pair : IsFiniteSet(Linking(rows, pair)) /\ Cardinality(Linking(rows, pair)) \in Nat
  BY LinkingFinite
<1>7. \A k : \A s : s \in S(now, k) <=> Linking(now, <<k, s>>) # {}
  BY DEF Linking
<1>8. \A k : \A s : s \in S(rows, k) <=> Linking(rows, <<k, s>>) # {}
  BY DEF Linking
<1>9. \A k, s : <<k, s>> = own <=> k = r.node /\ s = r.sprint
  OBVIOUS
<1>. HIDE DEF to, now, own, S, r
<1>10. /\ At(ix.pairs, own, 1) = Cardinality(Linking(rows, own))
       /\ Cardinality(Linking(now, own)) = Cardinality(Linking(rows, own)) - 1
       /\ Cardinality(Linking(rows, own)) # 0
  <2>1. Cardinality(Linking(rows, own)) # 0
    BY <1>4, <1>6, FS_EmptySet
  <2>2. At(ix.pairs, own, 1) = At(ix.pairs, own, 0)
    BY <1>5, <2>1 DEF At
  <2>3. Cardinality(Linking(now, own)) = Cardinality(Linking(rows, own)) - 1
    BY <1>3, <1>4, <1>6, FS_RemoveElement
  <2>. QED BY <1>5, <2>1, <2>2, <2>3
<1>11. many = Cardinality(Linking(now, own)) /\ many \in Nat
  BY <1>6, <1>10
<1>12. IsFiniteSet(Linking(now, own))
  BY <1>3, <1>6, FS_RemoveElement
<1>13. many > 0 <=> Linking(now, own) # {}
  BY <1>11, <1>12, FS_EmptySet
<1>. HIDE DEF many
<1>14. ASSUME NEW pair PROVE At(to.pairs, pair, 0) = Cardinality(Linking(now, pair))
  <2>1. CASE pair # own
    <3>1. At(to.pairs, pair, 0) = At(ix.pairs, pair, 0)
      BY <1>1, <2>1, AtPut, AtWithout
    <3>2. Linking(now, pair) = Linking(rows, pair)
      BY <1>3, <1>4, <2>1
    <3>. QED BY <1>5, <3>1, <3>2
  <2>2. CASE pair = own
    <3>1. At(to.pairs, pair, 0) = IF many > 0 THEN many ELSE 0
      BY <1>1, <2>2, AtPut, AtWithout
    <3>. QED BY <1>11, <2>2, <3>1
  <2>. QED BY <2>1, <2>2
<1>15. ASSUME NEW k PROVE At(to.sprintsOf, k, {}) = S(now, k)
  <2>1. ~(many > 0) => At(to.sprintsOf, k, {}) =
                         IF k = r.node THEN At(ix.sprintsOf, k, {}) \ {r.sprint} ELSE At(ix.sprintsOf, k, {})
    BY <1>1, AtTakeOut
  <2>2. many > 0 => At(to.sprintsOf, k, {}) = At(ix.sprintsOf, k, {})
    BY <1>1
  <2>3. At(ix.sprintsOf, k, {}) = S(rows, k)
    BY <1>5
  <2>4. ASSUME NEW s PROVE s \in S(now, k) <=> s \in S(rows, k) /\ (<<k, s>> = own => many > 0)
    <3>1. <<k, s>> # own => Linking(now, <<k, s>>) = Linking(rows, <<k, s>>)
      BY <1>3, <1>4
    <3>2. <<k, s>> = own => Linking(rows, <<k, s>>) # {}
      BY <1>4
    <3>. QED BY <1>7, <1>8, <1>13, <3>1, <3>2
  <2>. QED BY <1>9, <2>1, <2>2, <2>3, <2>4
<1>. QED BY <1>1, <1>14, <1>15 DEF MembersReflect, to, now, S, r

-----------------------------------------------------------------------------
(* One effect.                                                               *)

\* An effect that changes these rows: it takes a row away, puts a new one in its
\* place, with every column the old one has, or brings one that is not there.
Fits(rows, e) ==
  \/ e.op = "delete" /\ e.id \in DOMAIN rows
  \/ /\ e.op = "insert" /\ e.id \notin DOMAIN rows
     /\ e.fields.id = e.id /\ e.fields ++ << >> = e.fields
  \/ /\ e.op = "update" /\ e.id \in DOMAIN rows
     /\ e.fields.id = e.id /\ e.fields ++ rows[e.id] = e.fields

\* The rows after the effect e.
Changed(rows, e) ==
  IF e.op = "delete" THEN Without(rows, e.id) ELSE Put(rows, e.id, e.fields)

\* The index `to` is `ix` but for the fields S.
Only(ix, to, S) == DOMAIN to = DOMAIN ix /\ \A f \in IndexFields \ S : to[f] = ix[f]

\* A row that is taken out and put back another one.
LEMMA PutBack ==
  ASSUME NEW rows, NEW n, NEW r
  PROVE  Put(Without(rows, n), n, r) = Put(rows, n, r)
  BY DEF Put, Without, Restrict

\* A known row leaves the maps before it comes back.
LEMMA AppliedIs ==
  ASSUME NEW ix, NEW e, NEW rows, rows = RowsOf(ix, e.table), Fits(rows, e)
  PROVE  Applied(ix, e) =
           IF e.op = "delete" THEN Leave(ix, e.table, rows[e.id])
           ELSE IF e.op = "insert" THEN Enter(ix, e.table, e.fields)
           ELSE Enter(Leave(ix, e.table, rows[e.id]), e.table, e.fields)
  BY DEF Applied, Fits

\* The table an effect is about is not one of the three that are handled apart.
LEMMA Spread6 ==
  ASSUME NEW ix, NEW e, e.table \in {"nodes", "edges", "time_entries", "schedule_blocks", "sprints", "sprint_memberships"}
  PROVE  ApplyOne(ix, e) = Applied(ix, e)
  BY DEF ApplyOne

\* What is left without a row bears its ids, and is finite.
LEMMA WithoutKeyed ==
  ASSUME NEW rows, NEW n, Keyed(rows), IsFiniteSet(DOMAIN rows)
  PROVE  /\ n \notin DOMAIN Without(rows, n)
         /\ IsFiniteSet(DOMAIN Without(rows, n))
<1>1. DOMAIN Without(rows, n) = DOMAIN rows \ {n}
  BY DEF Without, Restrict
<1>. QED BY <1>1, FS_RemoveElement

\* An effect on the nodes.
LEMMA NodesApplied ==
  ASSUME NEW ix, DOMAIN ix = IndexFields, NEW rows, NodesReflect(ix, rows), Keyed(rows),
         IsFiniteSet(DOMAIN rows), NEW e, e.table = "nodes", Fits(rows, e)
  PROVE  NodesReflect(ApplyOne(ix, e), Changed(rows, e)) /\ Only(ix, ApplyOne(ix, e), {"nodes", "children"})
<1>. DEFINE gone == RemoveNode(ix, rows[e.id])
<1>1. ApplyOne(ix, e) = IF e.op = "delete" THEN gone
                        ELSE IF e.op = "insert" THEN AddNode(ix, e.fields) ELSE AddNode(gone, e.fields)
  <2>1. rows = RowsOf(ix, e.table)
    BY DEF RowsOf, NodesReflect
  <2>2. \A i, r : Leave(i, e.table, r) = RemoveNode(i, r) /\ Enter(i, e.table, r) = AddNode(i, r)
    BY DEF Leave, Enter
  <2>. HIDE DEF gone
  <2>. QED BY <2>1, <2>2, AppliedIs, Spread6 DEF gone
<1>2. e.id \in DOMAIN rows => NodesReflect(gone, Without(rows, e.id)) /\ Only(ix, gone, {"nodes", "children"})
  <2>1. Only(ix, gone, {"nodes", "children"})
    BY DEF Only, RemoveNode, IndexFields
  <2>. QED BY <2>1, NodeOut
<1>3. CASE e.op = "delete"
  BY <1>1, <1>2, <1>3 DEF Fits, Changed
<1>4. CASE e.op = "insert"
  <2>1. e.id \notin DOMAIN rows /\ e.fields.id = e.id
    BY <1>4 DEF Fits
  <2>2. NodesReflect(AddNode(ix, e.fields), Put(rows, e.id, e.fields))
    BY <2>1, NodeIn
  <2>3. Only(ix, AddNode(ix, e.fields), {"nodes", "children"})
    BY DEF Only, AddNode, IndexFields
  <2>. QED BY <1>1, <1>4, <2>2, <2>3 DEF Changed
<1>5. CASE e.op = "update"
  <2>1. e.id \in DOMAIN rows /\ e.fields.id = e.id
    BY <1>5 DEF Fits
  <2>2. DOMAIN gone = IndexFields
    BY <1>2, <2>1 DEF Only
  <2>3. e.id \notin DOMAIN Without(rows, e.id) /\ IsFiniteSet(DOMAIN Without(rows, e.id))
    BY WithoutKeyed
  <2>. HIDE DEF gone
  <2>4. NodesReflect(AddNode(gone, e.fields), Put(Without(rows, e.id), e.id, e.fields))
    BY <1>2, <2>1, <2>2, <2>3, NodeIn
  <2>5. Only(gone, AddNode(gone, e.fields), {"nodes", "children"})
    BY <2>2 DEF Only, AddNode, IndexFields
  <2>6. Only(ix, AddNode(gone, e.fields), {"nodes", "children"})
    BY <1>2, <2>1, <2>5 DEF Only
  <2>. QED BY <1>1, <1>5, <2>4, <2>6, PutBack DEF Changed
<1>. QED BY <1>3, <1>4, <1>5 DEF Fits

\* An effect on the edges.
LEMMA EdgesApplied ==
  ASSUME NEW ix, DOMAIN ix = IndexFields, NEW rows, EdgesReflect(ix, rows), Keyed(rows),
         IsFiniteSet(DOMAIN rows), NEW e, e.table = "edges", Fits(rows, e)
  PROVE  EdgesReflect(ApplyOne(ix, e), Changed(rows, e)) /\ Only(ix, ApplyOne(ix, e), {"edges", "incoming", "outgoing"})
<1>. DEFINE gone == RemoveEdge(ix, rows[e.id])
<1>1. ApplyOne(ix, e) = IF e.op = "delete" THEN gone
                        ELSE IF e.op = "insert" THEN AddEdge(ix, e.fields) ELSE AddEdge(gone, e.fields)
  <2>1. rows = RowsOf(ix, e.table)
    BY DEF RowsOf, EdgesReflect
  <2>2. \A i, r : Leave(i, e.table, r) = RemoveEdge(i, r) /\ Enter(i, e.table, r) = AddEdge(i, r)
    BY DEF Leave, Enter
  <2>. HIDE DEF gone
  <2>. QED BY <2>1, <2>2, AppliedIs, Spread6 DEF gone
<1>2. e.id \in DOMAIN rows => EdgesReflect(gone, Without(rows, e.id)) /\ Only(ix, gone, {"edges", "incoming", "outgoing"})
  <2>1. Only(ix, gone, {"edges", "incoming", "outgoing"})
    BY DEF Only, RemoveEdge, IndexFields
  <2>. QED BY <2>1, EdgeOut
<1>3. CASE e.op = "delete"
  BY <1>1, <1>2, <1>3 DEF Fits, Changed
<1>4. CASE e.op = "insert"
  <2>1. e.id \notin DOMAIN rows /\ e.fields.id = e.id
    BY <1>4 DEF Fits
  <2>2. EdgesReflect(AddEdge(ix, e.fields), Put(rows, e.id, e.fields))
    BY <2>1, EdgeIn
  <2>3. Only(ix, AddEdge(ix, e.fields), {"edges", "incoming", "outgoing"})
    BY DEF Only, AddEdge, IndexFields
  <2>. QED BY <1>1, <1>4, <2>2, <2>3 DEF Changed
<1>5. CASE e.op = "update"
  <2>1. e.id \in DOMAIN rows /\ e.fields.id = e.id
    BY <1>5 DEF Fits
  <2>2. DOMAIN gone = IndexFields
    BY <1>2, <2>1 DEF Only
  <2>3. e.id \notin DOMAIN Without(rows, e.id) /\ IsFiniteSet(DOMAIN Without(rows, e.id))
    BY WithoutKeyed
  <2>. HIDE DEF gone
  <2>4. EdgesReflect(AddEdge(gone, e.fields), Put(Without(rows, e.id), e.id, e.fields))
    BY <1>2, <2>1, <2>2, <2>3, EdgeIn
  <2>5. Only(gone, AddEdge(gone, e.fields), {"edges", "incoming", "outgoing"})
    BY <2>2 DEF Only, AddEdge, IndexFields
  <2>6. Only(ix, AddEdge(gone, e.fields), {"edges", "incoming", "outgoing"})
    BY <1>2, <2>1, <2>5 DEF Only
  <2>. QED BY <1>1, <1>5, <2>4, <2>6, PutBack DEF Changed
<1>. QED BY <1>3, <1>4, <1>5 DEF Fits

\* An effect on the time entries.
LEMMA EntriesApplied ==
  ASSUME NEW ix, DOMAIN ix = IndexFields, NEW rows, EntriesReflect(ix, rows), Keyed(rows),
         IsFiniteSet(DOMAIN rows), NEW e, e.table = "time_entries", Fits(rows, e)
  PROVE  EntriesReflect(ApplyOne(ix, e), Changed(rows, e)) /\ Only(ix, ApplyOne(ix, e), {"entries", "open", "count", "starts"})
<1>. DEFINE gone == RemoveEntry(ix, rows[e.id])
<1>1. ApplyOne(ix, e) = IF e.op = "delete" THEN gone
                        ELSE IF e.op = "insert" THEN AddEntry(ix, e.fields) ELSE AddEntry(gone, e.fields)
  <2>1. rows = RowsOf(ix, e.table)
    BY DEF RowsOf, EntriesReflect
  <2>2. \A i, r : Leave(i, e.table, r) = RemoveEntry(i, r) /\ Enter(i, e.table, r) = AddEntry(i, r)
    BY DEF Leave, Enter
  <2>. HIDE DEF gone
  <2>. QED BY <2>1, <2>2, AppliedIs, Spread6 DEF gone
<1>2. e.id \in DOMAIN rows => EntriesReflect(gone, Without(rows, e.id)) /\ Only(ix, gone, {"entries", "open", "count", "starts"})
  <2>1. Only(ix, gone, {"entries", "open", "count", "starts"})
    BY DEF Only, RemoveEntry, IndexFields
  <2>. QED BY <2>1, EntryOut
<1>3. CASE e.op = "delete"
  BY <1>1, <1>2, <1>3 DEF Fits, Changed
<1>4. CASE e.op = "insert"
  <2>1. e.id \notin DOMAIN rows /\ e.fields.id = e.id
    BY <1>4 DEF Fits
  <2>2. EntriesReflect(AddEntry(ix, e.fields), Put(rows, e.id, e.fields))
    BY <2>1, EntryIn
  <2>3. Only(ix, AddEntry(ix, e.fields), {"entries", "open", "count", "starts"})
    BY DEF Only, AddEntry, IndexFields
  <2>. QED BY <1>1, <1>4, <2>2, <2>3 DEF Changed
<1>5. CASE e.op = "update"
  <2>1. e.id \in DOMAIN rows /\ e.fields.id = e.id
    BY <1>5 DEF Fits
  <2>2. DOMAIN gone = IndexFields
    BY <1>2, <2>1 DEF Only
  <2>3. e.id \notin DOMAIN Without(rows, e.id) /\ IsFiniteSet(DOMAIN Without(rows, e.id))
    BY WithoutKeyed
  <2>. HIDE DEF gone
  <2>4. EntriesReflect(AddEntry(gone, e.fields), Put(Without(rows, e.id), e.id, e.fields))
    BY <1>2, <2>1, <2>2, <2>3, EntryIn
  <2>5. Only(gone, AddEntry(gone, e.fields), {"entries", "open", "count", "starts"})
    BY <2>2 DEF Only, AddEntry, IndexFields
  <2>6. Only(ix, AddEntry(gone, e.fields), {"entries", "open", "count", "starts"})
    BY <1>2, <2>1, <2>5 DEF Only
  <2>. QED BY <1>1, <1>5, <2>4, <2>6, PutBack DEF Changed
<1>. QED BY <1>3, <1>4, <1>5 DEF Fits

\* An effect on the schedule blocks.
LEMMA BlocksApplied ==
  ASSUME NEW ix, DOMAIN ix = IndexFields, NEW rows, BlocksReflect(ix, rows), Keyed(rows),
         IsFiniteSet(DOMAIN rows), NEW e, e.table = "schedule_blocks", Fits(rows, e)
  PROVE  BlocksReflect(ApplyOne(ix, e), Changed(rows, e)) /\ Only(ix, ApplyOne(ix, e), {"blocks", "ends"})
<1>. DEFINE gone == RemoveBlock(ix, rows[e.id])
<1>1. ApplyOne(ix, e) = IF e.op = "delete" THEN gone
                        ELSE IF e.op = "insert" THEN AddBlock(ix, e.fields) ELSE AddBlock(gone, e.fields)
  <2>1. rows = RowsOf(ix, e.table)
    BY DEF RowsOf, BlocksReflect
  <2>2. \A i, r : Leave(i, e.table, r) = RemoveBlock(i, r) /\ Enter(i, e.table, r) = AddBlock(i, r)
    BY DEF Leave, Enter
  <2>. HIDE DEF gone
  <2>. QED BY <2>1, <2>2, AppliedIs, Spread6 DEF gone
<1>2. e.id \in DOMAIN rows => BlocksReflect(gone, Without(rows, e.id)) /\ Only(ix, gone, {"blocks", "ends"})
  <2>1. Only(ix, gone, {"blocks", "ends"})
    BY DEF Only, RemoveBlock, IndexFields
  <2>. QED BY <2>1, BlockOut
<1>3. CASE e.op = "delete"
  BY <1>1, <1>2, <1>3 DEF Fits, Changed
<1>4. CASE e.op = "insert"
  <2>1. e.id \notin DOMAIN rows /\ e.fields.id = e.id
    BY <1>4 DEF Fits
  <2>2. BlocksReflect(AddBlock(ix, e.fields), Put(rows, e.id, e.fields))
    BY <2>1, BlockIn
  <2>3. Only(ix, AddBlock(ix, e.fields), {"blocks", "ends"})
    BY DEF Only, AddBlock, IndexFields
  <2>. QED BY <1>1, <1>4, <2>2, <2>3 DEF Changed
<1>5. CASE e.op = "update"
  <2>1. e.id \in DOMAIN rows /\ e.fields.id = e.id
    BY <1>5 DEF Fits
  <2>2. DOMAIN gone = IndexFields
    BY <1>2, <2>1 DEF Only
  <2>3. e.id \notin DOMAIN Without(rows, e.id) /\ IsFiniteSet(DOMAIN Without(rows, e.id))
    BY WithoutKeyed
  <2>. HIDE DEF gone
  <2>4. BlocksReflect(AddBlock(gone, e.fields), Put(Without(rows, e.id), e.id, e.fields))
    BY <1>2, <2>1, <2>2, <2>3, BlockIn
  <2>5. Only(gone, AddBlock(gone, e.fields), {"blocks", "ends"})
    BY <2>2 DEF Only, AddBlock, IndexFields
  <2>6. Only(ix, AddBlock(gone, e.fields), {"blocks", "ends"})
    BY <1>2, <2>1, <2>5 DEF Only
  <2>. QED BY <1>1, <1>5, <2>4, <2>6, PutBack DEF Changed
<1>. QED BY <1>3, <1>4, <1>5 DEF Fits

\* An effect on the sprint memberships.
LEMMA MembersApplied ==
  ASSUME NEW ix, DOMAIN ix = IndexFields, NEW rows, MembersReflect(ix, rows), Keyed(rows),
         IsFiniteSet(DOMAIN rows), NEW e, e.table = "sprint_memberships", Fits(rows, e)
  PROVE  MembersReflect(ApplyOne(ix, e), Changed(rows, e)) /\ Only(ix, ApplyOne(ix, e), {"members", "sprintsOf", "pairs"})
<1>. DEFINE gone == RemoveMembership(ix, rows[e.id])
<1>1. ApplyOne(ix, e) = IF e.op = "delete" THEN gone
                        ELSE IF e.op = "insert" THEN AddMembership(ix, e.fields) ELSE AddMembership(gone, e.fields)
  <2>1. rows = RowsOf(ix, e.table)
    BY DEF RowsOf, MembersReflect
  <2>2. \A i, r : Leave(i, e.table, r) = RemoveMembership(i, r) /\ Enter(i, e.table, r) = AddMembership(i, r)
    BY DEF Leave, Enter
  <2>. HIDE DEF gone
  <2>. QED BY <2>1, <2>2, AppliedIs, Spread6 DEF gone
<1>2. e.id \in DOMAIN rows => MembersReflect(gone, Without(rows, e.id)) /\ Only(ix, gone, {"members", "sprintsOf", "pairs"})
  <2>1. Only(ix, gone, {"members", "sprintsOf", "pairs"})
    BY DEF Only, RemoveMembership, IndexFields
  <2>. QED BY <2>1, MemberOut
<1>3. CASE e.op = "delete"
  BY <1>1, <1>2, <1>3 DEF Fits, Changed
<1>4. CASE e.op = "insert"
  <2>1. e.id \notin DOMAIN rows /\ e.fields.id = e.id
    BY <1>4 DEF Fits
  <2>2. MembersReflect(AddMembership(ix, e.fields), Put(rows, e.id, e.fields))
    BY <2>1, MemberIn
  <2>3. Only(ix, AddMembership(ix, e.fields), {"members", "sprintsOf", "pairs"})
    BY DEF Only, AddMembership, IndexFields
  <2>. QED BY <1>1, <1>4, <2>2, <2>3 DEF Changed
<1>5. CASE e.op = "update"
  <2>1. e.id \in DOMAIN rows /\ e.fields.id = e.id
    BY <1>5 DEF Fits
  <2>2. DOMAIN gone = IndexFields
    BY <1>2, <2>1 DEF Only
  <2>3. e.id \notin DOMAIN Without(rows, e.id) /\ IsFiniteSet(DOMAIN Without(rows, e.id))
    BY WithoutKeyed
  <2>. HIDE DEF gone
  <2>4. MembersReflect(AddMembership(gone, e.fields), Put(Without(rows, e.id), e.id, e.fields))
    BY <1>2, <2>1, <2>2, <2>3, MemberIn
  <2>5. Only(gone, AddMembership(gone, e.fields), {"members", "sprintsOf", "pairs"})
    BY <2>2 DEF Only, AddMembership, IndexFields
  <2>6. Only(ix, AddMembership(gone, e.fields), {"members", "sprintsOf", "pairs"})
    BY <1>2, <2>1, <2>5 DEF Only
  <2>. QED BY <1>1, <1>5, <2>4, <2>6, PutBack DEF Changed
<1>. QED BY <1>3, <1>4, <1>5 DEF Fits

\* An effect on the sprints.
LEMMA SprintsApplied ==
  ASSUME NEW ix, DOMAIN ix = IndexFields, NEW e, e.table = "sprints", Fits(ix.sprints, e), Keyed(ix.sprints)
  PROVE  ApplyOne(ix, e).sprints = Changed(ix.sprints, e) /\ Only(ix, ApplyOne(ix, e), {"sprints"})
<1>. DEFINE rows == ix.sprints
            gone == RemoveSprint(ix, rows[e.id])
<1>1. ApplyOne(ix, e) = IF e.op = "delete" THEN gone
                        ELSE IF e.op = "insert" THEN AddSprint(ix, e.fields) ELSE AddSprint(gone, e.fields)
  <2>1. rows = RowsOf(ix, e.table)
    BY DEF RowsOf
  <2>2. \A i, r : Leave(i, e.table, r) = RemoveSprint(i, r) /\ Enter(i, e.table, r) = AddSprint(i, r)
    BY DEF Leave, Enter
  <2>. HIDE DEF gone, rows
  <2>. QED BY <2>1, <2>2, AppliedIs, Spread6 DEF gone, rows
<1>2. e.id \in DOMAIN rows => gone.sprints = Without(rows, e.id)
  BY DEF RemoveSprint, IndexFields, Keyed
<1>3. Only(ix, gone, {"sprints"})
  BY DEF Only, RemoveSprint, IndexFields
<1>. HIDE DEF gone
<1>4. ASSUME NEW i, DOMAIN i = IndexFields, e.fields.id = e.id
      PROVE  AddSprint(i, e.fields).sprints = Put(i.sprints, e.id, e.fields) /\ Only(i, AddSprint(i, e.fields), {"sprints"})
  BY <1>4 DEF Only, AddSprint, IndexFields
<1>5. CASE e.op = "delete"
  BY <1>1, <1>2, <1>3, <1>5 DEF Fits, Changed
<1>6. CASE e.op = "insert"
  BY <1>1, <1>4, <1>6 DEF Fits, Changed
<1>7. CASE e.op = "update"
  <2>1. e.id \in DOMAIN rows /\ e.fields.id = e.id
    BY <1>7 DEF Fits
  <2>2. DOMAIN gone = IndexFields
    BY <1>3 DEF Only
  <2>3. AddSprint(gone, e.fields).sprints = Put(gone.sprints, e.id, e.fields) /\ Only(gone, AddSprint(gone, e.fields), {"sprints"})
    BY <1>4, <2>1, <2>2
  <2>4. Only(ix, AddSprint(gone, e.fields), {"sprints"})
    BY <1>3, <2>3 DEF Only
  <2>. QED BY <1>1, <1>2, <1>7, <2>1, <2>3, <2>4, PutBack DEF Changed
<1>. QED BY <1>5, <1>6, <1>7 DEF Fits

\* The rows of a table that is handled apart, patched by an effect.
LEMMA PatchedIs ==
  ASSUME NEW rows, NEW e, Fits(rows, e)
  PROVE  Patched(rows, e) = Changed(rows, e)
  BY DEF Patched, Changed, Fits, At

\* An effect on the blocker rules.
LEMMA RulesApplied ==
  ASSUME NEW ix, DOMAIN ix = IndexFields, NEW rows, RulesReflect(ix, rows), NEW e,
         e.table = "blocker_rules", Fits(rows, e)
  PROVE  RulesReflect(ApplyOne(ix, e), Changed(rows, e)) /\ Only(ix, ApplyOne(ix, e), {"rules", "enabled"})
<1>1. ApplyOne(ix, e) = SetRules(ix, Changed(rows, e))
  BY PatchedIs DEF ApplyOne, RulesReflect
<1>. QED BY <1>1 DEF SetRules, RulesReflect, Only, IndexFields

\* An effect on the external facts.
LEMMA FactsApplied ==
  ASSUME NEW ix, DOMAIN ix = IndexFields, NEW rows, FactsReflect(ix, rows), NEW e,
         e.table = "external_facts", Fits(rows, e)
  PROVE  FactsReflect(ApplyOne(ix, e), Changed(rows, e)) /\ Only(ix, ApplyOne(ix, e), {"facts", "weather"})
<1>1. ApplyOne(ix, e) = SetFacts(ix, Changed(rows, e))
  BY PatchedIs DEF ApplyOne, FactsReflect
<1>. QED BY <1>1 DEF SetFacts, FactsReflect, Only, IndexFields

\* An effect on the settings.
LEMMA SettingsApplied ==
  ASSUME NEW ix, DOMAIN ix = IndexFields, NEW e, e.table = "user_settings"
  PROVE  ApplyOne(ix, e).reset = e.fields.day_reset_hour /\ Only(ix, ApplyOne(ix, e), {"reset"})
  BY DEF ApplyOne, Only, IndexFields

-----------------------------------------------------------------------------
(* All the effects of a difference.                                          *)

\* A nonempty set of numbers has a least one.
LEMMA LeastNat ==
  ASSUME NEW T \in SUBSET Nat, T # {}
  PROVE  \E n \in T : \A m \in T : n <= m
<1>. DEFINE C == {1 .. n : n \in T}
<1>1. C \subseteq FiniteSubsetsOf(Nat)
  <2>1. ASSUME NEW U \in C PROVE U \in FiniteSubsetsOf(Nat)
    <3>1. PICK n \in T : U = 1 .. n
      OBVIOUS
    <3>2. IsFiniteSet(1 .. n) /\ 1 .. n \subseteq Nat
      <4>1. n \in Int /\ 1 \in Int
        BY <3>1
      <4>. QED BY <4>1, FS_Interval
    <3>. QED BY <3>1, <3>2 DEF FiniteSubsetsOf
  <2>. QED BY <2>1
<1>2. C # {}
  OBVIOUS
<1>3. PICK U \in C : \A V \in C : <<V, U>> \notin StrictSubsetOrdering(Nat)
  <2>. HIDE DEF C
  <2>. QED BY <1>1, <1>2, FS_StrictSubsetOrderingWellFounded, WFMin
<1>4. PICK n \in T : U = 1 .. n
  BY <1>3
<1>5. ASSUME NEW m \in T, m < n PROVE FALSE
  <2>1. (1 .. m) \in C /\ 1 .. m \subseteq 1 .. n
    BY <1>5
  <2>2. n \in 1 .. n /\ n \notin 1 .. m
    BY <1>5
  <2>3. U \in SUBSET Nat /\ (1 .. m) \in SUBSET Nat
    BY <1>4
  <2>4. <<1 .. m, U>> \in StrictSubsetOrdering(Nat)
    <3>1. 1 .. m \subseteq U /\ 1 .. m # U
      BY <1>4, <2>1, <2>2
    <3>. QED BY <2>3, <3>1 DEF StrictSubsetOrdering
  <2>. QED BY <1>3, <2>1, <2>4
<1>. QED BY <1>5

\* What is true of 0, and of n + 1 when it is true of n, is true of all.
LEMMA SetInduction ==
  ASSUME NEW T, 0 \in T, \A n \in Nat : n \in T => n + 1 \in T
  PROVE  \A n \in Nat : n \in T
<1>1. SUFFICES ASSUME Nat \ T # {} PROVE FALSE
  OBVIOUS
<1>2. PICK n \in Nat \ T : \A m \in Nat \ T : n <= m
  BY <1>1, LeastNat
<1>3. n - 1 \in Nat /\ n - 1 \notin Nat \ T /\ (n - 1) + 1 = n
  BY <1>2
<1>. QED BY <1>2, <1>3

\* What is true at the start and stays true to the end is true at the end.
LEMMA Reached ==
  ASSUME NEW T, NEW N \in Nat, 0 \in T, \A n \in Nat : n < N /\ n \in T => n + 1 \in T
  PROVE  N \in T
<1>. DEFINE U == {n \in Nat : n <= N => n \in T}
<1>1. 0 \in U
  OBVIOUS
<1>2. ASSUME NEW n \in Nat, n \in U PROVE n + 1 \in U
  BY <1>2
<1>. HIDE DEF U
<1>3. N \in U
  BY <1>1, <1>2, SetInduction
<1>. QED BY <1>3 DEF U

\* A map of finitely many keys has finitely many values.
LEMMA FiniteRange ==
  ASSUME NEW f, IsFiniteSet(DOMAIN f)
  PROVE  IsFiniteSet(Range(f))
<1>. DEFINE g == [x \in DOMAIN f |-> f[x]]
<1>1. g \in Surjection(DOMAIN f, Range(f))
  BY DEF Surjection, Range
<1>. HIDE DEF g
<1>. QED BY <1>1, FS_Surjection

\* The loop over the effects of a change.
LEMMA ApplyLoop ==
  ASSUME NEW ix, NEW effects, IsFiniteSet(effects)
  PROVE  \E loop :
           /\ loop[0] = [left |-> effects, index |-> ix]
           /\ \A n \in Nat : n < Cardinality(effects) => loop[n + 1] = ApplyNext(loop[n])
           /\ Apply(ix, effects) = loop[Cardinality(effects)].index
<1>. DEFINE N == Cardinality(effects)
            start == [left |-> effects, index |-> ix]
            Eq(f, n) == f = [i \in 0 .. n |-> IF i = 0 THEN start ELSE ApplyNext(f[i - 1])]
<1>1. N \in Nat
  BY FS_CardinalityType
<1>2. \E f : Eq(f, N)
  <2>. DEFINE T == {n \in Nat : \E f : Eq(f, n)}
  <2>1. 0 \in T
    <3>1. Eq([i \in 0 .. 0 |-> start], 0)
      OBVIOUS
    <3>. HIDE DEF Eq
    <3>. QED BY <3>1
  <2>2. ASSUME NEW n \in Nat, n \in T PROVE n + 1 \in T
    <3>1. PICK f : Eq(f, n)
      BY <2>2
    <3>. HIDE DEF start
    <3>. DEFINE g == [i \in 0 .. (n + 1) |-> IF i = 0 THEN start ELSE ApplyNext(f[i - 1])]
    <3>2. ASSUME NEW i \in 0 .. n PROVE g[i] = f[i]
      BY <3>1
    <3>3. ASSUME NEW i \in 0 .. (n + 1), i # 0 PROVE g[i - 1] = f[i - 1]
      <4>1. i - 1 \in 0 .. n
        BY <3>3
      <4>. HIDE DEF g
      <4>. QED BY <3>2, <4>1
    <3>4. Eq(g, n + 1)
      <4>1. \A i \in 0 .. (n + 1) : g[i] = IF i = 0 THEN start ELSE ApplyNext(g[i - 1])
        BY <3>3
      <4>2. g = [i \in 0 .. (n + 1) |-> g[i]]
        OBVIOUS
      <4>. HIDE DEF g
      <4>. QED BY <4>1, <4>2
    <3>. HIDE DEF g, Eq
    <3>. QED BY <3>4
  <2>. HIDE DEF T
  <2>3. \A n \in Nat : n \in T
    BY <2>1, <2>2, SetInduction
  <2>. QED BY <1>1, <2>3 DEF T
<1>. DEFINE loop == CHOOSE f : Eq(f, N)
<1>3. Eq(loop, N)
  <2>. HIDE DEF Eq
  <2>. QED BY <1>2
<1>4. Apply(ix, effects) = loop[N].index
  BY DEF Apply
<1>. HIDE DEF loop
<1>5. loop[0] = start
  BY <1>1, <1>3
<1>6. ASSUME NEW n \in Nat, n < N PROVE loop[n + 1] = ApplyNext(loop[n])
  <2>1. n + 1 \in 0 .. N /\ n + 1 # 0 /\ (n + 1) - 1 = n
    BY <1>1, <1>6
  <2>. HIDE DEF start, N
  <2>. QED BY <1>3, <2>1
<1>. QED BY <1>4, <1>5, <1>6

\* The loop over the commands with an effect on a row.
LEMMA MergeLoop ==
  ASSUME NEW row, NEW effects
  PROVE  \E loop :
           /\ loop[0] = row
           /\ \A n \in Nat : n < MaxCommands => loop[n + 1] = MergeNext(loop[n], OfCommand(effects, n + 1))
           /\ MergeRow(row, effects) = loop[MaxCommands]
<1>. DEFINE N == MaxCommands
            start == row
            Eq(f, n) == f = [i \in 0 .. n |-> IF i = 0 THEN start ELSE MergeNext(f[i - 1], OfCommand(effects, i))]
<1>1. N \in Nat
  BY AutomationAssumption
<1>2. \E f : Eq(f, N)
  <2>. DEFINE T == {n \in Nat : \E f : Eq(f, n)}
  <2>1. 0 \in T
    <3>1. Eq([i \in 0 .. 0 |-> start], 0)
      OBVIOUS
    <3>. HIDE DEF Eq
    <3>. QED BY <3>1
  <2>2. ASSUME NEW n \in Nat, n \in T PROVE n + 1 \in T
    <3>1. PICK f : Eq(f, n)
      BY <2>2
    <3>. HIDE DEF start
    <3>. DEFINE g == [i \in 0 .. (n + 1) |-> IF i = 0 THEN start ELSE MergeNext(f[i - 1], OfCommand(effects, i))]
    <3>2. ASSUME NEW i \in 0 .. n PROVE g[i] = f[i]
      BY <3>1
    <3>3. ASSUME NEW i \in 0 .. (n + 1), i # 0 PROVE g[i - 1] = f[i - 1]
      <4>1. i - 1 \in 0 .. n
        BY <3>3
      <4>. HIDE DEF g
      <4>. QED BY <3>2, <4>1
    <3>4. Eq(g, n + 1)
      <4>1. \A i \in 0 .. (n + 1) : g[i] = IF i = 0 THEN start ELSE MergeNext(g[i - 1], OfCommand(effects, i))
        BY <3>3
      <4>2. g = [i \in 0 .. (n + 1) |-> g[i]]
        OBVIOUS
      <4>. HIDE DEF g
      <4>. QED BY <4>1, <4>2
    <3>. HIDE DEF g, Eq
    <3>. QED BY <3>4
  <2>. HIDE DEF T
  <2>3. \A n \in Nat : n \in T
    BY <2>1, <2>2, SetInduction
  <2>. QED BY <1>1, <2>3 DEF T
<1>. DEFINE loop == CHOOSE f : Eq(f, N)
<1>3. Eq(loop, N)
  <2>. HIDE DEF Eq
  <2>. QED BY <1>2
<1>4. MergeRow(row, effects) = loop[N]
  BY DEF MergeRow
<1>. HIDE DEF loop
<1>5. loop[0] = start
  BY <1>1, <1>3
<1>6. ASSUME NEW n \in Nat, n < N PROVE loop[n + 1] = MergeNext(loop[n], OfCommand(effects, n + 1))
  <2>1. n + 1 \in 0 .. N /\ n + 1 # 0 /\ (n + 1) - 1 = n
    BY <1>1, <1>6
  <2>. HIDE DEF start, N
  <2>. QED BY <1>3, <2>1
<1>. QED BY <1>4, <1>5, <1>6

\* The waves of a run.
LEMMA WaveLoop ==
  ASSUME NEW F, NEW rules, NEW trigger
  PROVE  \E loop :
           /\ loop[0] = NothingYet(trigger)
           /\ \A n \in Nat : n < MaxDepth => loop[n + 1] = NextWave(F, rules, loop[n])
           /\ RunAutomations(F, rules, trigger) = Limited(F, rules, loop[MaxDepth])
<1>. DEFINE N == MaxDepth
            start == NothingYet(trigger)
            Eq(f, n) == f = [i \in 0 .. n |-> IF i = 0 THEN start ELSE NextWave(F, rules, f[i - 1])]
<1>1. N \in Nat
  BY AutomationAssumption
<1>2. \E f : Eq(f, N)
  <2>. DEFINE T == {n \in Nat : \E f : Eq(f, n)}
  <2>1. 0 \in T
    <3>1. Eq([i \in 0 .. 0 |-> start], 0)
      OBVIOUS
    <3>. HIDE DEF Eq
    <3>. QED BY <3>1
  <2>2. ASSUME NEW n \in Nat, n \in T PROVE n + 1 \in T
    <3>1. PICK f : Eq(f, n)
      BY <2>2
    <3>. HIDE DEF start
    <3>. DEFINE g == [i \in 0 .. (n + 1) |-> IF i = 0 THEN start ELSE NextWave(F, rules, f[i - 1])]
    <3>2. ASSUME NEW i \in 0 .. n PROVE g[i] = f[i]
      BY <3>1
    <3>3. ASSUME NEW i \in 0 .. (n + 1), i # 0 PROVE g[i - 1] = f[i - 1]
      <4>1. i - 1 \in 0 .. n
        BY <3>3
      <4>. HIDE DEF g
      <4>. QED BY <3>2, <4>1
    <3>4. Eq(g, n + 1)
      <4>1. \A i \in 0 .. (n + 1) : g[i] = IF i = 0 THEN start ELSE NextWave(F, rules, g[i - 1])
        BY <3>3
      <4>2. g = [i \in 0 .. (n + 1) |-> g[i]]
        OBVIOUS
      <4>. HIDE DEF g
      <4>. QED BY <4>1, <4>2
    <3>. HIDE DEF g, Eq
    <3>. QED BY <3>4
  <2>. HIDE DEF T
  <2>3. \A n \in Nat : n \in T
    BY <2>1, <2>2, SetInduction
  <2>. QED BY <1>1, <2>3 DEF T
<1>. DEFINE loop == CHOOSE f : Eq(f, N)
<1>3. Eq(loop, N)
  <2>. HIDE DEF Eq
  <2>. QED BY <1>2
<1>4. RunAutomations(F, rules, trigger) = Limited(F, rules, loop[N])
  BY DEF RunAutomations
<1>. HIDE DEF loop
<1>5. loop[0] = start
  BY <1>1, <1>3
<1>6. ASSUME NEW n \in Nat, n < N PROVE loop[n + 1] = NextWave(F, rules, loop[n])
  <2>1. n + 1 \in 0 .. N /\ n + 1 # 0 /\ (n + 1) - 1 = n
    BY <1>1, <1>6
  <2>. HIDE DEF start, N
  <2>. QED BY <1>3, <2>1
<1>. QED BY <1>4, <1>5, <1>6

\* The keys of the shared rows.
AllTables == SharedTables \cup {"user_settings"}

\* Tables of finitely many rows, each a record under its own id.
Sound(R) ==
  /\ DOMAIN R = AllTables
  /\ R = [t \in AllTables |-> R[t]]
  /\ \A t \in SharedTables :
       /\ Keyed(R[t]) /\ IsFiniteSet(DOMAIN R[t])
       /\ R[t] = [n \in DOMAIN R[t] |-> R[t][n]]
       /\ \A n \in DOMAIN R[t] : R[t][n] = [c \in DOMAIN R[t][n] |-> R[t][n][c]]

\* The rows R may follow the rows prev: a row keeps its columns, and the settings
\* stay once they are there.
Follows(prev, R) ==
  /\ \A t \in SharedTables : \A n \in DOMAIN prev[t] \cap DOMAIN R[t] : DOMAIN prev[t][n] \subseteq DOMAIN R[t][n]
  /\ R["user_settings"] = None => prev["user_settings"] = None

\* What the effect e of a difference says.
Tells(e, prev, R) ==
  \/ /\ e.table \in SharedTables
     /\ \/ /\ e.op = "delete" /\ e.id \in DOMAIN prev[e.table] \ DOMAIN R[e.table]
        \/ /\ e.op = "insert" /\ e.id \in DOMAIN R[e.table] \ DOMAIN prev[e.table]
           /\ e.fields = R[e.table][e.id]
        \/ /\ e.op = "update" /\ e.id \in DOMAIN R[e.table] \cap DOMAIN prev[e.table]
           /\ e.fields = R[e.table][e.id]
  \/ /\ e.table = "user_settings" /\ R["user_settings"] # None
     /\ e.fields.day_reset_hour = R["user_settings"]

\* Every effect of the difference of a table tells how a row changed.
LEMMA TableEffects ==
  ASSUME NEW old, NEW new, NEW t, NEW e \in DiffTable(old, t, new)
  PROVE  /\ e.table = t
         /\ \/ e.op = "delete" /\ e.id \in DOMAIN old \ DOMAIN new
            \/ e.op = "insert" /\ e.id \in DOMAIN new \ DOMAIN old /\ e.fields = new[e.id]
            \/ e.op = "update" /\ e.id \in DOMAIN new \cap DOMAIN old /\ e.fields = new[e.id]
  BY DEF DiffTable

\* Two effects of the difference of a table are of different rows.
LEMMA TableEffectsApart ==
  ASSUME NEW old, NEW new, NEW t, NEW d \in DiffTable(old, t, new), NEW e \in DiffTable(old, t, new),
         d.id = e.id
  PROVE  d = e
  BY DEF DiffTable

\* Every row that changes has its effect.
LEMMA TableEffectsAll ==
  ASSUME NEW old, NEW new, NEW t, NEW n, n \in DOMAIN old \cup DOMAIN new,
         ~(n \in DOMAIN old \cap DOMAIN new /\ old[n] = new[n])
  PROVE  \E e \in DiffTable(old, t, new) : e.table = t /\ e.id = n
<1>1. CASE n \in DOMAIN new
  <2>. DEFINE e == [table |-> t, op |-> IF n \in DOMAIN old THEN "update" ELSE "insert", id |-> n, fields |-> new[n]]
  <2>1. e \in DiffTable(old, t, new)
    BY <1>1 DEF DiffTable
  <2>. QED BY <2>1
<1>2. CASE n \notin DOMAIN new
  <2>. DEFINE e == [table |-> t, op |-> "delete", id |-> n, fields |-> << >>]
  <2>1. e \in DiffTable(old, t, new)
    BY <1>2 DEF DiffTable
  <2>. QED BY <2>1
<1>. QED BY <1>1, <1>2

\* A difference of finitely many rows has finitely many effects.
LEMMA TableEffectsFinite ==
  ASSUME NEW old, NEW new, NEW t, IsFiniteSet(DOMAIN old), IsFiniteSet(DOMAIN new)
  PROVE  IsFiniteSet(DiffTable(old, t, new))
<1>. DEFINE A == {x \in DOMAIN new : x \notin DOMAIN old \/ old[x] # new[x]}
            B == DOMAIN old \ DOMAIN new
            f == [n \in A |-> [table |-> t, op |-> IF n \in DOMAIN old THEN "update" ELSE "insert", id |-> n, fields |-> new[n]]]
            g == [n \in B |-> [table |-> t, op |-> "delete", id |-> n, fields |-> << >>]]
<1>1. IsFiniteSet(A) /\ IsFiniteSet(B)
  <2>1. A \in SUBSET DOMAIN new /\ B \in SUBSET DOMAIN old
    OBVIOUS
  <2>. HIDE DEF A, B
  <2>. QED BY <2>1, FS_Subset
<1>2. DOMAIN f = A /\ DOMAIN g = B
  OBVIOUS
<1>3. DiffTable(old, t, new) = Range(f) \cup Range(g)
  BY DEF DiffTable, Range
<1>. HIDE DEF A, B, f, g
<1>4. IsFiniteSet(Range(f)) /\ IsFiniteSet(Range(g))
  BY <1>1, <1>2, FiniteRange
<1>. QED BY <1>3, <1>4, FS_Union

\* The effects of one table are those of its difference.
LEMMA DiffOf ==
  ASSUME NEW prev, NEW R, NEW e
  PROVE  /\ e \in Diff(prev, R) /\ e.table \in SharedTables => e \in DiffTable(prev[e.table], e.table, R[e.table])
         /\ \A t \in SharedTables : e \in DiffTable(prev[t], t, R[t]) => e \in Diff(prev, R)
         /\ e \in Diff(prev, R) /\ e.table \notin SharedTables =>
              e \in DiffSettings(prev["user_settings"], R["user_settings"])
         /\ e \in DiffSettings(prev["user_settings"], R["user_settings"]) => e \in Diff(prev, R)
<1>1. e \in Diff(prev, R) <=>
        \/ \E t \in SharedTables : e \in DiffTable(prev[t], t, R[t])
        \/ e \in DiffSettings(prev["user_settings"], R["user_settings"])
  BY DEF Diff
<1>2. \A t : e \in DiffTable(prev[t], t, R[t]) => e.table = t
  BY TableEffects
<1>3. e \in DiffSettings(prev["user_settings"], R["user_settings"]) => e.table = "user_settings"
  BY DEF DiffSettings
<1>4. "user_settings" \notin SharedTables
  BY DEF SharedTables
<1>. QED BY <1>1, <1>2, <1>3, <1>4

\* Every effect of a difference tells a change.
LEMMA DiffTells ==
  ASSUME NEW prev, NEW R, NEW e \in Diff(prev, R)
  PROVE  Tells(e, prev, R)
<1>1. CASE e.table \in SharedTables
  <2>1. e \in DiffTable(prev[e.table], e.table, R[e.table])
    BY <1>1, DiffOf
  <2>. QED BY <1>1, <2>1, TableEffects DEF Tells
<1>2. CASE e.table \notin SharedTables
  <2>1. e \in DiffSettings(prev["user_settings"], R["user_settings"])
    BY <1>2, DiffOf
  <2>2. e.table = "user_settings" /\ R["user_settings"] # None /\ e.fields.day_reset_hour = R["user_settings"]
    BY <2>1 DEF DiffSettings
  <2>. QED BY <2>2 DEF Tells
<1>. QED BY <1>1, <1>2

\* Two effects of a difference are of different rows.
LEMMA DiffApart ==
  ASSUME NEW prev, NEW R, NEW d \in Diff(prev, R), NEW e \in Diff(prev, R),
         d.table = e.table, d.id = e.id, e.table \in SharedTables
  PROVE  d = e
  BY DiffOf, TableEffectsApart

\* There is at most one effect on the settings.
LEMMA SettingsApart ==
  ASSUME NEW prev, NEW R, NEW d \in Diff(prev, R), NEW e \in Diff(prev, R),
         d.table = e.table, e.table \notin SharedTables
  PROVE  d = e
<1>1. d \in DiffSettings(prev["user_settings"], R["user_settings"]) /\ e \in DiffSettings(prev["user_settings"], R["user_settings"])
  BY DiffOf
<1>. QED BY <1>1 DEF DiffSettings

\* A difference is finite.
LEMMA DiffFinite ==
  ASSUME NEW prev, NEW R, Sound(prev), Sound(R)
  PROVE  IsFiniteSet(Diff(prev, R))
<1>. DEFINE f == [t \in SharedTables |-> DiffTable(prev[t], t, R[t])]
            g == DiffSettings(prev["user_settings"], R["user_settings"])
<1>1. IsFiniteSet(SharedTables)
  <2>. DEFINE a == {"nodes", "edges", "time_entries", "schedule_blocks"}
              b == {"sprints", "sprint_memberships", "blocker_rules", "external_facts"}
  <2>1. IsFiniteSet({"nodes"}) /\ IsFiniteSet({"sprints"})
    BY FS_Singleton
  <2>2. IsFiniteSet({"nodes", "edges"}) /\ IsFiniteSet({"sprints", "sprint_memberships"})
    <3>1. {"nodes", "edges"} = {"nodes"} \cup {"edges"} /\ {"sprints", "sprint_memberships"} = {"sprints"} \cup {"sprint_memberships"}
      OBVIOUS
    <3>. QED BY <2>1, <3>1, FS_AddElement
  <2>3. IsFiniteSet({"nodes", "edges", "time_entries"}) /\ IsFiniteSet({"sprints", "sprint_memberships", "blocker_rules"})
    <3>1. /\ {"nodes", "edges", "time_entries"} = {"nodes", "edges"} \cup {"time_entries"}
          /\ {"sprints", "sprint_memberships", "blocker_rules"} = {"sprints", "sprint_memberships"} \cup {"blocker_rules"}
      OBVIOUS
    <3>. QED BY <2>2, <3>1, FS_AddElement
  <2>4. IsFiniteSet(a) /\ IsFiniteSet(b)
    <3>1. /\ a = {"nodes", "edges", "time_entries"} \cup {"schedule_blocks"}
          /\ b = {"sprints", "sprint_memberships", "blocker_rules"} \cup {"external_facts"}
      OBVIOUS
    <3>. HIDE DEF a, b
    <3>. QED BY <2>3, <3>1, FS_AddElement
  <2>5. SharedTables = a \cup b
    BY DEF SharedTables
  <2>. HIDE DEF a, b
  <2>. QED BY <2>4, <2>5, FS_Union
<1>2. IsFiniteSet(UNION Range(f))
  <2>1. DOMAIN f = SharedTables
    OBVIOUS
  <2>2. \A T \in Range(f) : IsFiniteSet(T)
    <3>1. ASSUME NEW t \in SharedTables PROVE IsFiniteSet(DiffTable(prev[t], t, R[t]))
      BY TableEffectsFinite DEF Sound
    <3>. QED BY <3>1 DEF Range
  <2>. HIDE DEF f
  <2>3. IsFiniteSet(Range(f))
    BY <1>1, <2>1, FiniteRange
  <2>. QED BY <2>2, <2>3, FS_UNION
<1>3. IsFiniteSet(g)
  <2>. DEFINE x == [table |-> "user_settings", op |-> "update", id |-> <<"settings">>,
                    fields |-> [day_reset_hour |-> R["user_settings"]]]
  <2>1. g \in SUBSET {x}
    BY DEF DiffSettings
  <2>2. IsFiniteSet({x})
    BY FS_Singleton
  <2>. HIDE DEF g, x
  <2>. QED BY <2>1, <2>2, FS_Subset
<1>4. Diff(prev, R) = (UNION Range(f)) \cup g
  BY DEF Diff, Range
<1>. HIDE DEF f, g
<1>. QED BY <1>2, <1>3, <1>4, FS_Union

-----------------------------------------------------------------------------
(* The rows on the way from one merge to the next.                            *)

\* An effect on this row is still to be applied.
Left(left, t, n) == \E e \in left : e.table = t /\ e.id = n

\* The rows of a table when the effects `left` are still to be applied.
MidRows(old, new, left, t) ==
  [n \in {x \in DOMAIN old : Left(left, t, x)} \cup {x \in DOMAIN new : ~Left(left, t, x)} |->
     IF Left(left, t, n) THEN old[n] ELSE new[n]]

\* The settings while the effects `left` are still to be applied.
MidHour(old, new, left) ==
  IF new = None \/ \E e \in left : e.table = "user_settings" THEN old ELSE new

\* All the rows while the effects `left` are still to be applied.
Mid(prev, R, left) ==
  [t \in AllTables |-> IF t = "user_settings" THEN MidHour(prev[t], R[t], left)
                       ELSE MidRows(prev[t], R[t], left, t)]

\* At first they are the old rows.
LEMMA MidFirst ==
  ASSUME NEW prev, NEW R, Sound(prev), Sound(R), NEW t \in AllTables
  PROVE  Mid(prev, R, Diff(prev, R))[t] = prev[t]
<1>1. CASE t = "user_settings"
  <2>1. prev[t] # R[t] /\ R[t] # None => \E e \in Diff(prev, R) : e.table = "user_settings"
    <3>. DEFINE e == [table |-> "user_settings", op |-> "update", id |-> <<"settings">>,
                      fields |-> [day_reset_hour |-> R["user_settings"]]]
    <3>1. prev[t] # R[t] /\ R[t] # None => e \in DiffSettings(prev["user_settings"], R["user_settings"])
      BY <1>1 DEF DiffSettings
    <3>2. e.table = "user_settings"
      OBVIOUS
    <3>. HIDE DEF e
    <3>. QED BY <3>1, <3>2, DiffOf
  <2>. QED BY <1>1, <2>1 DEF Mid, MidHour
<1>2. CASE t \in SharedTables
  <2>. DEFINE L(n) == Left(Diff(prev, R), t, n)
              old == prev[t]
              new == R[t]
  <2>1. t # "user_settings"
    BY <1>2 DEF SharedTables
  <2>2. Mid(prev, R, Diff(prev, R))[t] = [n \in {x \in DOMAIN old : L(x)} \cup {x \in DOMAIN new : ~L(x)} |->
                                            IF L(n) THEN old[n] ELSE new[n]]
    BY <2>1 DEF Mid, MidRows
  <2>3. ASSUME NEW n \in DOMAIN old \cup DOMAIN new, ~L(n) PROVE n \in DOMAIN old \cap DOMAIN new /\ old[n] = new[n]
    <3>1. SUFFICES ASSUME ~(n \in DOMAIN old \cap DOMAIN new /\ old[n] = new[n]) PROVE FALSE
      OBVIOUS
    <3>. HIDE DEF old, new
    <3>2. PICK e \in DiffTable(old, t, new) : e.table = t /\ e.id = n
      BY <3>1, TableEffectsAll
    <3>3. e \in Diff(prev, R)
      BY <1>2, <3>2, DiffOf DEF old, new
    <3>. QED BY <2>3, <3>2, <3>3 DEF Left
  <2>4. ASSUME NEW n, L(n) PROVE n \in DOMAIN old \cup DOMAIN new
    <3>1. PICK e \in Diff(prev, R) : e.table = t /\ e.id = n
      BY <2>4 DEF Left
    <3>. QED BY <1>2, <2>1, <3>1, DiffTells DEF Tells
  <2>5. old = [n \in DOMAIN old |-> old[n]]
    BY <1>2 DEF Sound
  <2>. HIDE DEF L, old, new
  <2>6. {x \in DOMAIN old : L(x)} \cup {x \in DOMAIN new : ~L(x)} = DOMAIN old
    BY <2>3
  <2>7. [n \in {x \in DOMAIN old : L(x)} \cup {x \in DOMAIN new : ~L(x)} |-> IF L(n) THEN old[n] ELSE new[n]]
          = [n \in DOMAIN old |-> old[n]]
    BY <2>3, <2>6
  <2>. QED BY <2>2, <2>5, <2>7 DEF old
<1>. QED BY <1>1, <1>2 DEF AllTables

\* In the end they are the new rows.
LEMMA MidLast ==
  ASSUME NEW prev, NEW R, Sound(prev), Sound(R), Follows(prev, R), NEW t \in AllTables
  PROVE  Mid(prev, R, {})[t] = R[t]
<1>1. CASE t = "user_settings"
  BY <1>1 DEF Mid, MidHour, Follows
<1>2. CASE t \in SharedTables
  <2>1. t # "user_settings"
    BY <1>2 DEF SharedTables
  <2>2. \A n : ~Left({}, t, n)
    BY DEF Left
  <2>3. R[t] = [n \in DOMAIN R[t] |-> R[t][n]]
    BY <1>2 DEF Sound
  <2>4. Mid(prev, R, {})[t] = MidRows(prev[t], R[t], {}, t)
    BY <2>1 DEF Mid
  <2>5. MidRows(prev[t], R[t], {}, t) = [n \in DOMAIN R[t] |-> R[t][n]]
    BY <2>2 DEF MidRows
  <2>. QED BY <2>3, <2>4, <2>5
<1>. QED BY <1>1, <1>2 DEF AllTables

\* On the way every row bears its id, and there are finitely many.
LEMMA MidSound ==
  ASSUME NEW prev, NEW R, Sound(prev), Sound(R), NEW left, NEW t \in SharedTables
  PROVE  Keyed(MidRows(prev[t], R[t], left, t)) /\ IsFiniteSet(DOMAIN MidRows(prev[t], R[t], left, t))
<1>. DEFINE mid == MidRows(prev[t], R[t], left, t)
<1>1. Keyed(prev[t]) /\ Keyed(R[t]) /\ IsFiniteSet(DOMAIN prev[t]) /\ IsFiniteSet(DOMAIN R[t])
  BY DEF Sound
<1>2. \A n \in DOMAIN mid : n \in DOMAIN prev[t] \cup DOMAIN R[t]
  BY DEF MidRows
<1>3. \A n \in DOMAIN mid : mid[n] = IF Left(left, t, n) THEN prev[t][n] ELSE R[t][n]
  BY DEF MidRows
<1>4. \A n \in DOMAIN mid : IF Left(left, t, n) THEN n \in DOMAIN prev[t] ELSE n \in DOMAIN R[t]
  BY DEF MidRows
<1>. HIDE DEF mid
<1>5. Keyed(mid)
  BY <1>1, <1>3, <1>4 DEF Keyed
<1>6. DOMAIN mid \in SUBSET (DOMAIN prev[t] \cup DOMAIN R[t])
  BY <1>2
<1>7. IsFiniteSet(DOMAIN prev[t] \cup DOMAIN R[t])
  BY <1>1, FS_Union
<1>8. IsFiniteSet(DOMAIN mid)
  BY <1>6, <1>7, FS_Subset
<1>. QED BY <1>5, <1>8 DEF mid

\* A record takes over a record that has no other columns.
LEMMA TakenOver ==
  ASSUME NEW f, f = [x \in DOMAIN f |-> f[x]], NEW g, DOMAIN g \subseteq DOMAIN f
  PROVE  f ++ g = f
  BY DEF ++

\* An effect still to be applied fits the rows, and changes them to those on the
\* way without it.
LEMMA MidStep ==
  ASSUME NEW prev, NEW R, Sound(prev), Sound(R), Follows(prev, R),
         NEW left \in SUBSET Diff(prev, R), NEW e \in left, e.table \in SharedTables
  PROVE  LET t   == e.table
             mid == MidRows(prev[t], R[t], left, t)
         IN  Fits(mid, e) /\ MidRows(prev[t], R[t], left \ {e}, t) = Changed(mid, e)
<1>. DEFINE t == e.table
            old == prev[t]
            new == R[t]
            mid == MidRows(old, new, left, t)
            L(n) == Left(left, t, n)
            K(n) == Left(left \ {e}, t, n)
<1>1. \/ e.op = "delete" /\ e.id \in DOMAIN old \ DOMAIN new
      \/ e.op = "insert" /\ e.id \in DOMAIN new \ DOMAIN old /\ e.fields = new[e.id]
      \/ e.op = "update" /\ e.id \in DOMAIN new \cap DOMAIN old /\ e.fields = new[e.id]
  <2>1. t # "user_settings"
    BY DEF SharedTables
  <2>. QED BY <2>1, DiffTells DEF Tells
<1>2. L(e.id)
  BY DEF Left
<1>3. ~K(e.id)
  <2>1. ASSUME NEW d \in left \ {e}, d.table = t, d.id = e.id PROVE FALSE
    <3>1. d = e
      BY <2>1, DiffApart
    <3>. QED BY <2>1, <3>1
  <2>. QED BY <2>1 DEF Left
<1>4. \A n : n # e.id => (L(n) <=> K(n))
  BY DEF Left
<1>5. /\ Keyed(old) /\ Keyed(new)
      /\ \A n \in DOMAIN old \cap DOMAIN new : DOMAIN old[n] \subseteq DOMAIN new[n]
      /\ \A n \in DOMAIN new : new[n] = [c \in DOMAIN new[n] |-> new[n][c]]
  BY DEF Sound, Follows
<1>6. /\ DOMAIN mid = {x \in DOMAIN old : L(x)} \cup {x \in DOMAIN new : ~L(x)}
      /\ \A n \in DOMAIN mid : mid[n] = IF L(n) THEN old[n] ELSE new[n]
  BY DEF MidRows
<1>7. MidRows(old, new, left \ {e}, t) =
        [n \in {x \in DOMAIN old : K(x)} \cup {x \in DOMAIN new : ~K(x)} |-> IF K(n) THEN old[n] ELSE new[n]]
  BY DEF MidRows
<1>. HIDE DEF L, K, mid, old, new
<1>8. e.id \in DOMAIN mid <=> e.id \in DOMAIN old
  BY <1>2, <1>6
<1>9. e.id \in DOMAIN mid => mid[e.id] = old[e.id]
  BY <1>2, <1>6
<1>10. e.op # "delete" => e.fields.id = e.id /\ e.fields = [c \in DOMAIN e.fields |-> e.fields[c]]
  BY <1>1, <1>5 DEF Keyed
<1>11. Fits(mid, e)
  <2>1. CASE e.op = "delete"
    BY <1>1, <1>8, <2>1 DEF Fits
  <2>2. CASE e.op = "insert"
    <3>1. e.fields ++ << >> = e.fields
      BY <1>10, <2>2, TakenOver
    <3>. QED BY <1>1, <1>8, <1>10, <2>2, <3>1 DEF Fits
  <2>3. CASE e.op = "update"
    <3>1. e.fields ++ old[e.id] = e.fields
      BY <1>1, <1>5, <1>10, <2>3, TakenOver
    <3>. QED BY <1>1, <1>8, <1>9, <1>10, <2>3, <3>1 DEF Fits
  <2>. QED BY <1>1, <2>1, <2>2, <2>3
<1>12. MidRows(old, new, left \ {e}, t) = Changed(mid, e)
  <2>1. CASE e.op = "delete"
    <3>1. {x \in DOMAIN old : K(x)} \cup {x \in DOMAIN new : ~K(x)} = DOMAIN mid \ {e.id}
      BY <1>1, <1>3, <1>4, <1>6, <2>1
    <3>2. Without(mid, e.id) = [n \in DOMAIN mid \ {e.id} |-> mid[n]]
      BY DEF Without, Restrict
    <3>3. \A n \in DOMAIN mid \ {e.id} : mid[n] = IF K(n) THEN old[n] ELSE new[n]
      BY <1>4, <1>6
    <3>. QED BY <1>7, <2>1, <3>1, <3>2, <3>3 DEF Changed
  <2>2. CASE e.op # "delete"
    <3>1. {x \in DOMAIN old : K(x)} \cup {x \in DOMAIN new : ~K(x)} = {e.id} \cup DOMAIN mid
      BY <1>1, <1>3, <1>4, <1>6, <2>2
    <3>2. Put(mid, e.id, e.fields) = [n \in {e.id} \cup DOMAIN mid |-> IF n = e.id THEN e.fields ELSE mid[n]]
      BY DEF Put
    <3>3. ASSUME NEW n \in {e.id} \cup DOMAIN mid
          PROVE  (IF n = e.id THEN e.fields ELSE mid[n]) = IF K(n) THEN old[n] ELSE new[n]
      BY <1>1, <1>3, <1>4, <1>6, <2>2
    <3>. QED BY <1>7, <2>2, <3>1, <3>2, <3>3 DEF Changed
  <2>. QED BY <2>1, <2>2
<1>. QED BY <1>11, <1>12 DEF mid, old, new

\* The rows of the other tables are as they were.
LEMMA MidOthers ==
  ASSUME NEW prev, NEW R, NEW left, NEW e \in left, NEW t \in AllTables, t # e.table
  PROVE  Mid(prev, R, left \ {e})[t] = Mid(prev, R, left)[t]
<1>1. CASE t = "user_settings"
  BY <1>1 DEF Mid, MidHour
<1>2. CASE t # "user_settings"
  <2>1. \A n : Left(left \ {e}, t, n) <=> Left(left, t, n)
    BY DEF Left
  <2>2. MidRows(prev[t], R[t], left \ {e}, t) = MidRows(prev[t], R[t], left, t)
    BY <2>1 DEF MidRows
  <2>. QED BY <1>2, <2>2 DEF Mid
<1>. QED BY <1>1, <1>2

-----------------------------------------------------------------------------
(* The effects of a difference one after the other.                           *)

\* What a step leaves alone still reflects the rows of its table.
LEMMA PartsKept ==
  ASSUME NEW ix, DOMAIN ix = IndexFields, NEW to, NEW S, Only(ix, to, S), NEW rows
  PROVE  /\ S \cap {"nodes", "children"} = {} /\ NodesReflect(ix, rows) => NodesReflect(to, rows)
         /\ S \cap {"edges", "incoming", "outgoing"} = {} /\ EdgesReflect(ix, rows) => EdgesReflect(to, rows)
         /\ S \cap {"entries", "open", "count", "starts"} = {} /\ EntriesReflect(ix, rows) => EntriesReflect(to, rows)
         /\ S \cap {"blocks", "ends"} = {} /\ BlocksReflect(ix, rows) => BlocksReflect(to, rows)
         /\ S \cap {"sprints"} = {} => to.sprints = ix.sprints
         /\ S \cap {"members", "sprintsOf", "pairs"} = {} /\ MembersReflect(ix, rows) => MembersReflect(to, rows)
         /\ S \cap {"rules", "enabled"} = {} /\ RulesReflect(ix, rows) => RulesReflect(to, rows)
         /\ S \cap {"facts", "weather"} = {} /\ FactsReflect(ix, rows) => FactsReflect(to, rows)
         /\ S \cap {"reset"} = {} => to.reset = ix.reset
<1>1. S \cap {"nodes", "children"} = {} => to.nodes = ix.nodes /\ to.children = ix.children
  BY DEF Only, IndexFields
<1>2. S \cap {"edges", "incoming", "outgoing"} = {} => to.edges = ix.edges /\ to.incoming = ix.incoming /\ to.outgoing = ix.outgoing
  BY DEF Only, IndexFields
<1>3. S \cap {"entries", "open", "count", "starts"} = {} => to.entries = ix.entries /\ to.open = ix.open /\ to.count = ix.count /\ to.starts = ix.starts
  BY DEF Only, IndexFields
<1>4. S \cap {"blocks", "ends"} = {} => to.blocks = ix.blocks /\ to.ends = ix.ends
  BY DEF Only, IndexFields
<1>5. S \cap {"sprints"} = {} => to.sprints = ix.sprints
  BY DEF Only, IndexFields
<1>6. S \cap {"members", "sprintsOf", "pairs"} = {} => to.members = ix.members /\ to.sprintsOf = ix.sprintsOf /\ to.pairs = ix.pairs
  BY DEF Only, IndexFields
<1>7. S \cap {"rules", "enabled"} = {} => to.rules = ix.rules /\ to.enabled = ix.enabled
  BY DEF Only, IndexFields
<1>8. S \cap {"facts", "weather"} = {} => to.facts = ix.facts /\ to.weather = ix.weather
  BY DEF Only, IndexFields
<1>9. S \cap {"reset"} = {} => to.reset = ix.reset
  BY DEF Only, IndexFields
<1>10. S \cap {"nodes", "children"} = {} /\ NodesReflect(ix, rows) => NodesReflect(to, rows)
  BY <1>1 DEF NodesReflect
<1>11. S \cap {"edges", "incoming", "outgoing"} = {} /\ EdgesReflect(ix, rows) => EdgesReflect(to, rows)
  BY <1>2 DEF EdgesReflect
<1>12. S \cap {"entries", "open", "count", "starts"} = {} /\ EntriesReflect(ix, rows) => EntriesReflect(to, rows)
  BY <1>3 DEF EntriesReflect
<1>13. S \cap {"blocks", "ends"} = {} /\ BlocksReflect(ix, rows) => BlocksReflect(to, rows)
  BY <1>4 DEF BlocksReflect
<1>14. S \cap {"members", "sprintsOf", "pairs"} = {} /\ MembersReflect(ix, rows) => MembersReflect(to, rows)
  BY <1>6 DEF MembersReflect
<1>15. S \cap {"rules", "enabled"} = {} /\ RulesReflect(ix, rows) => RulesReflect(to, rows)
  BY <1>7 DEF RulesReflect
<1>16. S \cap {"facts", "weather"} = {} /\ FactsReflect(ix, rows) => FactsReflect(to, rows)
  BY <1>8 DEF FactsReflect
<1>. QED BY <1>1, <1>2, <1>3, <1>4, <1>5, <1>6, <1>7, <1>8, <1>9, <1>10, <1>11, <1>12, <1>13, <1>14, <1>15, <1>16

\* An effect of a difference takes the index from the rows before it to those after.
LEMMA StepReflects ==
  ASSUME NEW prev, NEW R, Sound(prev), Sound(R), Follows(prev, R),
         NEW left \in SUBSET Diff(prev, R), NEW e \in left,
         NEW ix, Reflects(ix, Mid(prev, R, left))
  PROVE  Reflects(ApplyOne(ix, e), Mid(prev, R, left \ {e}))
<1>. DEFINE M == Mid(prev, R, left)
            N == Mid(prev, R, left \ {e})
            to == ApplyOne(ix, e)
<1>1. ASSUME NEW t \in SharedTables
      PROVE  /\ M[t] = MidRows(prev[t], R[t], left, t) /\ N[t] = MidRows(prev[t], R[t], left \ {e}, t)
             /\ Keyed(M[t]) /\ IsFiniteSet(DOMAIN M[t])
  <2>1. M[t] = MidRows(prev[t], R[t], left, t) /\ N[t] = MidRows(prev[t], R[t], left \ {e}, t)
    <3>1. t \in AllTables /\ t # "user_settings"
      BY DEF SharedTables, AllTables
    <3>. QED BY <3>1 DEF Mid
  <2>2. Keyed(MidRows(prev[t], R[t], left, t)) /\ IsFiniteSet(DOMAIN MidRows(prev[t], R[t], left, t))
    BY MidSound
  <2>. QED BY <2>1, <2>2
<1>2. e.table \in SharedTables => Fits(M[e.table], e) /\ N[e.table] = Changed(M[e.table], e)
  <2>. DEFINE m == MidRows(prev[e.table], R[e.table], left, e.table)
  <2>1. SUFFICES ASSUME e.table \in SharedTables
                 PROVE  Fits(M[e.table], e) /\ N[e.table] = Changed(M[e.table], e)
    OBVIOUS
  <2>2. Fits(m, e) /\ MidRows(prev[e.table], R[e.table], left \ {e}, e.table) = Changed(m, e)
    BY <2>1, MidStep
  <2>3. M[e.table] = m /\ N[e.table] = MidRows(prev[e.table], R[e.table], left \ {e}, e.table)
    BY <1>1, <2>1
  <2>. HIDE DEF M, N, m
  <2>. QED BY <2>2, <2>3
<1>3. \A t \in AllTables : t # e.table => N[t] = M[t]
  BY MidOthers
<1>4. e.table \in AllTables
  <2>1. Tells(e, prev, R)
    BY DiffTells
  <2>. QED BY <2>1 DEF Tells, AllTables
<1>5. e.table = "user_settings" => N["user_settings"] = e.fields.day_reset_hour /\ e.fields.day_reset_hour # None
  <2>1. SUFFICES ASSUME e.table = "user_settings"
                 PROVE  N["user_settings"] = e.fields.day_reset_hour /\ e.fields.day_reset_hour # None
    OBVIOUS
  <2>2. R["user_settings"] # None /\ e.fields.day_reset_hour = R["user_settings"]
    <3>1. Tells(e, prev, R)
      BY DiffTells
    <3>. QED BY <2>1, <3>1 DEF Tells, SharedTables
  <2>3. \A d \in left \ {e} : d.table # "user_settings"
    BY <2>1, SettingsApart DEF SharedTables
  <2>4. N["user_settings"] = MidHour(prev["user_settings"], R["user_settings"], left \ {e})
    BY DEF Mid, AllTables
  <2>. HIDE DEF N
  <2>. QED BY <2>2, <2>3, <2>4 DEF MidHour
<1>6. Reflects(ix, M)
  OBVIOUS
<1>. SUFFICES Reflects(to, N)
  OBVIOUS
<1>. HIDE DEF M, N, to
<1>7. DOMAIN ix = IndexFields
  BY <1>6 DEF Reflects
<1>8. e.table = "nodes" => NodesReflect(to, N["nodes"]) /\ Only(ix, to, {"nodes", "children"})
  <2>1. NodesReflect(ix, M["nodes"])
    BY <1>6 DEF Reflects
  <2>2. "nodes" \in SharedTables
    BY DEF SharedTables
  <2>. QED BY <1>1, <1>2, <1>7, <2>1, <2>2, NodesApplied DEF to
<1>9. e.table = "edges" => EdgesReflect(to, N["edges"]) /\ Only(ix, to, {"edges", "incoming", "outgoing"})
  <2>1. EdgesReflect(ix, M["edges"])
    BY <1>6 DEF Reflects
  <2>2. "edges" \in SharedTables
    BY DEF SharedTables
  <2>. QED BY <1>1, <1>2, <1>7, <2>1, <2>2, EdgesApplied DEF to
<1>10. e.table = "time_entries" => EntriesReflect(to, N["time_entries"]) /\ Only(ix, to, {"entries", "open", "count", "starts"})
  <2>1. EntriesReflect(ix, M["time_entries"])
    BY <1>6 DEF Reflects
  <2>2. "time_entries" \in SharedTables
    BY DEF SharedTables
  <2>. QED BY <1>1, <1>2, <1>7, <2>1, <2>2, EntriesApplied DEF to
<1>11. e.table = "schedule_blocks" => BlocksReflect(to, N["schedule_blocks"]) /\ Only(ix, to, {"blocks", "ends"})
  <2>1. BlocksReflect(ix, M["schedule_blocks"])
    BY <1>6 DEF Reflects
  <2>2. "schedule_blocks" \in SharedTables
    BY DEF SharedTables
  <2>. QED BY <1>1, <1>2, <1>7, <2>1, <2>2, BlocksApplied DEF to
<1>12. e.table = "sprints" => to.sprints = N["sprints"] /\ Only(ix, to, {"sprints"})
  <2>1. ix.sprints = M["sprints"]
    BY <1>6 DEF Reflects
  <2>2. "sprints" \in SharedTables
    BY DEF SharedTables
  <2>. QED BY <1>1, <1>2, <1>7, <2>1, <2>2, SprintsApplied DEF to
<1>13. e.table = "sprint_memberships" => MembersReflect(to, N["sprint_memberships"]) /\ Only(ix, to, {"members", "sprintsOf", "pairs"})
  <2>1. MembersReflect(ix, M["sprint_memberships"])
    BY <1>6 DEF Reflects
  <2>2. "sprint_memberships" \in SharedTables
    BY DEF SharedTables
  <2>. QED BY <1>1, <1>2, <1>7, <2>1, <2>2, MembersApplied DEF to
<1>14. e.table = "blocker_rules" => RulesReflect(to, N["blocker_rules"]) /\ Only(ix, to, {"rules", "enabled"})
  <2>1. RulesReflect(ix, M["blocker_rules"])
    BY <1>6 DEF Reflects
  <2>2. "blocker_rules" \in SharedTables
    BY DEF SharedTables
  <2>. QED BY <1>1, <1>2, <1>7, <2>1, <2>2, RulesApplied DEF to
<1>15. e.table = "external_facts" => FactsReflect(to, N["external_facts"]) /\ Only(ix, to, {"facts", "weather"})
  <2>1. FactsReflect(ix, M["external_facts"])
    BY <1>6 DEF Reflects
  <2>2. "external_facts" \in SharedTables
    BY DEF SharedTables
  <2>. QED BY <1>1, <1>2, <1>7, <2>1, <2>2, FactsApplied DEF to
<1>16. e.table = "user_settings" => to.reset = HourOf(N["user_settings"]) /\ Only(ix, to, {"reset"})
  BY <1>5, <1>7, SettingsApplied DEF to, HourOf
<1>17. DOMAIN to = IndexFields
  BY <1>4, <1>7, <1>8, <1>9, <1>10, <1>11, <1>12, <1>13, <1>14, <1>15, <1>16 DEF Only, AllTables, SharedTables
<1>18. NodesReflect(to, N["nodes"])
  <2>1. NodesReflect(ix, M["nodes"])
    BY <1>6 DEF Reflects
  <2>2. e.table # "nodes" => N["nodes"] = M["nodes"]
    BY <1>3 DEF AllTables, SharedTables
  <2>3. e.table # "nodes" => \E S : Only(ix, to, S) /\ S \cap {"nodes", "children"} = {}
    BY <1>4, <1>9, <1>10, <1>11, <1>12, <1>13, <1>14, <1>15, <1>16 DEF AllTables, SharedTables
  <2>. QED BY <1>7, <1>8, <2>1, <2>2, <2>3, PartsKept
<1>19. EdgesReflect(to, N["edges"])
  <2>1. EdgesReflect(ix, M["edges"])
    BY <1>6 DEF Reflects
  <2>2. e.table # "edges" => N["edges"] = M["edges"]
    BY <1>3 DEF AllTables, SharedTables
  <2>3. e.table # "edges" => \E S : Only(ix, to, S) /\ S \cap {"edges", "incoming", "outgoing"} = {}
    BY <1>4, <1>8, <1>10, <1>11, <1>12, <1>13, <1>14, <1>15, <1>16 DEF AllTables, SharedTables
  <2>. QED BY <1>7, <1>9, <2>1, <2>2, <2>3, PartsKept
<1>20. EntriesReflect(to, N["time_entries"])
  <2>1. EntriesReflect(ix, M["time_entries"])
    BY <1>6 DEF Reflects
  <2>2. e.table # "time_entries" => N["time_entries"] = M["time_entries"]
    BY <1>3 DEF AllTables, SharedTables
  <2>3. e.table # "time_entries" => \E S : Only(ix, to, S) /\ S \cap {"entries", "open", "count", "starts"} = {}
    BY <1>4, <1>8, <1>9, <1>11, <1>12, <1>13, <1>14, <1>15, <1>16 DEF AllTables, SharedTables
  <2>. QED BY <1>7, <1>10, <2>1, <2>2, <2>3, PartsKept
<1>21. BlocksReflect(to, N["schedule_blocks"])
  <2>1. BlocksReflect(ix, M["schedule_blocks"])
    BY <1>6 DEF Reflects
  <2>2. e.table # "schedule_blocks" => N["schedule_blocks"] = M["schedule_blocks"]
    BY <1>3 DEF AllTables, SharedTables
  <2>3. e.table # "schedule_blocks" => \E S : Only(ix, to, S) /\ S \cap {"blocks", "ends"} = {}
    BY <1>4, <1>8, <1>9, <1>10, <1>12, <1>13, <1>14, <1>15, <1>16 DEF AllTables, SharedTables
  <2>. QED BY <1>7, <1>11, <2>1, <2>2, <2>3, PartsKept
<1>22. to.sprints = N["sprints"]
  <2>1. ix.sprints = M["sprints"]
    BY <1>6 DEF Reflects
  <2>2. e.table # "sprints" => N["sprints"] = M["sprints"]
    BY <1>3 DEF AllTables, SharedTables
  <2>3. e.table # "sprints" => \E S : Only(ix, to, S) /\ S \cap {"sprints"} = {}
    BY <1>4, <1>8, <1>9, <1>10, <1>11, <1>13, <1>14, <1>15, <1>16 DEF AllTables, SharedTables
  <2>. QED BY <1>7, <1>12, <2>1, <2>2, <2>3, PartsKept
<1>23. MembersReflect(to, N["sprint_memberships"])
  <2>1. MembersReflect(ix, M["sprint_memberships"])
    BY <1>6 DEF Reflects
  <2>2. e.table # "sprint_memberships" => N["sprint_memberships"] = M["sprint_memberships"]
    BY <1>3 DEF AllTables, SharedTables
  <2>3. e.table # "sprint_memberships" => \E S : Only(ix, to, S) /\ S \cap {"members", "sprintsOf", "pairs"} = {}
    BY <1>4, <1>8, <1>9, <1>10, <1>11, <1>12, <1>14, <1>15, <1>16 DEF AllTables, SharedTables
  <2>. QED BY <1>7, <1>13, <2>1, <2>2, <2>3, PartsKept
<1>24. RulesReflect(to, N["blocker_rules"])
  <2>1. RulesReflect(ix, M["blocker_rules"])
    BY <1>6 DEF Reflects
  <2>2. e.table # "blocker_rules" => N["blocker_rules"] = M["blocker_rules"]
    BY <1>3 DEF AllTables, SharedTables
  <2>3. e.table # "blocker_rules" => \E S : Only(ix, to, S) /\ S \cap {"rules", "enabled"} = {}
    BY <1>4, <1>8, <1>9, <1>10, <1>11, <1>12, <1>13, <1>15, <1>16 DEF AllTables, SharedTables
  <2>. QED BY <1>7, <1>14, <2>1, <2>2, <2>3, PartsKept
<1>25. FactsReflect(to, N["external_facts"])
  <2>1. FactsReflect(ix, M["external_facts"])
    BY <1>6 DEF Reflects
  <2>2. e.table # "external_facts" => N["external_facts"] = M["external_facts"]
    BY <1>3 DEF AllTables, SharedTables
  <2>3. e.table # "external_facts" => \E S : Only(ix, to, S) /\ S \cap {"facts", "weather"} = {}
    BY <1>4, <1>8, <1>9, <1>10, <1>11, <1>12, <1>13, <1>14, <1>16 DEF AllTables, SharedTables
  <2>. QED BY <1>7, <1>15, <2>1, <2>2, <2>3, PartsKept
<1>26. to.reset = HourOf(N["user_settings"])
  <2>1. ix.reset = HourOf(M["user_settings"])
    BY <1>6 DEF Reflects
  <2>2. e.table # "user_settings" => N["user_settings"] = M["user_settings"]
    BY <1>3 DEF AllTables, SharedTables
  <2>3. e.table # "user_settings" => \E S : Only(ix, to, S) /\ S \cap {"reset"} = {}
    BY <1>4, <1>8, <1>9, <1>10, <1>11, <1>12, <1>13, <1>14, <1>15 DEF AllTables, SharedTables
  <2>. QED BY <1>7, <1>16, <2>1, <2>2, <2>3, PartsKept
<1>. QED BY <1>17, <1>18, <1>19, <1>20, <1>21, <1>22, <1>23, <1>24, <1>25, <1>26 DEF Reflects

\* A difference takes an index of the old rows to one of the new rows.
LEMMA ApplyReflects ==
  ASSUME NEW prev, NEW R, Sound(prev), Sound(R), Follows(prev, R), NEW ix, Reflects(ix, prev)
  PROVE  Reflects(Apply(ix, Diff(prev, R)), R)
<1>. DEFINE D == Diff(prev, R)
            N == Cardinality(D)
<1>1. IsFiniteSet(D) /\ N \in Nat
  BY DiffFinite, FS_CardinalityType
<1>2. PICK loop :
        /\ loop[0] = [left |-> D, index |-> ix]
        /\ \A n \in Nat : n < N => loop[n + 1] = ApplyNext(loop[n])
        /\ Apply(ix, D) = loop[N].index
  <2>. HIDE DEF D
  <2>. QED BY <1>1, ApplyLoop
<1>. DEFINE Good(n) == /\ loop[n].left \in SUBSET D /\ IsFiniteSet(loop[n].left)
                       /\ Cardinality(loop[n].left) = N - n
                       /\ Reflects(loop[n].index, Mid(prev, R, loop[n].left))
            T == {n \in Nat : Good(n)}
<1>. HIDE DEF D, N
<1>3. 0 \in T
  <2>1. loop[0].left = D /\ loop[0].index = ix
    BY <1>2
  <2>2. Reflects(ix, Mid(prev, R, D))
    <3>1. \A t \in AllTables : Mid(prev, R, D)[t] = prev[t]
      BY MidFirst DEF D
    <3>. QED BY <3>1 DEF Reflects, AllTables, SharedTables
  <2>. QED BY <1>1, <2>1, <2>2 DEF N
<1>4. ASSUME NEW n \in Nat, n < N, n \in T PROVE n + 1 \in T
  <2>. DEFINE left == loop[n].left
              e == CHOOSE x \in left : TRUE
  <2>1. left \in SUBSET D /\ IsFiniteSet(left) /\ Cardinality(left) = N - n /\ Reflects(loop[n].index, Mid(prev, R, left))
    BY <1>4
  <2>2. left # {}
    BY <1>1, <1>4, <2>1, FS_EmptySet
  <2>3. e \in left
    BY <2>2
  <2>4. loop[n + 1] = [left |-> left \ {e}, index |-> ApplyOne(loop[n].index, e)]
    BY <1>2, <1>4 DEF ApplyNext
  <2>. HIDE DEF left, e
  <2>5. loop[n + 1].left = left \ {e} /\ loop[n + 1].index = ApplyOne(loop[n].index, e)
    BY <2>4
  <2>6. Reflects(ApplyOne(loop[n].index, e), Mid(prev, R, left \ {e}))
    BY <2>1, <2>3, StepReflects DEF D
  <2>7. IsFiniteSet(left \ {e}) /\ Cardinality(left \ {e}) = N - (n + 1)
    BY <1>1, <2>1, <2>3, FS_RemoveElement
  <2>8. left \ {e} \in SUBSET D
    BY <2>1
  <2>. QED BY <2>5, <2>6, <2>7, <2>8
<1>. HIDE DEF T
<1>5. N \in T
  BY <1>1, <1>3, <1>4, Reached
<1>6. Good(N)
  BY <1>5 DEF T
<1>7. loop[N].left = {}
  BY <1>1, <1>6, FS_EmptySet
<1>8. Reflects(loop[N].index, Mid(prev, R, {}))
  BY <1>6, <1>7
<1>9. \A t \in AllTables : Mid(prev, R, {})[t] = R[t]
  BY MidLast
<1>10. Reflects(loop[N].index, R)
  BY <1>8, <1>9 DEF Reflects, AllTables, SharedTables
<1>. QED BY <1>2, <1>10 DEF D

-----------------------------------------------------------------------------
(* The engine of the data provider.                                           *)

\* Before the seed there are no rows.
LEMMA UnseededRows ==
  LET R == Unseeded.rows
  IN  /\ Sound(R) /\ R["user_settings"] = None
      /\ \A t \in SharedTables : R[t] = << >>
<1>. DEFINE R == [user_settings |-> None] ++ NoRows
<1>1. R["user_settings"] = None /\ \A t \in SharedTables : R[t] = << >>
  BY DEF ++, NoRows, SharedTables
<1>2. DOMAIN R = AllTables
  BY DEF ++, NoRows, AllTables
<1>3. R = [t \in DOMAIN R |-> R[t]]
  BY DEF ++
<1>4. /\ DOMAIN << >> = {} /\ << >> = [n \in DOMAIN << >> |-> << >>[n]]
      /\ IsFiniteSet({})
  BY FS_EmptySet
<1>. HIDE DEF R
<1>5. Sound(R)
  <2>1. R = [t \in AllTables |-> R[t]]
    BY <1>2, <1>3
  <2>2. ASSUME NEW t \in SharedTables
        PROVE  /\ Keyed(R[t]) /\ IsFiniteSet(DOMAIN R[t])
               /\ R[t] = [n \in DOMAIN R[t] |-> R[t][n]]
               /\ \A n \in DOMAIN R[t] : R[t][n] = [c \in DOMAIN R[t][n] |-> R[t][n][c]]
    BY <1>1, <1>4 DEF Keyed
  <2>. QED BY <1>2, <2>1, <2>2 DEF Sound
<1>. QED BY <1>1, <1>5 DEF Unseeded, R

\* The empty index holds what no rows give.
LEMMA EmptyReflects == Reflects(EmptyIndex, Unseeded.rows)
<1>. DEFINE R == Unseeded.rows
<1>0. R["user_settings"] = None /\ \A t \in SharedTables : R[t] = << >>
  BY UnseededRows
<1>. HIDE DEF R
<1>1. /\ R["nodes"] = << >> /\ R["edges"] = << >> /\ R["time_entries"] = << >> /\ R["schedule_blocks"] = << >>
      /\ R["sprints"] = << >> /\ R["sprint_memberships"] = << >> /\ R["blocker_rules"] = << >>
      /\ R["external_facts"] = << >>
  BY <1>0 DEF SharedTables
<1>2. \A k, d : At(<< >>, k, d) = d
  BY DEF At
<1>3. Cardinality({}) = 0
  BY FS_EmptySet
<1>4. NodesReflect(EmptyIndex, << >>)
  BY <1>2 DEF NodesReflect, EmptyIndex
<1>5. EdgesReflect(EmptyIndex, << >>)
  BY <1>2 DEF EdgesReflect, EmptyIndex, Range
<1>6. EntriesReflect(EmptyIndex, << >>)
  BY <1>2, <1>3 DEF EntriesReflect, EmptyIndex, OfTask
<1>7. BlocksReflect(EmptyIndex, << >>)
  BY <1>2 DEF BlocksReflect, EmptyIndex, CommittedTo, OfTask
<1>8. MembersReflect(EmptyIndex, << >>)
  BY <1>2, <1>3 DEF MembersReflect, EmptyIndex, Linking
<1>9. RulesReflect(EmptyIndex, << >>)
  BY DEF RulesReflect, EmptyIndex, Range
<1>10. FactsReflect(EmptyIndex, << >>)
  <2>1. WeatherFacts(<< >>) = << >>
    BY DEF WeatherFacts, Range
  <2>. QED BY <2>1 DEF FactsReflect, EmptyIndex
<1>11. DOMAIN EmptyIndex = IndexFields /\ EmptyIndex.sprints = << >> /\ EmptyIndex.reset = DefaultResetHour
  BY DEF EmptyIndex, IndexFields
<1>12. Reflects(EmptyIndex, R)
  BY <1>0, <1>1, <1>4, <1>5, <1>6, <1>7, <1>8, <1>9, <1>10, <1>11 DEF Reflects, HourOf
<1>. QED BY <1>12 DEF R

\* Seeded, the index holds what the rows give.
LEMMA SeedReflects ==
  ASSUME NEW R, Sound(R)
  PROVE  Seed(R).rows = R /\ Reflects(Seed(R).index, R)
<1>1. Sound(Unseeded.rows) /\ Unseeded.rows["user_settings"] = None
      /\ \A t \in SharedTables : Unseeded.rows[t] = << >>
  BY UnseededRows
<1>2. Follows(Unseeded.rows, R)
  BY <1>1 DEF Follows
<1>3. Reflects(Apply(EmptyIndex, Diff(Unseeded.rows, R)), R)
  BY <1>1, <1>2, EmptyReflects, ApplyReflects
<1>. QED BY <1>3 DEF Seed

\* The engine reflects its rows.
Reflecting(eng) == Sound(eng.rows) /\ Reflects(eng.index, eng.rows)

\* Maintained, it reflects the new ones.
LEMMA MaintainReflects ==
  ASSUME NEW eng, Reflecting(eng), NEW R, Sound(R), Follows(eng.rows, R)
  PROVE  Maintain(eng, R).rows = R /\ Reflecting(Maintain(eng, R))
<1>1. Reflects(Apply(eng.index, Diff(eng.rows, R)), R)
  BY ApplyReflects DEF Reflecting
<1>2. Seed(R).rows = R /\ Reflects(Seed(R).index, R)
  BY SeedReflects
<1>. QED BY <1>1, <1>2 DEF Maintain, Reflecting

-----------------------------------------------------------------------------
(* What the index answers.                                                   *)

\* What the answers read of an entry, of a block and of a membership.
EntryWith(F, t, s, x) == \E e \in F.entries : e.task = t /\ e.start = s /\ e.end = x
BlockWith(F, t, x) == \E b \in F.blocks : b.task = t /\ b.end = x /\ b.status = "committed"
LinkWith(F, n, s) == \E m \in F.members : m.node = n /\ m.sprint = s

\* Facts that no answer tells apart.
Alike(F, G) ==
  /\ F.tree = G.tree /\ F.edges = G.edges /\ F.sprints = G.sprints /\ F.rules = G.rules
  /\ F.weather = G.weather /\ F.dayOf = G.dayOf
  /\ \A t, s, x : EntryWith(F, t, s, x) <=> EntryWith(G, t, s, x)
  /\ \A t, x : BlockWith(F, t, x) <=> BlockWith(G, t, x)
  /\ \A n : \A s \in {y.id : y \in F.sprints} : LinkWith(F, n, s) <=> LinkWith(G, n, s)

\* The edges of the index from both ends.
LEMMA EdgesAnswer ==
  ASSUME NEW ix, NEW rows, EdgesReflect(ix, rows)
  PROVE  UNION Range(ix.incoming) = Range(rows) /\ UNION Range(ix.outgoing) = Range(rows)
<1>0. /\ \A k : At(ix.incoming, k, {}) = {e \in Range(rows) : e.succ = k}
      /\ \A k : At(ix.outgoing, k, {}) = {e \in Range(rows) : e.pred = k}
  BY DEF EdgesReflect
<1>1. ASSUME NEW e \in Range(rows) PROVE e \in UNION Range(ix.incoming) /\ e \in UNION Range(ix.outgoing)
  <2>1. e \in At(ix.incoming, e.succ, {}) /\ e \in At(ix.outgoing, e.pred, {})
    BY <1>0
  <2>2. /\ e.succ \in DOMAIN ix.incoming /\ e \in ix.incoming[e.succ]
        /\ e.pred \in DOMAIN ix.outgoing /\ e \in ix.outgoing[e.pred]
    BY <2>1 DEF At
  <2>. QED BY <2>2 DEF Range
<1>2. ASSUME NEW e \in UNION Range(ix.incoming) PROVE e \in Range(rows)
  <2>1. PICK k \in DOMAIN ix.incoming : e \in ix.incoming[k]
    BY DEF Range
  <2>2. At(ix.incoming, k, {}) = ix.incoming[k]
    BY DEF At
  <2>. QED BY <1>0, <2>1, <2>2
<1>3. ASSUME NEW e \in UNION Range(ix.outgoing) PROVE e \in Range(rows)
  <2>1. PICK k \in DOMAIN ix.outgoing : e \in ix.outgoing[k]
    BY DEF Range
  <2>2. At(ix.outgoing, k, {}) = ix.outgoing[k]
    BY DEF At
  <2>. QED BY <1>0, <2>1, <2>2
<1>. QED BY <1>1, <1>2, <1>3

\* The entries of the index.
LEMMA EntriesAnswer ==
  ASSUME NEW ix, NEW rows, EntriesReflect(ix, rows), NEW t, NEW s, NEW x
  PROVE  EntryWith(View(ix), t, s, x) <=> \E i \in DOMAIN rows : rows[i].task = t /\ rows[i].start = s /\ rows[i].end = x
<1>. DEFINE Seen(k, i) == [task |-> k, start |-> ix.starts[k][i],
                           end |-> IF i \in At(ix.open, k, {}) THEN None ELSE ix.entries[i].end]
<1>1. View(ix).entries = UNION {{Seen(k, i) : i \in DOMAIN ix.starts[k]} : k \in DOMAIN ix.starts}
  BY DEF View
<1>2. ASSUME NEW k \in DOMAIN ix.starts
      PROVE  /\ DOMAIN ix.starts[k] = OfTask(rows, k)
             /\ \A i \in OfTask(rows, k) : ix.starts[k][i] = rows[i].start
             /\ \A i \in OfTask(rows, k) : Seen(k, i).task = k /\ Seen(k, i).start = rows[i].start /\ Seen(k, i).end = rows[i].end
  <2>1. At(ix.starts, k, << >>) = ix.starts[k]
    BY DEF At
  <2>2. ix.starts[k] = [i \in OfTask(rows, k) |-> rows[i].start]
    BY <2>1 DEF EntriesReflect
  <2>3. At(ix.open, k, {}) = {i \in OfTask(rows, k) : rows[i].end = None} /\ ix.entries = rows
    BY DEF EntriesReflect
  <2>. QED BY <2>2, <2>3
<1>3. ASSUME NEW k, k \notin DOMAIN ix.starts PROVE OfTask(rows, k) = {}
  <2>1. At(ix.starts, k, << >>) = << >>
    BY <1>3 DEF At
  <2>2. << >> = [i \in OfTask(rows, k) |-> rows[i].start]
    BY <2>1 DEF EntriesReflect
  <2>. QED BY <2>2
<1>. HIDE DEF Seen
<1>4. ASSUME NEW i \in DOMAIN rows, rows[i].task = t, rows[i].start = s, rows[i].end = x
      PROVE  EntryWith(View(ix), t, s, x)
  <2>1. i \in OfTask(rows, t)
    BY <1>4 DEF OfTask
  <2>2. t \in DOMAIN ix.starts
    BY <1>3, <2>1
  <2>3. Seen(t, i) \in View(ix).entries
    BY <1>1, <1>2, <2>1, <2>2
  <2>. QED BY <1>2, <1>4, <2>1, <2>2, <2>3 DEF EntryWith
<1>5. ASSUME EntryWith(View(ix), t, s, x)
      PROVE  \E i \in DOMAIN rows : rows[i].task = t /\ rows[i].start = s /\ rows[i].end = x
  <2>1. PICK e \in View(ix).entries : e.task = t /\ e.start = s /\ e.end = x
    BY <1>5 DEF EntryWith
  <2>2. PICK k \in DOMAIN ix.starts : \E i \in DOMAIN ix.starts[k] : e = Seen(k, i)
    BY <1>1, <2>1
  <2>3. PICK i \in OfTask(rows, k) : e = Seen(k, i)
    BY <1>2, <2>2
  <2>. QED BY <1>2, <2>1, <2>2, <2>3 DEF OfTask
<1>. QED BY <1>4, <1>5

\* The blocks of the index.
LEMMA BlocksAnswer ==
  ASSUME NEW ix, NEW rows, BlocksReflect(ix, rows), NEW t, NEW x
  PROVE  BlockWith(View(ix), t, x) <=>
           \E i \in DOMAIN rows : rows[i].task = t /\ rows[i].end = x /\ rows[i].status = "committed"
<1>. DEFINE Seen(k, y) == [task |-> k, end |-> y, status |-> "committed"]
<1>1. View(ix).blocks = UNION {{Seen(k, y) : y \in Range(ix.ends[k])} : k \in DOMAIN ix.ends}
  BY DEF View
<1>2. ASSUME NEW k \in DOMAIN ix.ends PROVE Range(ix.ends[k]) = {rows[i].end : i \in CommittedTo(rows, k)}
  <2>1. At(ix.ends, k, << >>) = ix.ends[k]
    BY DEF At
  <2>2. ix.ends[k] = [i \in CommittedTo(rows, k) |-> rows[i].end]
    BY <2>1 DEF BlocksReflect
  <2>. QED BY <2>2 DEF Range
<1>3. ASSUME NEW k, k \notin DOMAIN ix.ends PROVE CommittedTo(rows, k) = {}
  <2>1. At(ix.ends, k, << >>) = << >>
    BY <1>3 DEF At
  <2>2. << >> = [i \in CommittedTo(rows, k) |-> rows[i].end]
    BY <2>1 DEF BlocksReflect
  <2>. QED BY <2>2
<1>4. ASSUME NEW i \in DOMAIN rows, rows[i].task = t, rows[i].end = x, rows[i].status = "committed"
      PROVE  BlockWith(View(ix), t, x)
  <2>1. i \in CommittedTo(rows, t)
    BY <1>4 DEF CommittedTo, OfTask
  <2>2. t \in DOMAIN ix.ends
    BY <1>3, <2>1
  <2>3. x \in Range(ix.ends[t])
    BY <1>2, <1>4, <2>1, <2>2
  <2>4. Seen(t, x) \in View(ix).blocks
    BY <1>1, <2>2, <2>3
  <2>. QED BY <2>4 DEF BlockWith
<1>5. ASSUME BlockWith(View(ix), t, x)
      PROVE  \E i \in DOMAIN rows : rows[i].task = t /\ rows[i].end = x /\ rows[i].status = "committed"
  <2>1. PICK b \in View(ix).blocks : b.task = t /\ b.end = x /\ b.status = "committed"
    BY <1>5 DEF BlockWith
  <2>2. PICK k \in DOMAIN ix.ends : \E y \in Range(ix.ends[k]) : b = Seen(k, y)
    BY <1>1, <2>1
  <2>3. PICK i \in CommittedTo(rows, k) : b = Seen(k, rows[i].end)
    BY <1>2, <2>2
  <2>. QED BY <2>1, <2>3 DEF CommittedTo, OfTask
<1>. QED BY <1>4, <1>5

\* The memberships of the index.
LEMMA MembersAnswer ==
  ASSUME NEW ix, NEW rows, MembersReflect(ix, rows), NEW n, NEW s
  PROVE  LinkWith(View(ix), n, s) <=> \E i \in DOMAIN rows : rows[i].node = n /\ rows[i].sprint = s
<1>1. View(ix).members = UNION {{[node |-> k, sprint |-> y] : y \in ix.sprintsOf[k]} : k \in DOMAIN ix.sprintsOf}
  BY DEF View
<1>2. \A k : At(ix.sprintsOf, k, {}) = {rows[i].sprint : i \in {x \in DOMAIN rows : rows[x].node = k}}
  BY DEF MembersReflect
<1>3. ASSUME NEW i \in DOMAIN rows, rows[i].node = n, rows[i].sprint = s PROVE LinkWith(View(ix), n, s)
  <2>1. s \in At(ix.sprintsOf, n, {})
    BY <1>2, <1>3
  <2>2. n \in DOMAIN ix.sprintsOf /\ s \in ix.sprintsOf[n]
    BY <2>1 DEF At
  <2>3. [node |-> n, sprint |-> s] \in View(ix).members
    BY <1>1, <2>2
  <2>. QED BY <2>3 DEF LinkWith
<1>4. ASSUME LinkWith(View(ix), n, s) PROVE \E i \in DOMAIN rows : rows[i].node = n /\ rows[i].sprint = s
  <2>1. PICK m \in View(ix).members : m.node = n /\ m.sprint = s
    BY <1>4 DEF LinkWith
  <2>2. PICK k \in DOMAIN ix.sprintsOf : \E y \in ix.sprintsOf[k] : m = [node |-> k, sprint |-> y]
    BY <1>1, <2>1
  <2>3. n \in DOMAIN ix.sprintsOf /\ s \in ix.sprintsOf[n]
    BY <2>1, <2>2
  <2>4. s \in At(ix.sprintsOf, n, {})
    BY <2>3 DEF At
  <2>. QED BY <1>2, <2>4
<1>. QED BY <1>3, <1>4

\* The index answers like the rows.
LEMMA AnswersAlike ==
  ASSUME NEW ix, NEW R, Sound(R), Reflects(ix, R)
  PROVE  Alike(View(ix), BuildFactContext(R))
<1>. DEFINE V == View(ix)
            F == BuildFactContext(R)
<1>1. /\ NodesReflect(ix, R["nodes"]) /\ EdgesReflect(ix, R["edges"]) /\ EntriesReflect(ix, R["time_entries"])
      /\ BlocksReflect(ix, R["schedule_blocks"]) /\ ix.sprints = R["sprints"]
      /\ MembersReflect(ix, R["sprint_memberships"]) /\ RulesReflect(ix, R["blocker_rules"])
      /\ FactsReflect(ix, R["external_facts"]) /\ ix.reset = HourOf(R["user_settings"])
  BY DEF Reflects
<1>2. /\ F.tree = R["nodes"] /\ F.edges = Range(R["edges"]) /\ F.entries = Range(R["time_entries"])
      /\ F.blocks = Range(R["schedule_blocks"]) /\ F.sprints = Range(R["sprints"])
      /\ F.members = {m \in Range(R["sprint_memberships"]) : m.sprint \in DOMAIN R["sprints"]}
      /\ F.rules = {r \in Range(R["blocker_rules"]) : r.enabled}
      /\ F.weather = WeatherFacts(R["external_facts"]) /\ F.dayOf = DayOf[HourOf(R["user_settings"])]
  BY DEF BuildFactContext, HourOf
<1>3. /\ V.tree = ix.nodes /\ V.edges = UNION Range(ix.incoming) /\ V.sprints = Range(ix.sprints)
      /\ V.rules = ix.enabled /\ V.weather = ix.weather /\ V.dayOf = DayOf[ix.reset]
  BY DEF View
<1>4. V.tree = F.tree /\ V.rules = F.rules /\ V.weather = F.weather /\ V.dayOf = F.dayOf /\ V.sprints = F.sprints
  BY <1>1, <1>2, <1>3 DEF NodesReflect, RulesReflect, FactsReflect
<1>5. V.edges = F.edges
  BY <1>1, <1>2, <1>3, EdgesAnswer
<1>6. ASSUME NEW t, NEW s, NEW x PROVE EntryWith(V, t, s, x) <=> EntryWith(F, t, s, x)
  <2>1. EntryWith(V, t, s, x) <=> \E i \in DOMAIN R["time_entries"] :
          R["time_entries"][i].task = t /\ R["time_entries"][i].start = s /\ R["time_entries"][i].end = x
    BY <1>1, EntriesAnswer
  <2>. HIDE DEF V, F
  <2>. QED BY <1>2, <2>1 DEF EntryWith, Range
<1>7. ASSUME NEW t, NEW x PROVE BlockWith(V, t, x) <=> BlockWith(F, t, x)
  <2>1. BlockWith(V, t, x) <=> \E i \in DOMAIN R["schedule_blocks"] :
          R["schedule_blocks"][i].task = t /\ R["schedule_blocks"][i].end = x /\ R["schedule_blocks"][i].status = "committed"
    BY <1>1, BlocksAnswer
  <2>. HIDE DEF V, F
  <2>. QED BY <1>2, <2>1 DEF BlockWith, Range
<1>8. ASSUME NEW n, NEW s \in {y.id : y \in V.sprints} PROVE LinkWith(V, n, s) <=> LinkWith(F, n, s)
  <2>1. LinkWith(V, n, s) <=> \E i \in DOMAIN R["sprint_memberships"] :
          R["sprint_memberships"][i].node = n /\ R["sprint_memberships"][i].sprint = s
    BY <1>1, MembersAnswer
  <2>2. s \in DOMAIN R["sprints"]
    <3>1. Keyed(R["sprints"])
      BY DEF Sound, SharedTables
    <3>2. V.sprints = Range(R["sprints"])
      BY <1>1, <1>3
    <3>. HIDE DEF V
    <3>. QED BY <1>8, <3>1, <3>2 DEF Range, Keyed
  <2>. HIDE DEF V, F
  <2>. QED BY <1>2, <2>1, <2>2 DEF LinkWith, Range
<1>. HIDE DEF V, F
<1>9. Alike(V, F)
  BY <1>4, <1>5, <1>6, <1>7, <1>8 DEF Alike
<1>. QED BY <1>9 DEF V, F

\* What the facts of a task are of alike facts.
LEMMA FactsAlike ==
  ASSUME NEW F, NEW G, Alike(F, G)
  PROVE  /\ \A n : Starts(F, n) = Starts(G, n)
         /\ \A n : OpenEntries(F, n) = {} <=> OpenEntries(G, n) = {}
         /\ \A n, now : CommittedAfter(F, n, now) <=> CommittedAfter(G, n, now)
         /\ \A n, now : InActiveSprint(F, n, now) <=> InActiveSprint(G, n, now)
<1>1. ASSUME NEW n PROVE Starts(F, n) = Starts(G, n)
  <2>1. \A s : s \in Starts(F, n) <=> \E x : EntryWith(F, n, s, x)
    BY DEF Starts, EntryWith
  <2>2. \A s : s \in Starts(G, n) <=> \E x : EntryWith(G, n, s, x)
    BY DEF Starts, EntryWith
  <2>3. \A s, x : EntryWith(F, n, s, x) <=> EntryWith(G, n, s, x)
    BY DEF Alike
  <2>. QED BY <2>1, <2>2, <2>3
<1>2. ASSUME NEW n PROVE OpenEntries(F, n) = {} <=> OpenEntries(G, n) = {}
  <2>1. OpenEntries(F, n) # {} <=> \E s : EntryWith(F, n, s, None)
    BY DEF OpenEntries, EntryWith
  <2>2. OpenEntries(G, n) # {} <=> \E s : EntryWith(G, n, s, None)
    BY DEF OpenEntries, EntryWith
  <2>3. \A s, x : EntryWith(F, n, s, x) <=> EntryWith(G, n, s, x)
    BY DEF Alike
  <2>. QED BY <2>1, <2>2, <2>3
<1>3. ASSUME NEW n, NEW now PROVE CommittedAfter(F, n, now) <=> CommittedAfter(G, n, now)
  <2>1. CommittedAfter(F, n, now) <=> \E x : BlockWith(F, n, x) /\ x > now
    BY DEF CommittedAfter, BlockWith
  <2>2. CommittedAfter(G, n, now) <=> \E x : BlockWith(G, n, x) /\ x > now
    BY DEF CommittedAfter, BlockWith
  <2>. QED BY <2>1, <2>2 DEF Alike
<1>4. ASSUME NEW n, NEW now PROVE InActiveSprint(F, n, now) <=> InActiveSprint(G, n, now)
  <2>1. InActiveSprint(F, n, now) <=>
          \E k \in {n} \cup Ancestors(F.tree, n) : \E s \in F.sprints :
             LinkWith(F, k, s.id) /\ s.from <= F.dayOf[now] /\ F.dayOf[now] <= s.to
    BY DEF InActiveSprint, LinkWith
  <2>2. InActiveSprint(G, n, now) <=>
          \E k \in {n} \cup Ancestors(G.tree, n) : \E s \in G.sprints :
             LinkWith(G, k, s.id) /\ s.from <= G.dayOf[now] /\ G.dayOf[now] <= s.to
    BY DEF InActiveSprint, LinkWith
  <2>3. F.tree = G.tree /\ F.sprints = G.sprints /\ F.dayOf = G.dayOf
    BY DEF Alike
  <2>4. \A k : \A s \in F.sprints : LinkWith(F, k, s.id) <=> LinkWith(G, k, s.id)
    BY DEF Alike
  <2>. QED BY <2>1, <2>2, <2>3, <2>4
<1>. QED BY <1>1, <1>2, <1>3, <1>4

\* A project has the same phase.
LEMMA PhaseAlike ==
  ASSUME NEW F, NEW G, Alike(F, G), NEW p, NEW now
  PROVE  Phase(F, p, now) = Phase(G, p, now)
<1>1. F.tree = G.tree
  BY DEF Alike
<1>2. /\ \A n : OpenEntries(F, n) = {} <=> OpenEntries(G, n) = {}
      /\ \A n : CommittedAfter(F, n, now) <=> CommittedAfter(G, n, now)
  BY FactsAlike
<1>. DEFINE tasks == {n \in Subtree(F.tree, p) \ {p} : F.tree[n].type = "task"}
            done  == {n \in tasks : F.tree[n].done # None}
            begun == done \cup {n \in tasks : OpenEntries(F, n) # {}}
            tasksG == {n \in Subtree(G.tree, p) \ {p} : G.tree[n].type = "task"}
            doneG  == {n \in tasksG : G.tree[n].done # None}
            begunG == doneG \cup {n \in tasksG : OpenEntries(G, n) # {}}
<1>3. tasks = tasksG
  BY <1>1
<1>4. done = doneG
  BY <1>1, <1>3
<1>5. begun = begunG
  <2>. HIDE DEF tasks, tasksG, done, doneG
  <2>. QED BY <1>2, <1>3, <1>4
<1>6. Phase(F, p, now) =
        CASE done = tasks -> IF tasks = {} THEN "idle" ELSE "completed"
          [] done # tasks /\ begun # {} -> "executing"
          [] OTHER -> IF \E n \in tasks : CommittedAfter(F, n, now) THEN "planned" ELSE "idle"
  BY DEF Phase
<1>7. Phase(G, p, now) =
        CASE doneG = tasksG -> IF tasksG = {} THEN "idle" ELSE "completed"
          [] doneG # tasksG /\ begunG # {} -> "executing"
          [] OTHER -> IF \E n \in tasksG : CommittedAfter(G, n, now) THEN "planned" ELSE "idle"
  BY DEF Phase
<1>. HIDE DEF tasks, tasksG, done, doneG, begun, begunG
<1>. QED BY <1>2, <1>3, <1>4, <1>5, <1>6, <1>7

\* A leaf of a predicate reads the same.
LEMMA LeafAlike ==
  ASSUME NEW F, NEW G, Alike(F, G), NEW n, NEW row, NEW c, NEW now, NEW block
  PROVE  ResolveFact(F, n, row, c, now, block) = ResolveFact(G, n, row, c, now, block)
<1>1. F.tree = G.tree /\ F.edges = G.edges /\ F.weather = G.weather /\ F.dayOf = G.dayOf
  BY DEF Alike
<1>2. \A p : Phase(F, p, now) = Phase(G, p, now)
  BY PhaseAlike
<1>. QED BY <1>1, <1>2 DEF ResolveFact

\* A predicate has the same value.
LEMMA PredicateAlike ==
  ASSUME NEW F, NEW G, Alike(F, G), NEW n, NEW row, NEW P, NEW now, NEW block
  PROVE  EvalPredicate(F, n, row, P, now, block) = EvalPredicate(G, n, row, P, now, block)
<1>1. Resolved(F, n, row, P, now, block) = Resolved(G, n, row, P, now, block)
  BY LeafAlike DEF Resolved
<1>. QED BY <1>1 DEF EvalPredicate

\* A task is blocked the same.
LEMMA BlockedAlike ==
  ASSUME NEW F, NEW G, Alike(F, G), NEW n, NEW now
  PROVE  IsBlocked(F, n, now) <=> IsBlocked(G, n, now)
<1>1. F.tree = G.tree /\ F.edges = G.edges /\ F.rules = G.rules
  BY DEF Alike
<1>2. \A k : Starts(F, k) = Starts(G, k)
  BY FactsAlike
<1>3. \A e : Holds(F, e, now) <=> Holds(G, e, now)
  BY <1>1, <1>2 DEF Holds
<1>4. DependencyBlocked(F, n, now) <=> DependencyBlocked(G, n, now)
  BY <1>1, <1>3 DEF DependencyBlocked
<1>5. RulesAt(F, n, now, "true", FALSE) = RulesAt(G, n, now, "true", FALSE)
  <2>1. \A r : InScope(F, n, r) <=> InScope(G, n, r)
    BY <1>1 DEF InScope
  <2>2. \A P : EvalPredicate(F, n, F.tree[n], P, now, None) = EvalPredicate(G, n, G.tree[n], P, now, None)
    BY <1>1, PredicateAlike
  <2>. QED BY <1>1, <2>1, <2>2 DEF RulesAt
<1>. QED BY <1>4, <1>5 DEF IsBlocked

\* A task has the same status.
LEMMA StatusAlike ==
  ASSUME NEW F, NEW G, Alike(F, G), NEW n, NEW now
  PROVE  TaskStatus(F, n, now) = TaskStatus(G, n, now)
<1>1. F.tree = G.tree
  BY DEF Alike
<1>2. /\ OpenEntries(F, n) = {} <=> OpenEntries(G, n) = {}
      /\ CommittedAfter(F, n, now) <=> CommittedAfter(G, n, now)
      /\ InActiveSprint(F, n, now) <=> InActiveSprint(G, n, now)
  BY FactsAlike
<1>3. IsBlocked(F, n, now) <=> IsBlocked(G, n, now)
  BY BlockedAlike
<1>. QED BY <1>1, <1>2, <1>3 DEF TaskStatus

\* They are the same but for what no answer depends on.
LEMMA EssenceAlike ==
  ASSUME NEW F, NEW G, Alike(F, G)
  PROVE  Essence(F) = Essence(G)
<1>. DEFINE E(H) == {[task |-> e.task, start |-> e.start, end |-> e.end] : e \in H.entries}
            B(H) == {[task |-> b.task, end |-> b.end] : b \in {x \in H.blocks : x.status = "committed"}}
            M(H) == {[node |-> m.node, sprint |-> m.sprint] : m \in {x \in H.members : x.sprint \in {s.id : s \in H.sprints}}}
<1>1. \A t, s, x : EntryWith(F, t, s, x) <=> EntryWith(G, t, s, x)
  BY DEF Alike
<1>2. ASSUME NEW H PROVE \A y : y \in E(H) <=> \E t, s, x : y = [task |-> t, start |-> s, end |-> x] /\ EntryWith(H, t, s, x)
  BY DEF EntryWith
<1>3. E(F) = E(G)
  <2>. HIDE DEF E
  <2>. QED BY <1>1, <1>2
<1>4. ASSUME NEW H PROVE \A y : y \in B(H) <=> \E t, x : y = [task |-> t, end |-> x] /\ BlockWith(H, t, x)
  BY DEF BlockWith
<1>5. B(F) = B(G)
  <2>1. \A t, x : BlockWith(F, t, x) <=> BlockWith(G, t, x)
    BY DEF Alike
  <2>. HIDE DEF B
  <2>. QED BY <2>1, <1>4
<1>6. ASSUME NEW H
      PROVE  \A y : y \in M(H) <=> \E n : \E s \in {z.id : z \in H.sprints} : y = [node |-> n, sprint |-> s] /\ LinkWith(H, n, s)
  BY DEF LinkWith
<1>7. M(F) = M(G)
  <2>1. F.sprints = G.sprints /\ \A n : \A s \in {y.id : y \in F.sprints} : LinkWith(F, n, s) <=> LinkWith(G, n, s)
    BY DEF Alike
  <2>. DEFINE T == {y.id : y \in F.sprints}
  <2>2. \A y : y \in M(F) <=> \E n : \E s \in T : y = [node |-> n, sprint |-> s] /\ LinkWith(F, n, s)
    BY <1>6
  <2>3. \A y : y \in M(G) <=> \E n : \E s \in T : y = [node |-> n, sprint |-> s] /\ LinkWith(G, n, s)
    BY <1>6, <2>1
  <2>4. \A n : \A s \in T : LinkWith(F, n, s) <=> LinkWith(G, n, s)
    BY <2>1
  <2>. HIDE DEF M, T
  <2>. QED BY <2>2, <2>3, <2>4
<1>8. \A H : Essence(H) = [tree |-> H.tree, edges |-> H.edges, entries |-> E(H), blocks |-> B(H), sprints |-> H.sprints,
                            members |-> M(H), rules |-> H.rules, weather |-> H.weather, dayOf |-> H.dayOf]
  BY DEF Essence
<1>. HIDE DEF E, B, M
<1>. QED BY <1>3, <1>5, <1>7, <1>8 DEF Alike

\* An index that holds what the rows give answers every question as they do.
LEMMA ReflectsAgrees ==
  ASSUME NEW ix, NEW R, Sound(R), Reflects(ix, R)
  PROVE  Agrees(ix, R)
<1>. DEFINE V == View(ix)
            F == BuildFactContext(R)
<1>1. Alike(V, F)
  BY AnswersAlike
<1>2. NodesReflect(ix, R["nodes"]) /\ EdgesReflect(ix, R["edges"]) /\ EntriesReflect(ix, R["time_entries"])
  BY DEF Reflects
<1>3. F.edges = Range(R["edges"]) /\ F.entries = Range(R["time_entries"])
  BY DEF BuildFactContext
<1>4. IsFiniteSet(DOMAIN R["time_entries"])
  BY DEF Sound, SharedTables
<1>. HIDE DEF V, F
<1>5. Essence(V) = Essence(F)
  BY <1>1, EssenceAlike
<1>6. ASSUME NEW p PROVE At(ix.children, p, {}) = Children(R["nodes"], p)
  BY <1>2 DEF NodesReflect, Children
<1>7. UNION Range(ix.outgoing) = F.edges
  BY <1>2, <1>3, EdgesAnswer
<1>8. ASSUME NEW n
      PROVE  /\ (At(ix.count, n, 0) > 0) <=> (Starts(F, n) # {})
             /\ At(ix.incoming, n, {}) = Incoming(F.edges, n)
             /\ At(ix.outgoing, n, {}) = Outgoing(F.edges, n)
  <2>1. (At(ix.count, n, 0) > 0) <=> OfTask(R["time_entries"], n) # {}
    <3>1. At(ix.count, n, 0) = Cardinality(OfTask(R["time_entries"], n))
      BY <1>2 DEF EntriesReflect
    <3>2. IsFiniteSet(OfTask(R["time_entries"], n)) /\ Cardinality(OfTask(R["time_entries"], n)) \in Nat
      BY <1>4, OfTaskFinite
    <3>. QED BY <3>1, <3>2, FS_EmptySet
  <2>2. OfTask(R["time_entries"], n) # {} <=> Starts(F, n) # {}
    BY <1>3 DEF OfTask, Starts, Range
  <2>3. At(ix.incoming, n, {}) = Incoming(F.edges, n) /\ At(ix.outgoing, n, {}) = Outgoing(F.edges, n)
    BY <1>2, <1>3 DEF EdgesReflect, Incoming, Outgoing
  <2>. QED BY <2>1, <2>2, <2>3
<1>9. ASSUME NEW n, NEW now PROVE TaskStatus(V, n, now) = TaskStatus(F, n, now)
  BY <1>1, StatusAlike
<1>. QED BY <1>5, <1>6, <1>7, <1>8, <1>9 DEF Agrees, V, F

-----------------------------------------------------------------------------
(* Rows.                                                                     *)

\* The columns every edge has.
EdgeColumns == {"id", "pred", "succ", "kind", "lag"}

\* What is on top of the columns of an edge.
EdgeMarks == {"stamp", "live"}

\* The row r, or the columns an effect sets, of the row n of table t.
RowFit(t, n, r) ==
  /\ t = "nodes" => DOMAIN r \subseteq NodeColumns /\ "id" \in DOMAIN r /\ r["id"] = n
  /\ t = "edges" => EdgeColumns \subseteq DOMAIN r /\ DOMAIN r \subseteq EdgeColumns \cup EdgeMarks /\ r["id"] = n
  /\ t = "automation_rules" => RuleRow(r)

\* The rows of a table.
TableFit(t, rows) == IsFiniteSet(DOMAIN rows) /\ \A n \in DOMAIN rows : RowFit(t, n, rows[n])

\* The tables of the server, or of the replica.
TablesFit(s) == DOMAIN s = Tables /\ \A t \in Tables : TableFit(t, s[t])

\* An effect: a row that is deleted is a node.
EffectFit(e) ==
  /\ DOMAIN e = {"command", "table", "id", "op", "fields"}
  /\ IF e.op = "delete" THEN e.table = "nodes" /\ DOMAIN e.fields = {} ELSE RowFit(e.table, e.id, e.fields)

\* A row under the columns of another one is a row.
LEMMA Overlaid ==
  ASSUME NEW t, NEW n, NEW f, RowFit(t, n, f), NEW g, RowFit(t, n, g) \/ DOMAIN g = {}
  PROVE  RowFit(t, n, f ++ g)
<1>1. /\ DOMAIN (f ++ g) = DOMAIN f \cup DOMAIN g
      /\ \A x \in DOMAIN f : (f ++ g)[x] = f[x]
  BY DEF ++
<1>. DEFINE h == f ++ g
<1>2. DOMAIN h = DOMAIN f \cup DOMAIN g /\ \A x \in DOMAIN f : h[x] = f[x]
  BY <1>1
<1>. HIDE DEF h
<1>3. t = "nodes" => DOMAIN h \subseteq NodeColumns /\ "id" \in DOMAIN h /\ h["id"] = n
  BY <1>2 DEF RowFit
<1>4. t = "edges" => EdgeColumns \subseteq DOMAIN h /\ DOMAIN h \subseteq EdgeColumns \cup EdgeMarks /\ h["id"] = n
  BY <1>2 DEF RowFit, EdgeColumns
<1>5. t = "automation_rules" => RuleRow(h)
  BY <1>2 DEF RowFit, RuleRow
<1>6. RowFit(t, n, h)
  BY <1>3, <1>4, <1>5 DEF RowFit
<1>. QED BY <1>6 DEF h

\* The merged versions of a row are rows.
LEMMA MergeRowFits ==
  ASSUME NEW t, NEW n, NEW row, \A r \in row : RowFit(t, n, r),
         NEW effects, \A e \in effects : EffectFit(e) /\ e.table = t /\ e.id = n
  PROVE  \A r \in MergeRow(row, effects) : RowFit(t, n, r)
<1>1. PICK loop :
        /\ loop[0] = row
        /\ \A k \in Nat : k < MaxCommands => loop[k + 1] = MergeNext(loop[k], OfCommand(effects, k + 1))
        /\ MergeRow(row, effects) = loop[MaxCommands]
  BY MergeLoop
<1>. DEFINE T == {k \in Nat : \A r \in loop[k] : RowFit(t, n, r)}
<1>2. 0 \in T
  BY <1>1
<1>3. ASSUME NEW k \in Nat, k < MaxCommands, k \in T PROVE k + 1 \in T
  <2>. DEFINE mine == OfCommand(effects, k + 1)
  <2>1. mine \subseteq effects
    BY DEF OfCommand
  <2>2. loop[k + 1] = MergeNext(loop[k], mine)
    BY <1>1, <1>3
  <2>. HIDE DEF mine
  <2>3. ASSUME NEW r \in MergeNext(loop[k], mine) PROVE RowFit(t, n, r)
    <3>1. CASE mine = {}
      BY <1>3, <2>3, <3>1 DEF MergeNext
    <3>2. CASE mine # {}
      <4>. DEFINE was == IF loop[k] = {} THEN {<< >>} ELSE loop[k]
      <4>1. MergeNext(loop[k], mine) = {e.fields ++ x : e \in {y \in mine : y.op # "delete"}, x \in was}
        BY <3>2 DEF MergeNext
      <4>2. PICK e \in mine, x \in was : e.op # "delete" /\ r = e.fields ++ x
        BY <2>3, <4>1
      <4>3. RowFit(t, n, e.fields)
        BY <2>1, <4>2 DEF EffectFit
      <4>4. RowFit(t, n, x) \/ DOMAIN x = {}
        BY <1>3, <4>2
      <4>. QED BY <4>2, <4>3, <4>4, Overlaid
    <3>. QED BY <3>1, <3>2
  <2>. QED BY <2>2, <2>3
<1>. HIDE DEF T
<1>4. MaxCommands \in T
  BY <1>2, <1>3, Reached, AutomationAssumption
<1>. QED BY <1>1, <1>4 DEF T

\* The row n of the merged table t is complete.
Whole(t, n, r) ==
  /\ r = [c \in DOMAIN r |-> r[c]]
  /\ t = "nodes" => DOMAIN r = NodeColumns /\ r["id"] = n
  /\ t = "edges" => DOMAIN r = EdgeColumns \cup EdgeMarks /\ r["id"] = n
  /\ t = "automation_rules" => RuleRow(r)

\* Merged with the defaults a row is complete.
LEMMA Completed ==
  ASSUME NEW t, NEW n, NEW r, RowFit(t, n, r)
  PROVE  Whole(t, n, r ++ Bare(t))
<1>. DEFINE h == r ++ Bare(t)
<1>1. /\ DOMAIN h = DOMAIN r \cup DOMAIN Bare(t) /\ h = [c \in DOMAIN h |-> h[c]]
      /\ \A x \in DOMAIN r : h[x] = r[x]
  BY DEF ++
<1>. HIDE DEF h
<1>2. t = "nodes" => DOMAIN Bare(t) = NodeColumns \ {"id"}
  BY DEF Bare, BareNode, NodeColumns
<1>3. t = "edges" => DOMAIN Bare(t) = EdgeMarks
  BY DEF Bare, EdgeMarks
<1>4. t = "nodes" => DOMAIN h = NodeColumns /\ h["id"] = n
  BY <1>1, <1>2 DEF RowFit
<1>5. t = "edges" => DOMAIN h = EdgeColumns \cup EdgeMarks /\ h["id"] = n
  BY <1>1, <1>3 DEF RowFit, EdgeColumns
<1>6. t = "automation_rules" => RuleRow(h)
  BY <1>1 DEF RowFit, RuleRow
<1>7. Whole(t, n, h)
  BY <1>1, <1>4, <1>5, <1>6 DEF Whole
<1>. QED BY <1>7 DEF h

\* The merged rows of a table.
LEMMA MergeTableFits ==
  ASSUME NEW rep, TablesFit(rep), NEW effects, IsFiniteSet(effects), \A e \in effects : EffectFit(e),
         NEW t \in Tables
  PROVE  LET rows == MergeTable(rep, effects, t)
         IN  /\ rows = [n \in DOMAIN rows |-> rows[n]]
             /\ IsFiniteSet(DOMAIN rows)
             /\ \A n \in DOMAIN rows : Whole(t, n, rows[n])
<1>. DEFINE mine      == {e \in effects : e.table = t}
            Merged(n) == MergeRow({rep[t][x] : x \in {n} \cap DOMAIN rep[t]}, {e \in mine : e.id = n})
            ids       == {n \in DOMAIN rep[t] \cup {e.id : e \in mine} : Merged(n) # {}}
            rows      == MergeTable(rep, effects, t)
<1>1. rows = [n \in ids |-> (CHOOSE r \in Merged(n) : TRUE) ++ Bare(t)]
  BY DEF MergeTable
<1>2. ASSUME NEW n \in ids PROVE Whole(t, n, (CHOOSE r \in Merged(n) : TRUE) ++ Bare(t))
  <2>. DEFINE was == {rep[t][x] : x \in {n} \cap DOMAIN rep[t]}
              own == {e \in mine : e.id = n}
  <2>1. \A r \in was : RowFit(t, n, r)
    BY DEF TablesFit, TableFit
  <2>2. \A e \in own : EffectFit(e) /\ e.table = t /\ e.id = n
    OBVIOUS
  <2>. HIDE DEF was, own
  <2>3. \A r \in MergeRow(was, own) : RowFit(t, n, r)
    BY <2>1, <2>2, MergeRowFits
  <2>4. Merged(n) = MergeRow(was, own) /\ Merged(n) # {}
    BY DEF was, own
  <2>. HIDE DEF Merged
  <2>5. RowFit(t, n, CHOOSE r \in Merged(n) : TRUE)
    BY <2>3, <2>4
  <2>. QED BY <2>5, Completed
<1>3. IsFiniteSet(ids)
  <2>. DEFINE f == [e \in effects |-> e.id]
  <2>1. IsFiniteSet(Range(f))
    <3>1. DOMAIN f = effects
      OBVIOUS
    <3>. HIDE DEF f
    <3>. QED BY <3>1, FiniteRange
  <2>2. \A e \in mine : e.id \in Range(f)
    BY DEF Range
  <2>3. IsFiniteSet(DOMAIN rep[t])
    BY DEF TablesFit, TableFit
  <2>4. ids \in SUBSET (DOMAIN rep[t] \cup Range(f))
    <3>. HIDE DEF f, Merged
    <3>. QED BY <2>2
  <2>. HIDE DEF f, ids
  <2>. QED BY <2>1, <2>3, <2>4, FS_Union, FS_Subset
<1>. HIDE DEF ids, Merged
<1>4. DOMAIN rows = ids /\ rows = [n \in DOMAIN rows |-> rows[n]]
  BY <1>1
<1>5. \A n \in DOMAIN rows : Whole(t, n, rows[n])
  BY <1>1, <1>2
<1>. HIDE DEF rows
<1>6. /\ rows = [n \in DOMAIN rows |-> rows[n]]
      /\ IsFiniteSet(DOMAIN rows)
      /\ \A n \in DOMAIN rows : Whole(t, n, rows[n])
  BY <1>3, <1>4, <1>5
<1>. QED BY <1>6 DEF rows

-----------------------------------------------------------------------------
(* What a run of the rules makes.                                            *)

\* What a run has made so far: finitely many nodes and edges, with their columns.
Made(out) ==
  /\ IsFiniteSet(DOMAIN out.nodes)
  /\ \A n \in DOMAIN out.nodes : DOMAIN out.nodes[n] \subseteq NodeColumns
  /\ TableFit("edges", out.edges)

\* What a run has made so far, with the triggers of its next wave.
Waving(out) ==
  /\ {"nodes", "edges", "queue"} \subseteq DOMAIN out
  /\ Made(out) /\ IsFiniteSet(out.queue)

\* Finitely many rules, with finitely many actions.
RulesOK(rules) == IsFiniteSet(rules) /\ \A r \in rules : RuleRow(r)

\* A wave spawns finitely many tasks.
LEMMA SpawnsFinite ==
  ASSUME NEW G, NEW rules, RulesOK(rules), NEW triggers, IsFiniteSet(triggers)
  PROVE  IsFiniteSet(Spawns(Firings(G, rules, triggers)))
<1>. DEFINE fs == Firings(G, rules, triggers)
            Of(f) == {[rule |-> f[1], trig |-> f[2], act |-> a, id |-> SpawnedTaskId(f[1].id, f[2].node, a.slot)] :
                        a \in f[1].actions}
            g == [f \in fs |-> Of(f)]
<1>1. fs \in SUBSET (rules \X triggers)
  BY DEF Firings, Matching
<1>2. IsFiniteSet(fs)
  BY <1>1, FS_Product, FS_Subset DEF RulesOK
<1>3. ASSUME NEW f \in fs PROVE IsFiniteSet(Of(f))
  <2>. DEFINE h == [a \in f[1].actions |->
                      [rule |-> f[1], trig |-> f[2], act |-> a, id |-> SpawnedTaskId(f[1].id, f[2].node, a.slot)]]
  <2>1. f[1] \in rules
    BY <1>1
  <2>2. IsFiniteSet(DOMAIN h)
    BY <2>1 DEF RulesOK, RuleRow
  <2>3. Of(f) = Range(h)
    BY DEF Range
  <2>. HIDE DEF h, Of
  <2>. QED BY <2>2, <2>3, FiniteRange
<1>4. Spawns(fs) = UNION Range(g)
  BY DEF Spawns, Range
<1>5. IsFiniteSet(Range(g)) /\ \A S \in Range(g) : IsFiniteSet(S)
  <2>1. DOMAIN g = fs /\ \A f \in fs : g[f] = Of(f)
    OBVIOUS
  <2>. HIDE DEF g, Of, fs
  <2>. QED BY <1>2, <1>3, <2>1, FiniteRange DEF Range
<1>. HIDE DEF g, fs
<1>6. IsFiniteSet(UNION Range(g))
  BY <1>5, FS_UNION
<1>. QED BY <1>4, <1>6 DEF fs

\* A spawned edge has its columns.
LEMMA SpawnedEdgeFits ==
  ASSUME NEW s
  PROVE  DOMAIN SpawnedEdge(s) = EdgeColumns
  BY DEF SpawnedEdge, EdgeColumns

\* A wave keeps the columns.
LEMMA WaveFits ==
  ASSUME NEW G, NEW out, Waving(out), NEW spawns, IsFiniteSet(spawns)
  PROVE  Waving(AfterWave(G, out, spawns))
<1>. DEFINE rows  == [n \in {s.id : s \in spawns} |->
                        LET s == CHOOSE x \in spawns : x.id = n IN SpawnedRow(G, s.trig, s.act)]
            fresh == DOMAIN rows \ DOMAIN G.tree
            new   == {SpawnedEdge(s) : s \in {x \in spawns :
                        x.act.edgeFrom # None /\ \A e \in Outgoing(G.edges, SpawnedEdge(x).pred) : e.succ # x.id}}
            made  == [i \in {e.id : e \in new} |-> CHOOSE e \in new : e.id = i]
            to    == AfterWave(G, out, spawns)
<1>1. /\ to.nodes = Restrict(rows, fresh) ++ out.nodes
      /\ to.edges = made ++ out.edges
      /\ to.queue = {[kind |-> "task_created", node |-> n, row |-> (G.tree ++ rows)[n]] : n \in DOMAIN rows}
      /\ {"nodes", "edges", "queue"} \subseteq DOMAIN to
  BY DEF AfterWave
<1>2. IsFiniteSet(DOMAIN rows)
  <2>. DEFINE f == [s \in spawns |-> s.id]
  <2>1. DOMAIN f = spawns
    OBVIOUS
  <2>2. DOMAIN rows = Range(f)
    BY DEF Range
  <2>. HIDE DEF f, rows
  <2>. QED BY <2>1, <2>2, FiniteRange
<1>3. \A n \in DOMAIN rows : DOMAIN rows[n] \subseteq NodeColumns
  <2>1. \A g, t, a : DOMAIN SpawnedRow(g, t, a) \subseteq NodeColumns
    BY DEF SpawnedRow, NodeColumns
  <2>. QED BY <2>1
<1>4. IsFiniteSet(DOMAIN made)
  <2>. DEFINE f == [s \in spawns |-> SpawnedEdge(s).id]
  <2>1. DOMAIN f = spawns
    OBVIOUS
  <2>2. DOMAIN made \in SUBSET Range(f)
    BY DEF Range
  <2>. HIDE DEF f, made
  <2>. QED BY <2>1, <2>2, FiniteRange, FS_Subset
<1>5. \A i \in DOMAIN made : DOMAIN made[i] = EdgeColumns /\ made[i]["id"] = i
  <2>1. \A e \in new : DOMAIN e = EdgeColumns
    BY SpawnedEdgeFits
  <2>. HIDE DEF new
  <2>2. ASSUME NEW i \in DOMAIN made PROVE made[i] \in new /\ made[i].id = i
    OBVIOUS
  <2>. HIDE DEF made
  <2>. QED BY <2>1, <2>2
<1>. HIDE DEF rows, made, to
<1>6. Made(to)
  <2>. DEFINE kept == Restrict(rows, fresh)
  <2>1. DOMAIN kept = fresh /\ \A n \in fresh : kept[n] = rows[n]
    BY DEF Restrict
  <2>2. IsFiniteSet(DOMAIN rows \ DOMAIN G.tree)
    BY <1>2, FS_Difference
  <2>. HIDE DEF kept
  <2>3. DOMAIN to.nodes = DOMAIN kept \cup DOMAIN out.nodes
        /\ \A n \in DOMAIN to.nodes : to.nodes[n] = IF n \in DOMAIN kept THEN kept[n] ELSE out.nodes[n]
    BY <1>1 DEF ++, kept
  <2>4. DOMAIN to.edges = DOMAIN made \cup DOMAIN out.edges
        /\ \A n \in DOMAIN to.edges : to.edges[n] = IF n \in DOMAIN made THEN made[n] ELSE out.edges[n]
    BY <1>1 DEF ++
  <2>5. IsFiniteSet(DOMAIN to.nodes)
    <3>1. IsFiniteSet(DOMAIN kept) /\ IsFiniteSet(DOMAIN out.nodes)
      BY <2>1, <2>2 DEF Waving, Made
    <3>2. IsFiniteSet(DOMAIN kept \cup DOMAIN out.nodes)
      BY <3>1, FS_Union
    <3>. QED BY <2>3, <3>2
  <2>6. IsFiniteSet(DOMAIN to.edges)
    <3>1. IsFiniteSet(DOMAIN out.edges)
      BY DEF Waving, Made, TableFit
    <3>2. IsFiniteSet(DOMAIN made \cup DOMAIN out.edges)
      BY <1>4, <3>1, FS_Union
    <3>. QED BY <2>4, <3>2
  <2>7. \A n \in DOMAIN to.nodes : DOMAIN to.nodes[n] \subseteq NodeColumns
    BY <1>3, <2>1, <2>3 DEF Waving, Made
  <2>8. ASSUME NEW n \in DOMAIN to.edges PROVE RowFit("edges", n, to.edges[n])
    <3>1. CASE n \in DOMAIN made
      BY <1>5, <2>4, <3>1 DEF RowFit
    <3>2. CASE n \notin DOMAIN made
      BY <2>4, <3>2 DEF Waving, Made, TableFit
    <3>. QED BY <3>1, <3>2
  <2>. QED BY <2>5, <2>6, <2>7, <2>8 DEF Made, TableFit
<1>7. IsFiniteSet(to.queue)
  <2>. DEFINE f == [n \in DOMAIN rows |-> [kind |-> "task_created", node |-> n, row |-> (G.tree ++ rows)[n]]]
  <2>1. to.queue = Range(f)
    BY <1>1 DEF Range
  <2>2. DOMAIN f = DOMAIN rows
    OBVIOUS
  <2>. HIDE DEF f
  <2>. QED BY <1>2, <2>1, <2>2, FiniteRange
<1>8. Waving(to)
  BY <1>1, <1>6, <1>7 DEF Waving
<1>. QED BY <1>8 DEF to

\* A run makes finitely many nodes and edges, with their columns.
LEMMA RunFits ==
  ASSUME NEW F, NEW rules, RulesOK(rules), NEW trigger
  PROVE  Made(RunAutomations(F, rules, trigger))
<1>1. PICK loop :
        /\ loop[0] = NothingYet(trigger)
        /\ \A n \in Nat : n < MaxDepth => loop[n + 1] = NextWave(F, rules, loop[n])
        /\ RunAutomations(F, rules, trigger) = Limited(F, rules, loop[MaxDepth])
  BY WaveLoop
<1>. DEFINE T == {n \in Nat : Waving(loop[n])}
<1>2. 0 \in T
  <2>1. Waving(NothingYet(trigger))
    <3>1. IsFiniteSet({}) /\ IsFiniteSet({trigger})
      BY FS_EmptySet, FS_Singleton
    <3>. QED BY <3>1 DEF Waving, Made, NothingYet, TableFit
  <2>. QED BY <1>1, <2>1
<1>3. ASSUME NEW n \in Nat, n < MaxDepth, n \in T PROVE n + 1 \in T
  <2>1. Waving(loop[n])
    BY <1>3
  <2>2. Waving(NextWave(F, rules, loop[n]))
    BY <2>1, SpawnsFinite, WaveFits DEF NextWave, Waving
  <2>. QED BY <1>1, <1>3, <2>2
<1>. HIDE DEF T
<1>4. MaxDepth \in T
  BY <1>2, <1>3, Reached, AutomationAssumption
<1>5. Waving(loop[MaxDepth])
  BY <1>4 DEF T
<1>. DEFINE out == loop[MaxDepth]
            end == Limited(F, rules, out)
<1>. HIDE DEF out
<1>6. end.nodes = out.nodes /\ end.edges = out.edges
  <2>1. "nodes" \in DOMAIN out /\ "edges" \in DOMAIN out
    BY <1>5 DEF Waving, out
  <2>. QED BY <2>1 DEF Limited, ++
<1>. HIDE DEF end
<1>7. Made(end)
  BY <1>5, <1>6 DEF Waving, Made, out
<1>. QED BY <1>1, <1>7 DEF end, out

-----------------------------------------------------------------------------
(* The invariant.                                                            *)

\* The effects of the overlay.
OverlayFits(effects) == IsFiniteSet(effects) /\ \A e \in effects : EffectFit(e)

\* The queue of commands.
CommandsFit == commands \in Seq([cmd : Commands, status : {"pending", "applied", "rejected", "cleared"}])

\* The rows of the tables that the automation does not touch.
FactsFit(f) ==
  /\ DOMAIN f = AllTables
  /\ \A t \in OtherTables :
       /\ IsFiniteSet(DOMAIN f[t]) /\ f[t] = [i \in DOMAIN f[t] |-> f[t][i]]
       /\ \A i \in DOMAIN f[t] : f[t][i] \in FactRows(t) /\ f[t][i].id = i

\* All the rows and effects there are.
RowsAllFit ==
  TablesFit(srv) /\ TablesFit(replica) /\ OverlayFits(overlay) /\ CommandsFit /\ FactsFit(facts)

\* Rows and effects have the columns of their tables and bear their ids, there are
\* finitely many, and the index of the engine holds exactly what the merged rows give.
EngineFollows ==
  /\ RowsAllFit
  /\ engine.rows = SharedRows(replica, overlay, facts)
  /\ Reflecting(engine)

\* The merged rows.
LEMMA SharedIs ==
  ASSUME NEW rep, NEW effects, NEW others, DOMAIN others = AllTables
  PROVE  LET R == SharedRows(rep, effects, others)
         IN  /\ DOMAIN R = AllTables /\ R = [t \in AllTables |-> R[t]]
             /\ R["nodes"] = MergeTable(rep, effects, "nodes") /\ R["edges"] = MergeTable(rep, effects, "edges")
             /\ \A t \in AllTables \ {"nodes", "edges"} : R[t] = others[t]
  BY DEF SharedRows, AllTables, SharedTables

\* They are sound.
LEMMA SharedSound ==
  ASSUME NEW rep, TablesFit(rep), NEW effects, OverlayFits(effects), NEW others, FactsFit(others)
  PROVE  Sound(SharedRows(rep, effects, others))
<1>. DEFINE R == SharedRows(rep, effects, others)
<1>1. /\ DOMAIN R = AllTables /\ R = [t \in AllTables |-> R[t]]
      /\ R["nodes"] = MergeTable(rep, effects, "nodes") /\ R["edges"] = MergeTable(rep, effects, "edges")
      /\ \A t \in AllTables \ {"nodes", "edges"} : R[t] = others[t]
  BY SharedIs DEF FactsFit
<1>. HIDE DEF R
<1>2. ASSUME NEW t \in {"nodes", "edges"}
      PROVE  /\ Keyed(R[t]) /\ IsFiniteSet(DOMAIN R[t])
             /\ R[t] = [n \in DOMAIN R[t] |-> R[t][n]]
             /\ \A n \in DOMAIN R[t] : R[t][n] = [c \in DOMAIN R[t][n] |-> R[t][n][c]]
  <2>. DEFINE rows == MergeTable(rep, effects, t)
  <2>1. /\ rows = [n \in DOMAIN rows |-> rows[n]] /\ IsFiniteSet(DOMAIN rows)
        /\ \A n \in DOMAIN rows : Whole(t, n, rows[n])
    BY MergeTableFits DEF OverlayFits, Tables
  <2>2. R[t] = rows
    BY <1>1
  <2>. HIDE DEF rows
  <2>3. Keyed(rows)
    BY <2>1 DEF Whole, Keyed
  <2>. QED BY <2>1, <2>2, <2>3 DEF Whole
<1>3. ASSUME NEW t \in OtherTables
      PROVE  /\ Keyed(R[t]) /\ IsFiniteSet(DOMAIN R[t])
             /\ R[t] = [n \in DOMAIN R[t] |-> R[t][n]]
             /\ \A n \in DOMAIN R[t] : R[t][n] = [c \in DOMAIN R[t][n] |-> R[t][n][c]]
  <2>1. R[t] = others[t]
    BY <1>1 DEF OtherTables, AllTables
  <2>2. \A r \in FactRows(t) : r = [c \in DOMAIN r |-> r[c]]
    BY AutomationAssumption
  <2>. QED BY <2>1, <2>2 DEF FactsFit, Keyed
<1>4. SharedTables = {"nodes", "edges"} \cup OtherTables
  BY DEF OtherTables, SharedTables
<1>5. Sound(R)
  BY <1>1, <1>2, <1>3, <1>4 DEF Sound
<1>. QED BY <1>5 DEF R

\* The merged rows before a step and after it.
LEMMA SharedFollows ==
  ASSUME NEW rep, TablesFit(rep), NEW effects, OverlayFits(effects), NEW others, FactsFit(others),
         NEW rep2, TablesFit(rep2), NEW effects2, OverlayFits(effects2), NEW others2, FactsFit(others2),
         others2["user_settings"] = None => others["user_settings"] = None
  PROVE  Follows(SharedRows(rep, effects, others), SharedRows(rep2, effects2, others2))
<1>. DEFINE P == SharedRows(rep, effects, others)
            R == SharedRows(rep2, effects2, others2)
<1>1. /\ P["nodes"] = MergeTable(rep, effects, "nodes") /\ P["edges"] = MergeTable(rep, effects, "edges")
      /\ \A t \in AllTables \ {"nodes", "edges"} : P[t] = others[t]
  BY SharedIs DEF FactsFit
<1>2. /\ R["nodes"] = MergeTable(rep2, effects2, "nodes") /\ R["edges"] = MergeTable(rep2, effects2, "edges")
      /\ \A t \in AllTables \ {"nodes", "edges"} : R[t] = others2[t]
  BY SharedIs DEF FactsFit
<1>. HIDE DEF P, R
<1>3. ASSUME NEW t \in {"nodes", "edges"}, NEW n \in DOMAIN P[t] \cap DOMAIN R[t]
      PROVE  DOMAIN P[t][n] \subseteq DOMAIN R[t][n]
  <2>1. P[t] = MergeTable(rep, effects, t) /\ R[t] = MergeTable(rep2, effects2, t) /\ t \in Tables
    BY <1>1, <1>2 DEF Tables
  <2>2. Whole(t, n, P[t][n])
    BY <2>1, MergeTableFits DEF OverlayFits
  <2>3. Whole(t, n, R[t][n])
    BY <2>1, MergeTableFits DEF OverlayFits
  <2>. QED BY <2>2, <2>3 DEF Whole
<1>4. ASSUME NEW t \in OtherTables, NEW n \in DOMAIN P[t] \cap DOMAIN R[t]
      PROVE  DOMAIN P[t][n] \subseteq DOMAIN R[t][n]
  <2>1. P[t] = others[t] /\ R[t] = others2[t]
    BY <1>1, <1>2 DEF OtherTables, AllTables
  <2>2. P[t][n] \in FactRows(t) /\ R[t][n] \in FactRows(t)
    BY <2>1 DEF FactsFit
  <2>. QED BY <2>2, AutomationAssumption
<1>5. P["user_settings"] = others["user_settings"] /\ R["user_settings"] = others2["user_settings"]
  BY <1>1, <1>2 DEF AllTables
<1>6. SharedTables = {"nodes", "edges"} \cup OtherTables
  BY DEF OtherTables, SharedTables
<1>7. Follows(P, R)
  BY <1>3, <1>4, <1>5, <1>6 DEF Follows
<1>. QED BY <1>7 DEF P, R

\* The engine keeps up with every step after which it follows.
LEMMA FollowKeeps ==
  ASSUME EngineFollows, RowsAllFit', facts'["user_settings"] = None => facts["user_settings"] = None, Follow
  PROVE  EngineFollows'
<1>. DEFINE R == SharedRows(replica', overlay', facts')
<1>1. Sound(R)
  BY SharedSound DEF RowsAllFit
<1>2. Follows(engine.rows, R)
  BY SharedFollows DEF EngineFollows, RowsAllFit
<1>3. engine' = Maintain(engine, R)
  BY DEF Follow
<1>. HIDE DEF R
<1>4. Maintain(engine, R).rows = R /\ Reflecting(Maintain(engine, R))
  BY <1>1, <1>2, MaintainReflects DEF EngineFollows
<1>5. engine'.rows = R /\ Reflecting(engine')
  BY <1>3, <1>4
<1>6. (engine.rows = SharedRows(replica, overlay, facts))' /\ Reflecting(engine)'
  BY <1>5 DEF R, Reflecting
<1>. QED BY <1>6 DEF EngineFollows

\* The live rows of fitting tables fit.
LEMMA LiveFits ==
  ASSUME NEW s, TablesFit(s)
  PROVE  TablesFit(LiveRows(s)) /\ \A t \in Tables : TableFit(t, Live(s[t]))
<1>1. ASSUME NEW t \in Tables PROVE TableFit(t, Live(s[t]))
  <2>1. DOMAIN Live(s[t]) \in SUBSET DOMAIN s[t] /\ \A n \in DOMAIN Live(s[t]) : Live(s[t])[n] = s[t][n]
    BY DEF Live
  <2>. QED BY <2>1, FS_Subset DEF TablesFit, TableFit
<1>2. DOMAIN LiveRows(s) = Tables /\ \A t \in Tables : LiveRows(s)[t] = Live(s[t])
  BY DEF LiveRows
<1>. QED BY <1>1, <1>2 DEF TablesFit

-----------------------------------------------------------------------------
(* The effects of a command.                                                 *)

\* Fitting effects added up.
LEMMA EffectsAdded ==
  ASSUME NEW A, OverlayFits(A), NEW B, OverlayFits(B)
  PROVE  OverlayFits(A \cup B)
  BY FS_Union DEF OverlayFits

\* A map from finitely many keys to fitting effects.
LEMMA EffectsOf ==
  ASSUME NEW f, IsFiniteSet(DOMAIN f), \A x \in DOMAIN f : EffectFit(f[x])
  PROVE  OverlayFits(Range(f))
<1>1. IsFiniteSet(Range(f))
  BY FiniteRange
<1>. QED BY <1>1 DEF OverlayFits, Range

\* One effect.
LEMMA OneEffect ==
  ASSUME NEW e, EffectFit(e)
  PROVE  OverlayFits({e})
  BY FS_Singleton DEF OverlayFits

\* The effects of a command on its own rows fit.
LEMMA OwnFit ==
  ASSUME NEW i, NEW c \in Commands, NEW nodes, IsFiniteSet(DOMAIN nodes)
  PROVE  OverlayFits(OwnEffects(i, c, nodes))
<1>0. c.verb \in {"create", "checkOff", "uncheck", "delete", "createRule"} /\ (c.verb = "createRule" => RuleRow(c.rule))
  BY AutomationAssumption
<1>1. CASE c.verb = "create"
  <2>1. EffectFit(Effect(i, "nodes", c.node, "insert", NewTask(c, i)))
    BY DEF EffectFit, Effect, NewTask, RowFit, NodeColumns
  <2>2. OwnEffects(i, c, nodes) = {Effect(i, "nodes", c.node, "insert", NewTask(c, i))}
    BY <1>1 DEF OwnEffects
  <2>. QED BY <2>1, <2>2, OneEffect
<1>2. CASE c.verb \in {"checkOff", "uncheck"}
  <2>. DEFINE fields == Columns(c, i) ++ [id |-> c.node]
  <2>1. DOMAIN fields = {"done", "id"} /\ fields["id"] = c.node
    BY DEF Columns, ++
  <2>2. OwnEffects(i, c, nodes) = {Effect(i, "nodes", c.node, "update", fields)}
    BY <1>2 DEF OwnEffects
  <2>. HIDE DEF fields
  <2>3. EffectFit(Effect(i, "nodes", c.node, "update", fields))
    BY <2>1 DEF EffectFit, Effect, RowFit, NodeColumns
  <2>. QED BY <2>2, <2>3, OneEffect
<1>3. CASE c.verb = "delete"
  <2>. DEFINE S == {c.node} \cup Subtree(nodes, c.node)
              f == [n \in S |-> Effect(i, "nodes", n, "delete", << >>)]
  <2>1. OwnEffects(i, c, nodes) = Range(f)
    BY <1>3 DEF OwnEffects, Range
  <2>2. IsFiniteSet(DOMAIN f)
    <3>1. Subtree(nodes, c.node) \in SUBSET DOMAIN nodes
      BY DEF Subtree
    <3>2. IsFiniteSet(Subtree(nodes, c.node))
      BY <3>1, FS_Subset
    <3>. QED BY <3>2, FS_Singleton, FS_Union
  <2>3. \A n \in DOMAIN f : EffectFit(f[n])
    BY DEF EffectFit, Effect
  <2>. HIDE DEF f
  <2>. QED BY <2>1, <2>2, <2>3, EffectsOf
<1>4. CASE c.verb = "createRule"
  <2>1. EffectFit(Effect(i, "automation_rules", c.rule.id, "insert", c.rule))
    BY <1>0, <1>4 DEF EffectFit, Effect, RowFit
  <2>2. OwnEffects(i, c, nodes) = {Effect(i, "automation_rules", c.rule.id, "insert", c.rule)}
    BY <1>4 DEF OwnEffects
  <2>. QED BY <2>1, <2>2, OneEffect
<1>. QED BY <1>0, <1>1, <1>2, <1>3, <1>4

\* What is kept of a run is made by it.
LEMMA KeptMade ==
  ASSUME NEW t, NEW out
  PROVE  KeptNodes(t, out) \subseteq DOMAIN out.nodes /\ KeptEdges(t, out) \subseteq DOMAIN out.edges
  BY DEF KeptNodes, KeptEdges

\* The effects of what the automation spawns fit.
LEMMA KeptFit ==
  ASSUME NEW i, NEW nodes, NEW out, Made(out)
  PROVE  OverlayFits(KeptEffects(i, nodes, out))
<1>. DEFINE f == [n \in KeptNodes(nodes, out) |-> Effect(i, "nodes", n, "insert", [id |-> n] ++ out.nodes[n])]
            g == [e \in KeptEdges(nodes, out) |-> Effect(i, "edges", e, "insert", out.edges[e])]
<1>1. KeptEffects(i, nodes, out) = Range(f) \cup Range(g)
  BY DEF KeptEffects, Range
<1>2. IsFiniteSet(KeptNodes(nodes, out)) /\ IsFiniteSet(KeptEdges(nodes, out))
  BY KeptMade, FS_Subset DEF Made, TableFit
<1>3. ASSUME NEW n \in KeptNodes(nodes, out) PROVE EffectFit(f[n])
  <2>. DEFINE r == [id |-> n] ++ out.nodes[n]
  <2>1. DOMAIN out.nodes[n] \subseteq NodeColumns
    BY KeptMade DEF Made
  <2>2. DOMAIN r = {"id"} \cup DOMAIN out.nodes[n] /\ r["id"] = n
    BY DEF ++
  <2>3. f[n] = Effect(i, "nodes", n, "insert", r)
    OBVIOUS
  <2>. HIDE DEF r, f
  <2>4. RowFit("nodes", n, r)
    BY <2>1, <2>2 DEF RowFit, NodeColumns
  <2>. QED BY <2>3, <2>4 DEF EffectFit, Effect
<1>4. ASSUME NEW e \in KeptEdges(nodes, out) PROVE EffectFit(g[e])
  <2>1. RowFit("edges", e, out.edges[e])
    BY KeptMade DEF Made, TableFit
  <2>. QED BY <2>1 DEF EffectFit, Effect
<1>5. DOMAIN f = KeptNodes(nodes, out) /\ DOMAIN g = KeptEdges(nodes, out)
  OBVIOUS
<1>. HIDE DEF f, g
<1>6. OverlayFits(Range(f)) /\ OverlayFits(Range(g))
  BY <1>2, <1>3, <1>4, <1>5, EffectsOf
<1>. QED BY <1>1, <1>6, EffectsAdded

\* The rules of a table.
LEMMA RulesOf ==
  ASSUME NEW rows, IsFiniteSet(DOMAIN rows), \A n \in DOMAIN rows : RuleRow(rows[n])
  PROVE  RulesOK(Range(rows))
<1>1. IsFiniteSet(Range(rows))
  BY FiniteRange
<1>. QED BY <1>1 DEF RulesOK, Range

\* The effects of the automation fit.
LEMMA SpawnFit ==
  ASSUME NEW i, NEW c, NEW nodes, NEW edges, NEW rules,
         IsFiniteSet(DOMAIN rules), \A r \in DOMAIN rules : RuleRow(rules[r])
  PROVE  OverlayFits(SpawnEffects(i, c, nodes, edges, rules))
<1>1. \A F, trigger : Made(RunAutomations(F, Range(rules), trigger))
  BY RulesOf, RunFits
<1>2. \A F, trigger : OverlayFits(KeptEffects(i, nodes, RunAutomations(F, Range(rules), trigger)))
  BY <1>1, KeptFit
<1>3. OverlayFits({})
  BY FS_EmptySet DEF OverlayFits
<1>. QED BY <1>2, <1>3 DEF SpawnEffects

\* Execute keeps rows and effects fitting.
LEMMA ExecuteFits ==
  ASSUME RowsAllFit, Execute
  PROVE  RowsAllFit'
<1>. DEFINE Merged(t) == MergeTable(replica, overlay, t)
<1>1. PICK c \in Commands :
        /\ commands' = Append(commands, [cmd |-> c, status |-> "pending"])
        /\ overlay' = overlay \cup OwnEffects(Now + 1, c, Merged("nodes"))
                        \cup SpawnEffects(Now + 1, c, Merged("nodes"), Merged("edges"), Merged("automation_rules"))
  BY DEF Execute
<1>2. ASSUME NEW t \in Tables PROVE IsFiniteSet(DOMAIN Merged(t)) /\ \A n \in DOMAIN Merged(t) : Whole(t, n, Merged(t)[n])
  BY MergeTableFits DEF RowsAllFit, OverlayFits
<1>3. /\ IsFiniteSet(DOMAIN Merged("nodes")) /\ IsFiniteSet(DOMAIN Merged("automation_rules"))
      /\ \A r \in DOMAIN Merged("automation_rules") : RuleRow(Merged("automation_rules")[r])
  <2>. HIDE DEF Merged
  <2>. QED BY <1>2 DEF Tables, Whole
<1>. HIDE DEF Merged
<1>4. OverlayFits(OwnEffects(Now + 1, c, Merged("nodes")))
  BY <1>3, OwnFit
<1>5. OverlayFits(SpawnEffects(Now + 1, c, Merged("nodes"), Merged("edges"), Merged("automation_rules")))
  BY <1>3, SpawnFit
<1>6. OverlayFits(overlay')
  BY <1>1, <1>4, <1>5, EffectsAdded DEF RowsAllFit
<1>7. commands' \in Seq([cmd : Commands, status : {"pending", "applied", "rejected", "cleared"}])
  <2>1. [cmd |-> c, status |-> "pending"] \in [cmd : Commands, status : {"pending", "applied", "rejected", "cleared"}]
    OBVIOUS
  <2>. QED BY <1>1, <2>1, AppendProperties DEF RowsAllFit, CommandsFit
<1>8. UNCHANGED <<srv, replica, facts>>
  BY DEF Execute
<1>. QED BY <1>6, <1>7, <1>8 DEF RowsAllFit, CommandsFit

-----------------------------------------------------------------------------
(* The server.                                                               *)

\* One table of fitting tables is replaced.
LEMMA TableReplaced ==
  ASSUME NEW s, TablesFit(s), NEW t \in Tables, NEW rows, TableFit(t, rows)
  PROVE  TablesFit([s EXCEPT ![t] = rows])
  BY DEF TablesFit

\* A row is put into a table.
LEMMA RowPut ==
  ASSUME NEW t, NEW rows, TableFit(t, rows), NEW n, NEW r, RowFit(t, n, r)
  PROVE  TableFit(t, Put(rows, n, r))
<1>1. DOMAIN Put(rows, n, r) = DOMAIN rows \cup {n}
  BY DEF Put
<1>2. \A m \in DOMAIN Put(rows, n, r) : Put(rows, n, r)[m] = IF m = n THEN r ELSE rows[m]
  BY DEF Put
<1>3. IsFiniteSet(DOMAIN rows \cup {n})
  BY FS_AddElement DEF TableFit
<1>. QED BY <1>1, <1>2, <1>3 DEF TableFit

\* Columns that leave the id alone are set on a node.
LEMMA NodeSet ==
  ASSUME NEW n, NEW r, RowFit("nodes", n, r), NEW f, DOMAIN f \subseteq NodeColumns \ {"id"}
  PROVE  RowFit("nodes", n, f ++ r)
<1>. DEFINE h == f ++ r
<1>1. DOMAIN h = DOMAIN f \cup DOMAIN r /\ \A x \in DOMAIN h : h[x] = IF x \in DOMAIN f THEN f[x] ELSE r[x]
  BY DEF ++
<1>. HIDE DEF h
<1>2. RowFit("nodes", n, h)
  BY <1>1 DEF RowFit
<1>. QED BY <1>2 DEF h

\* A handler keeps the tables fitting.
LEMMA HandledFits ==
  ASSUME TablesFit(srv), NEW i, NEW c \in Commands
  PROVE  TablesFit(Handled(i, c))
<1>0. /\ c.verb \in {"create", "checkOff", "uncheck", "delete", "createRule"} /\ (c.verb = "createRule" => RuleRow(c.rule))
      /\ "nodes" \in Tables /\ "automation_rules" \in Tables
  BY AutomationAssumption DEF Tables
<1>1. TableFit("nodes", srv["nodes"]) /\ TableFit("automation_rules", srv["automation_rules"]) /\ DOMAIN srv = Tables
  BY <1>0 DEF TablesFit
<1>2. CASE c.verb = "create"
  <2>. DEFINE r == NewTask(c, Now) ++ Stamped(i)
              rows == Put(srv["nodes"], c.node, r)
  <2>1. RowFit("nodes", c.node, r)
    <3>1. DOMAIN r = DOMAIN NewTask(c, Now) \cup {"stamp", "live"} /\ r["id"] = c.node
      BY DEF ++, Stamped, NewTask
    <3>2. DOMAIN NewTask(c, Now) \subseteq NodeColumns /\ "id" \in DOMAIN NewTask(c, Now)
      BY DEF NewTask, NodeColumns
    <3>. HIDE DEF r
    <3>. QED BY <3>1, <3>2 DEF RowFit, NodeColumns
  <2>. HIDE DEF r
  <2>2. TableFit("nodes", rows)
    BY <1>1, <2>1, RowPut
  <2>3. Handled(i, c) = [srv EXCEPT !["nodes"] = rows]
    BY <1>2 DEF Handled, r
  <2>. HIDE DEF rows
  <2>4. TablesFit([srv EXCEPT !["nodes"] = rows])
    BY <1>0, <2>2, TableReplaced
  <2>. QED BY <2>3, <2>4
<1>3. CASE c.verb \in {"checkOff", "uncheck"}
  <2>. DEFINE rows == [srv["nodes"] EXCEPT ![c.node] = Columns(c, i) ++ [stamp |-> i] ++ @]
              f == Columns(c, i) ++ [stamp |-> i]
  <2>1. DOMAIN rows = DOMAIN srv["nodes"]
        /\ \A n \in DOMAIN rows : rows[n] = IF n = c.node THEN f ++ srv["nodes"][n] ELSE srv["nodes"][n]
    OBVIOUS
  <2>2. DOMAIN f \subseteq NodeColumns \ {"id"}
    BY DEF ++, Columns, NodeColumns
  <2>3. Handled(i, c) = [srv EXCEPT !["nodes"] = rows]
    BY <1>3 DEF Handled
  <2>. HIDE DEF rows, f
  <2>4. \A n \in DOMAIN srv["nodes"] : RowFit("nodes", n, srv["nodes"][n])
    BY <1>1 DEF TableFit
  <2>5. TableFit("nodes", rows)
    BY <1>1, <2>1, <2>2, <2>4, NodeSet DEF TableFit
  <2>6. TablesFit([srv EXCEPT !["nodes"] = rows])
    BY <1>0, <2>5, TableReplaced
  <2>. QED BY <2>3, <2>6
<1>4. CASE c.verb = "delete"
  <2>. DEFINE old == srv["nodes"]
              f == [live |-> FALSE, stamp |-> i]
              rows == [n \in DOMAIN old |-> IF n \in Subtree(Live(old), c.node) THEN f ++ old[n] ELSE old[n]]
  <2>1. Handled(i, c) = [srv EXCEPT !["nodes"] = rows]
    BY <1>4 DEF Handled
  <2>2. DOMAIN f \subseteq NodeColumns \ {"id"}
    BY DEF NodeColumns
  <2>3. \A n \in DOMAIN old : RowFit("nodes", n, old[n])
    BY <1>1 DEF TableFit
  <2>. HIDE DEF f
  <2>4. TableFit("nodes", rows)
    BY <1>1, <2>2, <2>3, NodeSet DEF TableFit
  <2>. HIDE DEF rows
  <2>5. TablesFit([srv EXCEPT !["nodes"] = rows])
    BY <1>0, <2>4, TableReplaced
  <2>. QED BY <2>1, <2>5
<1>5. CASE c.verb = "createRule"
  <2>. DEFINE r == c.rule ++ Stamped(i)
              rows == Put(srv["automation_rules"], c.rule.id, r)
  <2>1. RowFit("automation_rules", c.rule.id, r)
    BY <1>0, <1>5 DEF RowFit, RuleRow, ++
  <2>. HIDE DEF r
  <2>2. TableFit("automation_rules", rows)
    BY <1>1, <2>1, RowPut
  <2>3. Handled(i, c) = [srv EXCEPT !["automation_rules"] = rows]
    BY <1>5 DEF Handled, r
  <2>. HIDE DEF rows
  <2>4. TablesFit([srv EXCEPT !["automation_rules"] = rows])
    BY <1>0, <2>2, TableReplaced
  <2>. QED BY <2>3, <2>4
<1>. QED BY <1>0, <1>2, <1>3, <1>4, <1>5

\* What a run makes of fitting tables.
LEMMA OutcomeMade ==
  ASSUME NEW s, TablesFit(s), NEW trigger
  PROVE  Made(Outcome(s, trigger))
<1>1. TableFit("automation_rules", Live(s["automation_rules"]))
  BY LiveFits DEF Tables
<1>2. RulesOK(Range(Live(s["automation_rules"])))
  BY <1>1, RulesOf DEF TableFit, RowFit
<1>. QED BY <1>2, RunFits DEF Outcome

\* Rows that were not there are laid beneath a table.
LEMMA RowsAdded ==
  ASSUME NEW t, NEW rows, TableFit(t, rows), NEW more, TableFit(t, more)
  PROVE  TableFit(t, rows ++ more)
<1>. DEFINE h == rows ++ more
<1>1. DOMAIN h = DOMAIN rows \cup DOMAIN more /\ \A x \in DOMAIN h : h[x] = IF x \in DOMAIN rows THEN rows[x] ELSE more[x]
  BY DEF ++
<1>2. IsFiniteSet(DOMAIN rows \cup DOMAIN more)
  BY FS_Union DEF TableFit
<1>. HIDE DEF h
<1>3. TableFit(t, h)
  BY <1>1, <1>2 DEF TableFit
<1>. QED BY <1>3 DEF h

\* The tables after the automation fit.
LEMMA InsertedFits ==
  ASSUME NEW s, TablesFit(s), NEW out, Made(out), NEW i
  PROVE  TablesFit(Inserted(s, out, i))
<1>. DEFINE moreNodes == [n \in KeptNodes(Live(s["nodes"]), out) |-> [id |-> n] ++ out.nodes[n] ++ Stamped(i)]
            moreEdges == [e \in KeptEdges(Live(s["nodes"]), out) |-> out.edges[e] ++ Stamped(i)]
            nodes == s["nodes"] ++ moreNodes
            edges == s["edges"] ++ moreEdges
<1>1. Inserted(s, out, i) = [[s EXCEPT !["nodes"] = nodes] EXCEPT !["edges"] = edges]
  BY DEF Inserted, TablesFit, Tables
<1>2. IsFiniteSet(KeptNodes(Live(s["nodes"]), out)) /\ IsFiniteSet(KeptEdges(Live(s["nodes"]), out))
  BY KeptMade, FS_Subset DEF Made, TableFit
<1>3. TableFit("nodes", moreNodes)
  <2>1. ASSUME NEW n \in KeptNodes(Live(s["nodes"]), out) PROVE RowFit("nodes", n, moreNodes[n])
    <3>. DEFINE r == [id |-> n] ++ out.nodes[n] ++ Stamped(i)
    <3>1. DOMAIN out.nodes[n] \subseteq NodeColumns
      BY KeptMade DEF Made
    <3>2. DOMAIN r = {"id"} \cup DOMAIN out.nodes[n] \cup {"stamp", "live"} /\ r["id"] = n
      BY DEF ++, Stamped
    <3>3. moreNodes[n] = r
      OBVIOUS
    <3>. HIDE DEF r, moreNodes
    <3>. QED BY <3>1, <3>2, <3>3 DEF RowFit, NodeColumns
  <2>. QED BY <1>2, <2>1 DEF TableFit
<1>4. TableFit("edges", moreEdges)
  <2>1. ASSUME NEW e \in KeptEdges(Live(s["nodes"]), out) PROVE RowFit("edges", e, moreEdges[e])
    <3>. DEFINE r == out.edges[e] ++ Stamped(i)
    <3>1. RowFit("edges", e, out.edges[e])
      BY KeptMade DEF Made, TableFit
    <3>2. DOMAIN r = DOMAIN out.edges[e] \cup {"stamp", "live"} /\ \A x \in DOMAIN out.edges[e] : r[x] = out.edges[e][x]
      BY DEF ++, Stamped
    <3>3. moreEdges[e] = r
      OBVIOUS
    <3>. HIDE DEF r, moreEdges
    <3>. QED BY <3>1, <3>2, <3>3 DEF RowFit, EdgeColumns, EdgeMarks
  <2>. QED BY <1>2, <2>1 DEF TableFit
<1>. HIDE DEF moreNodes, moreEdges
<1>5. TableFit("nodes", nodes) /\ TableFit("edges", edges)
  BY <1>3, <1>4, RowsAdded DEF TablesFit, Tables
<1>. HIDE DEF nodes, edges
<1>6. TablesFit([s EXCEPT !["nodes"] = nodes])
  BY <1>5, TableReplaced DEF Tables
<1>7. TablesFit([[s EXCEPT !["nodes"] = nodes] EXCEPT !["edges"] = edges])
  BY <1>5, <1>6, TableReplaced DEF Tables
<1>. QED BY <1>1, <1>7

\* An effect that is moved to another row fits.
LEMMA MovedFit ==
  ASSUME NEW e, EffectFit(e), NEW id
  PROVE  EffectFit(MovedTo(e, id))
<1>. DEFINE m == MovedTo(e, id)
            h == [id |-> id] ++ e.fields
<1>1. CASE id = e.id
  BY <1>1 DEF MovedTo
<1>2. CASE id # e.id
  <2>1. /\ DOMAIN m = DOMAIN e
        /\ m.table = e.table /\ m.id = id /\ m.op = "update" /\ m.fields = h
    BY <1>2 DEF MovedTo, EffectFit
  <2>2. DOMAIN h = {"id"} \cup DOMAIN e.fields /\ \A x \in DOMAIN h : h[x] = IF x = "id" THEN id ELSE e.fields[x]
    BY DEF ++
  <2>. HIDE DEF m, h
  <2>3. RowFit(e.table, id, h)
    <3>1. CASE e.op = "delete"
      BY <2>2, <3>1 DEF EffectFit, RowFit, NodeColumns
    <3>2. CASE e.op # "delete"
      <4>1. RowFit(e.table, e.id, e.fields)
        BY <3>2 DEF EffectFit
      <4>2. e.table = "nodes" => DOMAIN h \subseteq NodeColumns /\ "id" \in DOMAIN h /\ h["id"] = id
        BY <2>2, <4>1 DEF RowFit, NodeColumns
      <4>3. e.table = "edges" => EdgeColumns \subseteq DOMAIN h /\ DOMAIN h \subseteq EdgeColumns \cup EdgeMarks /\ h["id"] = id
        BY <2>2, <4>1 DEF RowFit, EdgeColumns
      <4>4. e.table = "automation_rules" => RuleRow(h)
        BY <2>2, <4>1 DEF RowFit, RuleRow
      <4>. QED BY <4>2, <4>3, <4>4 DEF RowFit
    <3>. QED BY <3>1, <3>2
  <2>4. EffectFit(m)
    BY <2>1, <2>3 DEF EffectFit
  <2>. QED BY <2>4 DEF m
<1>. QED BY <1>1, <1>2

\* Fewer effects fit.
LEMMA EffectsLess ==
  ASSUME NEW A, OverlayFits(A), NEW B \in SUBSET A
  PROVE  OverlayFits(B)
  BY FS_Subset DEF OverlayFits

\* The effects after an answer fit.
LEMMA MovedFits ==
  ASSUME OverlayFits(overlay), NEW i, NEW answer, NEW o \in Moved(i, answer)
  PROVE  OverlayFits(o)
<1>. DEFINE mine  == OfCommand(overlay, i)
            alone == {e \in mine : \A x \in mine : x.table = e.table => x = e}
<1>1. PICK to : o = (overlay \ alone) \cup {MovedTo(e, to[e]) : e \in alone}
  BY DEF Moved
<1>2. alone \in SUBSET overlay /\ overlay \ alone \in SUBSET overlay
  BY DEF OfCommand
<1>. HIDE DEF alone
<1>. DEFINE f == [e \in alone |-> MovedTo(e, to[e])]
<1>3. {MovedTo(e, to[e]) : e \in alone} = Range(f)
  BY DEF Range
<1>4. IsFiniteSet(DOMAIN f)
  BY <1>2, FS_Subset DEF OverlayFits
<1>5. \A e \in DOMAIN f : EffectFit(f[e])
  BY <1>2, MovedFit DEF OverlayFits
<1>. HIDE DEF f
<1>6. OverlayFits(Range(f))
  BY <1>4, <1>5, EffectsOf
<1>7. OverlayFits(overlay \ alone)
  BY <1>2, EffectsLess
<1>. QED BY <1>1, <1>3, <1>6, <1>7, EffectsAdded

\* A command that changes its status stays the command it was.
LEMMA StatusSet ==
  ASSUME CommandsFit, NEW i \in DOMAIN commands, NEW s \in {"pending", "applied", "rejected", "cleared"},
         commands' = [commands EXCEPT ![i].status = s]
  PROVE  CommandsFit'
<1>. DEFINE C == [cmd : Commands, status : {"pending", "applied", "rejected", "cleared"}]
<1>1. commands \in Seq(C)
  BY DEF CommandsFit
<1>2. i \in 1 .. Len(commands) /\ commands[i] \in C
  <2>. HIDE DEF C
  <2>1. i \in 1 .. Len(commands)
    BY <1>1, LenProperties
  <2>. QED BY <1>1, <2>1, ElementOfSeq
<1>3. [commands[i] EXCEPT !.status = s] \in C
  BY <1>2
<1>4. commands' = [commands EXCEPT ![i] = [commands[i] EXCEPT !.status = s]]
  OBVIOUS
<1>. HIDE DEF C
<1>5. commands' \in Seq(C)
  BY <1>1, <1>2, <1>3, <1>4, ExceptSeq
<1>. QED BY <1>5 DEF CommandsFit, C

\* The tables after the automation of a command fit.
LEMMA AutomatedFits ==
  ASSUME NEW s, TablesFit(s), NEW runs, NEW i
  PROVE  TablesFit(Automated(s, runs, i).tables)
<1>1. CASE runs = {}
  BY <1>1 DEF Automated
<1>2. CASE runs # {}
  <2>. DEFINE out == Outcome(s, CHOOSE x \in runs : TRUE)
  <2>1. Automated(s, runs, i).tables = Inserted(s, out, i)
    BY <1>2 DEF Automated
  <2>2. TablesFit(Inserted(s, out, i))
    BY OutcomeMade, InsertedFits
  <2>. QED BY <2>1, <2>2
<1>. QED BY <1>1, <1>2

\* Serve keeps rows and effects fitting.
LEMMA ServeFits ==
  ASSUME RowsAllFit, Serve
  PROVE  RowsAllFit'
<1>1. PICK i \in DOMAIN commands :
        LET c == commands[i].cmd IN
        \/ /\ commands' = [commands EXCEPT ![i].status = "rejected"]
           /\ overlay' = {e \in overlay : e.command # i}
           /\ srv' = srv
        \/ /\ commands' = [commands EXCEPT ![i].status = "applied"]
           /\ \E done \in {Handled(i, c)} : \E after \in {Automated(done, Fired(c, done), i)} :
                srv' = after.tables /\ overlay' \in Moved(i, Answered(c, srv, srv'))
  BY DEF Serve
<1>2. UNCHANGED <<replica, facts>>
  BY DEF Serve
<1>3. CommandsFit'
  BY <1>1, StatusSet DEF RowsAllFit
<1>. DEFINE c == commands[i].cmd
<1>4. c \in Commands
  <2>. DEFINE C == [cmd : Commands, status : {"pending", "applied", "rejected", "cleared"}]
  <2>1. commands \in Seq(C)
    BY DEF RowsAllFit, CommandsFit
  <2>. HIDE DEF C
  <2>2. i \in 1 .. Len(commands)
    BY <2>1, LenProperties
  <2>3. commands[i] \in C
    BY <2>1, <2>2, ElementOfSeq
  <2>. QED BY <2>3 DEF C, c
<1>. HIDE DEF c
<1>5. CASE /\ overlay' = {e \in overlay : e.command # i}
           /\ srv' = srv
  <2>1. OverlayFits(overlay')
    BY <1>5, EffectsLess DEF RowsAllFit
  <2>. QED BY <1>2, <1>3, <1>5, <2>1 DEF RowsAllFit
<1>6. CASE \E done \in {Handled(i, c)} : \E after \in {Automated(done, Fired(c, done), i)} :
             srv' = after.tables /\ overlay' \in Moved(i, Answered(c, srv, srv'))
  <2>. DEFINE done == Handled(i, c)
  <2>1. TablesFit(done)
    BY <1>4, HandledFits DEF RowsAllFit
  <2>2. srv' = Automated(done, Fired(c, done), i).tables /\ overlay' \in Moved(i, Answered(c, srv, srv'))
    BY <1>6
  <2>. HIDE DEF done
  <2>3. TablesFit(srv')
    BY <2>1, <2>2, AutomatedFits
  <2>4. OverlayFits(overlay')
    BY <2>2, MovedFits DEF RowsAllFit
  <2>. QED BY <1>2, <1>3, <2>3, <2>4 DEF RowsAllFit
<1>. QED BY <1>1, <1>5, <1>6 DEF c

\* Backstop keeps the tables fitting.
LEMMA BackstopFits ==
  ASSUME RowsAllFit, Backstop
  PROVE  RowsAllFit' /\ UNCHANGED <<replica, overlay, facts, engine>>
<1>1. UNCHANGED <<replica, commands, overlay, facts, engine>>
  BY DEF Backstop
<1>2. srv' = srv \/ \E trigger : srv' = Inserted(srv, Outcome(srv, trigger), None)
  BY DEF Backstop
<1>3. TablesFit(srv')
  BY <1>2, OutcomeMade, InsertedFits DEF RowsAllFit
<1>. QED BY <1>1, <1>3 DEF RowsAllFit, CommandsFit

\* Download keeps the replica fitting.
LEMMA DownloadFits ==
  ASSUME RowsAllFit, Download
  PROVE  RowsAllFit'
<1>1. TablesFit(replica')
  BY LiveFits DEF Download, RowsAllFit
<1>2. UNCHANGED <<srv, commands, overlay, facts>>
  BY DEF Download
<1>. QED BY <1>1, <1>2 DEF RowsAllFit, CommandsFit

\* Reconcile keeps the effects fitting.
LEMMA ReconcileFits ==
  ASSUME RowsAllFit, Reconcile
  PROVE  RowsAllFit'
<1>1. PICK i \in DOMAIN commands :
        /\ commands' = [commands EXCEPT ![i].status = "cleared"]
        /\ overlay' \subseteq overlay
  BY DEF Reconcile
<1>2. CommandsFit'
  BY <1>1, StatusSet DEF RowsAllFit
<1>3. OverlayFits(overlay')
  BY <1>1, EffectsLess DEF RowsAllFit
<1>4. UNCHANGED <<srv, replica, facts>>
  BY DEF Reconcile
<1>. QED BY <1>2, <1>3, <1>4 DEF RowsAllFit

\* Arrive keeps the facts fitting, and the settings once they are there.
LEMMA ArriveFits ==
  ASSUME RowsAllFit, Arrive
  PROVE  RowsAllFit' /\ (facts'["user_settings"] = None => facts["user_settings"] = None)
<1>1. PICK a \in Arrivals :
        facts' = [facts EXCEPT ![a.table] =
                    IF a.table = "user_settings" THEN a.row
                    ELSE IF a.row = None THEN Without(@, a.id) ELSE Put(@, a.id, a.row)]
  BY DEF Arrive
<1>2. UNCHANGED <<srv, replica, commands, overlay>>
  BY DEF Arrive
<1>3. \/ a.table = "user_settings" /\ a.row # None
      \/ a.table \in OtherTables /\ (a.row # None => a.row.id = a.id)
  BY AutomationAssumption
<1>4. DOMAIN facts = AllTables /\ \A t \in OtherTables :
        /\ IsFiniteSet(DOMAIN facts[t]) /\ facts[t] = [i \in DOMAIN facts[t] |-> facts[t][i]]
        /\ \A i \in DOMAIN facts[t] : facts[t][i] \in FactRows(t) /\ facts[t][i].id = i
  BY DEF RowsAllFit, FactsFit
<1>5. "user_settings" \in AllTables /\ "user_settings" \notin OtherTables /\ OtherTables \subseteq AllTables
  BY DEF AllTables, OtherTables, SharedTables
<1>6. CASE a.table = "user_settings" /\ a.row # None
  <2>1. /\ DOMAIN facts' = AllTables /\ facts'["user_settings"] = a.row
        /\ \A t \in OtherTables : facts'[t] = facts[t]
    BY <1>1, <1>4, <1>5, <1>6
  <2>2. FactsFit(facts')
    BY <1>4, <2>1 DEF FactsFit
  <2>. QED BY <1>2, <1>6, <2>1, <2>2 DEF RowsAllFit, CommandsFit
<1>7. CASE a.table \in OtherTables /\ (a.row # None => a.row.id = a.id)
  <2>. DEFINE k == a.table
              old == facts[k]
              new == IF a.row = None THEN Without(old, a.id) ELSE Put(old, a.id, a.row)
  <2>1. /\ DOMAIN facts' = AllTables /\ facts'[k] = new /\ facts'["user_settings"] = facts["user_settings"]
        /\ \A t \in OtherTables : t # k => facts'[t] = facts[t]
    BY <1>1, <1>4, <1>5, <1>7
  <2>2. IsFiniteSet(DOMAIN old) /\ \A i \in DOMAIN old : old[i] \in FactRows(k) /\ old[i].id = i
    BY <1>4, <1>7
  <2>3. a.row # None => a.row \in FactRows(k)
    BY DEF FactRows
  <2>. HIDE DEF old
  <2>4. IsFiniteSet(DOMAIN new) /\ new = [i \in DOMAIN new |-> new[i]]
        /\ \A i \in DOMAIN new : new[i] \in FactRows(k) /\ new[i].id = i
    <3>1. CASE a.row = None
      <4>1. DOMAIN new = DOMAIN old \ {a.id} /\ new = [i \in DOMAIN new |-> new[i]]
            /\ \A i \in DOMAIN new : new[i] = old[i]
        BY <3>1 DEF Without, Restrict
      <4>2. IsFiniteSet(DOMAIN old \ {a.id})
        BY <2>2, FS_RemoveElement
      <4>. HIDE DEF new
      <4>. QED BY <2>2, <4>1, <4>2
    <3>2. CASE a.row # None
      <4>1. DOMAIN new = DOMAIN old \cup {a.id} /\ new = [i \in DOMAIN new |-> new[i]]
            /\ \A i \in DOMAIN new : new[i] = IF i = a.id THEN a.row ELSE old[i]
        BY <3>2 DEF Put
      <4>2. IsFiniteSet(DOMAIN old \cup {a.id})
        BY <2>2, FS_AddElement
      <4>. HIDE DEF new
      <4>. QED BY <1>7, <2>2, <2>3, <3>2, <4>1, <4>2
    <3>. QED BY <3>1, <3>2
  <2>. HIDE DEF new
  <2>5. FactsFit(facts')
    BY <1>4, <2>1, <2>4 DEF FactsFit
  <2>. QED BY <1>2, <2>1, <2>5 DEF RowsAllFit, CommandsFit
<1>. QED BY <1>3, <1>6, <1>7

\* At first the rows fit, and the engine is seeded with them.
LEMMA FollowsAtFirst ==
  ASSUME Init
  PROVE  EngineFollows
<1>1. TablesFit(InitTables)
  <2>1. TableFit("nodes", InitTables["nodes"])
    <3>1. ASSUME NEW n \in DOMAIN InitNodes PROVE RowFit("nodes", n, InitTables["nodes"][n])
      <4>. DEFINE r == [id |-> n, live |-> TRUE, stamp |-> None] ++ InitNodes[n]
      <4>1. DOMAIN r = {"id", "live", "stamp"} \cup DOMAIN InitNodes[n] /\ r["id"] = n
        BY DEF ++
      <4>2. DOMAIN InitNodes[n] \subseteq NodeColumns
        BY AutomationAssumption
      <4>3. InitTables["nodes"][n] = r
        BY DEF InitTables
      <4>. HIDE DEF r
      <4>. QED BY <4>1, <4>2, <4>3 DEF RowFit, NodeColumns
    <3>2. DOMAIN InitTables["nodes"] = DOMAIN InitNodes
      BY DEF InitTables
    <3>. QED BY <3>1, <3>2, AutomationAssumption DEF TableFit
  <2>2. TableFit("edges", InitTables["edges"])
    <3>1. InitTables["edges"] = << >>
      BY DEF InitTables
    <3>. QED BY <3>1, FS_EmptySet DEF TableFit
  <2>3. TableFit("automation_rules", InitTables["automation_rules"])
    <3>1. ASSUME NEW n \in DOMAIN InitRules PROVE RowFit("automation_rules", n, InitTables["automation_rules"][n])
      <4>. DEFINE r == InitRules[n] ++ Stamped(None)
      <4>1. DOMAIN InitRules[n] \subseteq DOMAIN r /\ \A x \in DOMAIN InitRules[n] : r[x] = InitRules[n][x]
        BY DEF ++
      <4>2. RuleRow(InitRules[n])
        BY AutomationAssumption
      <4>3. InitTables["automation_rules"][n] = r
        BY DEF InitTables
      <4>. HIDE DEF r
      <4>. QED BY <4>1, <4>2, <4>3 DEF RowFit, RuleRow
    <3>2. DOMAIN InitTables["automation_rules"] = DOMAIN InitRules
      BY DEF InitTables
    <3>. QED BY <3>1, <3>2, AutomationAssumption DEF TableFit
  <2>4. DOMAIN InitTables = Tables
    BY DEF InitTables, Tables
  <2>. QED BY <2>1, <2>2, <2>3, <2>4 DEF TablesFit, Tables
<1>2. TablesFit(LiveRows(InitTables))
  BY <1>1, LiveFits
<1>3. OverlayFits({})
  BY FS_EmptySet DEF OverlayFits
<1>4. FactsFit(FactsAtFirst)
  <2>1. DOMAIN InitFacts \subseteq OtherTables
    BY AutomationAssumption
  <2>2. DOMAIN FactsAtFirst = AllTables
    BY <2>1 DEF FactsAtFirst, ++, NoRows, AllTables, OtherTables
  <2>3. ASSUME NEW t \in OtherTables PROVE FactsAtFirst[t] = At(InitFacts, t, << >>)
    <3>1. t \in SharedTables
      BY DEF OtherTables
    <3>. QED BY <3>1 DEF FactsAtFirst, ++, NoRows, At
  <2>4. ASSUME NEW t \in OtherTables
        PROVE  LET f == FactsAtFirst[t]
               IN  /\ IsFiniteSet(DOMAIN f) /\ f = [i \in DOMAIN f |-> f[i]]
                   /\ \A i \in DOMAIN f : f[i] \in FactRows(t) /\ f[i].id = i
    <3>1. CASE t \in DOMAIN InitFacts
      <4>1. FactsAtFirst[t] = InitFacts[t] /\ At(InitFacts, t, << >>) = InitFacts[t]
        BY <2>3, <3>1 DEF At
      <4>2. \A i \in DOMAIN InitFacts[t] : InitFacts[t][i] \in FactRows(t)
        BY <4>1 DEF FactRows, Range
      <4>. QED BY <3>1, <4>1, <4>2, AutomationAssumption
    <3>2. CASE t \notin DOMAIN InitFacts
      <4>1. FactsAtFirst[t] = << >>
        BY <2>3, <3>2 DEF At
      <4>. QED BY <4>1, FS_EmptySet
    <3>. QED BY <3>1, <3>2
  <2>. QED BY <2>2, <2>4 DEF FactsFit
<1>5. CommandsFit
  BY EmptySeq DEF Init, CommandsFit
<1>6. RowsAllFit
  BY <1>1, <1>2, <1>3, <1>4, <1>5 DEF Init, RowsAllFit
<1>. DEFINE R == SharedRows(replica, overlay, facts)
<1>7. engine = Seed(R)
  BY DEF Init
<1>8. Sound(R)
  BY <1>6, SharedSound DEF RowsAllFit
<1>. HIDE DEF R
<1>9. Seed(R).rows = R /\ Reflects(Seed(R).index, R)
  BY <1>8, SeedReflects
<1>. QED BY <1>6, <1>7, <1>8, <1>9 DEF EngineFollows, Reflecting, R

\* Every step keeps the invariant.
LEMMA FollowsOn ==
  ASSUME EngineFollows, [Next]_vars
  PROVE  EngineFollows'
<1>0. RowsAllFit
  BY DEF EngineFollows
<1>1. CASE Execute
  <2>1. RowsAllFit' /\ Follow /\ facts' = facts
    BY <1>0, <1>1, ExecuteFits DEF Execute
  <2>. QED BY <2>1, FollowKeeps
<1>2. CASE Serve
  <2>1. RowsAllFit' /\ Follow /\ facts' = facts
    BY <1>0, <1>2, ServeFits DEF Serve
  <2>. QED BY <2>1, FollowKeeps
<1>3. CASE Backstop
  <2>1. RowsAllFit' /\ UNCHANGED <<replica, overlay, facts, engine>>
    BY <1>0, <1>3, BackstopFits
  <2>. QED BY <2>1 DEF EngineFollows, Reflecting
<1>4. CASE Download
  <2>1. RowsAllFit' /\ Follow /\ facts' = facts
    BY <1>0, <1>4, DownloadFits DEF Download
  <2>. QED BY <2>1, FollowKeeps
<1>5. CASE Reconcile
  <2>1. RowsAllFit' /\ Follow /\ facts' = facts
    BY <1>0, <1>5, ReconcileFits DEF Reconcile
  <2>. QED BY <2>1, FollowKeeps
<1>6. CASE Arrive
  <2>1. RowsAllFit' /\ Follow /\ (facts'["user_settings"] = None => facts["user_settings"] = None)
    BY <1>0, <1>6, ArriveFits DEF Arrive
  <2>. QED BY <2>1, FollowKeeps
<1>7. CASE UNCHANGED vars
  BY <1>7 DEF vars, EngineFollows, RowsAllFit, CommandsFit, Reflecting
<1>. QED BY <1>1, <1>2, <1>3, <1>4, <1>5, <1>6, <1>7 DEF Next

\* The engine keeps up with every step of the device and the server: after each of
\* them the rows it reflects are the merged rows, and its index, which `applyMutation`
\* and `maintain` change one effect at a time, holds what those rows give.
THEOREM EngineKeepsUp == Spec => []EngineFollows
<1>1. Init => EngineFollows
  BY FollowsAtFirst
<1>2. EngineFollows /\ [Next]_vars => EngineFollows'
  BY FollowsOn
<1>. QED BY <1>1, <1>2, PTL DEF Spec

\* What the invariant says of the answers.
LEMMA FollowsAgrees ==
  ASSUME EngineFollows
  PROVE  IndexAgrees
<1>1. engine.rows = SharedRows(replica, overlay, facts) /\ Sound(engine.rows) /\ Reflects(engine.index, engine.rows)
  BY DEF EngineFollows, Reflecting
<1>2. Agrees(engine.index, engine.rows)
  BY <1>1, ReflectsAgrees
<1>. QED BY <1>1, <1>2 DEF IndexAgrees

\* The index answers every question of the status and the predicates as facts
\* built afresh from the merged rows would: the StatusIndex is kept up one effect
\* at a time and is never rebuilt.
THEOREM AnswersAgree == Spec => []IndexAgrees
<1>1. EngineFollows => IndexAgrees
  BY FollowsAgrees
<1>. QED BY <1>1, EngineKeepsUp, PTL
=============================================================================
