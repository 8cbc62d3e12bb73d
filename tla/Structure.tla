----------------------------- MODULE Structure -----------------------------
(***************************************************************************)
(* The verbs that shape a user's tree and dependency graph on the server of  *)
(* Prisms (apps/server/src/dispatcher.ts, runHandler): node.create,          *)
(* node.move, node.retype, activity.promote, node.soft_delete, edge.create   *)
(* and edge.delete, for requests that run side by side.                      *)
(*                                                                          *)
(* A command reads (its row, the context its request has cached) and later   *)
(* commits; between the two another request may commit.  ServerTxn has the   *)
(* statements and locks within a command; here they are these two steps.     *)
(* Commands arrive in an order of their own, whatever their HLCs say.        *)
(***************************************************************************)
EXTENDS Hierarchy, DepGraph

CONSTANTS
  Nodes,       \* node ids, numbers
  EdgeIds,     \* edge ids
  Habits,      \* habits of the user
  Commands,    \* the payloads devices may send, see Command
  InitNodes,   \* the rows before the run, a function from node ids
  Requests,    \* bound: the uploads of a run
  MaxCommands  \* bound: the commands of a run, their HLCs are 1 .. MaxCommands

Ids == Nodes \cup {None}

NodeRow == [type : NodeTypes, parent : Ids, habit : Habits \cup {None}, live : BOOLEAN]

Command ==
  [verb : {"create"},  node : Nodes, type : NodeTypes, parent : Ids, habit : Habits \cup {None}]
  \cup [verb : {"move"},    node : Nodes, parent : Ids]
  \cup [verb : {"retype"},  node : Nodes, type : NodeTypes]
  \cup [verb : {"promote"}, node : Nodes, parent : Ids, habit : Habits \cup {None}]
  \cup [verb : {"delete"},  node : Nodes]
  \cup [verb : {"link"},    edge : EdgeIds, pred : Nodes, succ : Nodes]
  \cup [verb : {"unlink"},  edge : EdgeIds]

Columns == {"type", "parent", "habit"}

ASSUME StructureAssumption ==
  /\ Nodes \subseteq Nat \ {0} /\ None = 0
  /\ IsFiniteSet(Nodes) /\ IsFiniteSet(EdgeIds)
  /\ Commands \subseteq Command
  /\ DOMAIN InitNodes \subseteq Nodes /\ InitNodes \in [DOMAIN InitNodes -> NodeRow]
  /\ MaxCommands \in Nat /\ MaxVisions \in Nat

\* I1 of every node, I2 and I3 of a tree.
HierarchyHolds(t) ==
  /\ \A n \in DOMAIN t : ValidParent(t, t[n].type, t[n].parent)
  /\ Cardinality({n \in DOMAIN t : t[n].type = "vision"}) <= MaxVisions

JustificationHolds(t) ==
  \A n \in DOMAIN t : TaskJustified(t, t[n].type, t[n].parent, t[n].habit)

\* Every walk up the parents of these rows ends.
ParentsEnd(R) == \A S \in SUBSET DOMAIN R : S # {} => \E n \in S : R[n].parent \notin S

\* The rows before the run are a tree the verbs can have made.
ASSUME InitialTree ==
  /\ HierarchyHolds(TreeIndex(InitNodes))
  /\ JustificationHolds(TreeIndex(InitNodes))
  /\ ParentsEnd(InitNodes)

VARIABLES
  rows,       \* the nodes table: node ids to NodeRow
  edges,      \* the edges table: edge ids to [pred, succ, live]
  version,    \* command_field_versions of the nodes: the HLC of the last writer
  \* --- each request
  open,       \* under way
  tree,       \* BatchContext.treeP, {} or {index}
  graph,      \* BatchContext.edgeIndexP, {} or {index}
  cur,        \* the command that has read and not committed, {} or {[cmd, hlc, ok]}
  \* --- the run
  minted,     \* the HLCs used
  overlapped, \* history: two requests have been under way at once
  split       \* history: an update of several columns won some and lost some

request == <<open, tree, graph, cur>>
vars == <<rows, edges, version, request, minted, overlapped, split>>

LiveEdges == {edges[e] : e \in {x \in DOMAIN edges : edges[x].live}}

Init ==
  /\ rows = InitNodes
  /\ edges = << >>
  /\ version = [n \in Nodes |-> [c \in Columns |-> 0]]
  /\ open = {}
  /\ tree = [q \in Requests |-> {}]
  /\ graph = [q \in Requests |-> {}]
  /\ cur = [q \in Requests |-> {}]
  /\ minted = {}
  /\ overlapped = FALSE
  /\ split = FALSE

Only(S) == CHOOSE x \in S : TRUE

\* What the request sees of the tree and the graph: the memo, or the tables now.
SeenTree(q)  == IF tree[q] = {} THEN TreeIndex(rows) ELSE Only(tree[q])
SeenGraph(q) == IF graph[q] = {} THEN LiveEdges ELSE Only(graph[q])

\* convergeOrOwn: the row is there already, the command has nothing to do.
Converged(c) ==
  \/ c.verb = "create" /\ c.node \in DOMAIN rows
  \/ c.verb = "link" /\ c.edge \in DOMAIN edges

\* ownershipReject: an update or a delete needs its row, deleted or not.
Found(c) ==
  /\ c.verb \in {"move", "retype", "promote", "delete"} => c.node \in DOMAIN rows
  /\ c.verb = "unlink" => c.edge \in DOMAIN edges

\* The handler gets as far as to look at the tree.
ReadsTree(c) == ~Converged(c) /\ Found(c) /\ c.verb # "unlink"

\* The checks the handler makes before it writes, on what it sees.
Accepted(q, c) ==
  LET t == SeenTree(q) IN
  CASE c.verb = "create"  -> CheckNodeCreate(t, c.type, c.parent, c.habit)
    [] c.verb = "move"    -> CheckNodeMove(t, c.node, c.parent)
    [] c.verb = "retype"  -> CheckNodeRetype(t, c.node, c.type)
    [] c.verb = "promote" -> CheckPromote(t, c.node, c.parent, c.habit)
    [] c.verb = "link"    -> ValidEdge(t, SeenGraph(q), c.pred, c.succ)
    [] OTHER -> TRUE

\* What the handler makes of the command: nothing to do, a rejection, or writes.
Verdict(q, c) ==
  IF Converged(c) THEN "converged"
  ELSE IF Found(c) /\ Accepted(q, c) THEN "write" ELSE "rejected"

-----------------------------------------------------------------------------
\* POST /sync/upload, with a fresh BatchContext.
Open(q) ==
  /\ q \notin open
  /\ Cardinality(minted) < MaxCommands
  /\ open' = open \cup {q}
  /\ overlapped' = (overlapped \/ open # {})
  /\ UNCHANGED <<rows, edges, version, tree, graph, cur, minted, split>>

\* The next command of the batch: its reads and its checks.  Its HLC is any
\* that is not used.
Read(q) ==
  /\ q \in open /\ cur[q] = {}
  /\ \E c \in Commands, h \in (1 .. MaxCommands) \ minted :
       /\ minted' = minted \cup {h}
       /\ cur' = [cur EXCEPT ![q] = {[cmd |-> c, hlc |-> h, verdict |-> Verdict(q, c)]}]
       /\ tree' = [tree EXCEPT ![q] = IF ReadsTree(c) THEN {SeenTree(q)} ELSE @]
       /\ graph' = [graph EXCEPT ![q] =
                      IF ReadsTree(c) /\ c.verb = "link" THEN {SeenGraph(q)} ELSE @]
  /\ UNCHANGED <<rows, edges, version, open, overlapped, split>>

\* The columns an update verb writes.
Candidate(c) ==
  CASE c.verb = "move"    -> [parent |-> c.parent]
    [] c.verb = "retype"  -> [type |-> c.type]
    [] c.verb = "promote" -> [type |-> "task", parent |-> c.parent, habit |-> c.habit]

\* lwwFields: the columns whose last writer is older.
Winning(c, h) == {f \in DOMAIN Candidate(c) : version[c.node][f] < h}

\* The row with the winning columns set.
Merged(c, h) ==
  [f \in DOMAIN rows[c.node] |-> IF f \in Winning(c, h) THEN Candidate(c)[f] ELSE rows[c.node][f]]

NewRow(c) == [type |-> c.type, parent |-> c.parent, habit |-> c.habit, live |-> TRUE]

\* The database refuses the write: a key that is taken by now, or the trigger,
\* which looks at an UPDATE only when the parent or the type is among what won.
\* The transaction rolls back and the command is rejected E_INTERNAL.
Fails(c, h) ==
  CASE c.verb = "create" -> c.node \in DOMAIN rows \/ ~HierarchyTrigger(rows, NewRow(c))
    [] c.verb = "link"   -> \/ c.edge \in DOMAIN edges
                            \/ \E e \in LiveEdges : e.pred = c.pred /\ e.succ = c.succ
    [] c.verb \in {"move", "retype", "promote"} ->
         /\ Winning(c, h) \cap {"type", "parent"} # {}
         /\ ~HierarchyTrigger(rows, Merged(c, h))
    [] OTHER -> FALSE

WriteCreate(c) ==
  /\ rows' = [n \in DOMAIN rows \cup {c.node} |-> IF n = c.node THEN NewRow(c) ELSE rows[n]]
  /\ UNCHANGED <<edges, version, split>>

\* lwwFields and the UPDATE of what won.
WriteUpdate(c, h) ==
  /\ rows' = [rows EXCEPT ![c.node] = Merged(c, h)]
  /\ version' = [version EXCEPT ![c.node] =
                   [f \in Columns |-> IF f \in Winning(c, h) THEN h ELSE @[f]]]
  /\ split' = (split \/ Winning(c, h) \notin {{}, DOMAIN Candidate(c)})
  /\ UNCHANGED edges

\* Seeded fault of WriteDelete: the descendants stay.
WriteDeleteRootOnly(q, c) ==
  /\ rows' = [rows EXCEPT ![c.node].live = FALSE]
  /\ UNCHANGED <<edges, version, split>>

\* The cascade of I10, computed on what the request sees.
WriteDelete(q, c) ==
  LET gone == Subtree(SeenTree(q), c.node) IN
  /\ rows' = [n \in DOMAIN rows |->
                IF n \in gone THEN [rows[n] EXCEPT !.live = FALSE] ELSE rows[n]]
  /\ UNCHANGED <<edges, version, split>>

WriteLink(c) ==
  /\ edges' = [e \in DOMAIN edges \cup {c.edge} |->
                 IF e = c.edge THEN [pred |-> c.pred, succ |-> c.succ, live |-> TRUE] ELSE edges[e]]
  /\ UNCHANGED <<rows, version, split>>

WriteUnlink(c) ==
  /\ edges' = [edges EXCEPT ![c.edge].live = FALSE]
  /\ UNCHANGED <<rows, version, split>>

Write(q, c, h) ==
  \/ c.verb = "create" /\ WriteCreate(c)
  \/ c.verb \in {"move", "retype", "promote"} /\ WriteUpdate(c, h)
  \/ c.verb = "delete" /\ WriteDelete(q, c)
  \/ c.verb = "link" /\ WriteLink(c)
  \/ c.verb = "unlink" /\ WriteUnlink(c)

\* Seeded fault of Invalidate: CONTEXT_WRITES of edge.create forgets 'edges'.
InvalidateNotEdges(q, c) ==
  /\ tree' = [tree EXCEPT ![q] = IF c.verb \in {"link", "unlink"} THEN @ ELSE {}]
  /\ graph' = [graph EXCEPT ![q] = IF c.verb \in {"create", "promote"} THEN {} ELSE @]

\* CONTEXT_WRITES: what an applied command makes the batch forget.
Invalidate(q, c) ==
  /\ tree' = [tree EXCEPT ![q] = IF c.verb \in {"link", "unlink"} THEN @ ELSE {}]
  /\ graph' = [graph EXCEPT ![q] =
                 IF c.verb \in {"link", "unlink", "create", "promote"} THEN {} ELSE @]

\* The command is through: converged, rejected by its checks or by the database,
\* or applied.
Commit(q) ==
  /\ \E x \in cur[q] :
       \/ /\ x.verdict = "converged"
          /\ Invalidate(q, x.cmd)
          /\ UNCHANGED <<rows, edges, version, split>>
       \/ /\ x.verdict = "rejected" \/ (x.verdict = "write" /\ Fails(x.cmd, x.hlc))
          /\ UNCHANGED <<rows, edges, version, split, tree, graph>>
       \/ /\ x.verdict = "write" /\ ~Fails(x.cmd, x.hlc)
          /\ Write(q, x.cmd, x.hlc)
          /\ Invalidate(q, x.cmd)
  /\ cur' = [cur EXCEPT ![q] = {}]
  /\ UNCHANGED <<open, minted, overlapped>>

\* The response; the context goes with the request.
Close(q) ==
  /\ q \in open /\ cur[q] = {}
  /\ open' = open \ {q}
  /\ tree' = [tree EXCEPT ![q] = {}]
  /\ graph' = [graph EXCEPT ![q] = {}]
  /\ UNCHANGED <<rows, edges, version, cur, minted, overlapped, split>>

Next == \E q \in Requests : Open(q) \/ Read(q) \/ Commit(q) \/ Close(q)

Spec == Init /\ [][Next]_vars
-----------------------------------------------------------------------------
Live == TreeIndex(rows)

\* I1 and I2 of the whole tree, while the requests of the user do not overlap:
\* every live node hangs where its type may, and under a live node, though each
\* command checks only its own node and last-writer-wins may keep only some of
\* what it writes.
SerialHierarchy == ~overlapped => HierarchyHolds(Live)

\* I3: every live task has exactly one justification.  It is lost when
\* activity.promote, which writes three columns, wins some of them and loses
\* others to a newer command.
SerialJustified == ~overlapped /\ ~split => JustificationHolds(Live)

\* I4: the live dependencies form no cycle while the requests do not overlap.
SerialAcyclic == ~overlapped => ~HasCycle(LiveEdges, Nodes)

\* No walk up the parents of a row, deleted ones among them, comes back to it.
NoParentCycle == \A n \in DOMAIN rows : rows[n].parent \notin Subtree(rows, n)

\* "a fully I1-valid tree can never contain a parent cycle" (hierarchy.ts:10-11),
\* and while requests do not overlap neither can the rows, whatever was retyped
\* above or below a deleted one.  Overlapping requests lose it: NoParentCycle
\* alone does not hold.
SerialNoParentCycle == ~overlapped => NoParentCycle
=============================================================================
