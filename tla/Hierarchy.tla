----------------------------- MODULE Hierarchy -----------------------------
(***************************************************************************)
(* Types of the nodes of Prisms and where each may hang                      *)
(* (packages/core/src/graph, commands/invariants.ts).  A tree index `t` is a *)
(* function from the ids of the live nodes to [type, parent, habit]; None    *)
(* stands for NULL.  A check is TRUE when the code returns ok; which of its  *)
(* error codes it would return otherwise makes no difference to the tables.  *)
(***************************************************************************)
EXTENDS Integers, FiniteSets

CONSTANTS
  None,        \* NULL, no id
  MaxVisions   \* MAX_VISIONS, the most live visions of a user

NodeTypes == {"vision", "roadmap", "project", "milestone", "task", "activity"}

AllowedParents ==
  [vision    |-> {},          roadmap |-> {"vision"},
   project   |-> {"roadmap"}, milestone |-> {"project"},
   task      |-> {"milestone", "project"}, activity |-> {}]

ParentlessAllowed == {"vision", "task", "activity"}

\* The index holds the rows that are not deleted.
TreeIndex(rows) == [n \in {x \in DOMAIN rows : rows[x].live} |-> rows[n]]

\* The walk up from n, step by step; a missing parent or a loop adds no more.
Ascent(t, n) ==
  LET up[k \in Nat] ==
        IF k = 0 THEN {n} \cap DOMAIN t
        ELSE LET below == up[k - 1] IN below \cup ({t[m].parent : m \in below} \cap DOMAIN t)
  IN  up

\* Every live row met on the way up, n itself left out.
Ancestors(t, n) == Ascent(t, n)[Cardinality(DOMAIN t)] \ {n}

Children(t, p) == {n \in DOMAIN t : t[n].parent = p}

\* The live subtree of n, with n; empty when n is not live.
Subtree(t, n) == {m \in DOMAIN t : n \in DOMAIN t /\ (m = n \/ n \in Ancestors(t, m))}

-----------------------------------------------------------------------------
(* I1, I2 and I3.                                                             *)

ValidParent(t, type, p) ==
  \/ p = None /\ type \in ParentlessAllowed
  \/ p \in DOMAIN t /\ t[p].type \in AllowedParents[type]

ValidMove(t, n, p) ==
  /\ n \in DOMAIN t
  /\ p \notin Subtree(t, n)
  /\ ValidParent(t, t[n].type, p)

VisionRoom(t) == Cardinality({n \in DOMAIN t : t[n].type = "vision"}) < MaxVisions

ReachesProject(t, p) ==
  p \in DOMAIN t /\ \E a \in {p} \cup Ancestors(t, p) : t[a].type = "project"

\* A task hangs under a project or belongs to a habit, not both.
TaskJustified(t, type, p, habit) ==
  type = "task" => (habit # None) # ReachesProject(t, p)

-----------------------------------------------------------------------------
(* The checks of the verbs.                                                   *)

CheckNodeCreate(t, type, p, habit) ==
  /\ type = "vision" => VisionRoom(t)
  /\ ValidParent(t, type, p)
  /\ TaskJustified(t, type, p, habit)

CheckNodeMove(t, n, p) ==
  /\ ValidMove(t, n, p)
  /\ TaskJustified(t, t[n].type, p, t[n].habit)

\* Seeded fault of CheckNodeRetype: the children are not asked.
CheckNodeRetypeAlone(t, n, type) ==
  /\ n \in DOMAIN t
  /\ type = "vision" => t[n].type = "vision" \/ VisionRoom(t)
  /\ ValidParent(t, type, t[n].parent)
  /\ TaskJustified(t, type, t[n].parent, t[n].habit)

CheckNodeRetype(t, n, type) ==
  /\ n \in DOMAIN t
  /\ \/ t[n].type = type
     \/ /\ type = "vision" => VisionRoom(t)
        /\ ValidParent(t, type, t[n].parent)
        /\ \A c \in Children(t, n) : type \in AllowedParents[t[c].type]
        /\ TaskJustified(t, type, t[n].parent, t[n].habit)

\* Seeded fault of CheckPromote: the typing alone.
CheckPromoteTyped(t, n, p, habit) ==
  /\ n \in DOMAIN t /\ t[n].type = "activity"
  /\ ValidParent(t, "task", p)

CheckPromote(t, n, p, habit) ==
  /\ n \in DOMAIN t /\ t[n].type = "activity"
  /\ ValidParent(t, "task", p)
  /\ TaskJustified(t, "task", p, habit)

\* enforce_node_hierarchy, before an INSERT, and before an UPDATE that names
\* parent_id or node_type: the row as it would be against its parent's type,
\* whether that parent is deleted or not.  Its children are not looked at.
HierarchyTrigger(rows, row) ==
  IF row.parent = None THEN row.type \in ParentlessAllowed
  ELSE row.parent \in DOMAIN rows /\ rows[row.parent].type \in AllowedParents[row.type]
=============================================================================
