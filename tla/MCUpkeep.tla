------------------------------ MODULE MCUpkeep ------------------------------
(* The plans of Upkeep that TLC runs: small accounts, what their devices   *)
(* send, and which jobs run meanwhile.                                     *)
EXTENDS Upkeep

MCPeriodLength ==
  [daily |-> 1, perfect_planned |-> 1, weekly |-> 2, monthly |-> 3]

Row(columns) ==
  columns @@ [user |-> "u1", deleted |-> None, updated |-> 0, hlc |-> 0, source |-> "user"]

Node(type, parent, habit, estimate, done, disposition) ==
  Row([type |-> type, parent |-> parent, habit |-> habit, estimate |-> estimate,
       done |-> done, disposition |-> disposition])
PlainNode(type, parent) == Node(type, parent, None, None, None, None)
HabitRow(vision, mode, every) ==
  Row([vision |-> vision, mode |-> mode, every |-> every, born |-> 1, thresholds |-> {2, 6}])
Block(task, starts, ends, superseded) ==
  Row([task |-> task, status |-> "committed", starts |-> starts, ends |-> ends,
       superseded |-> superseded])
Entry(task, starts, ends, focus) ==
  Row([task |-> task, starts |-> starts, ends |-> ends, focus |-> focus])
Done(habit, date) == Row([habit |-> habit, date |-> date])
Note(date) == Row([date |-> date])
Item == Row([status |-> "open", resolved |-> None])

N(i) == <<"nodes", i>>
H == <<"habits", 1>>
C(i) == <<"habit_completions", i>>
B(i) == <<"schedule_blocks", i>>
E(i) == <<"time_entries", i>>
T == <<"tags", 1>>
P == <<"tag_placements", 1>>
A == <<"tag_answers", 1>>
R == <<"sync_review_items", 1>>
J(i) == <<"journal_entries", i>>
S == <<"task_steps", 1>>
U == <<"user_settings", "u1">>

Make(i, key, row) == [id |-> i, hlc |-> i, verb |-> "create", key |-> key, row |-> row]
Drop(i, key) == [id |-> i, hlc |-> i, verb |-> "delete", key |-> key]
Fell(i, key) == [id |-> i, hlc |-> i, verb |-> "soft_delete", key |-> key]
CloseR(i, status) == [id |-> i, hlc |-> i, verb |-> "close", key |-> R, status |-> status]

Account ==
  (N(1) :> PlainNode("task", N(2))) @@ (N(2) :> PlainNode("vision", None)) @@
  (H :> HabitRow(N(2), "daily", 1)) @@ (C(1) :> Done(H, 0)) @@
  (R :> Item) @@ (U :> Row([dayLog |-> TRUE]))

Tagged ==
  (N(1) :> PlainNode("task", None)) @@ (B(1) :> Block(N(1), 1, 2, None)) @@
  (T :> Row([label |-> "l", habit |-> None])) @@
  (P :> Row([block |-> B(1), tag |-> T])) @@
  (A :> Row([placement |-> P, value |-> "yes"])) @@
  (S :> Row([task |-> N(1), done |-> FALSE]))

Keeping ==
  [rows |-> Account, user |-> "u1", from |-> 0, days |-> 3,
   scripts |-> [a |-> <<CloseR(1, "resolved")>>, b |-> <<Fell(2, N(2))>>],
   jobs |-> {"purge", "expire", "backup"}]

Retagging ==
  [rows |-> Tagged, user |-> "u1", from |-> 0, days |-> 3,
   scripts |-> [a |-> <<Drop(1, A), Drop(2, P)>>, b |-> <<Fell(3, N(1))>>],
   jobs |-> {"purge", "backup"}]

Noting ==
  [rows |-> (J(1) :> Note(0)), user |-> "u1", from |-> 0, days |-> 3,
   scripts |-> [a |-> <<Drop(1, J(1))>>, b |-> <<Make(2, J(2), Note(0))>>],
   jobs |-> {"purge", "backup"}]

(* A habit is deleted and its completions are not.                         *)
Dropping ==
  [Keeping EXCEPT !.scripts = [a |-> <<Drop(1, H)>>], !.jobs = {"purge"}]

(* Days of a habit: its tasks with overlapping sessions, blocks with and   *)
(* without one, and completions that arrive late and out of order.         *)
Worked(mode, every) ==
  (N(1) :> Node("task", N(2), H, 2, 6, "completed")) @@
  (N(2) :> PlainNode("project", N(3))) @@ (N(3) :> PlainNode("vision", None)) @@
  (N(4) :> Node("task", N(2), None, None, 5, "obsolete")) @@
  (H :> HabitRow(N(3), mode, every)) @@
  (B(1) :> Block(N(1), 2, 4, None)) @@ (B(2) :> Block(N(1), 6, 7, None)) @@
  (B(3) :> Block(N(1), 10, 12, None)) @@ (B(4) :> Block(N(4), 5, 6, 1)) @@
  (E(1) :> Entry(N(1), 1, 4, 1)) @@ (E(2) :> Entry(N(1), 2, 5, 2)) @@
  (E(3) :> Entry(N(1), 11, None, 1)) @@ (E(4) :> Entry(N(1), 7, 7, 1)) @@
  (T :> Row([label |-> "l", habit |-> H])) @@ (P :> Row([block |-> B(1), tag |-> T])) @@
  (J(1) :> Note(1)) @@ (U :> Row([dayLog |-> every = 1]))

Practising(mode, every) ==
  [rows |-> Worked(mode, every), user |-> "u1", from |-> 0, days |-> 3,
   scripts |-> [a |-> <<Make(1, C(1), Done(H, 1)), Make(3, C(3), Done(H, 3)), Drop(5, B(2))>>,
                b |-> <<Make(2, A, Row([placement |-> P, value |-> "yes"])),
                        Make(4, C(2), Done(H, 0)), Make(6, C(4), Done(H, 2))>>],
   jobs |-> {}]

Recomputing ==
  [rows |-> Worked("daily", 1), user |-> "u1", from |-> 0, days |-> 1,
   scripts |-> [a |-> <<Make(1, C(1), Done(H, 0)), Drop(2, B(2))>>],
   jobs |-> {"recompute"}]

MCPlans ==
  {Keeping, Retagging, Noting, Recomputing}
  \union {Practising(m, 1) : m \in DOMAIN MCPeriodLength}
  \union {Practising(m, 2) : m \in {"daily", "weekly"}}

MCDropping == {Dropping}
=============================================================================
