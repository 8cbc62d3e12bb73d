------------------------------ MODULE Archive ------------------------------
(* What keeps, exports, restores and reclaims the rows of the database, as  *)
(* operators on its contents: the schema's foreign keys and partial unique  *)
(* indexes, retention.purge and review.expire_resolved, backup.snapshot,    *)
(* import.validate and import.restore.  A database is a function from keys  *)
(* <<table, id>> to rows; a row is a record of its columns, with            *)
(*   user      the account it belongs to,                                   *)
(*   deleted   the day it was soft-deleted, or None,                        *)
(*   updated   the day of its last write, hlc the clock of the command that *)
(*             wrote it (a server job leaves hlc alone),                    *)
(*   source    who made it,                                                 *)
(* and a column that references another row holds that row's key or None.   *)
EXTENDS Integers, FiniteSets, Sequences, SequencesExt, FiniteSetsExt, Functions

CONSTANTS
  None,             \* SQL NULL
  RetentionDays,    \* a tombstone older than this is reclaimed (90 in the code)
  HorizonDays,      \* a verdict older than this is forgotten (90)
  ReviewDays        \* a closed review item older than this is dismissed (30)

ASSUME ArchiveAssumption ==
  /\ RetentionDays \in Nat /\ HorizonDays \in Nat /\ ReviewDays \in Nat
  /\ None \notin Int

Table(key) == key[1]
Live(row) == row.deleted = None
RowsOf(db, table) == {key \in DOMAIN db : Table(key) = table}
LiveRows(db, table) == {key \in RowsOf(db, table) : Live(db[key])}

(* The columns with a foreign key, per table, and the tables they name.     *)
ForeignKeys ==
  [nodes              |-> [parent |-> "nodes"],
   edges              |-> [predecessor |-> "nodes", successor |-> "nodes"],
   schedule_blocks    |-> [task |-> "nodes"],
   time_entries       |-> [task |-> "nodes"],
   habits             |-> [vision |-> "nodes"],
   habit_completions  |-> [habit |-> "habits"],
   tag_placements     |-> [block |-> "schedule_blocks", tag |-> "tags"],
   tag_answers        |-> [placement |-> "tag_placements"],
   decision_criteria  |-> [board |-> "decision_boards"],
   decision_scores    |-> [criterion |-> "decision_criteria", project |-> "nodes"],
   sprint_memberships |-> [sprint |-> "sprints", node |-> "nodes"],
   diagram_layouts    |-> [node |-> "nodes"],
   task_steps         |-> [task |-> "nodes"]]

References(key, row) ==
  IF Table(key) \in DOMAIN ForeignKeys
  THEN {row[c] : c \in DOMAIN ForeignKeys[Table(key)]} \ {None}
  ELSE {}

(* The columns a live row shares with no other live row of its table; of   *)
(* time entries only the open ones count, of external facts the deleted    *)
(* ones too.                                                               *)
UniqueColumns ==
  [edges               |-> {"predecessor", "successor"},
   time_entries        |-> {"user", "ends"},
   habit_completions   |-> {"habit", "date"},
   tags                |-> {"user", "label"},
   tag_placements      |-> {"block", "tag"},
   tag_answers         |-> {"placement"},
   decision_scores     |-> {"criterion", "project"},
   sprint_memberships  |-> {"sprint", "node"},
   external_facts      |-> {"user", "kind", "key"},
   computed_aggregates |-> {"user", "subject", "metric"},
   diagram_layouts     |-> {"diagram", "node"},
   journal_entries     |-> {"user", "date"}]

Rival(db, key, row, other) ==
  /\ other # key /\ Table(other) = Table(key)
  /\ Table(key) \in DOMAIN UniqueColumns
  /\ Table(key) # "external_facts" => Live(row) /\ Live(db[other])
  /\ Table(key) = "time_entries" => row.ends = None
  /\ \A c \in UniqueColumns[Table(key)] : db[other][c] = row[c]

Clashes(db, key, row) == \E other \in DOMAIN db : Rival(db, key, row, other)

(* A row may be stored when what it references is there and no live row    *)
(* holds its natural key.                                                  *)
Storable(db, key, row) ==
  /\ References(key, row) \subseteq DOMAIN db \union {key}
  /\ ~Clashes(db, key, row)

Put(db, key, row) ==
  [k \in DOMAIN db \union {key} |-> IF k = key THEN row ELSE db[k]]

Without(db, keys) == Restrict(db, DOMAIN db \ keys)

(* DELETE of a set of rows: refused as one when a row that stays still     *)
(* references one that goes (the keys are NO ACTION, checked at the end of *)
(* the statement).                                                         *)
Deletable(db, keys) ==
  \A k \in DOMAIN db \ keys : References(k, db[k]) \cap keys = {}

----------------------------------------------------------------------------
(* review.expire_resolved: closed for longer than the window, still live.  *)

Expirable(db, today) ==
  {k \in RowsOf(db, "sync_review_items") :
     /\ Live(db[k])
     /\ db[k].status # "open" /\ db[k].resolved # None
     /\ db[k].resolved < today - ReviewDays}

Expired(db, today) ==
  [k \in DOMAIN db |->
     IF k \in Expirable(db, today)
     THEN [db[k] EXCEPT !.deleted = today, !.updated = today] ELSE db[k]]

----------------------------------------------------------------------------
(* retention.purge: one DELETE per table in this order, then tags, nodes   *)
(* and the command log.  No transaction holds them together, and they run  *)
(* over the rows of every account.                                         *)

PurgeOrder ==
  <<"sync_review_items", "journal_entries", "tag_answers", "tag_placements",
    "habit_completions", "decision_scores", "decision_criteria",
    "sprint_memberships", "diagram_layouts", "diagram_groups",
    "schedule_blocks", "time_entries", "edges", "habits", "decision_boards",
    "sprints", "automation_rules", "blocker_rules", "external_facts",
    "computed_aggregates">>

Statements == PurgeOrder \o <<"tags", "nodes", "command_log">>

Reclaimable(db, table, today) ==
  {k \in RowsOf(db, table) :
     db[k].deleted # None /\ db[k].deleted < today - RetentionDays}

(* The references the DELETE of nodes looks at before it takes a row.      *)
NodeReferences ==
  [nodes |-> {"parent"}, edges |-> {"predecessor", "successor"},
   schedule_blocks |-> {"task"}, time_entries |-> {"task"},
   habits |-> {"vision"}, decision_scores |-> {"project"},
   sprint_memberships |-> {"node"}, diagram_layouts |-> {"node"}]

StillNamed(db, key, looked) ==
  \E k \in DOMAIN db :
    /\ Table(k) \in DOMAIN looked
    /\ \E c \in looked[Table(k)] : db[k][c] = key

Reclaimed(db, table, today) ==
  LET old == Reclaimable(db, table, today)
  IN CASE table = "tags" ->
            {k \in old : ~StillNamed(db, k, [tag_placements |-> {"tag"}])}
       [] table = "nodes" -> {k \in old : ~StillNamed(db, k, NodeReferences)}
       [] OTHER -> old

(* Changed: the log kept for the window of the review items.               *)
RememberedBriefly(log, today) ==
  Restrict(log, {c \in DOMAIN log : ~(log[c].applied < today - ReviewDays)})

Remembered(log, today) ==
  Restrict(log, {c \in DOMAIN log : ~(log[c].applied < today - HorizonDays)})

----------------------------------------------------------------------------
(* backup.snapshot: every registered table in turn, one read each.         *)

Registry ==
  <<"nodes", "edges", "schedule_blocks", "time_entries", "habits",
    "habit_completions", "tags", "tag_placements", "tag_answers",
    "decision_boards", "decision_criteria", "decision_scores", "sprints",
    "sprint_memberships", "automation_rules", "blocker_rules",
    "external_facts", "computed_aggregates", "diagram_layouts",
    "diagram_groups", "schedule_suggestion_batches", "sync_review_items",
    "journal_entries", "task_steps", "command_log", "user_settings">>

ReadTable(db, table, user) ==
  Restrict(db, {k \in RowsOf(db, table) : db[k].user = user})

(* What an export has read, with the rows of one more table.               *)
Joined(read, rows) ==
  [k \in DOMAIN read \union DOMAIN rows |-> IF k \in DOMAIN read THEN read[k] ELSE rows[k]]

HighWater(rows) == Max({0} \union {rows[k].hlc : k \in DOMAIN rows})

Snapshot(db, log, user) ==
  LET mine == Restrict(db, {k \in DOMAIN db : db[k].user = user})
  IN [rows |-> mine, history |-> log, high |-> HighWater(mine)]

----------------------------------------------------------------------------
(* import.validate and import.restore.                                      *)

RestoreOrder ==
  <<"nodes", "tags", "decision_boards", "sprints", "automation_rules",
    "blocker_rules", "external_facts", "computed_aggregates",
    "schedule_suggestion_batches", "sync_review_items", "journal_entries",
    "habits", "edges", "schedule_blocks", "time_entries",
    "decision_criteria", "sprint_memberships", "diagram_layouts",
    "diagram_groups", "habit_completions", "tag_placements",
    "decision_scores", "tag_answers">>

UnknownTables(rows) ==
  {Table(k) : k \in DOMAIN rows} \ ({"user_settings"} \union ToSet(RestoreOrder))

(* Changed: the rows in the order of the file.                              *)
NextRowAsFiled(rows, left) == CHOOSE key \in left : TRUE

(* The row the import takes next of those left.  A parent comes before its  *)
(* children whatever the order of the file; only a ring of parents, which   *)
(* has no first one, is entered somewhere.                                  *)
NextRow(rows, left) ==
  LET ready == {key \in left : Table(key) = "nodes" => rows[key].parent \notin left}
  IN CHOOSE key \in left : ready = {} \/ key \in ready

(* The values a restored row gets: the file's, under the importing account *)
(* and marked as imported.                                                 *)
Imported(row, user) == [row EXCEPT !.user = user, !.source = "import"]

(* Changed: only a strictly newer row is kept.                             *)
OutranksStrictly(present, row) == present.hlc > row.hlc

(* Is the row that is already there left alone?  Another account's is, and *)
(* one whose clock is not older than the file's.                           *)
Outranks(present, row) == present.hlc >= row.hlc

Kept(present, row, user) == present.user # user \/ Outranks(present, row)

(* One row of the file: skipped, stored, or the error that ends it all.    *)
RestoreRow(state, before, key, row, user) ==
  IF ~state.ok THEN state
  ELSE IF key \in DOMAIN before /\ Kept(before[key], row, user)
    THEN [state EXCEPT !.conflicts = @ \union {key}]
  ELSE IF ~Storable(state.db, key, row)
    THEN [state EXCEPT !.ok = FALSE]
  ELSE [state EXCEPT !.db = Put(@, key, row),
          !.conflicts = IF key \in DOMAIN before THEN @ \union {key} ELSE @]

(* A round of the loop over the rows of a table.  What was there is looked  *)
(* up before the loop.                                                      *)
RestoreRound(rows, before, user, loop) ==
  IF loop.left = {} THEN loop
  ELSE LET key == NextRow(rows, loop.left)
       IN [left |-> loop.left \ {key},
           state |-> RestoreRow(loop.state, before, key, Imported(rows[key], user), user)]

RestoreTable(state, rows, user) ==
  LET loop[n \in 0..Cardinality(DOMAIN rows)] ==
        IF n = 0 THEN [left |-> DOMAIN rows, state |-> state]
        ELSE RestoreRound(rows, state.db, user, loop[n - 1])
  IN loop[Cardinality(DOMAIN rows)].state

(* The settings row of the account: kept unless the file's is later.       *)
RestoreSettings(state, rows, user) ==
  LET mine == <<"user_settings", user>>
      filed == RowsOf(rows, "user_settings")
  IN IF filed = {} \/ ~state.ok THEN state
     ELSE LET row == [rows[CHOOSE k \in filed : TRUE] EXCEPT !.user = user]
          IN IF /\ mine \in DOMAIN state.db
                /\ state.db[mine].updated >= row.updated
             THEN [state EXCEPT !.conflicts = @ \union {mine}]
             ELSE [state EXCEPT !.db = Put(@, mine, row)]

(* The verdicts of the file join the log where it has none, as records     *)
(* that are never dispatched.                                              *)
RestoreHistory(log, history) ==
  [c \in DOMAIN log \union DOMAIN history |->
     IF c \in DOMAIN log THEN log[c] ELSE history[c]]

RestoreRows(db, rows, user) ==
  LET start == [db |-> db, ok |-> TRUE, conflicts |-> {}]
      after[n \in 0..Len(RestoreOrder)] ==
        IF n = 0 THEN start
        ELSE RestoreTable(after[n - 1], Restrict(rows, RowsOf(rows, RestoreOrder[n])), user)
  IN RestoreSettings(after[Len(RestoreOrder)], rows, user)

(* The whole import, one transaction: the database and the log after it,   *)
(* and the collisions and unknown tables its warning names.                *)
Restored(db, log, file, user) ==
  LET done == RestoreRows(db, file.rows, user)
  IN IF done.ok
     THEN [ok |-> TRUE, db |-> done.db,
           log |-> RestoreHistory(log, file.history),
           warned |-> done.conflicts # {} \/ UnknownTables(file.rows) # {}]
     ELSE [ok |-> FALSE, db |-> db, log |-> log, warned |-> FALSE]

(* import.validate: a dry run that counts what an import would meet.       *)
WouldCollide(db, rows, user) ==
  {k \in DOMAIN rows \cap DOMAIN db :
     Table(k) # "user_settings" /\ db[k].user = user}
=============================================================================
