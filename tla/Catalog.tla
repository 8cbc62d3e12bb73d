------------------------------ MODULE Catalog ------------------------------
(***************************************************************************)
(* The mutation catalogue of Prisms as data: the tables of the server and of *)
(* a device, what each verb carries, the row effect a device predicts for it *)
(* and the row write the server makes of it.  The two sides are written by   *)
(* hand in two packages, and here as two tables; Records runs them against   *)
(* each other.                                                               *)
(*                                                                          *)
(* The verbs here write one row.  Those that write more have their own       *)
(* modules: the closure of node.soft_delete and automation spawns            *)
(* (CommandSync, Automation), timer.review of a finished task (Tracking),    *)
(* block.accept_suggestion (Planning); layout.renormalize_order is left out.  *)
(* Columns of time and trust (created_at, hlc, source_kind...) are left out. *)
(***************************************************************************)
EXTENDS Naturals, Sequences, FiniteSets, TLC

\* Column values are tuples of strings: a literal, null, or a value some
\* command brings.  JSON text and SQLite's 0/1 stand for what they encode.
Lit(s) == <<s>>
Null == Lit("null")
Required == Lit("required")

Same(S) == [c \in S |-> c]
AllOf(S, v) == [c \in S |-> v]

-----------------------------------------------------------------------------
(* The tables of the server: a column without a value takes its default.      *)

Table(required, nullable, defaults) ==
  AllOf(required, Required) @@ AllOf(nullable, Null) @@ defaults

TreeTables ==
  "nodes" :> Table({"node_type", "title", "sort_order"},
                   {"parent_id", "start_date", "due_date", "estimate_minutes", "completed_at",
                    "completion_disposition", "completed_in_block_id", "habit_id"},
                   "description" :> Lit("") @@ "attributes" :> Lit("{}"))
  @@ "edges" :> Table({"predecessor_id", "successor_id"}, {},
                      "edge_type" :> Lit("FS") @@ "lag_minutes" :> Lit("0"))
  @@ "task_steps" :> Table({"task_id", "title", "sort_order"}, {}, "done" :> Lit("false"))

PlanTables ==
  "schedule_blocks" :> Table({"task_id", "starts_at", "ends_at"},
                             {"rrule", "suggestion_reason", "computed_at", "external_event_id",
                              "suggestion_batch_id", "replaces_block_id", "superseded_at"},
                             "anchor_type" :> Lit("none") @@ "status" :> Lit("committed"))
  @@ "time_entries" :> Table({"task_id", "started_at", "device_id"},
                             {"ended_at", "focus_factor", "completed_session"},
                             "planned" :> Lit("true"))

HabitTables ==
  "habits" :> Table({"vision_id", "title", "rrule", "streak_mode"},
                    {"daily_target_minutes", "mastery_target_hours"},
                    "level_thresholds_hours" :> Lit("[]"))
  @@ "habit_completions" :> Table({"habit_id", "occurrence_date", "completed_at"}, {}, << >>)

TagTables ==
  "tags" :> Table({"label"}, {"habit_id"}, << >>)
  @@ "tag_placements" :> Table({"block_id", "tag_id"}, {}, << >>)
  @@ "tag_answers" :> Table({"placement_id", "value", "answered_at"}, {}, << >>)

BoardTables ==
  "decision_boards" :> Table({"title"}, {}, << >>)
  @@ "decision_criteria" :> Table({"board_id", "label", "weight"}, {}, << >>)
  @@ "decision_scores" :> Table({"criterion_id", "project_id", "score"}, {}, << >>)
  @@ "sprints" :> Table({"title", "starts_on", "ends_on"}, {}, << >>)
  @@ "sprint_memberships" :> Table({"sprint_id", "node_id"}, {}, << >>)

RuleTables ==
  "automation_rules" :> Table({"trigger", "conditions", "actions"}, {},
                              "enabled" :> Lit("true") @@ "rule_version" :> Lit("1"))
  @@ "blocker_rules" :> Table({"scope", "predicate", "label"}, {}, "enabled" :> Lit("true"))

DiagramTables ==
  "diagram_layouts" :> Table({"diagram_id", "node_id", "x", "y"}, {"group_id", "computed_at"},
                             "collapsed" :> Lit("false"))
  @@ "diagram_groups" :> Table({"diagram_id", "label"}, {"color"}, << >>)

InboxTables ==
  "sync_review_items" :> Table({"item_type", "severity", "title"}, {"command_id", "resolved_at"},
                               "detail" :> Lit("{}") @@ "status" :> Lit("open"))
  @@ "journal_entries" :> Table({"entry_date", "month_key"}, {},
                                "content" :> Lit("") @@ "locked" :> Lit("false") @@ "title" :> Lit(""))

SettingsTable ==
  "user_settings" :> Table({}, {"weather_location"},
                           "day_reset_hour" :> Lit("4") @@ "timezone" :> Lit("New_York")
                           @@ "journal_day_log" :> Lit("true"))

Tables == TreeTables @@ PlanTables @@ HabitTables @@ TagTables @@ BoardTables @@ RuleTables
          @@ DiagramTables @@ InboxTables @@ SettingsTable

\* The partial unique indexes: one live row per value of these columns.
NaturalKey(t) ==
  CASE t = "edges"              -> {"predecessor_id", "successor_id"}
    [] t = "habit_completions"  -> {"habit_id", "occurrence_date"}
    [] t = "tags"               -> {"label"}
    [] t = "tag_placements"     -> {"block_id", "tag_id"}
    [] t = "tag_answers"        -> {"placement_id"}
    [] t = "decision_scores"    -> {"criterion_id", "project_id"}
    [] t = "sprint_memberships" -> {"sprint_id", "node_id"}
    [] t = "diagram_layouts"    -> {"diagram_id", "node_id"}
    [] t = "journal_entries"    -> {"entry_date"}
    [] OTHER -> {}

-----------------------------------------------------------------------------
(* The tables of a device: the columns it keeps of what the streams send.     *)

DevicePlan ==
  "nodes" :> {"parent_id", "node_type", "title", "description", "sort_order", "start_date",
              "due_date", "estimate_minutes", "completed_at", "completion_disposition",
              "completed_in_block_id", "habit_id", "attributes"}
  @@ "edges" :> {"predecessor_id", "successor_id", "edge_type", "lag_minutes"}
  @@ "schedule_blocks" :> {"task_id", "starts_at", "ends_at", "anchor_type", "rrule", "status",
                           "suggestion_reason", "computed_at", "external_event_id",
                           "suggestion_batch_id", "replaces_block_id", "superseded_at"}
  @@ "time_entries" :> {"task_id", "started_at", "ended_at", "focus_factor", "completed_session",
                        "planned", "device_id"}
  @@ "habits" :> {"vision_id", "title", "rrule", "streak_mode", "daily_target_minutes",
                  "mastery_target_hours", "level_thresholds_hours"}
  @@ "habit_completions" :> {"habit_id", "occurrence_date", "completed_at"}
  @@ "tags" :> {"label", "habit_id"}
  @@ "tag_placements" :> {"block_id", "tag_id"}
  @@ "tag_answers" :> {"placement_id", "value", "answered_at"}

DeviceNotes ==
  "journal_entries" :> {"entry_date", "month_key", "content", "locked", "title"}
  @@ "task_steps" :> {"task_id", "title", "done", "sort_order"}
  @@ "decision_boards" :> {"title"}
  @@ "decision_criteria" :> {"board_id", "label", "weight"}
  @@ "decision_scores" :> {"criterion_id", "project_id", "score"}
  @@ "sprints" :> {"title", "starts_on", "ends_on"}
  @@ "sprint_memberships" :> {"sprint_id", "node_id"}

DeviceRules ==
  "automation_rules" :> {"trigger", "conditions", "actions", "enabled"}
  @@ "blocker_rules" :> {"scope", "predicate", "label", "enabled"}
  @@ "diagram_layouts" :> {"diagram_id", "node_id", "x", "y", "group_id", "collapsed", "computed_at"}
  @@ "diagram_groups" :> {"diagram_id", "label", "color"}
  @@ "user_settings" :> {"day_reset_hour", "timezone", "weather_location", "journal_day_log"}
  @@ "sync_review_items" :> {"command_id", "item_type", "severity", "title", "detail", "status"}

DeviceTables == DevicePlan @@ DeviceNotes @@ DeviceRules

\* The tables whose rows carry the id of their last command down to the device.
Stamped == {"nodes", "schedule_blocks"}

\* The streams of these tables hold live rows; the others send tombstones too.
LiveOnly == {"nodes", "edges", "schedule_blocks", "time_entries", "habit_completions",
             "task_steps", "diagram_layouts", "journal_entries"}

\* The row mappers: what the screens read where a row has nothing, if not null.
PlanFallback ==
  "nodes" :> (AllOf({"title", "description", "sort_order"}, Lit("")) @@ "attributes" :> Lit("{}"))
  @@ "task_steps" :> (AllOf({"title", "sort_order"}, Lit("")) @@ "done" :> Lit("false"))
  @@ "edges" :> ("lag_minutes" :> Lit("0"))
  @@ "time_entries" :> ("planned" :> Lit("false"))
  @@ "sprints" :> ("title" :> Lit(""))

RuleFallback ==
  "blocker_rules" :> (AllOf({"scope", "predicate"}, Lit("{}")) @@ "label" :> Lit("")
                      @@ "enabled" :> Lit("false"))
  @@ "automation_rules" :> ("conditions" :> Lit("{}") @@ "actions" :> Lit("[]")
                            @@ "enabled" :> Lit("false") @@ "rule_version" :> Lit("1"))
  @@ "diagram_layouts" :> (AllOf({"x", "y"}, Lit("0")) @@ "collapsed" :> Lit("false"))
  @@ "diagram_groups" :> ("label" :> Lit(""))

HabitFallback ==
  "habits" :> ("title" :> Lit("") @@ "level_thresholds_hours" :> Lit("[]"))
  @@ "tags" :> ("label" :> Lit(""))
  @@ "journal_entries" :> (AllOf({"month_key", "content", "title"}, Lit(""))
                           @@ "locked" :> Lit("false"))
  @@ "decision_boards" :> ("title" :> Lit(""))
  @@ "decision_criteria" :> ("label" :> Lit("") @@ "weight" :> Lit("1"))
  @@ "decision_scores" :> ("score" :> Lit("0"))
  @@ "user_settings" :> ("day_reset_hour" :> Lit("4") @@ "timezone" :> Lit("New_York")
                         @@ "journal_day_log" :> Lit("true"))

Fallbacks == PlanFallback @@ RuleFallback @@ HabitFallback

MappedBare(t, row) == [c \in DOMAIN Tables[t] |-> IF c \in DOMAIN row THEN row[c] ELSE Null]

\* A row as the screens see it.
Mapped(t, row) ==
  [c \in DOMAIN Tables[t] |->
     CASE c \in DOMAIN row /\ row[c] # Null -> row[c]
       [] (c \notin DOMAIN row \/ row[c] = Null)
          /\ t \in DOMAIN Fallbacks /\ c \in DOMAIN Fallbacks[t] -> Fallbacks[t][c]
       [] OTHER -> Null]

-----------------------------------------------------------------------------
(* The payloads: the fields a verb requires, those it may carry, and which of *)
(* these accept null.  The id of the row is apart.                            *)

Payload(required, optional, nullable) ==
  [required |-> required, optional |-> optional, nullable |-> nullable]

IdOnly == Payload({}, {}, {})

NodePayloads ==
  "node.create" :> Payload({"node_type", "title", "sort_order"},
                           {"parent_id", "habit_id", "description", "start_date", "due_date",
                            "estimate_minutes", "attributes"},
                           {"parent_id", "habit_id", "start_date", "due_date", "estimate_minutes"})
  @@ "node.rename" :> Payload({"title"}, {}, {})
  @@ "node.set_description" :> Payload({"description"}, {}, {})
  @@ "node.set_attributes" :> Payload({"attributes"}, {}, {})
  @@ "node.move" :> Payload({"new_parent_id", "sort_order"}, {}, {"new_parent_id"})
  @@ "node.retype" :> Payload({"node_type"}, {}, {})
  @@ "node.set_dates" :> Payload({}, {"start_date", "due_date"}, {"start_date", "due_date"})
  @@ "node.set_estimate" :> Payload({"estimate_minutes"}, {}, {"estimate_minutes"})
  @@ "node.reorder" :> Payload({"sort_order"}, {}, {})
  @@ "node.check_off" :> Payload({"completed_at"}, {"disposition", "completed_in_block_id"},
                                 {"completed_in_block_id"})
  @@ "node.uncheck" :> IdOnly
  @@ "node.soft_delete" :> IdOnly
  @@ "activity.promote" :> Payload({}, {"parent_id", "habit_id"}, {})

PlanPayloads ==
  "edge.create" :> Payload({"predecessor_id", "successor_id"}, {"edge_type", "lag_minutes"}, {})
  @@ "edge.delete" :> IdOnly
  @@ "block.create" :> Payload({"task_id", "starts_at", "ends_at"}, {"anchor_type"}, {})
  @@ "block.move" :> Payload({"starts_at", "ends_at"}, {}, {})
  @@ "block.set_anchor" :> Payload({"anchor_type"}, {}, {})
  @@ "block.delete" :> IdOnly
  @@ "block.reject_suggestion" :> IdOnly
  @@ "timer.clock_in" :> Payload({"task_id", "started_at"}, {"planned", "force"}, {})
  @@ "timer.clock_out" :> Payload({"ended_at"}, {}, {})
  @@ "timer.review" :> Payload({"focus_factor", "completed_session"}, {}, {})

HabitPayloads ==
  "habit.create" :> Payload({"vision_id", "title", "rrule", "streak_mode"},
                            {"daily_target_minutes", "mastery_target_hours", "level_thresholds_hours"},
                            {"daily_target_minutes", "mastery_target_hours"})
  @@ "habit.update" :> Payload({}, {"title", "rrule", "streak_mode", "daily_target_minutes",
                                    "mastery_target_hours", "level_thresholds_hours"},
                               {"daily_target_minutes", "mastery_target_hours"})
  @@ "habit.delete" :> IdOnly
  @@ "habit.check_off" :> Payload({"habit_id", "occurrence_date", "completed_at"}, {}, {})
  @@ "sprint.create" :> Payload({"title", "starts_on", "ends_on"}, {}, {})
  @@ "sprint.add_node" :> Payload({"sprint_id", "node_id"}, {}, {})
  @@ "sprint.remove_node" :> IdOnly
  @@ "sprint.delete" :> IdOnly
  @@ "board.create" :> Payload({"title"}, {}, {})
  @@ "criterion.create" :> Payload({"board_id", "label", "weight"}, {}, {})
  @@ "criterion.set_weight" :> Payload({"weight"}, {}, {})
  @@ "score.set" :> Payload({"criterion_id", "project_id", "score"}, {}, {})

NotePayloads ==
  "tag.create" :> Payload({"label"}, {"habit_id"}, {"habit_id"})
  @@ "tag.rename" :> Payload({"label"}, {}, {})
  @@ "tag.delete" :> IdOnly
  @@ "tag.place" :> Payload({"block_id", "tag_id"}, {}, {})
  @@ "tag.unplace" :> IdOnly
  @@ "tag.answer" :> Payload({"placement_id", "value", "answered_at"}, {}, {})
  @@ "tag.clear_answer" :> IdOnly
  @@ "journal.write" :> Payload({"entry_date", "content"}, {}, {})
  @@ "journal.delete" :> IdOnly
  @@ "journal.set_locked" :> Payload({"locked"}, {}, {})
  @@ "journal.set_title" :> Payload({"title"}, {}, {})
  @@ "step.add" :> Payload({"task_id", "title", "sort_order"}, {}, {})
  @@ "step.rename" :> Payload({"title"}, {}, {})
  @@ "step.toggle" :> Payload({"done"}, {}, {})
  @@ "step.reorder" :> Payload({"sort_order"}, {}, {})
  @@ "step.remove" :> IdOnly

RulePayloads ==
  "rule.create" :> Payload({"trigger", "conditions", "actions"}, {"enabled"}, {})
  @@ "rule.update" :> Payload({}, {"trigger", "conditions", "actions"}, {})
  @@ "rule.toggle" :> Payload({"enabled"}, {}, {})
  @@ "rule.delete" :> IdOnly
  @@ "blocker.create" :> Payload({"scope", "predicate", "label"}, {"enabled"}, {})
  @@ "blocker.update" :> Payload({}, {"scope", "predicate", "label"}, {})
  @@ "blocker.toggle" :> Payload({"enabled"}, {}, {})
  @@ "blocker.delete" :> IdOnly
  @@ "layout.set_position" :> Payload({"diagram_id", "node_id", "x", "y"}, {"group_id"}, {"group_id"})
  @@ "layout.set_collapsed" :> Payload({"diagram_id", "node_id", "collapsed"}, {}, {})
  @@ "group.create" :> Payload({"diagram_id", "label"}, {"color"}, {"color"})
  @@ "group.update" :> Payload({}, {"label", "color"}, {"color"})
  @@ "group.delete" :> IdOnly
  @@ "review.resolve" :> IdOnly
  @@ "review.dismiss" :> IdOnly

SettingsPayload ==
  "settings.update" :> Payload({}, {"day_reset_hour", "timezone", "weather_location", "journal_day_log"},
                               {"weather_location"})

Payloads == NodePayloads @@ PlanPayloads @@ HabitPayloads @@ NotePayloads @@ RulePayloads
            @@ SettingsPayload

Verbs == DOMAIN Payloads

\* Verbs whose schema refuses a payload with none of its optional fields, and
\* the one that wants exactly one of them.
AtLeastOne == {"node.set_dates", "habit.update", "rule.update", "blocker.update", "group.update",
               "settings.update"}
ExactlyOne == {"activity.promote"}

\* The sets of optional fields to try: none, each alone, all of them.
OptionalFields(v) ==
  LET opt == Payloads[v].optional IN
  ({{}} \cup {{f} : f \in opt} \cup {opt})
    \ ((IF v \in AtLeastOne \cup ExactlyOne THEN {{}} ELSE {})
       \cup (IF v \in ExactlyOne THEN {opt} ELSE {}))
=============================================================================
