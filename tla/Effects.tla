------------------------------ MODULE Effects ------------------------------
(***************************************************************************)
(* What each verb of the catalogue does to its row: Predicted is the effect  *)
(* a device puts in its overlay (packages/ui/src/powersync/effects.ts),      *)
(* Written the insert, update or delete of the server's handler              *)
(* (apps/server/src/dispatcher.ts, runHandler).                              *)
(***************************************************************************)
EXTENDS Catalog

\* A change of one row.  `cols` says from which payload field a column comes,
\* `orElse` what it gets when the field is missing or null; a column in orElse
\* alone is a constant, and one in neither is left out.
Change(op, table, cols, orElse) ==
  [op |-> op, table |-> table, cols |-> cols, orElse |-> orElse]

Ins(table, fields, orElse) == Change("insert", table, Same(fields), orElse)
Upd(table, fields, orElse) == Change("update", table, Same(fields), orElse)
Del(table) == Change("delete", table, << >>, << >>)

\* month_key is the 'YYYY-MM' of the day, cut from it on both sides.
MonthKey(day) == <<"month", day[1]>>

\* The columns and values a change writes for payload p.
Fields(ch, p) ==
  LET given == {c \in DOMAIN ch.cols : ch.cols[c] \in DOMAIN p}
      value(c) == IF c = "month_key" THEN MonthKey(p[ch.cols[c]]) ELSE p[ch.cols[c]]
  IN  [c \in given \cup DOMAIN ch.orElse |->
         IF c \in given /\ (c \in DOMAIN ch.orElse => value(c) # Null) THEN value(c)
         ELSE ch.orElse[c]]

-----------------------------------------------------------------------------
(* buildOptimisticEffects.                                                    *)

PredictedNodes ==
  "node.create" :> Ins("nodes", {"parent_id", "node_type", "title", "description", "sort_order",
                                 "start_date", "due_date", "estimate_minutes", "habit_id", "attributes"},
                       AllOf({"parent_id", "start_date", "due_date", "estimate_minutes", "habit_id"}, Null)
                       @@ "description" :> Lit("") @@ "attributes" :> Lit("{}"))
  @@ "node.rename" :> Upd("nodes", {"title"}, << >>)
  @@ "node.set_description" :> Upd("nodes", {"description"}, << >>)
  @@ "node.set_attributes" :> Upd("nodes", {"attributes"}, "attributes" :> Lit("{}"))
  @@ "node.set_dates" :> Upd("nodes", {"start_date", "due_date"}, << >>)
  @@ "node.set_estimate" :> Upd("nodes", {"estimate_minutes"}, "estimate_minutes" :> Null)
  @@ "node.reorder" :> Upd("nodes", {"sort_order"}, << >>)
  @@ "node.move" :> Change("update", "nodes", "parent_id" :> "new_parent_id" @@ Same({"sort_order"}),
                           "parent_id" :> Null)
  @@ "node.retype" :> Upd("nodes", {"node_type"}, << >>)
  @@ "node.check_off" :> Change("update", "nodes", "completion_disposition" :> "disposition"
                                @@ Same({"completed_at", "completed_in_block_id"}),
                                "completion_disposition" :> Lit("completed"))
  @@ "node.uncheck" :> Upd("nodes", {}, AllOf({"completed_at", "completion_disposition",
                                               "completed_in_block_id"}, Null))
  @@ "node.soft_delete" :> Del("nodes")
  @@ "activity.promote" :> Upd("nodes", {"parent_id", "habit_id"},
                               AllOf({"parent_id", "habit_id"}, Null) @@ "node_type" :> Lit("task"))

PredictedPlan ==
  "edge.create" :> Ins("edges", {"predecessor_id", "successor_id", "edge_type", "lag_minutes"},
                       "edge_type" :> Lit("FS") @@ "lag_minutes" :> Lit("0"))
  @@ "edge.delete" :> Del("edges")
  @@ "block.create" :> Ins("schedule_blocks", {"task_id", "starts_at", "ends_at", "anchor_type"},
                           "anchor_type" :> Lit("none") @@ "status" :> Lit("committed"))
  @@ "block.move" :> Upd("schedule_blocks", {"starts_at", "ends_at"}, << >>)
  @@ "block.set_anchor" :> Upd("schedule_blocks", {"anchor_type"}, << >>)
  @@ "block.delete" :> Del("schedule_blocks")
  @@ "block.reject_suggestion" :> Del("schedule_blocks")
  @@ "timer.clock_in" :> Ins("time_entries", {"task_id", "started_at", "planned"},
                             "planned" :> Lit("true") @@ "device_id" :> Lit("device"))
  @@ "timer.clock_out" :> Upd("time_entries", {"ended_at"}, << >>)
  @@ "timer.review" :> Upd("time_entries", {"focus_factor", "completed_session"}, << >>)

PredictedHabits ==
  "habit.create" :> Ins("habits", {"vision_id", "title", "rrule", "streak_mode", "daily_target_minutes",
                                   "mastery_target_hours", "level_thresholds_hours"},
                        AllOf({"daily_target_minutes", "mastery_target_hours"}, Null)
                        @@ "level_thresholds_hours" :> Lit("[]"))
  @@ "habit.update" :> Upd("habits", {"title", "rrule", "streak_mode", "daily_target_minutes",
                                      "mastery_target_hours", "level_thresholds_hours"}, << >>)
  @@ "habit.delete" :> Del("habits")
  @@ "habit.check_off" :> Ins("habit_completions", {"habit_id", "occurrence_date", "completed_at"}, << >>)
  @@ "sprint.create" :> Ins("sprints", {"title", "starts_on", "ends_on"}, << >>)
  @@ "sprint.add_node" :> Ins("sprint_memberships", {"sprint_id", "node_id"}, << >>)
  @@ "sprint.remove_node" :> Del("sprint_memberships")
  @@ "sprint.delete" :> Del("sprints")
  @@ "board.create" :> Ins("decision_boards", {"title"}, << >>)
  @@ "criterion.create" :> Ins("decision_criteria", {"board_id", "label", "weight"}, << >>)
  @@ "criterion.set_weight" :> Upd("decision_criteria", {"weight"}, << >>)
  @@ "score.set" :> Ins("decision_scores", {"criterion_id", "project_id", "score"}, << >>)

PredictedNotes ==
  "tag.create" :> Ins("tags", {"label", "habit_id"}, "habit_id" :> Null)
  @@ "tag.rename" :> Upd("tags", {"label"}, << >>)
  @@ "tag.delete" :> Del("tags")
  @@ "tag.place" :> Ins("tag_placements", {"block_id", "tag_id"}, << >>)
  @@ "tag.unplace" :> Del("tag_placements")
  @@ "tag.answer" :> Ins("tag_answers", {"placement_id", "value", "answered_at"}, << >>)
  @@ "tag.clear_answer" :> Del("tag_answers")
  @@ "journal.write" :> Change("insert", "journal_entries", "month_key" :> "entry_date"
                               @@ Same({"entry_date", "content"}), "content" :> Lit(""))
  @@ "journal.set_locked" :> Upd("journal_entries", {"locked"}, << >>)
  @@ "journal.set_title" :> Upd("journal_entries", {"title"}, << >>)
  @@ "journal.delete" :> Del("journal_entries")
  @@ "step.add" :> Ins("task_steps", {"task_id", "title", "sort_order"}, "done" :> Lit("false"))
  @@ "step.rename" :> Upd("task_steps", {"title"}, << >>)
  @@ "step.toggle" :> Upd("task_steps", {"done"}, << >>)
  @@ "step.reorder" :> Upd("task_steps", {"sort_order"}, << >>)
  @@ "step.remove" :> Del("task_steps")

\* layout.*: an effect only for a layout the device knows the row of.
PredictedRules ==
  "rule.create" :> Ins("automation_rules", {"trigger", "conditions", "actions", "enabled"},
                       "enabled" :> Lit("true"))
  @@ "rule.update" :> Upd("automation_rules", {"trigger", "conditions", "actions"}, << >>)
  @@ "rule.toggle" :> Upd("automation_rules", {"enabled"}, << >>)
  @@ "rule.delete" :> Del("automation_rules")
  @@ "blocker.create" :> Ins("blocker_rules", {"scope", "predicate", "label", "enabled"},
                             "enabled" :> Lit("true"))
  @@ "blocker.update" :> Upd("blocker_rules", {"scope", "predicate", "label"}, << >>)
  @@ "blocker.toggle" :> Upd("blocker_rules", {"enabled"}, << >>)
  @@ "blocker.delete" :> Del("blocker_rules")
  @@ "layout.set_position" :> Upd("diagram_layouts", {"x", "y", "group_id"}, "group_id" :> Null)
  @@ "layout.set_collapsed" :> Upd("diagram_layouts", {"collapsed"}, << >>)
  @@ "group.create" :> Ins("diagram_groups", {"diagram_id", "label", "color"}, "color" :> Null)
  @@ "group.update" :> Upd("diagram_groups", {"label", "color"}, << >>)
  @@ "group.delete" :> Del("diagram_groups")
  @@ "review.resolve" :> Upd("sync_review_items", {}, "status" :> Lit("resolved"))
  @@ "review.dismiss" :> Upd("sync_review_items", {}, "status" :> Lit("dismissed"))
  @@ "settings.update" :> Upd("user_settings", {"day_reset_hour", "timezone", "weather_location",
                                                "journal_day_log"}, << >>)

Predicted == PredictedNodes @@ PredictedPlan @@ PredictedHabits @@ PredictedNotes @@ PredictedRules

-----------------------------------------------------------------------------
(* runHandler.  An insert names what becomes of it when another live row has  *)
(* its natural key: "skip" (onConflictDoNothing), "look" (a look before),     *)
(* "merge" (an upsert), or "refuse" (a check, or the unique index).           *)

Insert(table, fields, orElse, clash) == [Ins(table, fields, orElse) EXCEPT !.op = clash]

WrittenNodes ==
  "node.create" :> Insert("nodes", {"parent_id", "node_type", "title", "description", "sort_order",
                                    "start_date", "due_date", "estimate_minutes", "habit_id", "attributes"},
                          AllOf({"parent_id", "start_date", "due_date", "estimate_minutes", "habit_id"}, Null)
                          @@ "description" :> Lit("") @@ "attributes" :> Lit("{}"), "refuse")
  @@ "node.rename" :> Upd("nodes", {"title"}, << >>)
  @@ "node.set_description" :> Upd("nodes", {"description"}, << >>)
  @@ "node.set_attributes" :> Upd("nodes", {"attributes"}, << >>)
  @@ "node.move" :> Change("update", "nodes", "parent_id" :> "new_parent_id" @@ Same({"sort_order"}), << >>)
  @@ "node.retype" :> Upd("nodes", {"node_type"}, << >>)
  @@ "node.set_dates" :> Upd("nodes", {"start_date", "due_date"}, << >>)
  @@ "node.set_estimate" :> Upd("nodes", {"estimate_minutes"}, << >>)
  @@ "node.reorder" :> Upd("nodes", {"sort_order"}, << >>)
  @@ "node.check_off" :> Change("update", "nodes", "completion_disposition" :> "disposition"
                                @@ Same({"completed_at", "completed_in_block_id"}),
                                "completion_disposition" :> Lit("completed")
                                @@ "completed_in_block_id" :> Null)
  @@ "node.uncheck" :> Upd("nodes", {}, AllOf({"completed_at", "completion_disposition",
                                               "completed_in_block_id"}, Null))
  @@ "node.soft_delete" :> Del("nodes")
  @@ "activity.promote" :> Upd("nodes", {"parent_id", "habit_id"},
                               AllOf({"parent_id", "habit_id"}, Null) @@ "node_type" :> Lit("task"))

WrittenPlan ==
  "edge.create" :> Insert("edges", {"predecessor_id", "successor_id", "edge_type", "lag_minutes"},
                          "edge_type" :> Lit("FS") @@ "lag_minutes" :> Lit("0"), "refuse")
  @@ "edge.delete" :> Del("edges")
  @@ "block.create" :> Insert("schedule_blocks", {"task_id", "starts_at", "ends_at", "anchor_type"},
                              "anchor_type" :> Lit("none") @@ "status" :> Lit("committed"), "refuse")
  @@ "block.move" :> Upd("schedule_blocks", {"starts_at", "ends_at"}, << >>)
  @@ "block.set_anchor" :> Upd("schedule_blocks", {"anchor_type"}, << >>)
  @@ "block.delete" :> Del("schedule_blocks")
  @@ "block.reject_suggestion" :> Del("schedule_blocks")

\* With no entry open; Tracking has the others.
WrittenTimer ==
  "timer.clock_in" :> Insert("time_entries", {"task_id", "started_at", "planned"},
                             "planned" :> Lit("true") @@ "device_id" :> Lit("device")
                             @@ "ended_at" :> Null, "refuse")
  @@ "timer.clock_out" :> Upd("time_entries", {"ended_at"}, << >>)
  @@ "timer.review" :> Upd("time_entries", {"focus_factor", "completed_session"}, << >>)

WrittenHabits ==
  "habit.create" :> Insert("habits", {"vision_id", "title", "rrule", "streak_mode",
                                      "daily_target_minutes", "mastery_target_hours",
                                      "level_thresholds_hours"},
                           AllOf({"daily_target_minutes", "mastery_target_hours"}, Null)
                           @@ "level_thresholds_hours" :> Lit("[]"), "refuse")
  @@ "habit.update" :> Upd("habits", {"title", "rrule", "streak_mode", "daily_target_minutes",
                                      "mastery_target_hours", "level_thresholds_hours"}, << >>)
  @@ "habit.delete" :> Del("habits")
  @@ "habit.check_off" :> Insert("habit_completions", {"habit_id", "occurrence_date", "completed_at"},
                                 << >>, "skip")
  @@ "sprint.create" :> Insert("sprints", {"title", "starts_on", "ends_on"}, << >>, "refuse")
  @@ "sprint.add_node" :> Insert("sprint_memberships", {"sprint_id", "node_id"}, << >>, "skip")
  @@ "sprint.remove_node" :> Del("sprint_memberships")
  @@ "sprint.delete" :> Del("sprints")
  @@ "board.create" :> Insert("decision_boards", {"title"}, << >>, "refuse")
  @@ "criterion.create" :> Insert("decision_criteria", {"board_id", "label", "weight"}, << >>, "refuse")
  @@ "criterion.set_weight" :> Upd("decision_criteria", {"weight"}, << >>)
  @@ "score.set" :> Insert("decision_scores", {"criterion_id", "project_id", "score"}, << >>, "merge")

WrittenTags ==
  "tag.create" :> Insert("tags", {"label", "habit_id"}, "habit_id" :> Null, "refuse")
  @@ "tag.rename" :> Upd("tags", {"label"}, << >>)
  @@ "tag.delete" :> Del("tags")
  @@ "tag.place" :> Insert("tag_placements", {"block_id", "tag_id"}, << >>, "look")
  @@ "tag.unplace" :> Del("tag_placements")
  @@ "tag.answer" :> Insert("tag_answers", {"placement_id", "value", "answered_at"}, << >>, "merge")
  @@ "tag.clear_answer" :> Del("tag_answers")

WrittenNotes ==
  "journal.write" :> [Change("insert", "journal_entries", "month_key" :> "entry_date"
                             @@ Same({"entry_date", "content"}), << >>) EXCEPT !.op = "merge"]
  @@ "journal.set_locked" :> Upd("journal_entries", {"locked"}, << >>)
  @@ "journal.set_title" :> Upd("journal_entries", {"title"}, << >>)
  @@ "journal.delete" :> Del("journal_entries")
  @@ "step.add" :> Insert("task_steps", {"task_id", "title", "sort_order"}, "done" :> Lit("false"),
                          "refuse")
  @@ "step.rename" :> Upd("task_steps", {"title"}, << >>)
  @@ "step.toggle" :> Upd("task_steps", {"done"}, << >>)
  @@ "step.reorder" :> Upd("task_steps", {"sort_order"}, << >>)
  @@ "step.remove" :> Del("task_steps")

WrittenRules ==
  "rule.create" :> Insert("automation_rules", {"trigger", "conditions", "actions", "enabled"},
                          "enabled" :> Lit("true"), "refuse")
  @@ "rule.update" :> Upd("automation_rules", {"trigger", "conditions", "actions"}, << >>)
  @@ "rule.toggle" :> Upd("automation_rules", {"enabled"}, << >>)
  @@ "rule.delete" :> Del("automation_rules")
  @@ "blocker.create" :> Insert("blocker_rules", {"scope", "predicate", "label", "enabled"},
                                "enabled" :> Lit("true"), "refuse")
  @@ "blocker.update" :> Upd("blocker_rules", {"scope", "predicate", "label"}, << >>)
  @@ "blocker.toggle" :> Upd("blocker_rules", {"enabled"}, << >>)
  @@ "blocker.delete" :> Del("blocker_rules")

\* A layout is looked up by its pair; the server mints the id of a new one.
WrittenDiagrams ==
  "layout.set_position" :> Insert("diagram_layouts", {"diagram_id", "node_id", "x", "y", "group_id"},
                                  "group_id" :> Null, "merge")
  @@ "layout.set_collapsed" :> Insert("diagram_layouts", {"diagram_id", "node_id", "collapsed"},
                                      AllOf({"x", "y"}, Lit("0")), "merge")
  @@ "group.create" :> Insert("diagram_groups", {"diagram_id", "label", "color"}, "color" :> Null,
                              "refuse")
  @@ "group.update" :> Upd("diagram_groups", {"label", "color"}, << >>)
  @@ "group.delete" :> Del("diagram_groups")
  @@ "review.resolve" :> Upd("sync_review_items", {}, "status" :> Lit("resolved")
                                               @@ "resolved_at" :> Lit("now"))
  @@ "review.dismiss" :> Upd("sync_review_items", {}, "status" :> Lit("dismissed")
                                               @@ "resolved_at" :> Lit("now"))
  @@ "settings.update" :> [Upd("user_settings", {"day_reset_hour", "timezone", "weather_location",
                                                 "journal_day_log"}, << >>) EXCEPT !.op = "merge"]

Written == WrittenNodes @@ WrittenPlan @@ WrittenTimer @@ WrittenHabits @@ WrittenTags
           @@ WrittenNotes @@ WrittenRules @@ WrittenDiagrams

\* The fields a merge settles by last writer; the insert alone sets the rest.
Contended(v) ==
  CASE v = "score.set"            -> {"score"}
    [] v = "tag.answer"           -> {"value", "answered_at"}
    [] v = "journal.write"        -> {"content"}
    [] v = "layout.set_position"  -> {"x", "y", "group_id"}
    [] v = "layout.set_collapsed" -> {"collapsed"}
    [] v = "settings.update"      -> DOMAIN Tables["user_settings"]

\* Verbs whose handler has checks of its own, beyond the row being there.
Gated == {"node.create", "node.move", "node.retype", "node.check_off", "activity.promote",
          "edge.create", "block.create", "block.move", "timer.clock_in", "timer.clock_out",
          "habit.create", "score.set", "layout.set_position", "step.add", "step.rename",
          "step.toggle", "step.reorder", "step.remove", "rule.create", "rule.update"}

\* Verbs whose handler records what it wrote (`rec`), for the answer to carry.
Recorded == {"node.create", "node.rename", "node.set_description", "node.set_attributes", "node.move",
             "node.retype", "node.set_dates", "node.set_estimate", "node.reorder", "node.check_off",
             "node.uncheck", "node.soft_delete", "activity.promote", "edge.create", "edge.delete",
             "block.create", "timer.clock_in", "journal.write", "journal.set_locked",
             "journal.set_title", "journal.delete", "step.add", "step.rename", "step.toggle",
             "step.reorder", "step.remove"}
=============================================================================
