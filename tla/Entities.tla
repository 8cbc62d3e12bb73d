------------------------------ MODULE Entities ------------------------------
(***************************************************************************)
(* The entity rows of Prisms (packages/core/src/domain/entities.ts): of every*)
(* synced table the columns, those that may be null and those of a few       *)
(* values.  They mirror the tables of the server (Catalog) and they are what *)
(* the selectors of core are written for; Records checks the rows the screens *)
(* hand to them.  Ids, audit, provenance and the widths of numbers and texts  *)
(* are left out, but for the enumerations.                                    *)
(***************************************************************************)
EXTENDS Catalog

Enum(names) == {Lit(n) : n \in names}

\* A shape: the columns that hold a value, those that may be null, and the
\* enumerations among both.
Shape(filled, nullable, oneOf) == [filled |-> filled, nullable |-> nullable, oneOf |-> oneOf]

NODE_TYPES == Enum({"vision", "roadmap", "project", "milestone", "task", "activity"})
COMPLETION_DISPOSITIONS == Enum({"completed", "obsolete"})
EDGE_TYPES == Enum({"FS", "SS", "FF", "SF"})
ANCHOR_TYPES == Enum({"none", "start", "end", "both"})
BLOCK_STATUSES == Enum({"committed", "suggested"})
STREAK_MODES == Enum({"perfect_planned", "daily", "weekly", "monthly", "quarterly", "yearly"})
TAG_ANSWER_VALUES == Enum({"yes", "no"})
AUTOMATION_TRIGGERS == Enum({"task_completed", "task_created"})
REVIEW_ITEM_TYPES ==
  Enum({"command_rejection", "dependency_rejection", "hlc_conflict", "stale_suggestion",
        "automation_backstop", "automation_drift", "schema_version_block", "import_warning",
        "sync_warning"})
REVIEW_SEVERITIES == Enum({"info", "warning", "error"})
REVIEW_STATUSES == Enum({"open", "resolved", "dismissed"})

nodeSchema ==
  Shape({"node_type", "title", "description", "sort_order", "attributes"},
        {"parent_id", "start_date", "due_date", "estimate_minutes", "completed_at",
         "completion_disposition", "completed_in_block_id", "habit_id"},
        "node_type" :> NODE_TYPES @@ "completion_disposition" :> COMPLETION_DISPOSITIONS)

edgeSchema ==
  Shape({"predecessor_id", "successor_id", "edge_type", "lag_minutes"}, {}, "edge_type" :> EDGE_TYPES)

scheduleBlockSchema ==
  Shape({"task_id", "starts_at", "ends_at", "anchor_type", "status"},
        {"rrule", "suggestion_reason", "computed_at", "external_event_id", "suggestion_batch_id",
         "replaces_block_id", "superseded_at"},
        "anchor_type" :> ANCHOR_TYPES @@ "status" :> BLOCK_STATUSES)

timeEntrySchema ==
  Shape({"task_id", "started_at", "planned", "device_id"},
        {"ended_at", "focus_factor", "completed_session"}, << >>)

habitSchema ==
  Shape({"vision_id", "title", "rrule", "streak_mode", "level_thresholds_hours"},
        {"daily_target_minutes", "mastery_target_hours"}, "streak_mode" :> STREAK_MODES)

habitCompletionSchema == Shape({"habit_id", "occurrence_date", "completed_at"}, {}, << >>)

tagSchema == Shape({"label"}, {"habit_id"}, << >>)
tagPlacementSchema == Shape({"block_id", "tag_id"}, {}, << >>)
tagAnswerSchema == Shape({"placement_id", "value", "answered_at"}, {}, "value" :> TAG_ANSWER_VALUES)

decisionBoardSchema == Shape({"title"}, {}, << >>)
decisionCriterionSchema == Shape({"board_id", "label", "weight"}, {}, << >>)
decisionScoreSchema == Shape({"criterion_id", "project_id", "score"}, {}, << >>)
sprintSchema == Shape({"title", "starts_on", "ends_on"}, {}, << >>)
sprintMembershipSchema == Shape({"sprint_id", "node_id"}, {}, << >>)

automationRuleSchema ==
  Shape({"trigger", "conditions", "actions", "enabled", "rule_version"}, {},
        "trigger" :> AUTOMATION_TRIGGERS)
blockerRuleSchema == Shape({"scope", "predicate", "label", "enabled"}, {}, << >>)

diagramLayoutSchema ==
  Shape({"diagram_id", "node_id", "x", "y", "collapsed"}, {"group_id", "computed_at"}, << >>)
diagramGroupSchema == Shape({"diagram_id", "label"}, {"color"}, << >>)

userSettingsSchema ==
  Shape({"day_reset_hour", "timezone", "journal_day_log"}, {"weather_location"}, << >>)

syncReviewItemSchema ==
  Shape({"item_type", "severity", "title", "detail", "status"}, {"command_id", "resolved_at"},
        "item_type" :> REVIEW_ITEM_TYPES @@ "severity" :> REVIEW_SEVERITIES
        @@ "status" :> REVIEW_STATUSES)

journalEntrySchema == Shape({"entry_date", "month_key", "content", "locked", "title"}, {}, << >>)
taskStepSchema == Shape({"task_id", "title", "done", "sort_order"}, {}, << >>)

entitySchemas ==
  "nodes" :> nodeSchema @@ "edges" :> edgeSchema @@ "schedule_blocks" :> scheduleBlockSchema
  @@ "time_entries" :> timeEntrySchema @@ "habits" :> habitSchema
  @@ "habit_completions" :> habitCompletionSchema @@ "tags" :> tagSchema
  @@ "tag_placements" :> tagPlacementSchema @@ "tag_answers" :> tagAnswerSchema
  @@ "decision_boards" :> decisionBoardSchema @@ "decision_criteria" :> decisionCriterionSchema
  @@ "decision_scores" :> decisionScoreSchema @@ "sprints" :> sprintSchema
  @@ "sprint_memberships" :> sprintMembershipSchema @@ "automation_rules" :> automationRuleSchema
  @@ "blocker_rules" :> blockerRuleSchema @@ "diagram_layouts" :> diagramLayoutSchema
  @@ "diagram_groups" :> diagramGroupSchema @@ "user_settings" :> userSettingsSchema

\* The registry leaves three tables out, whose schemas are the same kind.
Schemas ==
  entitySchemas @@ "sync_review_items" :> syncReviewItemSchema
  @@ "journal_entries" :> journalEntrySchema @@ "task_steps" :> taskStepSchema

-----------------------------------------------------------------------------
(* A row has the shape of its table.  A value that a command or an older row  *)
(* brings (Catalog) passed its schema when it came; a literal is looked up.   *)

Columns(t) == Schemas[t].filled \cup Schemas[t].nullable

Literal(v) == Len(v) = 1

\* A value the screens can read in a column: not a hole, null where that is allowed
\* or the mapper has something instead, of the enumeration if it is spelled out.
HasFallback(t, c) == t \in DOMAIN Fallbacks /\ c \in DOMAIN Fallbacks[t]

Fills(t, c, v) ==
  /\ v # Required
  /\ c \in Schemas[t].filled /\ v = Null => HasFallback(t, c)
  /\ c \in DOMAIN Schemas[t].oneOf /\ Literal(v) => v \in Schemas[t].oneOf[c] \cup {Null}

Fits(t, row) ==
  /\ DOMAIN row = Columns(t)
  /\ \A c \in Schemas[t].filled : row[c] # Null /\ row[c] # Required
  /\ \A c \in DOMAIN Schemas[t].oneOf :
       Literal(row[c]) => row[c] \in Schemas[t].oneOf[c] \cup {Null}

\* The entity schemas mirror the tables: the same columns, null where a column
\* may be null, and defaults out of the enumerations.
ASSUME EntitiesMirrorTables ==
  /\ DOMAIN Schemas = DOMAIN Tables
  /\ \A t \in DOMAIN Tables :
       /\ Columns(t) = DOMAIN Tables[t]
       /\ Schemas[t].nullable = {c \in DOMAIN Tables[t] : Tables[t][c] = Null}
       /\ \A c \in DOMAIN Schemas[t].oneOf :
            c \in DOMAIN Tables[t] /\ Tables[t][c] \in Schemas[t].oneOf[c] \cup {Null, Required}

\* What the streams bring and the mappers add is an entity: a device keeps every column
\* that holds a value, or its mapper has one; and the defaults of both can be read.
ASSUME MappersComplete ==
  \A t \in DOMAIN Tables :
    /\ t \in DOMAIN DeviceTables /\ DeviceTables[t] \subseteq DOMAIN Tables[t]
    /\ \A c \in Schemas[t].filled : c \in DeviceTables[t] \/ HasFallback(t, c)
    /\ \A c \in DOMAIN Tables[t] :
         /\ Tables[t][c] # Required => Fills(t, c, Tables[t][c])
         /\ HasFallback(t, c) => Fills(t, c, Fallbacks[t][c]) /\ Fallbacks[t][c] # Null
=============================================================================
