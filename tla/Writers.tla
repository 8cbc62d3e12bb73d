------------------------------ MODULE Writers -------------------------------
(***************************************************************************)
(* The writers of the screens (packages/ui/src/powersync/commands.ts): each  *)
(* builds the payload of one verb and hands it to execute, which parses it   *)
(* and throws on a payload its schema refuses, with nothing queued.  So a    *)
(* writer must never build one, whichever of its options a screen gives.     *)
(***************************************************************************)
EXTENDS Catalog

\* A writer: its verb, the fields it always sends, those it sends when asked to
\* (the id apart), whether it returns early when none of these is given, and
\* where the row's id comes from: "given", "minted" or "either".
Writer(verb, sends, maySend, early, id) ==
  [verb |-> verb, sends |-> sends, maySend |-> maySend, early |-> early, id |-> id]

Sets(verb, fields) == Writer(verb, fields, {}, FALSE, "given")
Removes(verb) == Sets(verb, {})
Adds(verb, fields, maySend) == Writer(verb, fields, maySend, FALSE, "either")
Mints(verb, fields, maySend) == Writer(verb, fields, maySend, FALSE, "minted")
Patches(verb, maySend) == Writer(verb, {}, maySend, TRUE, "given")

NodeWriters ==
  "checkOff" :> Writer("node.check_off", {"completed_at"}, {"disposition", "completed_in_block_id"},
                       FALSE, "given")
  @@ "uncheck" :> Removes("node.uncheck")
  @@ "rename" :> Sets("node.rename", {"title"})
  @@ "setDescription" :> Sets("node.set_description", {"description"})
  @@ "setNodeAttributes" :> Sets("node.set_attributes", {"attributes"})
  @@ "reorderNode" :> Sets("node.reorder", {"sort_order"})
  @@ "moveNode" :> Sets("node.move", {"new_parent_id", "sort_order"})
  @@ "softDelete" :> Removes("node.soft_delete")

Born == {"node_type", "title", "sort_order"}

TreeWriters ==
  "createVision" :> Mints("node.create", Born, {"description", "attributes"})
  @@ "createActivity" :> Mints("node.create", Born, {})
  @@ "promoteToParent" :> Sets("activity.promote", {"parent_id"})
  @@ "promoteToHabit" :> Sets("activity.promote", {"habit_id"})
  @@ "createProject" :> Adds("node.create", Born \cup {"parent_id"}, {})
  @@ "createRoadmap" :> Adds("node.create", Born \cup {"parent_id"}, {})
  @@ "createTask" :> Adds("node.create", Born \cup {"parent_id"}, {"estimate_minutes"})

\* A completing review also paints the task (Tracking).
TimerWriters ==
  "clockIn" :> Mints("timer.clock_in", {"task_id", "started_at"}, {"force"})
  @@ "clockOut" :> Sets("timer.clock_out", {"ended_at"})
  @@ "review" :> Sets("timer.review", {"focus_factor", "completed_session"})

\* Acceptance is Planning's.
BlockWriters ==
  "createBlock" :> Adds("block.create", {"task_id", "starts_at", "ends_at"}, {"anchor_type"})
  @@ "moveBlock" :> Sets("block.move", {"starts_at", "ends_at"})
  @@ "setBlockAnchor" :> Sets("block.set_anchor", {"anchor_type"})
  @@ "deleteBlock" :> Removes("block.delete")

DateWriters ==
  "rejectSuggestion" :> Removes("block.reject_suggestion")
  @@ "setDates" :> Patches("node.set_dates", {"start_date", "due_date"})
  @@ "setEstimate" :> Sets("node.set_estimate", {"estimate_minutes"})

Targets == {"daily_target_minutes", "mastery_target_hours", "level_thresholds_hours"}

HabitWriters ==
  "createHabit" :> Mints("habit.create", {"vision_id", "title", "rrule", "streak_mode"}, Targets)
  @@ "updateHabit" :> Patches("habit.update", {"title", "rrule"} \cup Targets)
  @@ "deleteHabit" :> Removes("habit.delete")
  @@ "checkOffHabit" :> Mints("habit.check_off", {"habit_id", "occurrence_date", "completed_at"}, {})

BoardWriters ==
  "createBoard" :> Mints("board.create", {"title"}, {})
  @@ "createCriterion" :> Mints("criterion.create", {"board_id", "label", "weight"}, {})
  @@ "setCriterionWeight" :> Sets("criterion.set_weight", {"weight"})
  @@ "setScore" :> Adds("score.set", {"criterion_id", "project_id", "score"}, {})

TagWriters ==
  "createTag" :> Adds("tag.create", {"label"}, {"habit_id"})
  @@ "renameTag" :> Sets("tag.rename", {"label"})
  @@ "deleteTag" :> Removes("tag.delete")
  @@ "placeTag" :> Adds("tag.place", {"block_id", "tag_id"}, {})
  @@ "unplaceTag" :> Removes("tag.unplace")
  @@ "answerTag" :> Adds("tag.answer", {"placement_id", "value", "answered_at"}, {})
  @@ "clearTagAnswer" :> Removes("tag.clear_answer")

JournalWriters ==
  "writeJournal" :> Adds("journal.write", {"entry_date", "content"}, {})
  @@ "deleteJournal" :> Removes("journal.delete")
  @@ "setJournalLocked" :> Sets("journal.set_locked", {"locked"})
  @@ "setJournalTitle" :> Sets("journal.set_title", {"title"})

StepWriters ==
  "addStep" :> Adds("step.add", {"task_id", "title", "sort_order"}, {})
  @@ "renameStep" :> Sets("step.rename", {"title"})
  @@ "toggleStep" :> Sets("step.toggle", {"done"})
  @@ "reorderStep" :> Sets("step.reorder", {"sort_order"})
  @@ "removeStep" :> Removes("step.remove")

EdgeWriters ==
  "createEdge" :> Adds("edge.create", {"predecessor_id", "successor_id"}, {"edge_type", "lag_minutes"})
  @@ "deleteEdge" :> Removes("edge.delete")

\* A layout is named by its pair; its row's id only aims the effect.
Pair == {"diagram_id", "node_id"}

DiagramWriters ==
  "setLayoutPosition" :> Adds("layout.set_position", Pair \cup {"x", "y"}, {"group_id"})
  @@ "setLayoutCollapsed" :> Adds("layout.set_collapsed", Pair \cup {"collapsed"}, {})
  @@ "createGroup" :> Adds("group.create", {"diagram_id", "label"}, {"color"})
  @@ "updateGroup" :> Patches("group.update", {"label", "color"})
  @@ "deleteGroup" :> Removes("group.delete")

RuleWriters ==
  "createRule" :> Adds("rule.create", {"trigger", "conditions", "actions"}, {"enabled"})
  @@ "toggleRule" :> Sets("rule.toggle", {"enabled"})
  @@ "deleteRule" :> Removes("rule.delete")
  @@ "createBlocker" :> Adds("blocker.create", {"scope", "predicate", "label"}, {"enabled"})
  @@ "toggleBlocker" :> Sets("blocker.toggle", {"enabled"})
  @@ "deleteBlocker" :> Removes("blocker.delete")

SettingsWriters ==
  "updateSettings" :> Patches("settings.update", {"day_reset_hour", "timezone", "journal_day_log"})
  @@ "insertSettings" :> Sets("settings.update", {"day_reset_hour", "timezone"})

ReviewWriters ==
  "resolveReviewItem" :> Removes("review.resolve")
  @@ "dismissReviewItem" :> Removes("review.dismiss")

createCommands ==
  NodeWriters @@ TreeWriters @@ TimerWriters @@ BlockWriters @@ DateWriters @@ HabitWriters
  @@ BoardWriters @@ TagWriters @@ JournalWriters @@ StepWriters @@ EdgeWriters
  @@ DiagramWriters @@ RuleWriters @@ SettingsWriters @@ ReviewWriters

-----------------------------------------------------------------------------

\* The sets of fields a writer sends.
SentBy(w) ==
  {w.sends \cup S : S \in SUBSET w.maySend} \ (IF w.early THEN {w.sends} ELSE {})

\* The schema of a verb accepts a payload of these fields (strict objects).
Parses(v, fields) ==
  LET p == Payloads[v] IN
  /\ p.required \subseteq fields
  /\ fields \subseteq p.required \cup p.optional
  /\ v \in AtLeastOne => fields # {}
  /\ v \in ExactlyOne => Cardinality(fields) = 1

\* Server-owned: prepareCommand takes these fields from every payload.
TRUST_FIELDS ==
  {"user_id", "created_at", "updated_at", "deleted_at", "hlc", "schema_version",
   "created_by_command_id", "last_modified_by_command_id", "source_kind", "source_id",
   "source_detail", "computed_by"}

stripTrustFields(fields) == fields \ TRUST_FIELDS

\* The fields that are left still parse: no verb has a field of that kind, and the
\* rejection of a payload never hangs on one.
ASSUME StrippingIsHarmless ==
  \A v \in Verbs : \A fields \in {Payloads[v].required, Payloads[v].required \cup Payloads[v].optional} :
    stripTrustFields(fields) = fields

\* What the screens send of a verb, over all its writers.
Sent(v) == UNION {SentBy(createCommands[n]) : n \in {m \in DOMAIN createCommands : createCommands[m].verb = v}}

\* No writer builds a payload that execute throws on.
ASSUME WritersParse ==
  \A n \in DOMAIN createCommands :
    LET w == createCommands[n] IN
    w.verb \in Verbs /\ \A fields \in SentBy(w) : Parses(w.verb, fields)

\* The verbs no screen sends: those without a writer.
Unwritten == {v \in Verbs : Sent(v) = {}}
=============================================================================
