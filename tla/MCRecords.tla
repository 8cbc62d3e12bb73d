----------------------------- MODULE MCRecords -----------------------------
EXTENDS Records, Integers
\* The scripts: every verb alone, a device's sequences, and two devices' clashes.

MCDevices == {"d1", "d2"}

\* Columns two commands agree on: the things a row is about.
Keys == {"predecessor_id", "successor_id", "habit_id", "occurrence_date", "block_id", "tag_id",
         "placement_id", "criterion_id", "project_id", "sprint_id", "node_id", "diagram_id",
         "entry_date", "task_id"}

Value(who, f) == IF f \in Keys THEN <<"ref", f>> ELSE IF f = "month_key" THEN <<"month", "ref">>
                 ELSE <<who, f>>

\* The stamp of a command before the script.
Older == -1

\* A row with every column set, by an older command, and one with what must be,
\* in no command's name.
Rich(t) == Row([c \in DOMAIN Tables[t] |-> Value("old", c)], TRUE, Older)
Poor(t) == Row([c \in DOMAIN Tables[t] |->
                  IF Tables[t][c] = Required THEN Value("old", c) ELSE Tables[t][c]], TRUE, 0)

Pay(who, v, optional, nulls) ==
  [f \in Payloads[v].required \cup optional |->
     IF nulls /\ f \in Payloads[v].nullable THEN Null ELSE Value(who, f)]

\* What the schema accepts, and what the writers send.
PaysOf(who, v) ==
  {Pay(who, v, o, n) : o \in OptionalFields(v) \cup {s \ Payloads[v].required : s \in Sent(v)},
                       n \in BOOLEAN}
Plain(who, v) == Pay(who, v, Payloads[v].optional, FALSE)

By(dev, verb, id, pay) == [dev |-> dev, verb |-> verb, id |-> id, pay |-> pay]
Script(before, commands) == [rows |-> before, cmds |-> commands]

TableOf(v) == Written[v].table
Creates(v) == Written[v].op \in {"refuse", "skip", "look", "merge"} /\ TableOf(v) # "user_settings"
              /\ TableOf(v) # "diagram_layouts"

\* A task that is checked off, promoted... is not done yet.
Before(v) ==
  IF v \in {"node.check_off", "timer.clock_out", "timer.review"} THEN {Poor(TableOf(v))}
  ELSE {Rich(TableOf(v)), Poor(TableOf(v))}

Singles ==
  UNION {IF Creates(v)
         THEN {Script(<< >>, <<By("d1", v, "n", p)>>) : p \in PaysOf("c", v)}
         ELSE {Script(<<TableOf(v), "r">> :> r, <<By("d1", v, "r", p)>>) :
                 r \in Before(v), p \in PaysOf("c", v)}
         : v \in Verbs}
  \cup {Script(<< >>, <<By("d1", "settings.update", "me", p)>>) : p \in PaysOf("c", "settings.update")}

\* What one device does to a row in a row.
Chains ==
  {<<"node.create", "node.rename", "node.soft_delete">>, <<"node.create", "node.move", "node.check_off">>,
   <<"node.create", "node.check_off", "node.uncheck">>,
   <<"edge.create", "edge.delete">>, <<"block.create", "block.move", "block.set_anchor">>,
   <<"timer.clock_in", "timer.clock_out", "timer.review">>, <<"habit.create", "habit.update">>,
   <<"tag.answer", "tag.answer", "tag.clear_answer">>, <<"tag.place", "tag.unplace">>,
   <<"journal.write", "journal.write", "journal.set_title">>,
   <<"journal.write", "journal.set_locked", "journal.delete">>,
   <<"step.add", "step.toggle", "step.remove">>, <<"score.set", "score.set">>,
   <<"rule.create", "rule.toggle", "rule.update">>, <<"group.create", "group.update">>}

Who == <<"c1", "c2", "c3">>
Lonely == {Script(<< >>, [i \in DOMAIN ch |-> By("d1", ch[i], "n", Plain(Who[i], ch[i]))]) : ch \in Chains}

\* Two devices, each on its own row for the same key, or both on one row.
Clash(v, w) == Script(<< >>, <<By("d1", v, "n1", Plain("c1", v)), By("d2", w, "n2", Plain("c2", w))>>)
Shared(v, w) == Script(<<TableOf(v), "r">> :> Rich(TableOf(v)),
                       <<By("d1", v, "r", Plain("c1", v)), By("d2", w, "r", Plain("c2", w))>>)

Clashes == {Clash(v, v) : v \in {"journal.write", "tag.answer", "score.set", "habit.check_off",
                                 "sprint.add_node", "tag.place", "edge.create", "tag.create",
                                 "layout.set_position"}}
           \cup {Clash("layout.set_position", "layout.set_collapsed")}
           \cup {Script(<< >>, <<By("d1", "journal.write", "n1", Plain("c1", "journal.write")),
                                 By("d2", "journal.write", "n2", Plain("c2", "journal.write")),
                                 By(d, v, "n1", Plain("c3", v))>>) :
                   d \in MCDevices, v \in {"journal.write", "journal.delete", "journal.set_title"}}
\* A note of another day.
Elsewhen == [Rich("journal_entries") EXCEPT !.cols["entry_date"] = <<"other", "entry_date">>]

Sharers == {Shared(p[1], p[2]) : p \in
             {<<"journal.write", "journal.write">>, <<"journal.write", "journal.delete">>,
              <<"tag.answer", "tag.clear_answer">>, <<"habit.update", "habit.update">>,
              <<"rule.update", "rule.update">>, <<"group.update", "group.delete">>,
              <<"review.resolve", "review.dismiss">>, <<"settings.update", "settings.update">>,
              <<"step.toggle", "step.rename">>, <<"layout.set_position", "layout.set_collapsed">>}}
           \cup {Script(<<"tags", "r">> :> Rich("tags"),
                        <<By("d1", "tag.create", "n", "label" :> Value("x", "label")),
                          By("d1", "tag.rename", "n", "label" :> Value("old", "label"))>>)}
           \cup {Script(<<"journal_entries", "r">> :> Elsewhen, <<By("d1", "journal.write", "r", Plain("c1", "journal.write"))>>)}

\* A device writes twice to its row while another's note is on its way.
Overtaking == {Script(<< >>, <<By("d1", "journal.write", "n1", Plain("c1", "journal.write")),
                               By("d1", "journal.write", "n1", Plain("c2", "journal.write")),
                               By("d2", "journal.write", "n2", Plain("c3", "journal.write"))>>)}
MCScripts == Singles \cup Lonely \cup Clashes \cup Sharers \cup Overtaking

Upserts == {Clash("tag.answer", "tag.answer")}
Settings == {Shared("settings.update", "settings.update")}
=============================================================================
