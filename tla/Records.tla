------------------------------ MODULE Records ------------------------------
(***************************************************************************)
(* The row writes of the whole catalogue, from the device that predicts one  *)
(* to the device that sees it settled: the overlay, the server's handler with*)
(* its natural keys and last-writer-wins fields, the acknowledgement with the *)
(* rows it names, and the reconciliation of the overlay with the replica.     *)
(*                                                                          *)
(* Each behaviour plays one script, a few commands of one or two devices.    *)
(* Commands reach the server in any order across devices; the position in    *)
(* the script is the order of their HLCs and of their ids.  CommandSync has   *)
(* batches, crashes and restarts; here an answer may be lost and asked again. *)
(***************************************************************************)
EXTENDS Effects, Entities, Writers, FiniteSetsExt

CONSTANTS
  Devices,
  Scripts,   \* the scripts: [rows |-> the tables before, cmds |-> the commands]
  MaxLost    \* bound: answers that get lost

\* A payload its schema accepts: required fields, null only where it may be.
Accepts(v, pay) ==
  /\ Payloads[v].required \subseteq DOMAIN pay
  /\ \A f \in DOMAIN pay : IF pay[f] = Null THEN f \in Payloads[v].nullable ELSE ~Literal(pay[f])

\* A row of a table: it has the columns, each with a value they may hold.
IsRow(t, cols) ==
  /\ t \in DOMAIN Tables
  /\ DeviceTables[t] \subseteq DOMAIN cols
  /\ \A c \in DOMAIN cols : Fills(t, c, cols[c])

ASSUME RecordsAssumption ==
  /\ MaxLost \in Nat
  /\ \A s \in Scripts :
       /\ DOMAIN s.cmds \subseteq Nat /\ IsFiniteSet(DOMAIN s.cmds)
       /\ \A c \in DOMAIN s.cmds : /\ s.cmds[c].dev \in Devices
                                  /\ s.cmds[c].verb \in Verbs
                                  /\ Accepts(s.cmds[c].verb, s.cmds[c].pay)
       /\ \A k \in DOMAIN s.rows : IsRow(k[1], s.rows[k].cols)

\* A column a change always names, with a value.
Names(v, ch, c) == c \in DOMAIN ch.orElse \/ (c \in DOMAIN ch.cols /\ ch.cols[c] \in Payloads[v].required)

\* What a change writes can be read.
Suits(v, ch) ==
  /\ \A c \in DOMAIN ch.orElse : Fills(ch.table, c, ch.orElse[c])
  /\ \A c \in DOMAIN ch.cols \ DOMAIN ch.orElse :
       ch.cols[c] \in Payloads[v].nullable => Fills(ch.table, c, Null)

\* The two catalogues fit each other and the tables: the same table, a delete for a
\* delete; a create names every column without a default, and a predicted one every
\* column the screens need.
ASSUME CataloguesFit ==
  /\ DOMAIN Predicted = Verbs /\ DOMAIN Written = Verbs
  /\ \A v \in Verbs :
       LET t == Written[v].table IN
       /\ t \in DOMAIN Tables /\ Predicted[v].table = t
       /\ Predicted[v].op \in {"insert", "update", "delete"}
       /\ Written[v].op \in {"update", "delete", "refuse", "skip", "look", "merge"}
       /\ Written[v].op = "delete" <=> Predicted[v].op = "delete"
       /\ Suits(v, Written[v]) /\ Suits(v, Predicted[v])
       /\ Predicted[v].op = "insert" => \A c \in Schemas[t].filled : Names(v, Predicted[v], c) \/ HasFallback(t, c)
       /\ Written[v].op \in {"refuse", "skip", "look", "merge"} =>
            /\ \A c \in DOMAIN Tables[t] : Tables[t][c] = Required => Names(v, Written[v], c)
            /\ Predicted[v].op = "insert" \/ t \in {"user_settings", "diagram_layouts"}

\* The handlers that record their row write it or found it; of the upserts only the
\* journal's does.  Settings and layouts are never deleted.
ASSUME RecordersFit ==
  /\ \A v \in Recorded : v \in Verbs /\ Written[v].op \notin {"skip", "look"}
                        /\ (Written[v].op = "merge" => v = "journal.write")
  /\ \A v \in Verbs : /\ Written[v].table = "user_settings" <=> v = "settings.update"
                      /\ Written[v].op = "delete" => Written[v].table \notin {"user_settings", "diagram_layouts"}
                      /\ v \in Gated /\ Written[v].op = "delete" => Written[v].table # "journal_entries"
  /\ Written["settings.update"].op = "merge" /\ Written["journal.write"].op = "merge"
  /\ Predicted["journal.write"].op = "insert" /\ Written["journal.write"].table = "journal_entries"
  /\ \A c \in DOMAIN Tables["user_settings"] : Tables["user_settings"][c] # Required

VARIABLES
  cmds,      \* the commands of the script: [dev, verb, id, pay]
  rows,      \* the server's tables: <<table, id>> to [cols, live, by: 0 for NULL]
  version,   \* command_field_versions: <<table, id, column>> to the last writer
  items,     \* hlc_conflict review items: [key, field, value]
  log,       \* command_log: the result of a command, or "none"
  found,     \* a handler under way: {} or {what it read}
  answer,    \* the answer on its way: {} or {[result, effects]}
  lost,      \* how many answers got lost
  status,    \* client_commands
  overlay,   \* overlay_effects: [cmd, op, key, fields]
  replica,   \* each device's tables
  shown      \* history: the row as the device's commands on it have painted it

server == <<rows, version, items, log, found>>
client == <<status, overlay, replica, shown>>
vars == <<cmds, server, answer, lost, client>>

Ids == DOMAIN cmds

Only(S) == CHOOSE x \in S : TRUE

\* f over g.
f ++ g == [x \in DOMAIN f \cup DOMAIN g |-> IF x \in DOMAIN f THEN f[x] ELSE g[x]]

Row(cols, live, by) == [cols |-> cols, live |-> live, by |-> by]

\* A checkpoint of the streams: live rows or all, with the device's columns.
Streamed ==
  [k \in {x \in DOMAIN rows : x[1] \in LiveOnly => rows[x].live} |->
     Row([c \in DeviceTables[k[1]] |-> rows[k].cols[c]], rows[k].live,
         IF k[1] \in Stamped THEN rows[k].by ELSE 0)]

Init ==
  \E s \in Scripts :
    /\ cmds = s.cmds
    /\ rows = s.rows
    /\ version = << >>
    /\ items = {}
    /\ log = [c \in DOMAIN s.cmds |-> "none"]
    /\ found = [c \in DOMAIN s.cmds |-> {}]
    /\ answer = [c \in DOMAIN s.cmds |-> {}]
    /\ lost = 0
    /\ status = [c \in DOMAIN s.cmds |-> "unissued"]
    /\ overlay = {}
    /\ replica = [d \in Devices |-> Streamed]
    /\ shown = [c \in DOMAIN s.cmds |-> {}]

-----------------------------------------------------------------------------
(* The device: what the screens read, and the write.                                *)

NoRow == [here |-> FALSE, live |-> TRUE, cols |-> << >>]

Canonical(d, k) ==
  IF k \in DOMAIN replica[d]
  THEN [here |-> TRUE, live |-> replica[d][k].live, cols |-> replica[d][k].cols] ELSE NoRow

\* mergeRow: a row under one effect more.  An insert over a tombstone leaves it
\* one, as it does not name deleted_at.
Paint(r, e) ==
  IF e.op = "delete" THEN NoRow ELSE [here |-> TRUE, live |-> r.live, cols |-> e.fields ++ r.cols]

\* The row as the screens show it: {} or {its mapped columns}.
Screen(k, r) == IF r.here /\ r.live THEN {Mapped(k[1], r.cols)} ELSE {}

Key(c) == <<Written[cmds[c].verb].table, cmds[c].id>>

\* The effects on a row of a device.
Pending(d, k) == {e \in overlay : cmds[e.cmd].dev = d /\ e.key = k}

\* The row under them (mergeTable): they apply in the order of their commands, so
\* none before the last delete counts, and of those that name a column the last does.
Merged(d, k) ==
  LET deletes == {e \in Pending(d, k) : e.op = "delete"}
      counted == {e \in Pending(d, k) : \A x \in deletes : e.cmd > x.cmd}
      base    == IF deletes = {} THEN Canonical(d, k) ELSE NoRow
      by(f)   == {e \in counted : f \in DOMAIN e.fields}
      last(S) == CHOOSE e \in S : \A x \in S : x.cmd <= e.cmd
  IN  [here |-> base.here \/ counted # {}, live |-> base.live,
       cols |-> [f \in DOMAIN base.cols \cup UNION {DOMAIN e.fields : e \in counted} |->
                   IF by(f) = {} THEN base.cols[f] ELSE last(by(f)).fields[f]]]

Earlier(c) == {b \in Ids : b < c /\ cmds[b].dev = cmds[c].dev}

\* The effect of a command on the overlay.  A layout's has the id of a row the
\* device has, or there is none (commands.ts).
OptimisticEffects(c) ==
  LET ch == Predicted[cmds[c].verb] IN
  IF ch.table = "diagram_layouts" /\ Key(c) \notin DOMAIN replica[cmds[c].dev] THEN {}
  ELSE {[cmd |-> c, op |-> ch.op, key |-> Key(c), fields |-> Fields(ch, cmds[c].pay)]}

\* A screen names a row it mints the id of or one it shows; settings have the
\* user's id, and a layout its pair.
Offered(c) ==
  \/ Key(c)[1] \in {"user_settings", "diagram_layouts"}
  \/ Predicted[cmds[c].verb].op = "insert" /\ \A b \in Ids : b < c => Key(b) # Key(c)
  \/ Merged(cmds[c].dev, Key(c)).here

\* execute: the envelope and the effects in one transaction.
Execute(c) ==
  /\ status[c] = "unissued"
  /\ Offered(c)
  /\ \A b \in Earlier(c) : status[b] # "unissued"
  /\ status' = [status EXCEPT ![c] = "pending"]
  /\ overlay' = overlay \cup OptimisticEffects(c)
  /\ shown' = [shown EXCEPT ![c] =
       LET onRow == {b \in Earlier(c) : Key(b) = Key(c)}
           base  == IF onRow = {} THEN Canonical(cmds[c].dev, Key(c)) ELSE Only(shown[Max(onRow)])
       IN  {IF OptimisticEffects(c) = {} THEN base ELSE Paint(base, Only(OptimisticEffects(c)))}]
  /\ UNCHANGED <<cmds, server, answer, lost, replica>>

-----------------------------------------------------------------------------
(* The server.                                                                *)

\* The live rows under the natural key the command's row would have.
SameKey(c) ==
  LET w    == Written[cmds[c].verb]
      cols == Fields(w, cmds[c].pay)
      key  == NaturalKey(w.table)
  IN  {k \in DOMAIN rows : /\ key # {} /\ key \subseteq DOMAIN cols
                           /\ k[1] = w.table /\ rows[k].live
                           /\ \A n \in key : rows[k].cols[n] = cols[n]}

\* lwwFields: the fields no later writer holds, and those one does.
Winning(k, new, c) ==
  {f \in DOMAIN new : LET v == <<k[1], k[2], f>> IN v \in DOMAIN version => version[v] < c}
Losing(k, new, c) ==
  {f \in DOMAIN new : LET v == <<k[1], k[2], f>> IN v \in DOMAIN version /\ version[v] > c}

\* maybeHlcConflict: keep a losing value that differs from what the row holds.
Conflicts(k, fields, new, held) ==
  {[key |-> k, field |-> f, value |-> new[f]] : f \in {x \in fields : held[x] # new[x]}}

WriteVersions(k, fields, c) ==
  version' = [v \in {<<k[1], k[2], f>> : f \in fields} |-> c] ++ version

\* The tables with row k.
WithRow(k, r) == [x \in DOMAIN rows \cup {k} |-> IF x = k THEN r ELSE rows[x]]

\* An update by last writer; `kept` are conflict items the handler adds.
UpdateRow(k, new, c, kept) ==
  LET win == Winning(k, new, c) IN
  /\ rows' = IF win = {} THEN rows
             ELSE [rows EXCEPT ![k] = Row([f \in win |-> new[f]] ++ @.cols, @.live, c)]
  /\ WriteVersions(k, win, c)
  /\ items' = items \cup Conflicts(k, Losing(k, new, c), new, rows[k].cols) \cup kept

\* A new row, under an id no row has: the primary key refuses another.
InsertRow(k, new, c, fields) ==
  /\ rows' = WithRow(k, Row(new ++ Tables[k[1]], TRUE, c))
  /\ WriteVersions(k, fields, c)
  /\ UNCHANGED items

DeleteRow(k, c) ==
  /\ rows' = [rows EXCEPT ![k] = Row(@.cols, FALSE, c)]
  /\ UNCHANGED <<version, items>>

Nothing == UNCHANGED <<rows, version, items>>

\* The handler returns: log, and answer with the rows it recorded.
Applied(c, effects) ==
  /\ log' = [log EXCEPT ![c] = "applied"]
  /\ answer' = [answer EXCEPT ![c] =
       {[result |-> "applied", effects |-> IF cmds[c].verb \in Recorded THEN effects ELSE {}]}]

Rejected(c) ==
  /\ Nothing
  /\ log' = [log EXCEPT ![c] = "rejected"]
  /\ answer' = [answer EXCEPT ![c] = {[result |-> "rejected", effects |-> {}]}]

OverwrittenProseOfLosers(k, c, prior) ==
  IF cmds[c].verb = "journal.write" /\ k # Key(c) /\ Losing(k, [content |-> prior], c) # {}
  THEN {[key |-> k, field |-> "content", value |-> prior]} ELSE {}

\* The journal keeps the prose of another device's row when it overwrites it.
OverwrittenProse(k, c, prior) ==
  IF cmds[c].verb = "journal.write" /\ k # Key(c) /\ Winning(k, [content |-> prior], c) # {}
     /\ prior # cmds[c].pay["content"]
  THEN {[key |-> k, field |-> "content", value |-> prior]} ELSE {}

\* Upsert onto row k: last writer for the contended fields.
Merge(c, k, prior) ==
  LET new == Fields(Written[cmds[c].verb], cmds[c].pay)
      its == [f \in DOMAIN new \cap Contended(cmds[c].verb) |-> new[f]]
  IN  /\ UpdateRow(k, its, c, OverwrittenProse(k, c, prior))
      /\ Applied(c, {k})

\* The handler reads: the row of the command's id, and of its natural key; a
\* layout is read by its pair alone.
Look(c) ==
  /\ status[c] = "pending" /\ log[c] = "none" /\ found[c] = {}
  /\ \A b \in Earlier(c) : log[b] # "none"
  /\ found' = [found EXCEPT ![c] =
       {[own |-> Key(c) \in DOMAIN rows /\ Key(c)[1] # "diagram_layouts", key |-> SameKey(c),
         prior |-> IF cmds[c].verb # "journal.write" \/ SameKey(c) = {} THEN Null
                   ELSE rows[Only(SameKey(c))].cols["content"]]}]
  /\ UNCHANGED <<cmds, rows, version, items, log, answer, lost, client>>

\* The unique index refuses an update (tag.rename) that takes another row's key.
Taken(k, new) ==
  LET key == NaturalKey(k[1]) IN
  /\ key \cap DOMAIN new # {}
  /\ rows[k].live
  /\ \E x \in DOMAIN rows \ {k} :
       /\ x[1] = k[1] /\ rows[x].live
       /\ \A n \in key : rows[x].cols[n] = (new ++ rows[k].cols)[n]

\* Updates and deletes: the row must be there, deleted or not.
WriteRow(c) ==
  LET w == Written[cmds[c].verb] IN
  CASE ~Only(found[c]).own \/ (w.op = "update" /\ Taken(Key(c), Fields(w, cmds[c].pay))) ->
         Rejected(c)
    [] Only(found[c]).own /\ w.op = "update" /\ ~Taken(Key(c), Fields(w, cmds[c].pay)) ->
         UpdateRow(Key(c), Fields(w, cmds[c].pay), c, {})
         /\ Applied(c, IF Winning(Key(c), Fields(w, cmds[c].pay), c) # {} \/ w.table = "journal_entries"
                       THEN {Key(c)} ELSE {})
    [] OTHER -> DeleteRow(Key(c), c) /\ Applied(c, {Key(c)})

\* Creates: an id that is there has converged; then the natural key decides.
CreateRow(c) ==
  LET w   == Written[cmds[c].verb]
      new == Fields(w, cmds[c].pay)
  IN  CASE Only(found[c]).own \/ (w.op = "look" /\ Only(found[c]).key # {})
             \/ (~Only(found[c]).own /\ w.op = "skip" /\ SameKey(c) # {}) ->
             Nothing /\ Applied(c, {})
        [] SameKey(c) = {} /\ Key(c) \notin DOMAIN rows /\ ~Only(found[c]).own
             /\ ~(w.op = "look" /\ Only(found[c]).key # {}) ->
             InsertRow(Key(c), new, c, {}) /\ Applied(c, {Key(c)})
        [] OTHER -> Rejected(c)

\* The row of the command's id is about something else: another day, placement or pair.
Elsewhere(c) ==
  LET new == Fields(Written[cmds[c].verb], cmds[c].pay)
  IN  \E n \in NaturalKey(Key(c)[1]) : rows[Key(c)].cols[n] # new[n]

\* Upserts: onto the row of the id, of the key, or a new one.  Two inserts of
\* one key at once: the journal merges onto the winner, the others fail.
UpsertRow(c) ==
  LET new  == Fields(Written[cmds[c].verb], cmds[c].pay)
      seen == Only(found[c])
  IN  CASE seen.own /\ ~Elsewhere(c) -> Merge(c, Key(c), seen.prior)
        [] ~seen.own /\ seen.key # {} -> Merge(c, Only(seen.key), seen.prior)
        [] ~seen.own /\ seen.key = {} /\ SameKey(c) = {} /\ Key(c) \notin DOMAIN rows ->
             InsertRow(Key(c), new, c, DOMAIN new \cap Contended(cmds[c].verb)) /\ Applied(c, {Key(c)})
        [] ~seen.own /\ seen.key = {} /\ SameKey(c) # {} /\ cmds[c].verb = "journal.write" ->
             LET k == Only(SameKey(c)) IN Merge(c, k, rows[k].cols["content"])
        [] OTHER -> Rejected(c)

\* settings.update: a field that loses is looked up by the column `id`, which
\* user_settings does not have: the statement fails and takes the rest along.
UpdateSettings(c) ==
  LET new == Fields(Written["settings.update"], cmds[c].pay)
      k   == Key(c)
      win == Winning(k, new, c)
      old == IF k \in DOMAIN rows THEN rows[k].cols ELSE Tables["user_settings"]
  IN  IF Losing(k, new, c) # {} THEN Rejected(c)
      ELSE /\ rows' = WithRow(k, Row([f \in win |-> new[f]] ++ old, TRUE, 0))
           /\ WriteVersions(k, win, c)
           /\ UNCHANGED items
           /\ Applied(c, {})

\* The handler writes and its transaction commits, with the log.
Handle(c) ==
  /\ found[c] # {}
  /\ LET op == Written[cmds[c].verb].op IN
     \/ /\ op \in {"update", "delete"}
        /\ WriteRow(c)
     \/ /\ op \in {"refuse", "skip", "look"}
        /\ CreateRow(c)
     \/ /\ op = "merge" /\ cmds[c].verb # "settings.update"
        /\ UpsertRow(c)
     \/ /\ cmds[c].verb = "settings.update"
        /\ UpdateSettings(c)
  /\ found' = [found EXCEPT ![c] = {}]
  /\ UNCHANGED <<cmds, lost, client>>

\* A check of the verb's own fails: the hierarchy, the gates (see Gated).
Refuse(c) ==
  /\ found[c] # {}
  /\ cmds[c].verb \in Gated
  /\ Rejected(c)
  /\ found' = [found EXCEPT ![c] = {}]
  /\ UNCHANGED <<cmds, lost, client>>

\* The answer is lost; the device sends again and command_log has the command.
LoseAnswer(c) ==
  /\ answer[c] # {} /\ lost < MaxLost
  /\ answer' = [answer EXCEPT ![c] = {}]
  /\ lost' = lost + 1
  /\ UNCHANGED <<cmds, server, client>>

SendAgain(c) ==
  /\ status[c] = "pending" /\ log[c] # "none" /\ answer[c] = {}
  /\ answer' = [answer EXCEPT ![c] = {[result |-> "noop", effects |-> {}]}]
  /\ UNCHANGED <<cmds, server, lost, client>>

-----------------------------------------------------------------------------
(* The device again.                                                          *)

EffectsOf(c) == {e \in overlay : e.cmd = c}

RewrittenOwnOnly(c, named) == EffectsOf(c)

\* markApplied: a single effect on the table of the one row named, under
\* another id, takes that id.
Rewritten(c, named) ==
  LET rowOf(e) == {y \in named : y[1] = e.key[1]}
  IN  {IF rowOf(e) # {} /\ Only(rowOf(e)) # e.key /\ Cardinality(EffectsOf(c)) = 1
       THEN [e EXCEPT !.op = "update", !.key = Only(rowOf(e))] ELSE e : e \in EffectsOf(c)}

Acknowledge(c) ==
  /\ status[c] = "pending" /\ answer[c] # {}
  /\ answer' = [answer EXCEPT ![c] = {}]
  /\ IF Only(answer[c]).result = "rejected"
     THEN /\ status' = [status EXCEPT ![c] = "rejected"]
          /\ overlay' = overlay \ EffectsOf(c)
     ELSE /\ status' = [status EXCEPT ![c] = "applied"]
          /\ overlay' = (overlay \ EffectsOf(c)) \cup Rewritten(c, Only(answer[c]).effects)
  /\ UNCHANGED <<cmds, server, lost, replica, shown>>

\* The streams bring a checkpoint.
SyncDown(d) ==
  /\ replica[d] # Streamed
  /\ replica' = [replica EXCEPT ![d] = Streamed]
  /\ UNCHANGED <<cmds, server, answer, lost, status, overlay, shown>>

\* reconcileConfirmed: has the row the effect predicted arrived?  A row without
\* a stamp, as background jobs insert it, confirms by being there.
Arrived(d, e) ==
  LET here == e.key \in DOMAIN replica[d] /\ replica[d][e.key].live IN
  IF e.op = "delete" THEN ~here
  ELSE here /\ replica[d][e.key].by \in {0} \cup {b \in Ids : b >= e.cmd}

Reconcile(c) ==
  LET d == cmds[c].dev
      deleted == {e.key : e \in {x \in EffectsOf(c) : x.op = "delete"}}
  IN  /\ status[c] = "applied"
      /\ \A e \in EffectsOf(c) : Arrived(d, e)
      /\ overlay' = {e \in overlay : e.cmd # c /\ ~(cmds[e.cmd].dev = d /\ e.key \in deleted)}
      /\ status' = [status EXCEPT ![c] = "cleared"]
      /\ UNCHANGED <<cmds, server, answer, lost, replica, shown>>

Next ==
  \/ \E c \in Ids : Execute(c)
  \/ \E c \in Ids : Look(c)
  \/ \E c \in Ids : Handle(c)
  \/ \E c \in Ids : Refuse(c)
  \/ \E c \in Ids : LoseAnswer(c)
  \/ \E c \in Ids : SendAgain(c)
  \/ \E c \in Ids : Acknowledge(c)
  \/ \E c \in Ids : Reconcile(c)
  \/ \E d \in Devices : SyncDown(d)

Spec == Init /\ [][Next]_vars

-----------------------------------------------------------------------------
(* What the whole catalogue promises.                                         *)

\* Every command has its verdict and every device the last checkpoint.
Settled ==
  /\ \A c \in Ids : status[c] \in {"applied", "cleared", "rejected"}
  /\ \A d \in Devices : replica[d] = Streamed

LastOnRow(c) == \A b \in Ids : b > c => Key(b) # Key(c)

\* A device alone: what its last command on a row painted is the row the server
\* sends back, read without the overlay.  So effects.ts and runHandler, written by
\* hand in two packages, agree on every verb, with and without optional fields, on
\* the rows the scripts start from: a task that is done is not checked off again,
\* where the two do differ.
PredictionHolds ==
  Settled /\ Cardinality({cmds[c].dev : c \in Ids}) = 1 /\ (\A c \in Ids : log[c] = "applied")
    => \A c \in Ids : LastOnRow(c) =>
         Screen(Key(c), Canonical(cmds[c].dev, Key(c))) = Screen(Key(c), Only(shown[c]))

\* An applied command whose handler names its row leaves no effect waiting, also
\* when another device's row was there first, unless the answer was lost or the
\* row deleted: markApplied turns the effect to the row named.
RecordedSettle ==
  Settled /\ lost = 0 =>
    \A c \in Ids : \A e \in EffectsOf(c) :
      cmds[c].verb \in Recorded /\ e.key[1] \notin Stamped =>
        Arrived(cmds[c].dev, e) \/ (e.key \in DOMAIN rows /\ ~rows[e.key].live)

\* The same of every verb: the comment in markApplied counts tag.answer among
\* the upserts whose effect is turned to the server's row.
UpsertsSettle ==
  Settled /\ lost = 0 =>
    \A c \in Ids : \A e \in EffectsOf(c) :
      cmds[c].verb = "tag.answer" => Arrived(cmds[c].dev, e)

\* The content of a note the screens may show: {} or {it}.
LiveText(k) ==
  IF k \in DOMAIN rows /\ k[1] = "journal_entries" /\ rows[k].live THEN {rows[k].cols["content"]} ELSE {}

Kept(k, text) == [key |-> k, field |-> "content", value |-> text] \in items

NowApplied(c) == log[c] = "none" /\ log'[c] = "applied"

\* journal.write drops no text, in any order of arrival.  A step that takes the
\* content off a live note keeps it in a review item; unless the command names
\* the note by its own id ("the user editing their own note"), or its handler
\* had read an older text.  And the text of a write that applies is on a note of
\* its day or in an item; on a dead note only when the write names that one, or
\* its handler had found it alive.
NoTextDropped ==
  [][/\ \A k \in DOMAIN rows : \A was \in LiveText(k) \ LiveText(k)' :
          \E c \in Ids : /\ NowApplied(c)
                        /\ \/ Key(c) = k
                           \/ Kept(k, was)'
                           \/ Only(found[c]).prior \notin {was, Null}
     /\ \A c \in Ids : NowApplied(c) /\ cmds[c].verb = "journal.write" =>
          \E k \in DOMAIN rows' :
            /\ k[1] = "journal_entries"
            /\ rows'[k].cols["entry_date"] = cmds[c].pay["entry_date"]
            /\ \/ /\ rows'[k].cols["content"] = cmds[c].pay["content"]
                  /\ rows'[k].live \/ k \in {Key(c)} \cup Only(found[c]).key
               \/ Kept(k, cmds[c].pay["content"])']_vars

Painted(d) == DOMAIN replica[d] \cup {e.key : e \in {x \in overlay : cmds[x.cmd].dev = d}}

\* The device has the row, or creates it, or its create was turned to the
\* server's row.
Known(d, k) ==
  \/ k \in DOMAIN replica[d]
  \/ \E e \in Pending(d, k) : e.op = "insert" \/ Key(e.cmd) # k

\* The rows the screens hand to the selectors of core have the shape these are
\* written for, at every moment: a pending create is complete enough to read, a
\* patch leaves no hole, and the mappers fill what the streams do not bring.
RowsFit ==
  \A d \in Devices : \A k \in Painted(d) :
    LET r == Merged(d, k) IN
    r.here /\ r.live /\ Known(d, k) => Fits(k[1], Mapped(k[1], r.cols))

\* mergeTable appends "overlay-only inserts (a pending create whose canonical row
\* has not synced yet)": so it says, but an update of a row that is gone counts too.
OnlyCreatesAppear ==
  \A d \in Devices : \A k \in Painted(d) :
    Merged(d, k).here => Known(d, k) \/ k[1] = "user_settings"

\* "If it overwrote a DIFFERENT device's materially different prose, surface the
\* overwritten text so it stays recoverable": the text of an applied write is on
\* the live note of its day or in an item, unless its own device wrote the day
\* again or the note was deleted.
ProseSurvives ==
  \A c \in Ids : cmds[c].verb = "journal.write" /\ log[c] = "applied" =>
    LET mine == cmds[c].pay["content"]
        notes == {k \in DOMAIN rows : /\ k[1] = "journal_entries"
                                     /\ rows[k].cols["entry_date"] = cmds[c].pay["entry_date"]}
    IN  \/ \E k \in notes : mine \in LiveText(k)
        \/ \E k \in notes : Kept(k, mine)
        \/ \E b \in Ids \ {c} :
             /\ Key(b) \in notes /\ log[b] = "applied"
             /\ \/ cmds[b].verb = "journal.delete"
                \/ cmds[b].verb = "journal.write" /\ b > c /\ cmds[b].dev = cmds[c].dev

\* settings.update answers applied when every field lost (dispatcher.ts): no
\* update of a setting is refused.
SettingsNeverRefused ==
  \A c \in Ids : cmds[c].verb = "settings.update" => log[c] # "rejected"
=============================================================================
