------------------------------- MODULE Upkeep -------------------------------
(* The life of an account's rows: two devices send the commands of their   *)
(* queues, acknowledgements get lost, days pass, and the jobs of the       *)
(* server run between them: retention.purge, review.expire_resolved,       *)
(* backup.snapshot, import.validate and import.restore, and two runs of    *)
(* aggregates.recompute.  One initial plan, which never changes, says what *)
(* rows there are, what the devices send and which jobs run.               *)
(*                                                                         *)
(* The clock of a command is the position it has in the plan, and commands *)
(* reach the server in the order of their clocks (the divergence of a row  *)
(* whose clock goes back is in the README).                                *)
EXTENDS DayLog

CONSTANTS
  Plans,            \* [rows, scripts : device -> Seq(command), jobs, user, days]
  MaxImports        \* imports and dry runs

(* A row as the schema has it: a row of a table that is exported, with the *)
(* columns of that table, of which those that reference a row reference    *)
(* one of the right table or none; the settings of a user have one row.    *)
FitsSchema(key, row) ==
  /\ Table(key) \in ToSet(Registry) \ {"command_log"}
  /\ {"user", "deleted", "updated", "hlc", "source"} \subseteq DOMAIN row
  /\ Table(key) \in DOMAIN ForeignKeys =>
       \A c \in DOMAIN ForeignKeys[Table(key)] :
         c \in DOMAIN row /\ (row[c] = None \/ Table(row[c]) = ForeignKeys[Table(key)][c])
  /\ Table(key) \in DOMAIN UniqueColumns => UniqueColumns[Table(key)] \subseteq DOMAIN row
  /\ Table(key) = "user_settings" => key = <<"user_settings", row.user>>

CommandsOf(p) == UNION {ToSet(p.scripts[d]) : d \in DOMAIN p.scripts}

(* Who is made under whom in a plan: the nodes and the parents they name.  *)
Parents(p) ==
  {<<k, p.rows[k].parent>> : k \in RowsOf(p.rows, "nodes")}
  \union {<<c.key, c.row.parent>> :
            c \in {c \in CommandsOf(p) : c.verb = "create" /\ Table(c.key) = "nodes"}}

(* Ids are minted once, and a node after its parent: of any nodes there is *)
(* one whose parent is none of them.                                       *)
MintedInOrder(parents) ==
  \A S \in SUBSET {m[1] : m \in parents} :
    S # {} => \E k \in S : \A m \in parents : m[1] = k => m[2] \notin S

(* A plan begins with finitely many rows that the schema admits and its    *)
(* devices send commands of theirs: no verb writes an aggregate or makes a *)
(* row of settings, and no aggregate is there before a job ran.            *)
ASSUME UpkeepAssumption ==
  \A p \in Plans :
    /\ p.from \in Int
    /\ IsFiniteSet(DOMAIN p.rows)
    /\ \A k \in DOMAIN p.rows :
         /\ FitsSchema(k, p.rows[k]) /\ Table(k) # "computed_aggregates"
         /\ Storable(p.rows, k, p.rows[k])
         /\ p.rows[k].user = p.user =>
              \A r \in References(k, p.rows[k]) : p.rows[r].user = p.user
    /\ \A d \in DOMAIN p.scripts :
         /\ Len(p.scripts[d]) \in Nat /\ DOMAIN p.scripts[d] = 1..Len(p.scripts[d])
         /\ \A i \in 1..Len(p.scripts[d]) :
              /\ p.scripts[d][i].verb \in {"create", "delete", "soft_delete", "close"}
              /\ Table(p.scripts[d][i].key) \notin {"computed_aggregates", "user_settings"}
              /\ p.scripts[d][i].verb = "create" =>
                   FitsSchema(p.scripts[d][i].key, p.scripts[d][i].row)
    /\ MintedInOrder(Parents(p))

VARIABLES
  plan,             \* the scenario
  db,               \* the rows of the server's database
  log,              \* command_log: command -> [result, applied]
  queue,            \* device -> number of its commands that were acknowledged
  day,              \* today
  purge,            \* the next statement of a running purge, or 0
  backup,           \* the export: the next table to read, and what was read
  imports,          \* imports and dry runs so far
  runs,             \* recompute run -> its stage, clock and snapshot
  judged,           \* history: command -> its first verdict
  writes            \* history: commands that were applied

vars == <<plan, db, log, queue, day, purge, backup, imports, runs, judged, writes>>

Now == LocalInstant(day)
Idle == [stage |-> "idle"]
Scripts == plan.scripts
Commands == CommandsOf(plan)

----------------------------------------------------------------------------
(* The handlers of the commands the plans are made of.                     *)

Verdict(result, rows) == [result |-> result, db |-> rows]
Rejected == Verdict("rejected", db)
AppliedAs(rows) == Verdict("applied", rows)

Stamped(row, c) == [row EXCEPT !.updated = day, !.hlc = c.hlc]

Born(c) == [c.row EXCEPT !.updated = day, !.hlc = c.hlc, !.user = plan.user]

(* An id that is taken converges or belongs to someone else.               *)
ConvergeOrOwn(c) ==
  IF db[c.key].user = plan.user THEN AppliedAs(db) ELSE Rejected

(* The rows a create names must be there and the user's own (a tombstone   *)
(* is there); a live rival of the same natural key makes it a no-op.       *)
Create(c) ==
  IF c.key \in DOMAIN db THEN ConvergeOrOwn(c)
  ELSE IF \E k \in References(c.key, c.row) :
            k \notin DOMAIN db \/ db[k].user # plan.user
    THEN Rejected
  ELSE IF Clashes(db, c.key, Born(c)) THEN AppliedAs(db)
  ELSE AppliedAs(Put(db, c.key, Born(c)))

Owned(c) == c.key \in DOMAIN db /\ db[c.key].user = plan.user

(* habit.delete, sprint.delete, tag.unplace, block.delete, edge.delete ... *)
(* mark their own row and nothing below it, live or not.                   *)
Delete(c) ==
  IF Owned(c)
  THEN AppliedAs([db EXCEPT ![c.key] = [Stamped(@, c) EXCEPT !.deleted = day]])
  ELSE Rejected

(* node.soft_delete: the live subtree and the steps of its tasks.          *)
Subtree(root) ==
  {root} \union Below(db, root)

SoftDelete(c) ==
  LET nodes == IF Live(db[c.key]) THEN Subtree(c.key) ELSE {}
      steps == {k \in RowsOf(db, "task_steps") : Live(db[k]) /\ db[k].task \in nodes}
  IN IF Owned(c)
     THEN AppliedAs([k \in DOMAIN db |->
            IF k \in nodes \union steps
            THEN [Stamped(db[k], c) EXCEPT !.deleted = day] ELSE db[k]])
     ELSE Rejected

(* review.resolve and review.dismiss.                                      *)
CloseItem(c) ==
  IF Owned(c)
  THEN AppliedAs([db EXCEPT ![c.key] =
         [Stamped(@, c) EXCEPT !.status = c.status, !.resolved = day]])
  ELSE Rejected

Handled(c) ==
  CASE c.verb = "create" -> Create(c)
    [] c.verb = "delete" -> Delete(c)
    [] c.verb = "soft_delete" -> SoftDelete(c)
    [] c.verb = "close" -> CloseItem(c)

Judge(c, verdict) ==
  /\ db' = verdict.db
  /\ log' = [k \in DOMAIN log \union {c.id} |->
               IF k = c.id THEN [result |-> verdict.result, applied |-> day] ELSE log[k]]
  /\ judged' = [k \in DOMAIN judged \union {c.id} |->
                  IF k \in DOMAIN judged THEN judged[k]
                  ELSE [result |-> verdict.result, applied |-> day]]
  /\ writes' = IF c.id \in DOMAIN judged \/ verdict.result = "rejected"
               THEN writes ELSE writes + 1

(* A device sends the first command it has no answer for.  One the log     *)
(* knows changes nothing; the answer may get lost.                         *)
Upload(d) ==
  /\ queue[d] < Len(Scripts[d])
  /\ LET c == Scripts[d][queue[d] + 1]
     IN /\ \A e \in Commands : e.hlc < c.hlc => e.id \in DOMAIN judged
        /\ IF c.id \in DOMAIN log
           THEN UNCHANGED <<db, log, judged, writes>>
           ELSE \E verdict \in {Handled(c)} : Judge(c, verdict)
  /\ \E answered \in BOOLEAN :
       queue' = [queue EXCEPT ![d] = IF answered THEN @ + 1 ELSE @]
  /\ UNCHANGED <<plan, day, purge, backup, imports, runs>>

----------------------------------------------------------------------------
(* The jobs.                                                               *)

BackupDone == backup.next > Len(Registry)

(* An export and a purge end on the day they begin.                        *)
NextDay ==
  /\ day < plan.days
  /\ purge = 0 /\ (backup.next = 1 \/ BackupDone)
  /\ day' = day + 1
  /\ UNCHANGED <<plan, db, log, queue, purge, backup, imports, runs, judged, writes>>

Expire ==
  /\ "expire" \in plan.jobs /\ Expirable(db, day) # {}
  /\ db' = Expired(db, day)
  /\ UNCHANGED <<plan, log, queue, day, purge, backup, imports, runs, judged, writes>>

(* The next statement that has a row to take; those that take none in      *)
(* between are passed over.                                                *)
StatementFrom(first) ==
  LET busy == {i \in first..Len(Statements) - 1 :
                 Reclaimed(db, Statements[i], day) # {}}
  IN IF busy = {} THEN Len(Statements) ELSE Min(busy)

Statement == StatementFrom(purge)

(* A purge that would take nothing at all is not run.                      *)
StartPurge ==
  /\ "purge" \in plan.jobs /\ purge = 0
  /\ StatementFrom(1) < Len(Statements) \/ Remembered(log, day) # log
  /\ purge' = 1
  /\ UNCHANGED <<plan, db, log, queue, day, backup, imports, runs, judged, writes>>

Reclaiming == Reclaimed(db, Statements[Statement], day)

(* A DELETE of the tables: it commits on its own, or it is refused for a   *)
(* row that is still referenced, and the job ends there.                   *)
PurgeRows ==
  /\ purge # 0 /\ Statement < Len(Statements)
  /\ IF Deletable(db, Reclaiming)
     THEN db' = Without(db, Reclaiming) /\ purge' = Statement + 1
     ELSE db' = db /\ purge' = 0
  /\ UNCHANGED <<plan, log, queue, day, backup, imports, runs, judged, writes>>

PurgeLog ==
  /\ purge # 0 /\ Statement = Len(Statements)
  /\ log' = Remembered(log, day)
  /\ purge' = 0
  /\ UNCHANGED <<plan, db, queue, day, backup, imports, runs, judged, writes>>

(* The next table that has rows is read; no transaction holds the reads    *)
(* of an export together.                                                  *)
NextTable ==
  LET full == {i \in backup.next..Len(Registry) :
                 IF Registry[i] = "command_log" THEN DOMAIN log # {}
                 ELSE DOMAIN ReadTable(db, Registry[i], plan.user) # {}}
  IN IF full = {} THEN Len(Registry) ELSE Min(full)

BackupTable ==
  /\ "backup" \in plan.jobs /\ ~BackupDone
  /\ LET table == Registry[NextTable]
         read == ReadTable(db, table, plan.user)
     IN backup' = IF table = "command_log"
                  THEN [backup EXCEPT !.next = NextTable + 1, !.history = log]
                  ELSE [backup EXCEPT !.next = NextTable + 1, !.rows = Joined(read, @)]
  /\ UNCHANGED <<plan, db, log, queue, day, purge, imports, runs, judged, writes>>

(* The warning an import or a dry run leaves in the inbox.                 *)
Warning == <<"sync_review_items", 0>>

WithWarning(rows, warned) ==
  IF ~warned THEN rows
  ELSE Put(rows, Warning,
         [user |-> plan.user, deleted |-> None, updated |-> day, hlc |-> 0,
          source |-> "server_job", status |-> "open", resolved |-> None])

(* The file of the last import is of no more interest.                     *)
Filed ==
  IF imports + 1 < MaxImports THEN backup
  ELSE [backup EXCEPT !.rows = <<>>, !.history = <<>>]

(* import.validate: nothing but the warning is written.                    *)
DryRun ==
  /\ BackupDone /\ imports < MaxImports /\ Warning \notin DOMAIN db
  /\ db' = WithWarning(db, WouldCollide(db, backup.rows, plan.user) # {})
  /\ imports' = imports + 1 /\ backup' = Filed
  /\ UNCHANGED <<plan, log, queue, day, purge, runs, judged, writes>>

(* import.restore into the account the export came from.                   *)
Import ==
  /\ BackupDone /\ imports < MaxImports /\ Warning \notin DOMAIN db
  /\ \E done \in {Restored(db, log, backup, plan.user)} :
       /\ db' = WithWarning(done.db, done.warned)
       /\ log' = done.log
  /\ imports' = imports + 1 /\ backup' = Filed
  /\ UNCHANGED <<plan, queue, day, purge, runs, judged, writes>>

----------------------------------------------------------------------------
(* aggregates.recompute: the clock is read, then one REPEATABLE READ       *)
(* transaction reads its snapshot and writes.  of is history: how many     *)
(* commands the facts of a value hold.                                     *)

Aggregate(subject, metric) == <<"computed_aggregates", <<subject, metric>>>>

Value(rows, subject, metric, now) ==
  CASE metric = "streak" -> CanonicalStreak(rows, subject, now)
    [] metric = "practice_hours" -> CanonicalPractice(rows, subject)
    [] metric = "tag_confirmation" -> TagConfirmation(rows, subject)
    [] metric = "progress" -> CanonicalCompletion(rows, subject)

Measured(rows) ==
  (LiveRows(rows, "habits") \X {"streak", "practice_hours", "tag_confirmation"})
  \union ({n \in LiveRows(rows, "nodes") : rows[n].type = "project"} \X {"progress"})

Computed(run) ==
  [k \in {Aggregate(m[1], m[2]) : m \in Measured(run.view)} |->
     [user |-> plan.user, deleted |-> None, updated |-> run.now, hlc |-> 0,
      source |-> "server_job", subject |-> k[2][1], metric |-> k[2][2],
      value |-> Value(run.view, k[2][1], k[2][2], LocalInstant(run.now)),
      of |-> run.of]]

(* Changed: READ COMMITTED, where no upsert fails.                         *)
UnserializableNever(view, key) == FALSE

(* A row another transaction wrote since the snapshot fails the upsert.    *)
Unserializable(view, key) ==
  key \in DOMAIN db /\ (key \notin DOMAIN view \/ view[key] # db[key])

NotNewer(key, run) == db[key].updated <= run.now

Upserted(run, computed) ==
  [k \in DOMAIN db \union DOMAIN computed |->
     IF k \in DOMAIN computed /\ (k \in DOMAIN db => NotNewer(k, run))
     THEN computed[k] ELSE db[k]]

StartRecompute(r) ==
  /\ "recompute" \in plan.jobs /\ runs[r].stage = "idle"
  /\ runs' = [runs EXCEPT ![r] = [stage |-> "started", now |-> day]]
  /\ UNCHANGED <<plan, db, log, queue, day, purge, backup, imports, judged, writes>>

ReadSnapshot(r) ==
  /\ runs[r].stage = "started"
  /\ runs' = [runs EXCEPT ![r] = [stage |-> "read", now |-> @.now,
                                  view |-> db, of |-> writes]]
  /\ UNCHANGED <<plan, db, log, queue, day, purge, backup, imports, judged, writes>>

StoreAggregates(r) ==
  /\ runs[r].stage = "read"
  /\ \E computed \in {Computed(runs[r])} :
       db' = IF \E k \in DOMAIN computed : Unserializable(runs[r].view, k)
             THEN db ELSE Upserted(runs[r], computed)
  /\ runs' = [runs EXCEPT ![r] = Idle]
  /\ UNCHANGED <<plan, log, queue, day, purge, backup, imports, judged, writes>>

----------------------------------------------------------------------------
Init ==
  /\ plan \in Plans
  /\ db = plan.rows
  /\ log = <<>>
  /\ queue = [d \in DOMAIN plan.scripts |-> 0]
  /\ day = plan.from
  /\ purge = 0
  /\ backup = [next |-> 1, rows |-> <<>>, history |-> <<>>]
  /\ imports = 0
  /\ runs = [r \in {1, 2} |-> Idle]
  /\ judged = <<>>
  /\ writes = 0

Next ==
  \/ \E d \in DOMAIN queue : Upload(d)
  \/ NextDay
  \/ Expire
  \/ StartPurge \/ PurgeRows \/ PurgeLog
  \/ BackupTable
  \/ DryRun \/ Import
  \/ \E r \in {1, 2} : StartRecompute(r) \/ ReadSnapshot(r) \/ StoreAggregates(r)

Spec == Init /\ [][Next]_vars

----------------------------------------------------------------------------
(* An import into the account the file came from takes nothing back: a row *)
(* that is still there, written, deleted, closed or dismissed since the    *)
(* export by a device or by a job, stays as it is; only rows that are gone *)
(* come back (import-restore.ts 210-217).                                  *)
ImportTakesNothingBack ==
  [][imports' # imports => \A k \in DOMAIN db : db'[k] = db[k]]_vars

(* At every moment an export read at once restores completely into an      *)
(* empty account of another user: no error, no conflict, every row under   *)
(* the new owner.  The checklist steps are the exception: the export holds *)
(* them and the import does not know the table (import-restore.ts 54-82).  *)
Owner2 == "u2"

Renamed(key) == IF Table(key) = "user_settings" THEN SettingsOf(<<>>, Owner2) ELSE key

RoundTrip ==
  LET file == Snapshot(db, log, plan.user)
      there == Restored(<<>>, <<>>, file, Owner2)
      moved == {k \in DOMAIN file.rows : Table(k) # "task_steps"}
  IN /\ there.ok
     /\ DOMAIN there.db = {Renamed(k) : k \in moved}
     /\ \A k \in moved : \A c \in DOMAIN db[k] \ {"user", "source"} :
          there.db[Renamed(k)][c] = db[k][c]
     /\ there.log = log

(* A command that was decided is not decided again within the offline      *)
(* horizon, whatever the purge and the imports do to the log meanwhile     *)
(* (retention-purge.ts 19-26).                                             *)
OnceWithinHorizon ==
  [][\A c \in DOMAIN judged :
       c \in DOMAIN log' \ DOMAIN log =>
         \/ judged[c].applied < day - HorizonDays
         \/ log'[c] = judged[c]]_vars

(* A weekly purge always gets to its end: "deletes referencing tables      *)
(* before referenced ones (FKs are NO ACTION), and purges a node only when *)
(* nothing still references it" (retention-purge.ts 6-8).                  *)
PurgeCompletes ==
  purge # 0 /\ Statement < Len(Statements) => Deletable(db, Reclaiming)

(* A stored aggregate is never replaced by one of older facts, whichever   *)
(* of two overlapping runs began first (aggregates-recompute.ts 60-65).    *)
AggregatesAdvance ==
  [][\A k \in RowsOf(db, "computed_aggregates") \cap DOMAIN db' :
       db'[k].of >= db[k].of]_vars

(* A period counts when it has occurrences, all completed, and no violated *)
(* day; it breaks the streak when a day of it that is past was missed or   *)
(* violated.  due, completed and violated are sets of days.                *)
Counts(p, mode, due, completed, violated) ==
  LET mine == {d \in due : PeriodStart(d, mode) = p}
  IN /\ mine # {} /\ mine \subseteq completed
     /\ ~\E d \in violated : PeriodStart(d, mode) = p

Breaks(p, mode, due, completed, violated) ==
  \E d \in (due \ (completed \union {day})) \union violated : PeriodStart(d, mode) = p

(* For all windows of periods without a break, what they count.            *)
StreakMeans(habit) ==
  LET mode == db[habit].mode
      start == HabitStartDate(db[habit])
      due == {d \in start..day : (d - start) % db[habit].every = 0}
      completed == CompletedDates(db, habit)
      violated == {d \in ViolatedDays(db, habit, day) : d >= start}
      now == PeriodStart(day, mode)
      periods == {PeriodStart(d, mode) : d \in start..day}
      counted == {p \in periods : Counts(p, mode, due, completed, violated)}
      broken == {p \in periods : Breaks(p, mode, due, completed, violated)}
      unbroken == {w \in periods \X periods : \A p \in broken : p < w[1] \/ p > w[2]}
      size(w) == Cardinality({p \in counted : w[1] <= p /\ p <= w[2]})
      streak == CanonicalStreak(db, habit, Now)
  IN start <= day =>
       /\ streak.current = Max({0} \union {size(w) : w \in {w \in unbroken : w[2] = now}})
       /\ streak.longest = Max({0} \union {size(w) : w \in unbroken})

StreakFolds(habit) ==
  \A k \in LiveRows(db, "habit_completions") :
    db[k].habit = habit =>
      IncrementalStreak(CanonicalStreak(Without(db, {k}), habit, Now), db[k], db, habit, Now)
        = CanonicalStreak(db, habit, Now)

(* Practice counts an instant two entries of a task cover once, at the     *)
(* better focus.                                                           *)
PracticeMeans(habit) ==
  LET worked == [t \in HabitTaskIds(db, habit) |-> Closed(EntriesOf(db, t))]
      during(t, i) == {e \in worked[t] : e.starts <= i /\ i < e.ends}
  IN CanonicalPractice(db, habit).minutes =
       Total(HabitTaskIds(db, habit), LAMBDA t :
         Total({i \in UNION {e.starts..e.ends - 1 : e \in worked[t]} : TRUE},
               LAMBDA i : Max({e.focus : e \in during(t, i)})))

(* The figures mean what they say, at every moment and for every habit: a  *)
(* streak is the number of complete periods since the last broken one and  *)
(* the longest that of the best unbroken stretch (streaks.ts 166-245),     *)
(* folding a completion of the current period into the value before it     *)
(* gives the same value, and practice counts overlapping time once.        *)
FiguresMean ==
  \A h \in LiveRows(db, "habits") : StreakMeans(h) /\ StreakFolds(h) /\ PracticeMeans(h)

(* The archive shows what the journal shows: for every day the log of the  *)
(* server's narrowed rows is the one a device renders under that page, and *)
(* no day with a note or a log is missing (journal-export.ts 9-13).        *)
ArchiveShowsJournal ==
  LET export == JournalExport(db, plan.user)
  IN \A d \in -1..plan.days + 1 :
       /\ d \in DOMAIN export <=>
            (\/ \E k \in Notes(db, plan.user) : db[k].date = d
             \/ JournalPage(db, plan.user, d) # None)
       /\ d \in DOMAIN export => export[d].log = JournalPage(db, plan.user, d)
=============================================================================
