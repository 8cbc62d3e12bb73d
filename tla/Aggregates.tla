---------------------------- MODULE Aggregates -----------------------------
(* The numbers derived from the facts (packages/core/src/aggregates and    *)
(* merge/time-entries.ts): the union of time entries, practice hours, task *)
(* progress, project completion and streaks.  The same functions run on a  *)
(* device and in the server's aggregates.recompute.  They read a database  *)
(* in the form of module Archive.  Instants are integers; a civil date is  *)
(* the number of its day, and the day of an instant is set by the hour the *)
(* user's day resets.                                                      *)
EXTENDS Archive

CONSTANTS
  DayLength,        \* instants in a day
  ResetHour,        \* the instant of a day at which it begins for the user
  PeriodLength,     \* streak mode -> days of its period
  MaxOccurrences    \* occurrences expanded of one rule (4000 in the code)

ASSUME AggregatesAssumption ==
  /\ DayLength \in Nat \ {0} /\ ResetHour \in 0..DayLength - 1
  /\ MaxOccurrences \in Nat

BucketDate(instant) == (instant - ResetHour) \div DayLength

LocalInstant(date) == date * DayLength + ResetHour

Total(S, value(_)) == FoldSet(LAMBDA x, sum : sum + value(x), 0, S)

----------------------------------------------------------------------------
(* mergeTimeEntries: entries overlap when two devices timed one task       *)
(* offline, so time is a union of intervals, never a sum.                  *)

Closed(entries) == {e \in entries : e.ends # None /\ e.ends > e.starts}

Open(entries) == {e \in entries : e.ends = None}

ByStart(entries) ==
  SetToSortSeq(entries, LAMBDA a, b :
    a.starts < b.starts \/ (a.starts = b.starts /\ a.ends < b.ends))

(* The disjoint segments of the union, in ascending order: an interval     *)
(* that begins inside or at the end of the last segment extends it.        *)
Segments(entries) ==
  FoldLeft(LAMBDA segments, e :
    LET last == Len(segments)
    IN IF last > 0 /\ e.starts <= segments[last].ends
       THEN IF e.ends > segments[last].ends
            THEN [segments EXCEPT ![last].ends = e.ends] ELSE segments
       ELSE Append(segments, [starts |-> e.starts, ends |-> e.ends]),
    <<>>, ByStart(Closed(entries)))

(* The sweep over the boundaries: each elementary slice counts once, at    *)
(* the highest focus of the entries that cover it.                         *)
Boundaries(entries) ==
  SetToSortSeq(UNION {{e.starts, e.ends} : e \in Closed(entries)},
               LAMBDA a, b : a < b)

Covering(entries, lo, hi) ==
  {e \in Closed(entries) : e.starts <= lo /\ e.ends >= hi}

Slices(entries) ==
  LET at == Boundaries(entries)
  IN {<<at[i], at[i + 1]>> : i \in 1..Len(at) - 1}

RawMinutes(entries) ==
  Total({s \in Slices(entries) : Covering(entries, s[1], s[2]) # {}},
        LAMBDA s : s[2] - s[1])

EffectiveMinutes(entries) ==
  Total({s \in Slices(entries) : Covering(entries, s[1], s[2]) # {}},
        LAMBDA s : (s[2] - s[1]) * Max({e.focus : e \in Covering(entries, s[1], s[2])}))

MergeTimeEntries(entries) ==
  [segments |-> Segments(entries), raw |-> RawMinutes(entries),
   effective |-> EffectiveMinutes(entries), open |-> Open(entries)]

----------------------------------------------------------------------------
(* Practice, progress, completion.                                         *)

HabitTaskIds(db, habit) ==
  {k \in LiveRows(db, "nodes") : db[k].habit = habit}

EntriesOf(db, task) ==
  {db[k] : k \in {e \in LiveRows(db, "time_entries") : db[e].task = task}}

CanonicalPractice(db, habit) ==
  LET minutes == Total(HabitTaskIds(db, habit),
                       LAMBDA t : EffectiveMinutes(EntriesOf(db, t)))
      passed == {x \in db[habit].thresholds : minutes >= x}
      ahead == db[habit].thresholds \ passed
  IN [minutes |-> minutes, level |-> Cardinality(passed),
      next |-> IF ahead = {} THEN None ELSE Min(ahead)]

CanonicalProgress(db, task) ==
  [consumed |-> RawMinutes(EntriesOf(db, task)), estimate |-> db[task].estimate]

TaskWeight(task) == IF task.estimate = None THEN 1 ELSE task.estimate

Below(db, root) ==
  LET rounds == Cardinality(RowsOf(db, "nodes"))
      under[n \in 0..rounds] ==
        IF n = 0 THEN {root}
        ELSE under[n - 1] \union
             {k \in LiveRows(db, "nodes") : db[k].parent \in under[n - 1]}
  IN under[rounds] \ {root}

(* Descoped tasks leave the denominator.                                   *)
CanonicalCompletion(db, project) ==
  LET counted == {k \in Below(db, project) :
                    db[k].type = "task" /\ db[k].disposition # "obsolete"}
  IN [total |-> Total(counted, LAMBDA k : TaskWeight(db[k])),
      completed |-> Total({k \in counted : db[k].done # None},
                          LAMBDA k : TaskWeight(db[k]))]

----------------------------------------------------------------------------
(* Streaks.                                                                *)

PeriodStart(date, mode) == date - (date % PeriodLength[mode])

(* The dates of a rule from its anchor on, at most MaxOccurrences of them, *)
(* counted from the beginning of the window that is asked for.             *)
OccurrenceDates(habit, dtstart, from, to) ==
  LET dates == {d \in from..to : d >= dtstart /\ (d - dtstart) % habit.every = 0}
  IN {d \in dates : Cardinality({e \in dates : e < d}) < MaxOccurrences}

HabitStartDate(habit) == BucketDate(habit.born)

CompletedDates(db, habit) ==
  {db[k].date : k \in {c \in LiveRows(db, "habit_completions") :
                         db[c].habit = habit}}

HasSession(db, block) ==
  \E e \in EntriesOf(db, block.task) :
    /\ e.starts < block.ends
    /\ e.ends = None \/ e.ends > block.starts

(* The placements of the habit's own tags on a block that do not read yes. *)
Unconfirmed(db, habit, block) ==
  {p \in LiveRows(db, "tag_placements") :
     /\ db[p].block = block
     /\ db[p].tag \in LiveRows(db, "tags") /\ db[db[p].tag].habit = habit
     /\ ~\E a \in LiveRows(db, "tag_answers") :
           db[a].placement = p /\ db[a].value = "yes"}

(* The past days a perfect_planned habit is broken on: a committed block   *)
(* of its tasks without a session, or with a tag that is not a yes.        *)
ViolatedDays(db, habit, today) ==
  IF db[habit].mode # "perfect_planned" THEN {}
  ELSE LET past == {b \in LiveRows(db, "schedule_blocks") :
                      /\ db[b].status = "committed"
                      /\ db[b].task \in HabitTaskIds(db, habit)
                      /\ BucketDate(db[b].starts) < today}
       IN {BucketDate(db[b].starts) : b \in {b \in past :
             ~HasSession(db, db[b]) \/ Unconfirmed(db, habit, b) # {}}}

(* Changed: an occurrence of today that is not completed yet is missed.    *)
PeriodStateHasty(period, mode, occurrences, completed, violated, today) ==
  LET mine == {d \in occurrences : PeriodStart(d, mode) = period}
  IN [due |-> Cardinality(mine),
      done |-> Cardinality(mine \cap completed),
      missed |-> \/ mine \ completed # {}
                 \/ \E d \in violated : PeriodStart(d, mode) = period]

(* What the code gathers for one period before it walks the periods.       *)
PeriodState(period, mode, occurrences, completed, violated, today) ==
  LET mine == {d \in occurrences : PeriodStart(d, mode) = period}
  IN [due |-> Cardinality(mine),
      done |-> Cardinality(mine \cap completed),
      missed |-> \/ \E d \in mine \ completed : d < today
                 \/ \E d \in violated : PeriodStart(d, mode) = period]

Satisfied(state) == ~state.missed /\ state.done > 0 /\ state.done >= state.due

(* One period of the walk.                                                 *)
WalkPeriod(walk, state, isCurrent) ==
  LET run == CASE state.missed -> 0
               [] Satisfied(state) -> walk.run + 1
               [] ~isCurrent /\ state.due > 0 -> 0
               [] OTHER -> walk.run
  IN [run |-> run,
      longest |-> IF run > walk.longest THEN run ELSE walk.longest,
      prior |-> IF isCurrent THEN walk.run ELSE walk.prior,
      current |-> IF isCurrent THEN run ELSE walk.current]

ComputeStreak(db, habit, today) ==
  LET row == db[habit]
      start == HabitStartDate(row)
      occurrences == OccurrenceDates(row, start, start, today)
      violated == {d \in ViolatedDays(db, habit, today) : d >= start}
      periods == SetToSortSeq({PeriodStart(d, row.mode) : d \in occurrences \union violated},
                              LAMBDA a, b : a < b)
      now == PeriodStart(today, row.mode)
      walked == FoldLeft(LAMBDA w, p :
                  WalkPeriod(w, PeriodState(p, row.mode, occurrences,
                               CompletedDates(db, habit), violated, today), p = now),
                  [run |-> 0, longest |-> 0, prior |-> 0, current |-> 0], periods)
      here == now \in ToSet(periods)
  IN IF today < start
     THEN [current |-> 0, longest |-> 0, prior |-> 0, through |-> today]
     ELSE [current |-> IF here THEN walked.current ELSE walked.run,
           longest |-> walked.longest,
           prior |-> IF here THEN walked.prior ELSE walked.run,
           through |-> today]

CanonicalStreak(db, habit, now) == ComputeStreak(db, habit, BucketDate(now))

(* Folding one new completion into an up-to-date value: only the current   *)
(* period is looked at; anything else is computed from the facts.          *)
IncrementalStreak(prev, completion, db, habit, now) ==
  LET row == db[habit]
      today == BucketDate(now)
      start == HabitStartDate(row)
      period == PeriodStart(today, row.mode)
      from == IF period < start THEN start ELSE period
      state == PeriodState(period, row.mode, OccurrenceDates(row, start, from, today),
                 CompletedDates(db, habit), ViolatedDays(db, habit, today), today)
      current == IF state.missed THEN 0
                 ELSE prev.prior + (IF Satisfied(state) THEN 1 ELSE 0)
  IN IF \/ prev.through # today \/ completion.habit # habit
        \/ completion.deleted # None
        \/ PeriodStart(completion.date, row.mode) # period
     THEN CanonicalStreak(db, habit, now)
     ELSE [current |-> current,
           longest |-> IF current > prev.longest THEN current ELSE prev.longest,
           prior |-> prev.prior, through |-> today]

----------------------------------------------------------------------------
(* The answers to a habit's own tags, for its dashboard.                   *)
TagConfirmation(db, habit) ==
  LET placed == {p \in LiveRows(db, "tag_placements") :
                   db[p].tag \in LiveRows(db, "tags") /\ db[db[p].tag].habit = habit}
      answered(v) == {p \in placed : \E a \in LiveRows(db, "tag_answers") :
                        db[a].placement = p /\ db[a].value = v}
  IN [yes |-> Cardinality(answered("yes")), no |-> Cardinality(answered("no")),
      pending |-> Cardinality(placed) - Cardinality(answered("yes"))
                    - Cardinality(answered("no"))]
=============================================================================
