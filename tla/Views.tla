-------------------------------- MODULE Views --------------------------------
(***************************************************************************)
(* What the screens of Prisms show (packages/ui/src/hooks.ts and its          *)
(* neighbours, aggregates/timeleft.ts and decision.ts): selectors over the    *)
(* facts of module Status, none of which is stored.                           *)
(*                                                                          *)
(* On top of what Status asks of the facts, a row of the tree has `due`,      *)
(* `estimate` and `order`, a block `id`, `start` and `anchored`, an entry      *)
(* `id`.  Days are numbers, minutes are instants.  A list is the set of what   *)
(* it shows, with its order beside it where the order says something.         *)
(***************************************************************************)
EXTENDS Status

CONSTANTS
  DayMinutes,         \* DAY_MINUTES, the length of the bar of a day
  MinSegmentMinutes   \* MIN_SEGMENT_MINUTES, the least a block takes of it

ASSUME ViewsAssumption ==
  /\ DayMinutes \in Nat /\ MinSegmentMinutes \in Nat
  /\ MinSegmentMinutes <= DayMinutes

DEFAULT_DRAG_MINUTES == 30

OfType(F, type) == {n \in DOMAIN F.tree : F.tree[n].type = type}
Unfinished(F, type) == {n \in OfType(F, type) : F.tree[n].done = None}

\* The project above n: one of a set that is empty when there is none.
ProjectOf(F, n) ==
  Nearest(F.tree, n, {a \in Ancestors(F.tree, n) : F.tree[a].type = "project"})

Committed(F) == {b \in F.blocks : b.status = "committed"}
CommittedTo(F, n) == {b \in Committed(F) : b.task = n}

Closed(F) == {e \in F.entries : e.end # None}

\* Minutes worked on n: the union of its sessions, an overlap counts once.
Consumed(F, n) ==
  Cardinality(UNION {e.start .. e.end - 1 : e \in {x \in Closed(F) : x.task = n}})

MinutesLeftInTask(F, n) ==
  IF F.tree[n].estimate = None THEN {} ELSE {F.tree[n].estimate - Consumed(F, n)}

\* The first instant of the next day, as far as F knows the days.
NextDayReset(F, now) == {t \in DOMAIN F.dayOf : t > now /\ F.dayOf[t] > F.dayOf[now]}
MinutesLeftInDay(F, now) ==
  IF NextDayReset(F, now) = {} THEN {} ELSE {Min(NextDayReset(F, now)) - now}

MinutesUntilNextBlock(F, now, tasks) ==
  LET ahead == {b.start : b \in {x \in Committed(F) : x.task \in tasks /\ x.start > now}}
  IN IF ahead = {} THEN {} ELSE {Min(ahead) - now}

-----------------------------------------------------------------------------
(* The worklist and what is kept out of it.                                  *)

\* The block a completion is filed under: one that runs now, else the latest that
\* has begun, else the earliest.  Of several, the query's order decides.
PickCommittedBlock(blocks, now) ==
  LET covering == {b \in blocks : b.start <= now /\ now <= b.end}
      begun    == {b \in blocks : b.start <= now}
  IN IF covering # {} THEN covering
     ELSE IF begun # {} THEN {b \in begun : \A c \in begun : c.start <= b.start}
     ELSE {b \in blocks : \A c \in blocks : b.start <= c.start}

Actionable == {"available", "prioritized", "scheduled", "ongoing"}

StatusRank ==
  [ongoing |-> 0, scheduled |-> 1, prioritized |-> 2, available |-> 3, blocked |-> 4, done |-> 5]

WorklistItem(F, n, now) ==
  [task |-> n, status |-> TaskStatus(F, n, now), open |-> OpenEntries(F, n),
   consumed |-> Consumed(F, n), left |-> MinutesLeftInTask(F, n),
   scheduled |-> CommittedTo(F, n) # {},
   block |-> PickCommittedBlock(CommittedTo(F, n), now),
   unverified |-> RulesAt(F, n, now, "unknown", FALSE)]

Worklist(F, now) ==
  {WorklistItem(F, n, now) :
     n \in {m \in OfType(F, "task") : TaskStatus(F, m, now) \in Actionable}}

GroupedBySchedule(items) ==
  [scheduled |-> {i \in items : i.scheduled}, unscheduled |-> {i \in items : ~i.scheduled}]

BlockedTasks(F, now) ==
  {[task |-> n, blockedBy |-> RulesAt(F, n, now, "true", FALSE),
    unverified |-> RulesAt(F, n, now, "unknown", FALSE)] :
     n \in {m \in Unfinished(F, "task") : TaskStatus(F, m, now) = "blocked"}}

\* Tasks without a project above them are left out.
TasksByProject(F, now) ==
  LET rolled == {n \in Unfinished(F, "task") : ProjectOf(F, n) # {}}
  IN [p \in UNION {ProjectOf(F, n) : n \in rolled} |->
        {[task |-> n, status |-> TaskStatus(F, n, now)] : n \in {m \in rolled : p \in ProjectOf(F, m)}}]

HabitTasks(F, now) ==
  LET items == Worklist(F, now)
      habits == {F.tree[i.task].habit : i \in items} \ {None}
  IN [h \in habits |-> {i \in items : F.tree[i.task].habit = h}]

DoneToday(F, now) ==
  {n \in OfType(F, "task") \ Unfinished(F, "task") : F.dayOf[F.tree[n].done] = F.dayOf[now]}

ActivityInbox(F) == OfType(F, "activity")
PromoteTargets(F) == OfType(F, "project") \cup OfType(F, "milestone")

\* The one timer that is shown, though two may be open until the server has merged
\* them: the latest start, and of those the larger id.
RunningTimer(F) ==
  LET open == {e \in F.entries : e.end = None}
  IN {e \in open : \A o \in open : o.start < e.start \/ (o.start = e.start /\ o.id <= e.id)}

RunningTask(F) == {e.task : e \in RunningTimer(F)}

-----------------------------------------------------------------------------
(* The agenda.                                                               *)

\* Membership of a sprint counts for the node itself here, not for what is below.
SprintMember(F, n, now) ==
  \E m \in F.members, s \in F.sprints :
    m.node = n /\ s.id = m.sprint /\ s.from <= F.dayOf[now] /\ F.dayOf[now] <= s.to

Estimated(F, n) == F.tree[n].estimate # None /\ F.tree[n].estimate > 0

Schedulable(F, n, now) ==
  [id |-> n, due |-> F.tree[n].due, sprint |-> SprintMember(F, n, now),
   deps |-> {[pred |-> e.pred, kind |-> e.kind, lag |-> e.lag] : e \in Incoming(F.edges, n)},
   estimate |-> IF Estimated(F, n) THEN F.tree[n].estimate ELSE DEFAULT_DRAG_MINUTES]

\* What the scheduler plans on the device.
AgendaTasks(F, now) ==
  {Schedulable(F, n, now) : n \in {m \in Unfinished(F, "task") : Estimated(F, m)}}

AgendaCommitted(F) ==
  {[id |-> b.id, task |-> b.task, start |-> b.start, end |-> b.end, anchored |-> b.anchored] :
     b \in Committed(F)}

\* What may be dragged onto it: the inbox too, and whatever has no estimate.
AllTasks(F, now) ==
  {[schedulable |-> Schedulable(F, n, now), estimated |-> Estimated(F, n),
    scheduled |-> CommittedTo(F, n) # {}, kind |-> F.tree[n].type] :
     n \in Unfinished(F, "task") \cup Unfinished(F, "activity")}

\* A block that is long over still counts as a place.
Todo(F, now) == {t \in AllTasks(F, now) : ~t.scheduled}

\* Blocks of a task that hangs under no vision and has no habit are grey.
Justified(F, n) ==
  n \in DOMAIN F.tree /\ (F.tree[n].habit # None
                         \/ \E a \in {n} \cup Ancestors(F.tree, n) : F.tree[a].type = "vision")

GreyBlocks(F) == {b \in F.blocks : ~Justified(F, b.task)}

BlocksForDay(F, day) == {b \in F.blocks : F.dayOf[b.start] = day}

TimeBlocksForDay(F, now) == BlocksForDay(F, F.dayOf[now]) \cap Committed(F)

\* A session counts whole for the day it began on, and overlaps count twice.
LoggedMinutes(F, day, n) ==
  MapThenSumSet(LAMBDA e : e.end - e.start,
                {e \in Closed(F) : e.task = n /\ F.dayOf[e.start] = day /\ e.end > e.start})

RowState(F, b) ==
  CASE b.task \in DOMAIN F.tree /\ F.tree[b.task].done # None -> "done"
    [] b.task \notin DOMAIN F.tree \/ F.tree[b.task].done = None ->
         IF b.task \in RunningTask(F) THEN "live" ELSE "upcoming"

PlannedMinutes(F, b) ==
  IF b.task \in DOMAIN F.tree /\ Estimated(F, b.task) THEN F.tree[b.task].estimate ELSE b.end - b.start

\* Suggestions are not part of it.
Itinerary(F, day) ==
  {[block |-> b.id, task |-> b.task, start |-> b.start, state |-> RowState(F, b),
    project |-> ProjectOf(F, b.task), anchored |-> b.anchored,
    habit |-> b.task \in DOMAIN F.tree /\ F.tree[b.task].habit # None,
    logged |-> LoggedMinutes(F, day, b.task), planned |-> PlannedMinutes(F, b)] :
     b \in BlocksForDay(F, day) \cap Committed(F)}

-----------------------------------------------------------------------------
(* The bar of a day, 0 .. DayMinutes from its midnight.                       *)

Least(a, b) == IF a < b THEN a ELSE b
Most(a, b) == IF a < b THEN b ELSE a

\* Clamped, never dropped.
SegmentStart(raw) == Most(0, Least(DayMinutes - MinSegmentMinutes, raw))
SegmentEnd(start, raw) == Least(DayMinutes, Most(raw, SegmentStart(start) + MinSegmentMinutes))

DayMap(F, day, midnight) ==
  {[block |-> b.id, task |-> b.task, anchored |-> b.anchored,
    from |-> SegmentStart(b.start - midnight),
    to |-> SegmentEnd(b.start - midnight, b.end - midnight),
    state |-> IF b.status = "suggested" THEN "suggested" ELSE RowState(F, b),
    project |-> ProjectOf(F, b.task), logged |-> LoggedMinutes(F, day, b.task)] :
     b \in BlocksForDay(F, day)}

\* The minutes of the bar the scheduler may use, and those that are grey.  A day
\* has another length than the bar when the clocks change: `next` is its end.
ActiveMinutes(windows, midnight, next) ==
  {m \in 0 .. DayMinutes - 1 :
     \E w \in windows : /\ w.start - midnight <= m /\ m < w.end - midnight
                        /\ midnight + m < next}
InactiveMinutes(windows, midnight, next) ==
  (0 .. DayMinutes - 1) \ ActiveMinutes(windows, midnight, next)

NowOnBar(now, midnight) == {m \in {now - midnight} : 0 <= m /\ m <= DayMinutes}

\* Today's list and bar come from one reading of the agenda.
TodayItinerary(F, now, midnight) ==
  [rows |-> Itinerary(F, F.dayOf[now]), bar |-> DayMap(F, F.dayOf[now], midnight),
   now |-> NowOnBar(now, midnight), running |-> RunningTask(F)]

-----------------------------------------------------------------------------
(* The kanban, the decision boards and My Day.                               *)

\* The day columns are today .. today + days - 1; the backlog is None.
ColumnOf(due, today, days) ==
  CASE due = None -> None
    [] due # None -> Most(today, Least(due, today + days - 1))

Kanban(F, now, scope, days) ==
  LET today == F.dayOf[now]
      cards == {n \in Unfinished(F, "task") : scope = None \/ scope \in ProjectOf(F, n)}
  IN [c \in {None} \cup (today .. today + days - 1) |->
        {n \in cards : ColumnOf(F.tree[n].due, today, days) = c}]

\* Weighted sums stand for the weighted means: the divisor, the weight of the
\* board, is the same for every project.
Priority(criteria, scores, p) ==
  IF MapThenSumSet(LAMBDA c : c.weight, criteria) > 0
  THEN MapThenSumSet(LAMBDA x : x[1].weight * x[2].score,
         {y \in criteria \X scores : y[2].criterion = y[1].id /\ y[2].project = p})
  ELSE 0

\* A board: its criteria, their scores, and every project ranked by them.
Ranking(F, b) == [p \in OfType(F, "project") |-> Priority(b.criteria, b.scores, p)]

\* The board that was made first decides, and no board leaves all unscored.
ProjectPriorities(F, boards) ==
  LET first == {b \in boards : \A c \in boards : b.created <= c.created}
  IN IF boards = {} THEN << >> ELSE Ranking(F, CHOOSE b \in first : TRUE)

\* Of two tasks of the worklist, the one that My Day shows first.
MyDayBefore(F, priorities, a, b) ==
  LET scored(n) == {priorities[p] : p \in ProjectOf(F, n) \cap DOMAIN priorities}
      same == scored(a) = scored(b)
      due(n) == F.tree[n].due
  IN \/ scored(b) = {} /\ scored(a) # {}
     \/ \E x \in scored(a), y \in scored(b) : x > y
     \/ same /\ due(a) # due(b) /\ (due(b) = None \/ (due(a) # None /\ due(a) < due(b)))
     \/ same /\ due(a) = due(b) /\ F.tree[a].order < F.tree[b].order
=============================================================================
