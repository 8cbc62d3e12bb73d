----------------------------- MODULE Scheduler -----------------------------
(***************************************************************************)
(* The scheduler of Prisms (packages/core/src/scheduler): where the tasks of *)
(* a plan can go.  An input is a record:                                     *)
(*   tasks      [id, estimate, due, deps, windows, notBefore, sprint, done]  *)
(*              with deps a set of [pred, kind, lag]; due and notBefore may  *)
(*              be None, windows is the ids allowed, {} for any              *)
(*   committed  the committed blocks, [task, start, end, anchored]           *)
(*   windows    [id, start, end] within a day of DayLength                   *)
(*   from, to   the horizon                                                  *)
(* Instants are numbers of one unit in the user's civil time, 0 a midnight   *)
(* (localInstant and its DST are outside).                                   *)
(***************************************************************************)
EXTENDS Integers, SequencesExt, Functions

CONSTANTS None, DayLength

ASSUME SchedulerAssumption == DayLength \in Nat \ {0}

MaxOf(S) == CHOOSE x \in S : \A y \in S : x >= y
MinOf(S) == CHOOSE x \in S : \A y \in S : x <= y

ByStart(S) == SetToSortSeq(S, LAMBDA a, b : a.start < b.start)
Overlap(a, b) == a.start < b.end /\ b.start < a.end

-----------------------------------------------------------------------------
(* windows.ts                                                                 *)

\* expandWindows: the named windows of each day, clipped to the horizon.
ExpandWindows(windows, from, to) ==
  {w \in {[id |-> n.id, start |-> MaxOf({d * DayLength + n.start, from}),
           end |-> MinOf({d * DayLength + n.end, to})]
            : n \in windows, d \in 0 .. (to \div DayLength)} : w.end > w.start}

\* The cursor of earliestFit after the blocks occupied in w: it jumps behind
\* every block too close, until the gap is wide enough or the window used up.
CursorIn(w, occupied, earliest, dur) ==
  LET jump(c, o) ==
        IF c.stop \/ o.end <= c.at THEN c
        ELSE IF o.start >= w.end \/ o.start - c.at >= dur THEN [c EXCEPT !.stop = TRUE]
        ELSE [at |-> o.end, stop |-> w.end - o.end < dur]
  IN  FoldLeft(jump, [at |-> MaxOf({w.start, earliest}), stop |-> FALSE], ByStart(occupied)).at

\* The first instant where a block of length dur fits, or None.
EarliestFit(windows, occupied, earliest, dur) ==
  LET fits == SelectSeq(ByStart(windows), LAMBDA w :
                /\ w.end > earliest
                /\ w.end - CursorIn(w, occupied, earliest, dur) >= dur)
  IN  IF fits = << >> THEN None ELSE CursorIn(fits[1], occupied, earliest, dur)

\* freeRegions: the gaps of length dur or more, from the window's start or a
\* block's end to its end or the next block.
FreeRegions(windows, occupied, earliest, dur) ==
  UNION {LET first == MaxOf({w.start, earliest}) IN
         {r \in [start : {first} \cup {o.end : o \in occupied}, end : {w.end} \cup {o.start : o \in occupied}] :
            /\ first <= r.start /\ r.end <= w.end
            /\ r.end - r.start >= dur
            /\ \A o \in occupied : ~Overlap(r, o)}
         : w \in windows}

-----------------------------------------------------------------------------
(* placement.ts                                                               *)

AllowedWindows(task, all) ==
  IF task.windows = {} THEN all ELSE {w \in all : w.id \in task.windows}

InBatch(tasks) == {t.id : t \in tasks}

\* topoOrder: the ready task of the lowest priority, then id, goes next; those
\* on a cycle never get ready.
TopoOrder(tasks, priority) ==
  LET Ready(done) == {t \in tasks : /\ t.id \notin done
                                    /\ \A d \in t.deps : d.pred \in InBatch(tasks) \ {t.id} => d.pred \in done}
      First(S) == CHOOSE t \in S : \A u \in S \ {t} :
                    \/ priority[t.id] < priority[u.id]
                    \/ priority[t.id] = priority[u.id] /\ t.id < u.id
      order[k \in 0 .. Cardinality(tasks)] ==
        IF k = 0 THEN << >>
        ELSE LET done == {order[k - 1][i].id : i \in DOMAIN order[k - 1]} IN
             IF Ready(done) = {} THEN order[k - 1] ELSE Append(order[k - 1], First(Ready(done)))
  IN  order[Cardinality(tasks)]

\* committedSpans: from the first start to the last end of a task's blocks.
CommittedSpans(input) ==
  [t \in {b.task : b \in input.committed} |->
     LET own == {b \in input.committed : b.task = t} IN
     [start |-> MinOf({b.start : b \in own}), end |-> MaxOf({b.end : b \in own})]]

\* The start an edge leaves to a successor of length dur.
Bound(d, span, dur) ==
  CASE d.kind = "FS" -> span.end + d.lag
    [] d.kind = "SS" -> span.start + d.lag
    [] d.kind = "FF" -> span.end + d.lag - dur
    [] d.kind = "SF" -> span.start + d.lag - dur

\* earliestFromDeps; a placement this run goes before the committed plan.
EarliestFromDeps(task, spans, input) ==
  MaxOf({input.from} \cup ({task.notBefore} \ {None})
        \cup {Bound(d, spans[d.pred], task.estimate) : d \in {x \in task.deps : x.pred \in DOMAIN spans}})

Schedulable(input) == {t \in input.tasks : ~t.done /\ t.estimate > 0}

OccupiedSeedFlexible(input) ==
  {[start |-> b.start, end |-> b.end] :
     b \in {x \in input.committed : x.task \notin InBatch(Schedulable(input))}}

\* Everyone's blocks are obstacles but the flexible ones of a task replanned.
OccupiedSeed(input) ==
  {[start |-> b.start, end |-> b.end] :
     b \in {x \in input.committed : x.anchored \/ x.task \notin InBatch(Schedulable(input))}}

\* The place of one task given the plan so far, or why it has none.
PlaceTask(plan, task, input) ==
  LET spans    == plan.placed @@ CommittedSpans(input)
      windows  == AllowedWindows(task, ExpandWindows(input.windows, input.from, input.to))
      occupied == OccupiedSeed(input) \cup {plan.placed[t] : t \in DOMAIN plan.placed}
      start    == EarliestFit(windows, occupied, EarliestFromDeps(task, spans, input), task.estimate)
      fail(why) == [plan EXCEPT !.failed = (task.id :> why) @@ @]
      stranded  == {d \in task.deps : /\ d.pred \notin DOMAIN spans
                                      /\ d.pred \in DOMAIN plan.failed \cap InBatch(Schedulable(input))}
  IN  CASE stranded # {} -> fail("dependency_unplaceable")
        [] stranded = {} ->
             IF \A w \in windows : w.end - w.start < task.estimate THEN fail("no_window_fits")
             ELSE IF start = None THEN fail("horizon_full")
             ELSE [plan EXCEPT !.placed = (task.id :> [start |-> start, end |-> start + task.estimate]) @@ @]

\* placeWithPriority.
PlaceWithPriority(input, priority) ==
  LET order  == TopoOrder(Schedulable(input), priority)
      cyclic == Schedulable(input) \ {order[i] : i \in DOMAIN order}
      triage == [t \in InBatch(cyclic) |-> "dependency_cycle"]
                @@ [t \in InBatch(input.tasks \ Schedulable(input)) |->
                      IF \E x \in input.tasks : x.id = t /\ x.done THEN "done" ELSE "no_estimate"]
      place(plan, task) == PlaceTask(plan, task, input)
  IN  FoldLeft(place, [placed |-> << >>, failed |-> triage], order)

-----------------------------------------------------------------------------
(* greedy.ts and optimize.ts                                                  *)

SamePriority(input) == [t \in InBatch(input.tasks) |-> 0]

ScheduleGreedy(input) == PlaceWithPriority(input, SamePriority(input))

RescheduleTask(id, input) ==
  ScheduleGreedy([input EXCEPT !.tasks = {t \in input.tasks : t.id = id}])

TaskOf(input, id) == CHOOSE t \in input.tasks : t.id = id

SumOf(f, S) == FoldSet(LAMBDA x, acc : acc + f[x], 0, S)

\* scoreProposals, in tenths: lateness, sprint tasks put off, gaps within a day,
\* and far above them the tasks with no place.
Score(plan, input) ==
  LET ids   == DOMAIN plan.placed
      late  == [i \in ids |-> LET t == TaskOf(input, i) IN
                  IF t.due = None THEN 0
                  ELSE MaxOf({0, plan.placed[i].end - (t.due + 1) * DayLength})]
      delay == [i \in ids |-> IF TaskOf(input, i).sprint THEN plan.placed[i].start - input.from ELSE 0]
      gap   == [i \in ids |->
                  LET prior == {plan.placed[j] : j \in {x \in ids : plan.placed[x].start < plan.placed[i].start}}
                      last  == MaxOf({0} \cup {p.end : p \in prior})
                  IN  IF prior # {} /\ last < plan.placed[i].start
                         /\ last \div DayLength = plan.placed[i].start \div DayLength
                      THEN plan.placed[i].start - last ELSE 0]
  IN  -(10000000 * Cardinality(DOMAIN plan.failed)
        + 20 * SumOf(late, ids) + 5 * SumOf(delay, ids) + 2 * SumOf(gap, ids))

\* The heuristic seed: by due date, sprint tasks first.
Heuristic(input) ==
  [i \in InBatch(input.tasks) |->
     LET t == TaskOf(input, i) IN
     (IF t.due = None THEN 100000 ELSE t.due - input.from \div DayLength)
       - (IF t.sprint THEN 1000000 ELSE 0)]

\* What the local search may return: the placement of some order of priorities,
\* never worse than its two seeds.  Its random walk is left open.
OptimizedPlans(input) ==
  LET ids   == InBatch(input.tasks)
      tried == {PlaceWithPriority(input, p) : p \in Bijection(ids, 1 .. Cardinality(ids))}
      seeds == {ScheduleGreedy(input), PlaceWithPriority(input, Heuristic(input))}
      least == MaxOf({Score(p, input) : p \in seeds})
  IN  {p \in tried \cup seeds : Score(p, input) >= least}

\* Only what changes becomes a proposal: [task, start, end].
Proposals(plan, input) ==
  {[task |-> i, start |-> plan.placed[i].start, end |-> plan.placed[i].end] : i \in DOMAIN plan.placed}
    \ {[task |-> b.task, start |-> b.start, end |-> b.end] : b \in {x \in input.committed : ~x.anchored}}

\* validWindowsFor: where a task may be dropped.
ValidWindows(task, input) ==
  IF task.done \/ task.estimate <= 0 THEN {}
  ELSE FreeRegions(AllowedWindows(task, ExpandWindows(input.windows, input.from, input.to)),
                   {[start |-> b.start, end |-> b.end] :
                      b \in {x \in input.committed : x.anchored \/ x.task # task.id}},
                   EarliestFromDeps(task, CommittedSpans(input), input), task.estimate)
=============================================================================
