------------------------------ MODULE Planning ------------------------------
(***************************************************************************)
(* The plan of a user and its suggestions: the block verbs of                *)
(* apps/server/src/dispatcher.ts, and the two jobs that suggest blocks,      *)
(* schedule.optimize and pastdue.scan.  A job reads the plan, computes, and  *)
(* only then opens the transaction that writes, so commands run between its  *)
(* steps.  Each job has one worker.  A command that is refused changes       *)
(* nothing here and is left out; the last writer of a field is in Records.   *)
(***************************************************************************)
EXTENDS Scheduler

CONSTANTS
  Tasks,        \* task id to [estimate, due, deps, sprint]
  InitBlocks,   \* the blocks before: 1 .. n to Block
  Spans,        \* the intervals a user chooses from
  Windows,      \* DEFAULT_WINDOWS
  HorizonDays,  \* how far the scheduler looks
  MaxDay, MaxCommands, MaxRuns, MaxScans   \* bounds: days, commands, runs of the jobs

VARIABLES
  blocks,    \* schedule_blocks: id to row
  done,      \* the tasks completed
  now,       \* the clock, see Tick
  optimize,  \* schedule.optimize: {} or {the input it read}
  scan,      \* pastdue.scan: {} or {what it read so far}
  lastId,    \* the newest block id
  lastBatch, \* the newest nightly batch; the others are superseded
  spent      \* [commands, optimize, scan] used of the bounds

planVars == <<blocks, done, now, optimize, scan, lastId, lastBatch, spent>>

Block(task, start, end, anchored) ==
  [task |-> task, start |-> start, end |-> end, anchored |-> anchored, status |-> "committed",
   reason |-> "none", batch |-> None, replaces |-> None, superseded |-> FALSE, live |-> TRUE,
   source |-> "user"]

Suggestion(task, start, end, reason, batch, replaces) ==
  [Block(task, start, end, FALSE) EXCEPT !.status = "suggested", !.reason = reason,
                                         !.batch = batch, !.replaces = replaces,
                                         !.source = "scheduler"]

\* A row of schedule_blocks: what a suggestion carries beside its place goes when
\* it is committed, and only a suggestion is ever superseded.
BlockRow(r) ==
  /\ DOMAIN r = {"task", "start", "end", "anchored", "status", "reason", "batch", "replaces",
                  "superseded", "live", "source"}
  /\ r.status \in {"committed", "suggested"}
  /\ r.anchored \in BOOLEAN /\ r.superseded \in BOOLEAN /\ r.live \in BOOLEAN
  /\ r.status = "committed" => r.reason = "none" /\ r.batch = None /\ r.replaces = None /\ ~r.superseded
  /\ r.status = "suggested" => r.reason \in {"nightly_optimization", "past_due_reschedule"}

ASSUME PlanningAssumption == \A b \in DOMAIN InitBlocks : BlockRow(InitBlocks[b])

\* New rows beside the old ones.
Added(new, old) ==
  [b \in DOMAIN new \cup DOMAIN old |-> IF b \in DOMAIN new THEN new[b] ELSE old[b]]

PlanInit ==
  /\ blocks = InitBlocks
  /\ done = {}
  /\ now = 0
  /\ optimize = {} /\ scan = {}
  /\ lastId = Cardinality(DOMAIN InitBlocks)
  /\ lastBatch = 0
  /\ spent = [commands |-> 0, optimize |-> 0, scan |-> 0]

Live(B) == {b \in DOMAIN B : B[b].live}
Committed(B) == {b \in Live(B) : B[b].status = "committed"}
Suggestions(B) == {b \in Live(B) : B[b].status = "suggested" /\ ~B[b].superseded}

-----------------------------------------------------------------------------
(* The verbs.                                                                 *)

Command ==
  /\ spent.commands < MaxCommands
  /\ spent' = [spent EXCEPT !.commands = @ + 1]
  /\ UNCHANGED <<now, optimize, scan, lastBatch>>

\* block.create, checkBlockCreate.
CreateBlock(t, s) ==
  /\ Command
  /\ t \notin done
  /\ lastId' = lastId + 1
  /\ blocks' = Added([b \in {lastId'} |-> Block(t, s.start, s.end, FALSE)], blocks)
  /\ UNCHANGED done

\* block.move, checkBlockMove.
MoveBlock(b, s) ==
  /\ Command
  /\ ~blocks[b].anchored /\ blocks[b].task \notin done
  /\ blocks' = [blocks EXCEPT ![b].start = s.start, ![b].end = s.end]
  /\ UNCHANGED <<done, lastId>>

SetAnchor(b) ==
  /\ Command
  /\ blocks' = [blocks EXCEPT ![b].anchored = ~@]
  /\ UNCHANGED <<done, lastId>>

DeleteBlock(b) ==
  /\ Command
  /\ blocks[b].live
  /\ blocks' = [blocks EXCEPT ![b].live = FALSE]
  /\ UNCHANGED <<done, lastId>>

\* A device rejects what it was offered; the server looks no closer.
RejectSuggestion(b) == blocks[b].source = "scheduler" /\ DeleteBlock(b)

CanAccept(B, b) ==
  /\ b \in Suggestions(B)
  /\ B[b].task \notin done
  /\ ~\E a \in Committed(B) : a # b /\ B[a].anchored /\ Overlap(B[a], B[b])

\* Other offers for the same task at the same time.
Rivals(B, b) == {o \in Suggestions(B) \ {b} : B[o].task = B[b].task /\ Overlap(B[o], B[b])}

\* A suggestion is committed and loses what it carried as one.
AsCommitted(r) ==
  [r EXCEPT !.status = "committed", !.reason = "none", !.batch = None, !.replaces = None]

\* Seeded fault of Accepted: the other offers stay.
AcceptedKeepingRivals(B, b) ==
  [x \in DOMAIN B |->
     CASE x = B[b].replaces -> [B[x] EXCEPT !.live = FALSE]
       [] x = b /\ x # B[b].replaces -> AsCommitted(B[x])
       [] OTHER -> B[x]]

\* The accept transaction: the replaced block goes, the suggestion is committed
\* without its metadata, its rivals are superseded.
Accepted(B, b) ==
  [x \in DOMAIN B |->
     CASE x = B[b].replaces -> [B[x] EXCEPT !.live = FALSE]
       [] x = b /\ x # B[b].replaces -> AsCommitted(B[x])
       [] x \in Rivals(B, b) \ {B[b].replaces} -> [B[x] EXCEPT !.superseded = TRUE]
       [] OTHER -> B[x]]

\* buildAcceptSuggestionEffects: what the device shows of it at once.
ShownAccepted(B, b) ==
  LET gone    == {B[b].replaces}
      clashes == {o \in DOMAIN B \ {b} : /\ B[o].task = B[b].task /\ B[o].status = "suggested"
                                         /\ B[o].live /\ ~B[o].superseded
                                         /\ B[o].start < B[b].end /\ B[b].start < B[o].end}
  IN  [x \in DOMAIN B \ gone |->
         IF x = b THEN [AsCommitted(B[x]) EXCEPT !.superseded = FALSE]
         ELSE IF x \in clashes THEN [B[x] EXCEPT !.superseded = TRUE] ELSE B[x]]

AcceptSuggestion(b) ==
  /\ Command
  /\ CanAccept(blocks, b)
  /\ blocks' = Accepted(blocks, b)
  /\ UNCHANGED <<done, lastId>>

\* node.check_off and node.uncheck.
CheckOff(t) ==
  /\ Command
  /\ done' = IF t \in done THEN done \ {t} ELSE done \cup {t}
  /\ UNCHANGED <<blocks, lastId>>

-----------------------------------------------------------------------------
(* The jobs.                                                                  *)

\* loadSchedulerInput.
SchedulerInput ==
  [tasks |-> {[id |-> t, estimate |-> Tasks[t].estimate, due |-> Tasks[t].due, deps |-> Tasks[t].deps,
               sprint |-> Tasks[t].sprint, windows |-> {}, notBefore |-> None, done |-> FALSE]
              : t \in {x \in DOMAIN Tasks \ done : Tasks[x].estimate > 0}},
   committed |-> {[id |-> b, task |-> blocks[b].task, start |-> blocks[b].start, end |-> blocks[b].end,
                   anchored |-> blocks[b].anchored] : b \in Committed(blocks)},
   windows |-> Windows, from |-> now, to |-> now + HorizonDays * DayLength]

\* runScheduleOptimize reads.
OptimizeRead ==
  /\ optimize = {} /\ spent.optimize < MaxRuns
  /\ optimize' = {SchedulerInput}
  /\ spent' = [spent EXCEPT !.optimize = @ + 1]
  /\ UNCHANGED <<blocks, done, now, scan, lastId, lastBatch>>

\* The earliest flexible block of the task at the time of reading.
Replaceable(input, t) ==
  LET own == {b \in input.committed : b.task = t /\ ~b.anchored} IN
  IF own = {} THEN None ELSE (CHOOSE b \in own : \A o \in own : b.start <= o.start).id

\* The suggestions of the last run, taken or not superseded or not, go.
Outdated(B) == {b \in DOMAIN B : B[b].status = "suggested" /\ B[b].reason = "nightly_optimization"}

\* Its transaction: any plan the search may return.
OptimizeWrite ==
  \E input \in optimize : \E plan \in OptimizedPlans(input) :
    LET new  == SetToSeq(Proposals(plan, input))
        kept == [b \in DOMAIN blocks \ Outdated(blocks) |-> blocks[b]]
        batch == IF new = << >> THEN lastBatch ELSE lastBatch + 1
        made == [b \in lastId + 1 .. lastId + Len(new) |->
                   LET p == new[b - lastId] IN
                   Suggestion(p.task, p.start, p.end, "nightly_optimization", batch,
                              Replaceable(input, p.task))]
    IN  /\ blocks' = Added(made, kept)
        /\ lastId' = lastId + Len(new)
        /\ lastBatch' = batch
        /\ optimize' = {}
        /\ UNCHANGED <<done, now, scan, spent>>

PastDue(B, at) ==
  {t \in DOMAIN Tasks \ done :
     /\ Tasks[t].due # None /\ Tasks[t].due < at \div DayLength
     /\ ~\E b \in Committed(B) : B[b].task = t /\ B[b].end > at}

\* A task whose suggestion is superseded counts as having one.
HasPastDueSuggestion(B) == {B[b].task : b \in {x \in Live(B) : B[x].reason = "past_due_reschedule"}}

\* runPastdueScan reads the tasks and the blocks, then loads the input.
ScanLook ==
  /\ scan = {} /\ spent.scan < MaxScans /\ PastDue(blocks, now) # {}
  /\ scan' = {[late |-> PastDue(blocks, now) \ HasPastDueSuggestion(blocks), now |-> now, input |-> {}]}
  /\ spent' = [spent EXCEPT !.scan = @ + 1]
  /\ UNCHANGED <<blocks, done, now, optimize, lastId, lastBatch>>

ScanLoad ==
  /\ \E s \in scan : s.input = {} /\ scan' = {[s EXCEPT !.input = {[SchedulerInput EXCEPT !.from = s.now]}]}
  /\ UNCHANGED <<blocks, done, now, optimize, lastId, lastBatch, spent>>

\* Each task is placed on its own, so two may get the same slot.
ScanWrite ==
  \E s \in scan : \E input \in s.input :
    LET from(t) == [input EXCEPT !.tasks = {IF x.id = t THEN [x EXCEPT !.notBefore = s.now] ELSE x : x \in @}]
        place(t) == RescheduleTask(t, from(t)).placed
        new == SetToSeq({t \in s.late : t \in DOMAIN place(t)})
        made == [b \in lastId + 1 .. lastId + Len(new) |->
                   LET t == new[b - lastId] IN
                   Suggestion(t, place(t)[t].start, place(t)[t].end, "past_due_reschedule", None, None)]
    IN  /\ blocks' = Added(made, blocks)
        /\ lastId' = lastId + Len(new)
        /\ scan' = {}
        /\ UNCHANGED <<done, now, optimize, lastBatch, spent>>

Tick ==
  /\ now < MaxDay * DayLength
  /\ now' = now + DayLength
  /\ UNCHANGED <<blocks, done, optimize, scan, lastId, lastBatch, spent>>

PlanNext ==
  \/ \E t \in DOMAIN Tasks, s \in Spans : CreateBlock(t, s)
  \/ \E b \in DOMAIN blocks, s \in Spans : MoveBlock(b, s)
  \/ \E b \in DOMAIN blocks : SetAnchor(b)
  \/ \E b \in DOMAIN blocks : DeleteBlock(b)
  \/ \E b \in DOMAIN blocks : RejectSuggestion(b)
  \/ \E b \in DOMAIN blocks : AcceptSuggestion(b)
  \/ \E t \in DOMAIN Tasks : CheckOff(t)
  \/ OptimizeRead
  \/ OptimizeWrite
  \/ ScanLook
  \/ ScanLoad
  \/ ScanWrite
  \/ Tick

PlanSpec == PlanInit /\ [][PlanNext]_planVars

-----------------------------------------------------------------------------
(* What the plan promises.                                                    *)

Seconds(r) == r.start .. (r.end - 1)

\* The dependencies of a placed task hold against its predecessors' places.
InOrder(plan, input, t) ==
  LET spans == plan.placed @@ CommittedSpans(input) IN
  \A d \in TaskOf(input, t).deps : d.pred \in DOMAIN spans =>
    plan.placed[t].start >= Bound(d, spans[d.pred], plan.placed[t].end - plan.placed[t].start)

\* What PlacementSound says of one input.
SoundPlacement(input) ==
  \A plan \in OptimizedPlans(input) :
    LET ids      == DOMAIN plan.placed
        windows  == ExpandWindows(input.windows, input.from, input.to)
        spans    == plan.placed @@ CommittedSpans(input)
        taken(t) == UNION {Seconds(o) : o \in OccupiedSeed(input) \cup {plan.placed[u] : u \in ids \ {t}}}
        fits(t, s) == LET slot == s .. (s + TaskOf(input, t).estimate - 1) IN
                      slot \cap taken(t) = {} /\ \E w \in windows : slot \subseteq Seconds(w)
    IN  /\ ids \cup DOMAIN plan.failed = InBatch(input.tasks) /\ ids \cap DOMAIN plan.failed = {}
        /\ \A b \in input.committed, t \in ids : b.anchored => ~Overlap(b, plan.placed[t])
        /\ \A t \in ids : /\ plan.placed[t].end = plan.placed[t].start + TaskOf(input, t).estimate
                          /\ fits(t, plan.placed[t].start) /\ InOrder(plan, input, t)
        /\ \A t \in DOMAIN plan.failed : plan.failed[t] = "horizon_full" =>
             \A s \in EarliestFromDeps(TaskOf(input, t), spans, input) .. input.to : ~fits(t, s)
        /\ \A t \in input.tasks :
             LET alone == RescheduleTask(t.id, input).placed
                 hints == {r.start : r \in ValidWindows(t, input)}
             IN  {alone[x].start : x \in DOMAIN alone} = IF hints = {} THEN {} ELSE {MinOf(hints)}

\* Whatever plan the scheduler returns, each task has a place or a reason; no
\* place overlaps an anchored block, a block of a task not replanned or another
\* place, none leaves its window or comes before its dependencies allow; a task
\* is told the horizon is full only when no slot is left; and a task placed alone
\* goes to the first of the regions the client highlights for it.
PlacementSound == [][\A input \in optimize' \ optimize : SoundPlacement(input)]_planVars

\* Accepting a suggestion shows at once what the server will answer: the device's
\* own copy of the accept transaction gives the same plan, whatever was offered,
\* moved, anchored or deleted in between.
AcceptMirrors ==
  \A b \in Suggestions(blocks) :
    CanAccept(blocks, b) =>
      LET reply == Accepted(blocks, b)
          device == ShownAccepted(blocks, b)
      IN  /\ Live(reply) = Live(device)
          /\ \A x \in Live(reply) : reply[x] = device[x]

\* schedule-optimize.ts: "Anchored blocks are real obstacles -> never replaced".
AnchoredNeverReplaced ==
  [][\A b \in DOMAIN blocks : AcceptSuggestion(b) =>
       \A a \in Committed(blocks) : blocks[a].anchored => blocks'[a].live]_planVars

\* dispatcher.ts, block.reject_suggestion: "soft-delete only the suggestion".
RejectOnlySuggestions ==
  [][\A b \in DOMAIN blocks : RejectSuggestion(b) => blocks[b].status = "suggested"]_planVars
=============================================================================
