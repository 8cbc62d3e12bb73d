------------------------------ MODULE Tracking ------------------------------
(***************************************************************************)
(* Time tracking and completion on the server of Prisms                      *)
(* (apps/server/src/dispatcher.ts, runHandler): timer.clock_in, clock_out    *)
(* and review, node.check_off and uncheck, for requests that run side by     *)
(* side.  As in Structure a command reads and checks in one step and writes  *)
(* in a later one, and its request keeps the fact context it has loaded.     *)
(*                                                                          *)
(* The dependencies and the blocker rules do not change during a run.        *)
(* Automation, which only adds rows, is left out.                            *)
(***************************************************************************)
EXTENDS Status

CONSTANTS
  Tasks,       \* task ids, numbers
  Entries,     \* time entry ids, numbers: the larger id wins a tie
  Devices,
  Times,       \* instants of payloads and of the server, an interval of Nat \ {0}
  Links,       \* the edges between the tasks
  Rules,       \* the enabled blocker rules
  Commands,    \* the payloads devices may send, see Command
  Requests,    \* bound: the uploads of a run
  MaxCommands  \* bound: the commands of a run, their HLCs are 1 .. MaxCommands

Command ==
  [verb : {"clockIn"}, entry : Entries, task : Tasks, at : Times, device : Devices, force : BOOLEAN]
  \cup [verb : {"clockOut"}, entry : Entries, at : Times]
  \cup [verb : {"review"},   entry : Entries, finished : BOOLEAN]
  \cup [verb : {"checkOff"}, task : Tasks, at : Times]
  \cup [verb : {"uncheck"},  task : Tasks]

TimeEntry ==
  [task : Tasks, start : Times, end : Times \cup {None}, device : Devices, finished : BOOLEAN]

ASSUME TrackingAssumption ==
  /\ None = 0 /\ Tasks \subseteq Nat \ {0} /\ Entries \subseteq Nat \ {0}
  /\ Times \subseteq Nat \ {0}
  /\ Commands \subseteq Command
  /\ Links \subseteq [pred : Tasks, succ : Tasks, kind : EdgeKinds, lag : Nat]
  /\ MaxCommands \in Nat

VARIABLES
  done,        \* completed_at of each task, None while it is not done
  entries,     \* the time_entries table: ids to TimeEntry
  doneBy,      \* the last writer of a task's completion, an HLC
  reviewedBy,  \* the last writer of an entry's review, an HLC
  now,         \* the clock of the server
  \* --- each request
  open,        \* under way
  facts,       \* BatchContext.factP, {} or {facts}
  cur,         \* the command that has read and not written, {} or {[cmd, hlc, plan]}
  \* --- the run
  minted,      \* the HLCs used
  overlapped   \* history: two requests have been under way at once

request == <<open, facts, cur>>
vars == <<done, entries, doneBy, reviewedBy, now, request, minted, overlapped>>

Init ==
  /\ done = [n \in Tasks |-> None]
  /\ entries = << >>
  /\ doneBy = [n \in Tasks |-> 0]
  /\ reviewedBy = [e \in Entries |-> 0]
  /\ now \in Times /\ \A t \in Times : now <= t
  /\ open = {}
  /\ facts = [q \in Requests |-> {}]
  /\ cur = [q \in Requests |-> {}]
  /\ minted = {}
  /\ overlapped = FALSE

-----------------------------------------------------------------------------
(* What a command reads.                                                      *)

\* loadFactContextRaw.
Facts ==
  [tree    |-> [n \in Tasks |-> [type |-> "task", parent |-> None, habit |-> None, done |-> done[n]]],
   edges   |-> Links,
   entries |-> {[task |-> entries[e].task, start |-> entries[e].start, end |-> entries[e].end] :
                  e \in DOMAIN entries},
   blocks  |-> {}, sprints |-> {}, members |-> {}, weather |-> << >>,
   rules   |-> Rules, dayOf |-> [t \in Times |-> 0]]

\* What the request sees of them: the memo, or the tables now.
Seen(q) == IF facts[q] = {} THEN Facts ELSE CHOOSE f \in facts[q] : TRUE

OpenEntry == {e \in DOMAIN entries : entries[e].end = None}

\* completionGate: a task without predecessors is free.
GateOpen(q, n) == CheckCompletion(Seen(q), n, now)

\* Seeded fault of StaysOpen: the one that came first stays open.
StaysOpenFirst(e, start, other) == FALSE

\* resolveOpenTimeEntries of two: the later start stays open, ties go to the larger id.
StaysOpen(e, start, other) ==
  start > entries[other].start \/ (start = entries[other].start /\ e > other)

\* A plan: what the handler will write, if anything, and whether it accepts.
Plan(kind) == [kind |-> kind]
Close(other, end) == [kind |-> "takeOver", other |-> other, end |-> end]
Insert(end) == [kind |-> "insert", end |-> end]

\* The clock-in of another device: the one that loses is closed at the other's start.
ResolveTimers(c, other) ==
  IF StaysOpen(c.entry, c.at, other) THEN Close(other, c.at) ELSE Insert(entries[other].start)

PlanClockIn(q, c) ==
  CASE c.entry \in DOMAIN entries -> Plan("converged")
    [] c.entry \notin DOMAIN entries ->
       IF \/ done[c.task] # None
          \/ ~c.force /\ IsBlockedForAcceptance(Seen(q), c.task, now)
          \/ \E o \in OpenEntry : entries[o].device = c.device
       THEN Plan("rejected")
       ELSE IF OpenEntry = {} THEN Insert(None)
       ELSE ResolveTimers(c, CHOOSE o \in OpenEntry : TRUE)

\* Seeded fault of PlanClockOut: an entry that is closed may be closed again.
PlanClockOutAgain(c) ==
  IF c.entry \in DOMAIN entries /\ c.at > entries[c.entry].start
  THEN Plan("close") ELSE Plan("rejected")

PlanClockOut(c) ==
  IF /\ c.entry \in DOMAIN entries
     /\ entries[c.entry].end = None /\ c.at > entries[c.entry].start
  THEN Plan("close") ELSE Plan("rejected")

\* The review writes its two columns first; completing the task may be refused.
PlanReview(q, c) ==
  CASE c.entry \notin DOMAIN entries -> Plan("rejected")
    [] c.entry \in DOMAIN entries ->
       LET n == entries[c.entry].task IN
       IF c.finished /\ entries[c.entry].end # None /\ done[n] = None
       THEN Plan(IF GateOpen(q, n) THEN "reviewDone" ELSE "reviewRefused")
       ELSE Plan("review")

\* Seeded fault of PlanCheckOff: no gate.
PlanCheckOffUngated(q, c) == Plan("complete")

\* A task that is done already is not gated again.
PlanCheckOff(q, c) ==
  Plan(IF done[c.task] # None \/ GateOpen(q, c.task) THEN "complete" ELSE "rejected")

PlanOf(q, c) ==
  CASE c.verb = "clockIn"  -> PlanClockIn(q, c)
    [] c.verb = "clockOut" -> PlanClockOut(c)
    [] c.verb = "review"   -> PlanReview(q, c)
    [] c.verb = "checkOff" -> PlanCheckOff(q, c)
    [] c.verb = "uncheck"  -> Plan("reopen")

\* The handler loads the fact context.
ReadsFacts(c) ==
  \/ c.verb = "clockIn" /\ ~c.force /\ c.entry \notin DOMAIN entries /\ done[c.task] = None
  \/ c.verb = "checkOff" /\ done[c.task] = None /\ Incoming(Links, c.task) # {}
  \/ /\ c.verb = "review" /\ c.finished /\ c.entry \in DOMAIN entries
     /\ entries[c.entry].end # None /\ done[entries[c.entry].task] = None
     /\ Incoming(Links, entries[c.entry].task) # {}

-----------------------------------------------------------------------------
Tick ==
  /\ now + 1 \in Times /\ now' = now + 1
  /\ UNCHANGED <<done, entries, doneBy, reviewedBy, request, minted, overlapped>>

Open(q) ==
  /\ q \notin open
  /\ Cardinality(minted) < MaxCommands
  /\ open' = open \cup {q}
  /\ overlapped' = (overlapped \/ open # {})
  /\ UNCHANGED <<done, entries, doneBy, reviewedBy, now, facts, cur, minted>>

Read(q) ==
  /\ q \in open /\ cur[q] = {}
  /\ \E c \in Commands, h \in (1 .. MaxCommands) \ minted :
       /\ minted' = minted \cup {h}
       /\ cur' = [cur EXCEPT ![q] = {[cmd |-> c, hlc |-> h, plan |-> PlanOf(q, c)]}]
       /\ facts' = [facts EXCEPT ![q] = IF ReadsFacts(c) THEN {Seen(q)} ELSE @]
  /\ UNCHANGED <<done, entries, doneBy, reviewedBy, now, open, overlapped>>

-----------------------------------------------------------------------------
(* What it writes.                                                            *)

\* completed_at and its disposition, by last-writer-wins.
Complete(n, at, h) ==
  IF doneBy[n] < h
  THEN done' = [done EXCEPT ![n] = at] /\ doneBy' = [doneBy EXCEPT ![n] = h]
  ELSE UNCHANGED <<done, doneBy>>

NewEntry(c, end) ==
  [x \in DOMAIN entries \cup {c.entry} |->
     IF x # c.entry THEN entries[x]
     ELSE [task |-> c.task, start |-> c.at, end |-> end, device |-> c.device, finished |-> FALSE]]

\* What the database refuses: an interval that is empty, a second open entry, a
\* taken id.  It is asked after the other entry has been closed.
Refused(c, p) ==
  CASE p.kind = "insert" ->
         \/ c.entry \in DOMAIN entries
         \/ IF p.end = None THEN OpenEntry # {} ELSE p.end <= c.at
    [] p.kind = "takeOver" ->
         \/ c.entry \in DOMAIN entries
         \/ p.end <= entries[p.other].start
         \/ OpenEntry \ {p.other} # {}
    [] OTHER -> FALSE

\* Seeded fault of WriteReview: the task is completed before the gate is asked.
WriteReviewEager(c, h, p) ==
  /\ IF reviewedBy[c.entry] < h
     THEN /\ entries' = [entries EXCEPT ![c.entry].finished = c.finished]
          /\ reviewedBy' = [reviewedBy EXCEPT ![c.entry] = h]
     ELSE UNCHANGED <<entries, reviewedBy>>
  /\ IF p.kind \in {"reviewDone", "reviewRefused"}
     THEN Complete(entries[c.entry].task, entries[c.entry].end, h)
     ELSE UNCHANGED <<done, doneBy>>

WriteReview(c, h, p) ==
  /\ IF reviewedBy[c.entry] < h
     THEN /\ entries' = [entries EXCEPT ![c.entry].finished = c.finished]
          /\ reviewedBy' = [reviewedBy EXCEPT ![c.entry] = h]
     ELSE UNCHANGED <<entries, reviewedBy>>
  /\ IF p.kind = "reviewDone"
     THEN Complete(entries[c.entry].task, entries[c.entry].end, h)
     ELSE UNCHANGED <<done, doneBy>>

Write(c, h, p) ==
  \/ p.kind = "insert" /\ entries' = NewEntry(c, p.end) /\ UNCHANGED <<done, doneBy, reviewedBy>>
  \/ /\ p.kind = "takeOver"
     /\ entries' = [NewEntry(c, None) EXCEPT ![p.other].end = p.end]
     /\ UNCHANGED <<done, doneBy, reviewedBy>>
  \/ /\ p.kind = "close" /\ entries' = [entries EXCEPT ![c.entry].end = c.at]
     /\ UNCHANGED <<done, doneBy, reviewedBy>>
  \/ /\ p.kind = "complete" /\ Complete(c.task, c.at, h)
     /\ UNCHANGED <<entries, reviewedBy>>
  \/ p.kind = "reopen" /\ Complete(c.task, None, h) /\ UNCHANGED <<entries, reviewedBy>>
  \/ p.kind \in {"review", "reviewDone", "reviewRefused"} /\ WriteReview(c, h, p)

Writes == {"insert", "takeOver", "close", "complete", "reopen", "review", "reviewDone"}

\* The command is through.  A refused review has no effect on the memo, being
\* rejected; whatever is applied drops it, since every verb here writes a table
\* of the context.  A retry of a clock-in that is there is applied, too.
Commit(q) ==
  /\ \E x \in cur[q] :
       \/ /\ x.plan.kind = "rejected" \/ Refused(x.cmd, x.plan)
          /\ UNCHANGED <<done, entries, doneBy, reviewedBy, facts>>
       \/ /\ x.plan.kind = "converged"
          /\ facts' = [facts EXCEPT ![q] = {}]
          /\ UNCHANGED <<done, entries, doneBy, reviewedBy>>
       \/ /\ x.plan.kind \in Writes /\ ~Refused(x.cmd, x.plan)
          /\ Write(x.cmd, x.hlc, x.plan)
          /\ facts' = [facts EXCEPT ![q] = {}]
       \/ /\ x.plan.kind = "reviewRefused"
          /\ Write(x.cmd, x.hlc, x.plan)
          /\ UNCHANGED facts
  /\ cur' = [cur EXCEPT ![q] = {}]
  /\ UNCHANGED <<now, open, minted, overlapped>>

Done(q) ==
  /\ q \in open /\ cur[q] = {}
  /\ open' = open \ {q}
  /\ facts' = [facts EXCEPT ![q] = {}]
  /\ UNCHANGED <<done, entries, doneBy, reviewedBy, now, cur, minted, overlapped>>

Next == Tick \/ \E q \in Requests : Open(q) \/ Read(q) \/ Commit(q) \/ Done(q)

Spec == Init /\ [][Next]_vars
-----------------------------------------------------------------------------
\* Type invariant.
Plans ==
  [kind : {"rejected", "converged", "close", "review", "reviewDone", "reviewRefused", "complete", "reopen"}]
  \cup [kind : {"insert"}, end : Times \cup {None}]
  \cup [kind : {"takeOver"}, other : Entries, end : Times]

TypeOK ==
  /\ done \in [Tasks -> Times \cup {None}]
  /\ entries \in [DOMAIN entries -> TimeEntry] /\ DOMAIN entries \subseteq Entries
  /\ doneBy \in [Tasks -> 0 .. MaxCommands]
  /\ reviewedBy \in [Entries -> 0 .. MaxCommands]
  /\ now \in Times
  /\ open \subseteq Requests
  /\ DOMAIN facts = Requests
  /\ cur \in [Requests -> SUBSET [cmd : Commands, hlc : 1 .. MaxCommands, plan : Plans]]
  /\ minted \subseteq 1 .. MaxCommands
  /\ overlapped \in BOOLEAN

\* Of an entry the sheet shows its interval.
Intervals == [e \in DOMAIN entries |-> [start |-> entries[e].start, end |-> entries[e].end]]

\* The promise of TimeSheet, in which reviews and completions are stutters.
Sheet == INSTANCE TimeSheet WITH
  Sessions  <- Entries,
  sheet     <- Intervals,
  contended <- overlapped

SheetSpec == Sheet!Spec

\* The command that a step puts through.
Through(x) == \E q \in Requests : x \in cur[q] /\ cur'[q] = {}

Ahead == UNION {cur[q] : q \in Requests}

\* The gates hold of the tables, not only of what a request has cached: while
\* requests do not overlap, a task is completed only when its dependencies allow
\* it at that moment, and a timer starts on a blocked task only by force.
SerialGates ==
  [][~overlapped' =>
       /\ \A n \in Tasks : done[n] = None /\ done'[n] # None => CheckCompletion(Facts, n, now)
       /\ \A e \in DOMAIN entries' \ DOMAIN entries : \E x \in Ahead :
            /\ x.cmd.verb = "clockIn" /\ x.cmd.entry = e /\ done[x.cmd.task] = None
            /\ x.cmd.force \/ ~IsBlockedForAcceptance(Facts, x.cmd.task, now)]_vars

\* The clock-in of a second device is resolved and not lost: while requests do
\* not overlap it is recorded, and what runs then started last of the two.  Two
\* that start at the same instant are the exception: the one to be closed would
\* end where it starts, and the database refuses that.
SerialTimersResolve ==
  [][\A x \in Ahead :
       /\ ~overlapped' /\ Through(x) /\ x.cmd.verb = "clockIn"
       /\ x.plan.kind \in {"insert", "takeOver"}
       /\ \A o \in OpenEntry : entries[o].start # x.cmd.at
       => /\ x.cmd.entry \in DOMAIN entries'
          /\ \A o \in OpenEntry \cup {x.cmd.entry}, r \in DOMAIN entries' :
               entries'[r].end = None => entries'[r].start >= entries'[o].start]_vars

\* A rejected command changes no fact another command reads: no completion and no
\* interval, though a refused review leaves its two columns behind.
RejectionKeepsFacts ==
  [][\A x \in Ahead :
       Through(x) /\ (x.plan.kind \in {"rejected", "reviewRefused"} \/ Refused(x.cmd, x.plan))
       => Facts' = Facts]_vars
=============================================================================
