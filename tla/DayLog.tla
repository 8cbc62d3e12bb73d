------------------------------- MODULE DayLog -------------------------------
(* The day log under a journal page (packages/core/src/journal/day-log.ts) *)
(* and the journal archive (jobs/journal-export.ts).  Nothing is stored:   *)
(* the log of a day is computed from the blocks and nodes at hand, on the  *)
(* device for one day, on the server for all days from narrowed SELECTs.   *)
(* Databases, keys and rows are those of module Archive.                   *)
EXTENDS Aggregates

CONSTANTS
  MaxEntries,       \* lines of a list of the log (100 in the code)
  Unusable          \* a timestamp no platform can read

Usable(instant) == instant # Unusable

(* A committed block that is live and has not been superseded.             *)
Logged(row) ==
  row.status = "committed" /\ row.superseded = None /\ row.deleted = None

(* One pass over the blocks: those of the wanted days, joined to a live    *)
(* node.  wanted is the set of days asked for.                             *)
ScheduledOn(nodes, blocks, date) ==
  {b \in DOMAIN blocks :
     /\ Logged(blocks[b])
     /\ Usable(blocks[b].starts) /\ Usable(blocks[b].ends)
     /\ BucketDate(blocks[b].starts) = date
     /\ blocks[b].task \in DOMAIN nodes
     /\ nodes[blocks[b].task].deleted = None}

CompletedOn(nodes, date) ==
  {n \in DOMAIN nodes :
     /\ nodes[n].deleted = None
     /\ nodes[n].done # None /\ Usable(nodes[n].done)
     /\ BucketDate(nodes[n].done) = date}

DispositionOf(node) ==
  IF node.disposition = "obsolete" THEN "obsolete" ELSE "completed"

ScheduledEntry(nodes, block, key) ==
  [block |-> key, task |-> block.task, starts |-> block.starts,
   ends |-> block.ends, done |-> nodes[block.task].done # None]

CompletedEntry(nodes, key, planned) ==
  [task |-> key, completed |-> nodes[key].done,
   disposition |-> DispositionOf(nodes[key]), planned |-> key \in planned]

(* What a day holds, in the order of the rows.                             *)
Collect(nodes, blocks, date) ==
  LET scheduled == ScheduledOn(nodes, blocks, date)
      planned == {blocks[b].task : b \in scheduled}
  IN [scheduled |-> {ScheduledEntry(nodes, blocks[b], b) : b \in scheduled},
      completed |-> {CompletedEntry(nodes, n, planned) : n \in CompletedOn(nodes, date)}]

ByStartOfBlock(entries) ==
  SetToSortSeq(entries,
    LAMBDA x, y : x.starts < y.starts \/ (x.starts = y.starts /\ x.block[2] < y.block[2]))

ByCompletion(entries) ==
  SetToSortSeq(entries,
    LAMBDA x, y : \/ x.completed < y.completed
                  \/ x.completed = y.completed /\ x.task[2] < y.task[2])

Cut(list) == SubSeq(list, 1, IF Len(list) > MaxEntries THEN MaxEntries ELSE Len(list))

(* Order and cap; None for a day with nothing to log.                      *)
Finalize(draft) ==
  LET scheduled == ByStartOfBlock(draft.scheduled)
      completed == ByCompletion(draft.completed)
  IN IF draft.scheduled = {} /\ draft.completed = {} THEN None
     ELSE [scheduled |-> Cut(scheduled), completed |-> Cut(completed),
           dropped |-> <<Len(scheduled) - Len(Cut(scheduled)),
                         Len(completed) - Len(Cut(completed))>>]

ComputeDayLog(nodes, blocks, date) == Finalize(Collect(nodes, blocks, date))

(* All the days in one pass: those a usable block or completion falls on.  *)
LogDays(nodes, blocks) ==
  {BucketDate(blocks[b].starts) : b \in {b \in DOMAIN blocks : Usable(blocks[b].starts)}}
  \union {BucketDate(nodes[n].done) : n \in
            {n \in DOMAIN nodes : nodes[n].done # None /\ Usable(nodes[n].done)}}

ComputeDayLogsByDate(nodes, blocks) ==
  LET all == [d \in LogDays(nodes, blocks) |-> ComputeDayLog(nodes, blocks, d)]
  IN [d \in {d \in DOMAIN all : all[d] # None} |-> all[d]]

----------------------------------------------------------------------------
(* The archive: the live notes, and, unless the user turned it off, the    *)
(* logs of all days, from the rows the server selects for them.            *)

Notes(db, user) ==
  {k \in LiveRows(db, "journal_entries") : db[k].user = user}

SettingsOf(db, user) == <<"user_settings", user>>

DayLogOn(db, user) ==
  IF SettingsOf(db, user) \in DOMAIN db
  THEN db[SettingsOf(db, user)].dayLog ELSE TRUE

SelectedBlocks(db, user) ==
  [b \in {b \in RowsOf(db, "schedule_blocks") : db[b].user = user /\ Logged(db[b])}
     |-> db[b]]

(* Changed: only the completions are selected.                             *)
SelectedNodesDone(db, user) ==
  [n \in {n \in LiveRows(db, "nodes") : db[n].user = user /\ db[n].done # None}
     |-> db[n]]

(* The nodes the logs can name: the completions, and what a selected block *)
(* points at.                                                              *)
SelectedNodes(db, user) ==
  [n \in {n \in LiveRows(db, "nodes") :
            /\ db[n].user = user
            /\ \/ db[n].done # None
               \/ \E b \in DOMAIN SelectedBlocks(db, user) : db[b].task = n}
     |-> db[n]]

JournalExport(db, user) ==
  LET noted == {db[k].date : k \in Notes(db, user)}
      logs == ComputeDayLogsByDate(SelectedNodes(db, user), SelectedBlocks(db, user))
      logged == IF DayLogOn(db, user) THEN DOMAIN logs ELSE {}
  IN [d \in noted \union logged |->
        [note |-> d \in noted,
         log |-> IF d \in logged THEN logs[d] ELSE None]]

(* What a device renders under the page of one day, from all its rows.     *)
JournalPage(db, user, date) ==
  LET mine(table) == [k \in {k \in RowsOf(db, table) : db[k].user = user} |-> db[k]]
  IN IF DayLogOn(db, user)
     THEN ComputeDayLog(mine("nodes"), mine("schedule_blocks"), date) ELSE None
=============================================================================
