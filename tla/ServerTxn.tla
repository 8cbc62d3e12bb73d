----------------------------- MODULE ServerTxn -----------------------------
(***************************************************************************)
(* The upload requests of ONE user that the server of Prisms works through  *)
(* at the same time (apps/server/src/dispatcher.ts), statement by statement.*)
(* Nothing serialises them: two devices that come online together, or a     *)
(* retry that overtakes the request it replaces, run side by side, each     *)
(* command in a transaction of its own at PostgreSQL's default level, READ  *)
(* COMMITTED.  A statement sees what is committed when it starts; a write   *)
(* locks its row until the transaction ends and waits for another's lock;   *)
(* an INSERT of a key another transaction inserted waits for it and fails   *)
(* when it commits.                                                         *)
(*                                                                          *)
(* The verbs are node.create, the updateNode verbs and node.soft_delete.    *)
(* As in CommandSync a command is named by its HLC, and the value it writes *)
(* to a field is the command itself.                                        *)
(***************************************************************************)
EXTENDS Integers, FiniteSets, NodeTree

CONSTANTS
  Requests,    \* bound: the handleUpload calls of a run
  Rows,        \* node ids
  Fields,      \* LWW columns, numbered in the order a verb lists them
  NoRow,       \* parent_id = NULL
  Parent,      \* the parent_id a row is created with
  InitRows,    \* the rows that exist before the run
  MaxCommands, \* bound: the commands the devices have minted
  MaxBatch,    \* bound: the commands of one request
  MaxFaults    \* bound: how many requests die

ASSUME FieldsAssumption == Fields \subseteq Nat

ASSUME BoundsAssumption ==
  /\ MaxCommands \in Nat /\ MaxBatch \in Nat /\ MaxFaults \in Nat

ASSUME RowsAssumption ==
  /\ NoRow \notin Rows
  /\ Parent \in [Rows -> Rows \cup {NoRow}]
  /\ InitRows \subseteq Rows
  /\ \A r \in InitRows : Parent[r] \in InitRows \cup {NoRow}

Ids == 1 .. MaxCommands

Command == [verb : {"create"}, row : Rows \ InitRows, fields : {{}}]
           \cup [verb : {"update"}, row : Rows, fields : SUBSET Fields \ {{}}]
           \cup [verb : {"delete"}, row : Rows, fields : {{}}]

\* Where handleUpload is: not received; at the top of its loop; at a statement
\* of the command's transaction; answered, or dead.
Pcs == {"new", "next", "load", "tree", "read", "upsert", "write", "log", "commit",
        "done", "dead"}

Results == {"none", "applied", "rejected", "noop"}

VARIABLES
  cmd,      \* the envelopes the devices have minted
  \* --- each request
  pc,
  queue,    \* the commands it still has to handle
  cur,      \* the one it is handling, or 0
  tree,     \* BatchContext.treeP: the set of live rows it cached, {} when none
  todo,     \* the fields lwwFields has still to look at
  field,    \* the field it is about to record as won, at most one
  won,      \* the fields won so far: their version rows are locked
  touched,  \* the rows it has inserted or updated, locked
  verdict,  \* the result of the current command
  answers,  \* the outcomes, by command
  \* --- the committed tables
  log, state, value, version,
  \* --- the run
  overlapped, \* history: two requests have been under way at once
  faults

txn    == <<cur, todo, field, won, touched, verdict>>
tables == <<log, state, value, version>>
vars   == <<cmd, pc, queue, tree, txn, answers, tables, overlapped, faults>>

Active == {q \in Requests : pc[q] \notin {"new", "done", "dead"}}

Live == {r \in Rows : state[r] = "live"}

RowOf(q) == cmd[cur[q]].row

Init ==
  /\ cmd \in {e \in [Ids -> Command] :
                \A c, d \in Ids : e[c].verb = "create" /\ e[d].verb = "create"
                                  /\ e[c].row = e[d].row => c = d}
  /\ pc = [q \in Requests |-> "new"]
  /\ queue = [q \in Requests |-> {}]
  /\ cur = [q \in Requests |-> 0]
  /\ tree = [q \in Requests |-> {}]
  /\ todo = [q \in Requests |-> {}]
  /\ field = [q \in Requests |-> {}]
  /\ won = [q \in Requests |-> {}]
  /\ touched = [q \in Requests |-> {}]
  /\ verdict = [q \in Requests |-> "none"]
  /\ answers = [q \in Requests |-> [c \in Ids |-> "none"]]
  /\ log = [c \in Ids |-> "none"]
  /\ state = [r \in Rows |-> IF r \in InitRows THEN "live" ELSE "absent"]
  /\ value = [r \in Rows |-> [f \in Fields |-> 0]]
  /\ version = [r \in Rows |-> [f \in Fields |-> 0]]
  /\ overlapped = FALSE
  /\ faults = 0

-----------------------------------------------------------------------------
\* POST /sync/upload: a fresh BatchContext, the commands in HLC order.
Receive(q) ==
  /\ pc[q] = "new"
  /\ \E S \in SUBSET Ids \ {{}} :
       /\ Cardinality(S) <= MaxBatch
       /\ queue' = [queue EXCEPT ![q] = S]
  /\ pc' = [pc EXCEPT ![q] = "next"]
  /\ overlapped' = (overlapped \/ Active # {})
  /\ UNCHANGED <<cmd, tree, txn, answers, tables, faults>>

Goto(q, l) == pc' = [pc EXCEPT ![q] = l]

\* The transaction of the command is over, whatever it was.
Reset(q) ==
  /\ cur' = [cur EXCEPT ![q] = 0]
  /\ todo' = [todo EXCEPT ![q] = {}]
  /\ field' = [field EXCEPT ![q] = {}]
  /\ won' = [won EXCEPT ![q] = {}]
  /\ touched' = [touched EXCEPT ![q] = {}]
  /\ verdict' = [verdict EXCEPT ![q] = "none"]

\* The outcome of command c is known; S is left to do.
Finish(q, c, S, result) ==
  /\ answers' = [answers EXCEPT ![q][c] = result]
  /\ queue' = [queue EXCEPT ![q] = S]
  /\ Goto(q, IF S = {} THEN "done" ELSE "next")
  /\ Reset(q)

\* The next command in HLC order: handleCommand looks its id up in command_log
\* before it opens a transaction.
CheckLog(q) ==
  /\ pc[q] = "next"
  /\ \E c \in queue[q] :
       /\ \A x \in queue[q] : c <= x
       /\ IF log[c] # "none" THEN Finish(q, c, queue[q] \ {c}, "noop")
          ELSE /\ queue' = [queue EXCEPT ![q] = @ \ {c}]
               /\ cur' = [cur EXCEPT ![q] = c]
               /\ Goto(q, "load")
               /\ UNCHANGED <<answers, todo, field, won, touched, verdict>>
  /\ UNCHANGED <<cmd, tree, tables, overlapped, faults>>

\* Seeded fault of Decide: a command that changes nothing is logged as `noop`.
DecideNoop(q, result) ==
  /\ verdict' = [verdict EXCEPT ![q] = IF touched[q] = {} THEN "noop" ELSE result]
  /\ Goto(q, "log")

Decide(q, result) ==
  /\ verdict' = [verdict EXCEPT ![q] = result]
  /\ Goto(q, "log")

\* loadNodeRow, with convergeOrOwn for a create and ownershipReject for the rest.
LoadRow(q) ==
  LET e == cmd[cur[q]] IN
  /\ pc[q] = "load"
  /\ \/ /\ e.verb = "create" /\ state[e.row] # "absent"
        /\ Decide(q, "applied") /\ UNCHANGED todo
     \/ /\ e.verb # "create" /\ state[e.row] = "absent"
        /\ Decide(q, "rejected") /\ UNCHANGED todo
     \/ /\ e.verb = "update" /\ state[e.row] # "absent"
        /\ todo' = [todo EXCEPT ![q] = e.fields]
        /\ Goto(q, "read") /\ UNCHANGED verdict
     \/ /\ \/ e.verb = "create" /\ state[e.row] = "absent"
           \/ e.verb = "delete" /\ state[e.row] # "absent"
        /\ Goto(q, "tree") /\ UNCHANGED <<todo, verdict>>
  /\ UNCHANGED <<cmd, queue, cur, tree, field, won, touched, answers, tables, overlapped, faults>>

\* Seeded fault of Cascade: the descendants stay.
CascadeRootOnly(live, root) == live \cap {root}

Cascade(live, root) == SoftDeleteClosure(Parent, live, root)

\* BatchContext.tree: the cached index, or the live rows now; then
\* checkNodeCreate, or softDeleteClosure.
ReadTree(q) ==
  LET e       == cmd[cur[q]]
      seen    == IF tree[q] = {} THEN Live ELSE CHOOSE t \in tree[q] : TRUE
      closure == Cascade(seen, e.row)
  IN
  /\ pc[q] = "tree"
  /\ tree' = [tree EXCEPT ![q] = {seen}]
  /\ \/ /\ e.verb = "create" /\ Parent[e.row] \in seen \cup {NoRow}
        /\ touched' = [touched EXCEPT ![q] = {e.row}]
        /\ Goto(q, "write") /\ UNCHANGED verdict
     \/ /\ e.verb = "create" /\ Parent[e.row] \notin seen \cup {NoRow}
        /\ Decide(q, "rejected") /\ UNCHANGED touched
     \/ /\ e.verb = "delete" /\ closure # {}
        /\ touched' = [touched EXCEPT ![q] = closure]
        /\ Goto(q, "write") /\ UNCHANGED verdict
     \/ /\ e.verb = "delete" /\ closure = {}
        /\ Decide(q, "applied") /\ UNCHANGED touched
  /\ UNCHANGED <<cmd, queue, cur, todo, field, won, answers, tables, overlapped, faults>>
-----------------------------------------------------------------------------
(* Locks.  A transaction writes its tables for all to see when it commits.    *)

VersionLocks(q) == {l \in [row : Rows, field : won[q]] : l.row = RowOf(q)}

RowLocks(q) == IF pc[q] \in {"log", "commit"} THEN touched[q] ELSE {}

LogLock(q) == IF pc[q] = "commit" THEN {cur[q]} ELSE {}

Others(q) == Active \ {q}

\* Seeded fault of NextField: any field is next.
NextFieldAny(q, f) == f \in todo[q]

NextField(q, f) == f \in todo[q] /\ \A x \in todo[q] : f <= x

\* Seeded fault of Beats: the recorded writer is not looked at.
BeatsAlways(q, f) == TRUE

\* The command wins against an older recorded writer, or none.
Beats(q, f) == version[RowOf(q)][f] < cur[q]

\* lwwFields, its SELECT for one field.
ReadVersion(q) ==
  /\ pc[q] = "read"
  /\ \E f \in todo[q] :
       /\ NextField(q, f)
       /\ todo' = [todo EXCEPT ![q] = @ \ {f}]
       /\ IF Beats(q, f)
          THEN field' = [field EXCEPT ![q] = {f}] /\ Goto(q, "upsert")
          ELSE UNCHANGED <<field, pc>>
  /\ UNCHANGED <<cmd, queue, cur, tree, won, touched, verdict, answers, tables, overlapped, faults>>

\* ... and its INSERT ... ON CONFLICT DO UPDATE, whatever is recorded by now.
UpsertVersion(q) ==
  /\ pc[q] = "upsert"
  /\ \A o \in Others(q) : VersionLocks(o) \cap [row : {RowOf(q)}, field : field[q]] = {}
  /\ won' = [won EXCEPT ![q] = @ \cup field[q]]
  /\ field' = [field EXCEPT ![q] = {}]
  /\ Goto(q, "read")
  /\ UNCHANGED <<cmd, queue, cur, tree, todo, touched, verdict, answers, tables, overlapped, faults>>

\* updateNode has looked at every field: the row is updated if one won.
FieldsDone(q) ==
  /\ pc[q] = "read"
  /\ todo[q] = {}
  /\ IF won[q] = {} THEN Decide(q, "applied") /\ UNCHANGED touched
     ELSE /\ touched' = [touched EXCEPT ![q] = {RowOf(q)}]
          /\ Goto(q, "write") /\ UNCHANGED verdict
  /\ UNCHANGED <<cmd, queue, cur, tree, todo, field, won, answers, tables, overlapped, faults>>

\* A unique violation rolls the transaction back; the command has a verdict by
\* then (isUniqueViolation).
Duplicate(q) ==
  /\ log[cur[q]] # "none"
  /\ Finish(q, cur[q], queue[q], "noop")

\* INSERT or UPDATE of the nodes.
WriteRows(q) ==
  LET e == cmd[cur[q]] IN
  /\ pc[q] = "write"
  /\ \A o \in Others(q) : RowLocks(o) \cap touched[q] = {}
  /\ IF e.verb = "create" /\ state[e.row] # "absent" THEN Duplicate(q)
     ELSE Decide(q, "applied") /\ UNCHANGED <<queue, answers, cur, todo, field, won, touched>>
  /\ UNCHANGED <<cmd, tree, tables, overlapped, faults>>

\* Seeded fault of InsertLog: the key of command_log is not unique.
InsertLogAgain(q) ==
  /\ pc[q] = "log"
  /\ Goto(q, "commit")
  /\ UNCHANGED <<queue, answers, txn, cmd, tree, tables, overlapped, faults>>

\* The command_log row, its key the command id.
InsertLog(q) ==
  /\ pc[q] = "log"
  /\ \A o \in Others(q) : cur[q] \notin LogLock(o)
  /\ IF log[cur[q]] # "none" THEN Duplicate(q)
     ELSE Goto(q, "commit") /\ UNCHANGED <<queue, answers, txn>>
  /\ UNCHANGED <<cmd, tree, tables, overlapped, faults>>

\* Seeded fault of Invalidate: CONTEXT_WRITES without 'nodes'.
InvalidateNever(q) == UNCHANGED tree

\* BatchContext.invalidate: an applied node verb drops the cached tree.
Invalidate(q) ==
  tree' = [tree EXCEPT ![q] = IF verdict[q] = "applied" THEN {} ELSE @]

\* Seeded fault of StoreRows: a field that lost is written with the others.
StoreRowsAll(q) ==
  LET c == cur[q]
      e == cmd[c]
      set == IF e.verb = "update" THEN e.fields ELSE Fields
  IN
  /\ state' = [r \in Rows |-> IF r \notin touched[q] \/ e.verb = "update" THEN state[r]
                              ELSE IF e.verb = "create" THEN "live" ELSE "deleted"]
  /\ value' = [r \in Rows |-> [f \in Fields |->
                 IF r \in touched[q] /\ e.verb # "delete" /\ f \in set THEN c ELSE value[r][f]]]
  /\ version' = [r \in Rows |-> [f \in Fields |->
                 IF r = RowOf(q) /\ f \in won[q] THEN c ELSE version[r][f]]]

\* What the transaction wrote.
StoreRows(q) ==
  LET c == cur[q]
      e == cmd[c]
      set == IF e.verb = "update" THEN won[q] ELSE Fields
  IN
  /\ state' = [r \in Rows |-> IF r \notin touched[q] \/ e.verb = "update" THEN state[r]
                              ELSE IF e.verb = "create" THEN "live" ELSE "deleted"]
  /\ value' = [r \in Rows |-> [f \in Fields |->
                 IF r \in touched[q] /\ e.verb # "delete" /\ f \in set THEN c ELSE value[r][f]]]
  /\ version' = [r \in Rows |-> [f \in Fields |->
                 IF r = RowOf(q) /\ f \in won[q] THEN c ELSE version[r][f]]]

Commit(q) ==
  /\ pc[q] = "commit"
  /\ log' = [log EXCEPT ![cur[q]] = verdict[q]]
  /\ StoreRows(q)
  /\ Invalidate(q)
  /\ Finish(q, cur[q], queue[q], verdict[q])
  /\ UNCHANGED <<cmd, overlapped, faults>>

\* The process dies or a transient error aborts the request: its transaction
\* rolls back, what the earlier commands of the batch committed stays.
Dies(q) ==
  /\ faults < MaxFaults
  /\ faults' = faults + 1
  /\ q \in Active
  /\ Goto(q, "dead")
  /\ queue' = [queue EXCEPT ![q] = {}]
  /\ tree' = [tree EXCEPT ![q] = {}]
  /\ Reset(q)
  /\ UNCHANGED <<cmd, answers, tables, overlapped>>

Statement(q) ==
  \/ CheckLog(q)
  \/ LoadRow(q)
  \/ ReadTree(q)
  \/ ReadVersion(q)
  \/ UpsertVersion(q)
  \/ FieldsDone(q)
  \/ WriteRows(q)
  \/ InsertLog(q)
  \/ Commit(q)

Next == \E q \in Requests : Receive(q) \/ Statement(q) \/ Dies(q)

\* The server goes on with a request it has received.
Spec == Init /\ [][Next]_vars /\ \A q \in Requests : WF_vars(Statement(q))

-----------------------------------------------------------------------------
\* Type invariant.
TypeOK ==
  /\ cmd \in [Ids -> Command]
  /\ pc \in [Requests -> Pcs]
  /\ queue \in [Requests -> SUBSET Ids]
  /\ cur \in [Requests -> 0 .. MaxCommands]
  /\ tree \in [Requests -> SUBSET SUBSET Rows]
  /\ todo \in [Requests -> SUBSET Fields]
  /\ field \in [Requests -> SUBSET Fields]
  /\ won \in [Requests -> SUBSET Fields]
  /\ touched \in [Requests -> SUBSET Rows]
  /\ verdict \in [Requests -> {"none", "applied", "rejected"}]
  /\ answers \in [Requests -> [Ids -> Results]]
  /\ log \in [Ids -> {"none", "applied", "rejected"}]
  /\ state \in [Rows -> {"absent", "live", "deleted"}]
  /\ value \in [Rows -> [Fields -> 0 .. MaxCommands]]
  /\ version \in [Rows -> [Fields -> 0 .. MaxCommands]]
  /\ overlapped \in BOOLEAN
  /\ faults \in 0 .. MaxFaults

\* A command takes effect once: while two requests run the same command, at
\* most one of them answers with a verdict, and it is the one in command_log;
\* the other answers `noop`, its writes rolled back by the unique key.
OneVerdict ==
  \A q, o \in Requests, c \in Ids :
    answers[q][c] \in {"applied", "rejected"} =>
      /\ log[c] = answers[q][c]
      /\ answers[o][c] \in {"applied", "rejected"} => o = q

\* The tables change only together with the first verdict of a command, and
\* only for one that is accepted: no effect without its command_log row.
EffectsWithVerdict ==
  [][<<state, value, version>>' # <<state, value, version>> =>
       \E c \in Ids : log[c] = "none" /\ log'[c] = "applied"]_vars

\* command_field_versions tells the truth about the rows even when requests
\* overlap: a field with a recorded writer holds what that command wrote.
VersionTellsWriter ==
  \A r \in Rows, f \in Fields : version[r][f] # 0 => value[r][f] = version[r][f]

\* No request waits for ever for the locks of another: version rows, then node
\* rows, then the log row, fields in the order every verb lists them.
EveryRequestEnds ==
  \A q \in Requests : pc[q] = "next" ~> pc[q] \in {"done", "dead"}

Writers(r, f) ==
  {c \in Ids : log[c] = "applied" /\ cmd[c].verb = "update"
               /\ cmd[c].row = r /\ f \in cmd[c].fields}

\* "last-writer-wins by HLC. Returns the subset of candidate fields whose
\* incoming HLC beats the recorded last writer": no applied update of a field
\* is newer than its recorded writer.
LastWriterWins ==
  \A r \in Rows, f \in Fields : \A c \in Writers(r, f) : c <= version[r][f]

\* "the cache always reflects the latest COMMITTED state per table": a tree
\* BatchContext has cached for a request under way is the committed one.
ContextFresh == \A q \in Active : tree[q] \subseteq {Live}

\* I10 with node.create's parent check: a live row never hangs under a deleted
\* or missing parent.
LiveParent == \A r \in Live : Parent[r] # NoRow => Parent[r] \in Live

\* The three hold for a server that has one request of the user at a time,
\* whatever order the requests come in and wherever one of them dies.
SerialLastWriterWins == ~overlapped => LastWriterWins
SerialContextFresh   == ~overlapped => ContextFresh
SerialLiveParent     == ~overlapped => LiveParent
=============================================================================
