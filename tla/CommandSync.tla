---------------------------- MODULE CommandSync ----------------------------
(***************************************************************************)
(* The command protocol of Prisms: several devices of ONE user write        *)
(* offline through a two-layer store (a read-only replica of the server's   *)
(* rows under an overlay of optimistic effects), upload named command       *)
(* envelopes in HLC order, and the server applies each envelope once, with  *)
(* per-field last-writer-wins, and streams the resulting rows back.         *)
(*                                                                          *)
(*   client write    packages/ui/src/powersync/execute.ts                   *)
(*   overlay store   packages/ui/src/powersync/overlay-store.ts             *)
(*   merged read     packages/core/src/sync/overlay.ts                      *)
(*   upload          packages/ui/src/powersync/upload-commands.ts,          *)
(*                   connector.ts                                           *)
(*   server          apps/server/src/dispatcher.ts                          *)
(*   download        packages/db/sync-streams.yaml (PowerSync, external)    *)
(*                                                                          *)
(* The verbs are node.create, a field update (updateNode: rename,           *)
(* set_description, ...) and node.soft_delete.  A command is named by its   *)
(* HLC: HLC strings are total and unique (the device id is the tiebreak),   *)
(* so a natural number stands for one.  The UUIDv7 of the command, which    *)
(* only the client's reconciliation compares, is the number `uid`.  The     *)
(* value a command writes to a field is the command itself.                 *)
(***************************************************************************)
EXTENDS Integers, FiniteSets, NodeTree

CONSTANTS
  Devices,      \* the installations of one user
  Rows,         \* node ids
  Fields,       \* the last-writer-wins columns of a node
  NoRow,        \* parent_id = NULL
  Parent,       \* the parent_id a row is created with: [Rows -> Rows \cup {NoRow}]
  InitRows,     \* the rows that exist, synced everywhere, before the run
  Unsigned,     \* those of them a background job inserted, in no command's name
  Verbs,        \* the verbs the user interface issues in this instance
  MaxCommands,  \* bound: how many commands are ever minted
  MaxBatch,     \* MAX_UPLOAD_BATCH
  MaxFaults,    \* bound: how many failures occur
  SerialWrites, \* TRUE: a device starts a write only when its last one is enqueued
  SyncedClocks, \* TRUE: every HLC exceeds all the HLCs minted before it
  OrderedIds    \* TRUE: UUIDv7 order equals HLC order

AllVerbs == {"create", "update", "delete"}

ASSUME BoundsAssumption ==
  /\ MaxCommands \in Nat
  /\ MaxBatch \in Nat \ {0}
  /\ MaxFaults \in Nat

ASSUME RowsAssumption ==
  /\ NoRow \notin Rows
  /\ Parent \in [Rows -> Rows \cup {NoRow}]
  /\ InitRows \subseteq Rows
  /\ Unsigned \subseteq InitRows
  /\ \A r \in InitRows : Parent[r] \in InitRows \cup {NoRow}

ASSUME SwitchAssumption ==
  /\ Verbs \subseteq AllVerbs
  /\ SerialWrites \in BOOLEAN
  /\ SyncedClocks \in BOOLEAN
  /\ OrderedIds \in BOOLEAN

Ids == 1 .. MaxCommands

\* "cur": the request a device is waiting for; "old": one it gave up on, which
\* the server may still be working through.  One abandoned request per device.
Slots == {"cur", "old"}

Phases == {"idle", "reconcile", "await", "ack"}

Ops == {"insert", "update", "delete"}

\* An envelope (id, name, payload, depends_on), the row writes `execute` built
\* for it, and, as history only, the commands its device had enqueued when it
\* was minted.
Command == [dev : Devices, verb : AllVerbs, row : Rows, fields : SUBSET Fields,
            dep : 0 .. MaxCommands, uid : Ids,
            writes : SUBSET [row : Rows, op : Ops], after : SUBSET Ids]

Unminted == [verb |-> "none"]

Effect == [cmd : Ids, row : Rows, op : Ops]

\* "draft": minted, and not yet enqueued; "dropped": a draft the app died with;
\* "gone": the client_commands row was deleted.
Statuses == {"unminted", "draft", "dropped", "pending", "applied", "rejected", "gone"}

Results == {"none", "applied", "rejected", "noop"}

ReplicaRow == [here : BOOLEAN, stamp : 0 .. MaxCommands,
               value : [Fields -> 0 .. MaxCommands]]

\* A row no command of the run has stamped, or none at all.
Blank(here) == [here |-> here, stamp |-> 0, value |-> [f \in Fields |-> 0]]

Absent == Blank(FALSE)

VARIABLES
  \* --- the devices
  cmd,      \* the envelope each HLC was minted for
  status,   \* client_commands.status, on the device that minted the command
  overlay,  \* overlay_effects of each device
  replica,  \* the canonical rows each device has downloaded
  phase,    \* where the upload drain of each device is
  plan,     \* the commands the drain still has to reconcile, or to send
  batch,    \* the commands of the request in flight, or still to acknowledge
  results,  \* the server's answers, by command, for the request in flight
  \* --- the server
  todo,     \* the commands a request still has to run, per device and slot
  owed,     \* the rejected command whose review item is not yet inserted, or 0
  log,      \* command_log.result
  state,    \* "absent", "live" or "deleted" (deleted_at)
  stamp,    \* last_modified_by_command_id; 0 when no command of the run set it
  value,    \* the columns of the row
  version,  \* command_field_versions.hlc; 0 when there is none
  review,   \* commands with a rejection item in sync_review_items
  conflicts,\* hlc_conflict items: the losing command and the field
  faults    \* how many failures have occurred

device == <<cmd, status, overlay, replica>>
drain  == <<phase, plan, batch, results>>
tables == <<log, state, stamp, value, version, conflicts>>
vars   == <<device, drain, todo, owed, tables, review, faults>>

-----------------------------------------------------------------------------
(* The merged read of a device: canonical rows under the overlay's effects.   *)

EffectsOn(d, r) == {e \in overlay[d] : e.row = r}

EffectsOf(d, c) == {e \in overlay[d] : e.cmd = c}

\* mergeRow replays the effects of a row in HLC order: the row is shown when
\* the last of them is not a delete.
Visible(d, r) ==
  LET E == EffectsOn(d, r) IN
  IF E = {} THEN replica[d][r].here
  ELSE \E e \in E : e.op # "delete" /\ \A x \in E : x.cmd <= e.cmd

\* The value mergeRow leaves in a field: that of the last effect that writes
\* it after the last delete, else the canonical one.
MergedValue(d, r, f) ==
  LET E       == EffectsOn(d, r)
      deletes == {e \in E : e.op = "delete"}
      writes  == {e \in E \ deletes : /\ f \in cmd[e.cmd].fields
                                      /\ \A x \in deletes : x.cmd < e.cmd}
  IN  IF writes # {} THEN (CHOOSE e \in writes : \A x \in writes : x.cmd <= e.cmd).cmd
      ELSE IF deletes # {} THEN 0
      ELSE replica[d][r].value[f]

-----------------------------------------------------------------------------
Minted == {c \in Ids : status[c] # "unminted"}

MintedBy(d) == {c \in Minted : cmd[c].dev = d}

WithStatus(d, s) == {c \in MintedBy(d) : status[c] = s}

Init ==
  /\ cmd = [c \in Ids |-> Unminted]
  /\ status = [c \in Ids |-> "unminted"]
  /\ overlay = [d \in Devices |-> {}]
  /\ replica = [d \in Devices |-> [r \in Rows |-> Blank(r \in InitRows)]]
  /\ phase = [d \in Devices |-> "idle"]
  /\ plan = [d \in Devices |-> {}]
  /\ batch = [d \in Devices |-> {}]
  /\ results = [d \in Devices |-> [c \in Ids |-> "none"]]
  /\ todo = [d \in Devices |-> [k \in Slots |-> {}]]
  /\ owed = [d \in Devices |-> [k \in Slots |-> 0]]
  /\ log = [c \in Ids |-> "none"]
  /\ state = [r \in Rows |-> IF r \in InitRows THEN "live" ELSE "absent"]
  /\ stamp = [r \in Rows |-> 0]
  /\ value = [r \in Rows |-> [f \in Fields |-> 0]]
  /\ version = [r \in Rows |-> [f \in Fields |-> 0]]
  /\ review = {}
  /\ conflicts = {}
  /\ faults = 0

-----------------------------------------------------------------------------
(* The client write path.  `execute` mints the id and the HLC and reads the   *)
(* merged state for the effects and depends_on; after a few awaits, enqueue   *)
(* writes the command and its effects in one transaction.                     *)

\* A fresh HLC of device d exceeds every HLC the device has minted.
FreshHlc(d, c) ==
  /\ c \in Ids \ Minted
  /\ \A x \in MintedBy(d) : x < c
  /\ SyncedClocks => Minted = 1 .. (c - 1)

FreshUid(c, u) ==
  /\ u \in Ids
  /\ \A x \in Minted : cmd[x].uid # u
  /\ OrderedIds => u = c

Execute(d, verb, r, fields, deps, writes) ==
  /\ SerialWrites => WithStatus(d, "draft") = {}
  /\ \E c \in Ids, u \in Ids, dep \in deps :
       /\ FreshHlc(d, c)
       /\ FreshUid(c, u)
       /\ cmd' = [cmd EXCEPT ![c] =
                    [dev |-> d, verb |-> verb, row |-> r, fields |-> fields,
                     dep |-> dep, uid |-> u, writes |-> writes,
                     after |-> MintedBy(d) \ (WithStatus(d, "draft") \cup WithStatus(d, "dropped"))]]
       /\ status' = [status EXCEPT ![c] = "draft"]
  /\ UNCHANGED <<overlay, replica, drain, todo, owed, tables, review, faults>>

Enqueue(d) ==
  /\ \E c \in WithStatus(d, "draft") :
       /\ status' = [status EXCEPT ![c] = "pending"]
       /\ overlay' = [overlay EXCEPT ![d] =
                        @ \cup {[cmd |-> c, row |-> w.row, op |-> w.op] : w \in cmd[c].writes}]
  /\ UNCHANGED <<cmd, replica, drain, todo, owed, tables, review, faults>>

\* deriveDependsOn: the command whose INSERT effect for the referenced row is
\* still in the overlay; 0 when there is none.
DeriveDependsOn(d, ref) ==
  LET creators == {e.cmd : e \in {x \in overlay[d] : x.row = ref /\ x.op = "insert"}}
  IN  IF creators = {} THEN {0} ELSE creators

\* node.create mints a fresh row id; the parent is one the device shows.
CreateNode(d, r) ==
  /\ "create" \in Verbs
  /\ r \notin InitRows
  /\ \A c \in Minted : ~(cmd[c].verb = "create" /\ cmd[c].row = r)
  /\ Parent[r] # NoRow => Visible(d, Parent[r])
  /\ Execute(d, "create", r, Fields, DeriveDependsOn(d, Parent[r]),
             {[row |-> r, op |-> "insert"]})

\* updateNode verbs; the id of the row itself is not a causal dependency.
UpdateNode(d, r, f) ==
  /\ "update" \in Verbs
  /\ Visible(d, r)
  /\ Execute(d, "update", r, {f}, {0}, {[row |-> r, op |-> "update"]})

\* node.soft_delete: a delete effect for every row of the closure in the
\* merged tree.
DeleteNode(d, r) ==
  /\ "delete" \in Verbs
  /\ Visible(d, r)
  /\ LET shown == {x \in Rows : Visible(d, x)} IN
     Execute(d, "delete", r, {}, {0},
             {[row |-> x, op |-> "delete"] : x \in SoftDeleteClosure(Parent, shown, r)})

UserWrites(d) ==
  \E r \in Rows :
    \/ CreateNode(d, r)
    \/ \E f \in Fields : UpdateNode(d, r, f)
    \/ DeleteNode(d, r)

-----------------------------------------------------------------------------
(* The upload drain (startCommandUpload, uploadClientCommands).  The watch on *)
(* the queue and the 15 s timer both start it; `inFlight` keeps one at a time.*)

\* A drain of a queue with nothing applied or pending does nothing.
StartDrain(d) ==
  /\ phase[d] = "idle"
  /\ WithStatus(d, "applied") \cup WithStatus(d, "pending") # {}
  /\ phase' = [phase EXCEPT ![d] = "reconcile"]
  /\ plan' = [plan EXCEPT ![d] = WithStatus(d, "applied")]
  /\ UNCHANGED <<device, batch, results, todo, owed, tables, review, faults>>

Uid(c) == IF c = 0 THEN 0 ELSE cmd[c].uid

\* Seeded fault of Supersedes: only the exact command confirms.
SupersedesNever(mark, c) == FALSE

\* `mark` was minted after command c, as far as the UUIDv7s tell.
Supersedes(mark, c) == Uid(mark) > Uid(c)

\* Seeded fault of Arrived: a write is confirmed by any canonical row.
ArrivedByPresence(d, e) == (e.op = "delete") # replica[d][e.row].here

\* A stamp of 0 is NULL on a row a background job inserted, and on any other
\* row the id of a command older than the run.
NullStamp(r, mark) == mark = 0 /\ r \in Unsigned

\* The canonical row that confirms one effect: gone for a delete; for a write,
\* present and stamped by the command, by one minted after it, or by none.
Arrived(d, e) ==
  LET canonical == replica[d][e.row] IN
  IF e.op = "delete" THEN ~canonical.here
  ELSE /\ canonical.here
       /\ \/ canonical.stamp = e.cmd
          \/ Supersedes(canonical.stamp, e.cmd)
          \/ NullStamp(e.row, canonical.stamp)

Confirmed(d, c) == \A e \in EffectsOf(d, c) : Arrived(d, e)

\* Seeded faults of Settled: a confirmed delete drops its own effects only; any
\* confirmed command drops every effect held for its rows.
SettledOwn(d, c) == EffectsOf(d, c)

SettledByRow(d, c) ==
  {e \in overlay[d] : \E own \in EffectsOf(d, c) : e.row = own.row}

\* A confirmed delete also drops every overlay effect held for its rows.
Settled(d, c) ==
  LET own     == EffectsOf(d, c)
      deleted == {e.row : e \in {x \in own : x.op = "delete"}}
  IN  {e \in overlay[d] : e.cmd = c \/ e.row \in deleted}

NextInOrder(S, c) == c \in S /\ \A x \in S : c <= x

\* One turn of the loop of reconcileConfirmed.  Its SELECT has no ORDER BY;
\* SQLite scans client_commands in insertion order, taken to be HLC order here.
ReconcileConfirmed(d) ==
  /\ phase[d] = "reconcile"
  /\ \E c \in plan[d] :
       /\ NextInOrder(plan[d], c)
       /\ plan' = [plan EXCEPT ![d] = @ \ {c}]
       /\ IF Confirmed(d, c)
          THEN /\ overlay' = [overlay EXCEPT ![d] = @ \ Settled(d, c)]
               /\ status' = [status EXCEPT ![c] = "gone"]
          ELSE UNCHANGED <<overlay, status>>
  /\ UNCHANGED <<cmd, replica, phase, batch, results, todo, owed, tables, review, faults>>

\* Seeded fault of FirstBatch: the newest commands go first.
FirstBatchNewest(S) == {c \in S : Cardinality({x \in S : x > c}) < MaxBatch}

\* The first MaxBatch commands of a set, in HLC order.
FirstBatch(S) == {c \in S : Cardinality({x \in S : x < c}) < MaxBatch}

\* Post the first batch of S and keep the rest for later; idle when S is empty.
SendBatch(d, S) ==
  /\ phase' = [phase EXCEPT ![d] = IF S = {} THEN "idle" ELSE "await"]
  /\ batch' = [batch EXCEPT ![d] = FirstBatch(S)]
  /\ plan' = [plan EXCEPT ![d] = S \ FirstBatch(S)]
  /\ todo' = [todo EXCEPT ![d]["cur"] = FirstBatch(S)]

\* After the reconciliation, the queue is read once, in HLC order.
PendingCommands(d) ==
  /\ phase[d] = "reconcile"
  /\ plan[d] = {}
  /\ SendBatch(d, WithStatus(d, "pending"))
  /\ UNCHANGED <<device, results, owed, tables, review, faults>>

\* Seeded fault of Respond: a partial answer passes for a complete one.
RespondPartial(d) ==
  /\ phase[d] = "await"
  /\ phase' = [phase EXCEPT ![d] = "ack"]
  /\ UNCHANGED <<device, plan, batch, results, todo, owed, tables, review, faults>>

\* The response reaches the device.
Respond(d) ==
  /\ phase[d] = "await"
  /\ todo[d]["cur"] = {}
  /\ owed[d]["cur"] = 0
  /\ phase' = [phase EXCEPT ![d] = "ack"]
  /\ UNCHANGED <<device, plan, batch, results, todo, owed, tables, review, faults>>

\* Seeded fault of Acknowledge: a `noop` is rolled back.
AcknowledgeNoopRollsBack(d, c) ==
  IF results[d][c] # "applied"
  THEN /\ status' = [status EXCEPT ![c] = "rejected"]
       /\ overlay' = [overlay EXCEPT ![d] = @ \ EffectsOf(d, c)]
  ELSE status' = [status EXCEPT ![c] = "applied"] /\ UNCHANGED overlay

\* rollbackRejected drops the effects; markApplied, for `applied` and for
\* `noop`, keeps them until the canonical row arrives.
Acknowledge(d, c) ==
  IF results[d][c] = "rejected"
  THEN /\ status' = [status EXCEPT ![c] = "rejected"]
       /\ overlay' = [overlay EXCEPT ![d] = @ \ EffectsOf(d, c)]
  ELSE /\ status' = [status EXCEPT ![c] = "applied"]
       /\ UNCHANGED overlay

\* One turn of the loop over the results; after the last, the next batch.
Ack(d) ==
  /\ phase[d] = "ack"
  /\ \E c \in batch[d] :
       /\ NextInOrder(batch[d], c)
       /\ Acknowledge(d, c)
       /\ results' = [results EXCEPT ![d][c] = "none"]
       /\ IF batch[d] = {c} THEN SendBatch(d, plan[d])
          ELSE /\ batch' = [batch EXCEPT ![d] = @ \ {c}]
               /\ UNCHANGED <<phase, plan, todo>>
  /\ UNCHANGED <<cmd, replica, owed, tables, review, faults>>

-----------------------------------------------------------------------------
(* The server (handleUpload, handleCommand).  A command's transaction is one  *)
(* step here, and the tree it reads is the committed one; ServerTxn takes it  *)
(* apart.  A rejection is logged in one step and its review item inserted in  *)
(* the next, as the code does without a transaction around the two.           *)

Live == {r \in Rows : state[r] = "live"}

\* causalReject: a dependency must have applied.
DependencyMet(c) == cmd[c].dep # 0 => log[cmd[c].dep] = "applied"

\* convergeOrOwn, checkNodeCreate, ownershipReject: a create needs a live
\* parent unless the row exists already; the other verbs need a row, live or
\* deleted.
HandlerAccepts(c) ==
  LET r == cmd[c].row IN
  \/ state[r] # "absent"
  \/ /\ cmd[c].verb = "create"
     /\ Parent[r] = NoRow \/ Parent[r] \in Live

Accepts(c) == DependencyMet(c) /\ HandlerAccepts(c)

\* Seeded fault of WinningFields: the last to arrive wins.
WinningFieldsByArrival(c) == cmd[c].fields

\* lwwFields: the fields whose recorded writer is older than the command, and
\* those whose recorded writer is newer.
WinningFields(c) == {f \in cmd[c].fields : version[cmd[c].row][f] < c}

LosingFields(c) == {f \in cmd[c].fields : c < version[cmd[c].row][f]}

\* node.create: insert the row, unless it exists.
ApplyCreate(c) ==
  LET r == cmd[c].row IN
  /\ IF state[r] = "absent"
     THEN /\ state' = [state EXCEPT ![r] = "live"]
          /\ stamp' = [stamp EXCEPT ![r] = c]
          /\ value' = [value EXCEPT ![r] = [f \in Fields |-> c]]
     ELSE UNCHANGED <<state, stamp, value>>
  /\ UNCHANGED <<version, conflicts>>

\* updateNode: write the winning fields and their versions, raise an
\* hlc_conflict item for each losing one, stamp the row if anything won.
ApplyUpdate(c) ==
  LET r == cmd[c].row
      win == WinningFields(c)
  IN
  /\ version' = [version EXCEPT ![r] = [f \in Fields |-> IF f \in win THEN c ELSE @[f]]]
  /\ value' = [value EXCEPT ![r] = [f \in Fields |-> IF f \in win THEN c ELSE @[f]]]
  /\ stamp' = [stamp EXCEPT ![r] = IF win = {} THEN @ ELSE c]
  /\ conflicts' = conflicts \cup {[cmd |-> c, field |-> f] : f \in LosingFields(c)}
  /\ UNCHANGED state

\* node.soft_delete: tombstone and stamp the live closure.
ApplyDelete(c) ==
  LET ids == SoftDeleteClosure(Parent, Live, cmd[c].row) IN
  /\ state' = [r \in Rows |-> IF r \in ids THEN "deleted" ELSE state[r]]
  /\ stamp' = [r \in Rows |-> IF r \in ids THEN c ELSE stamp[r]]
  /\ UNCHANGED <<value, version, conflicts>>

RunHandler(c) ==
  \/ cmd[c].verb = "create" /\ ApplyCreate(c)
  \/ cmd[c].verb = "update" /\ ApplyUpdate(c)
  \/ cmd[c].verb = "delete" /\ ApplyDelete(c)

Answer(d, k, c, result) ==
  results' = IF k = "cur" THEN [results EXCEPT ![d][c] = result] ELSE results

\* The next command of a request, in HLC order.
HandleCommand(d, k, c) ==
  /\ owed[d][k] = 0
  /\ NextInOrder(todo[d][k], c)
  /\ todo' = [todo EXCEPT ![d][k] = @ \ {c}]
  /\ UNCHANGED <<device, phase, plan, batch, review, faults>>

\* Already in command_log: a no-op, whatever its result was.
AnswerNoop(d, k, c) ==
  /\ HandleCommand(d, k, c)
  /\ log[c] # "none"
  /\ Answer(d, k, c, "noop")
  /\ UNCHANGED <<owed, tables>>

ApplyCommand(d, k, c) ==
  /\ HandleCommand(d, k, c)
  /\ log[c] = "none"
  /\ Accepts(c)
  /\ RunHandler(c)
  /\ log' = [log EXCEPT ![c] = "applied"]
  /\ Answer(d, k, c, "applied")
  /\ UNCHANGED owed

RejectCommand(d, k, c) ==
  /\ HandleCommand(d, k, c)
  /\ log[c] = "none"
  /\ ~Accepts(c)
  /\ log' = [log EXCEPT ![c] = "rejected"]
  /\ Answer(d, k, c, "rejected")
  /\ owed' = [owed EXCEPT ![d][k] = c]
  /\ UNCHANGED <<state, stamp, value, version, conflicts>>

CreateReviewItem(d, k) ==
  /\ owed[d][k] # 0
  /\ review' = review \cup {owed[d][k]}
  /\ owed' = [owed EXCEPT ![d][k] = 0]
  /\ UNCHANGED <<device, drain, todo, tables, faults>>

ServerStep(d, k) ==
  \/ \E c \in todo[d][k] :
       AnswerNoop(d, k, c) \/ ApplyCommand(d, k, c) \/ RejectCommand(d, k, c)
  \/ CreateReviewItem(d, k)

-----------------------------------------------------------------------------
(* The download: PowerSync applies a consistent checkpoint of the live rows   *)
(* (the streams select `deleted_at IS NULL`), at any moment.                  *)

Canonical(r) ==
  IF state[r] = "live" THEN [here |-> TRUE, stamp |-> stamp[r], value |-> value[r]]
  ELSE Absent

SyncDown(d) ==
  /\ replica' = [replica EXCEPT ![d] = [r \in Rows |-> Canonical(r)]]
  /\ replica' # replica
  /\ UNCHANGED <<cmd, status, overlay, drain, todo, owed, tables, review, faults>>

-----------------------------------------------------------------------------
(* Failures.                                                                  *)

\* Seeded fault of Idle: `inFlight` is not reset.
IdleStillInFlight(d) ==
  /\ plan' = [plan EXCEPT ![d] = {}]
  /\ batch' = [batch EXCEPT ![d] = {}]
  /\ results' = [results EXCEPT ![d] = [c \in Ids |-> "none"]]
  /\ UNCHANGED phase

Idle(d) ==
  /\ phase' = [phase EXCEPT ![d] = "idle"]
  /\ plan' = [plan EXCEPT ![d] = {}]
  /\ batch' = [batch EXCEPT ![d] = {}]
  /\ results' = [results EXCEPT ![d] = [c \in Ids |-> "none"]]

\* The server goes on with the request nobody waits for (at most one), or has
\* never received the rest of it.
Orphan(d) ==
  \/ /\ todo[d]["old"] = {} /\ owed[d]["old"] = 0
     /\ todo' = [todo EXCEPT ![d] = [old |-> @["cur"], cur |-> {}]]
     /\ owed' = [owed EXCEPT ![d] = [old |-> @["cur"], cur |-> 0]]
  \/ /\ todo' = [todo EXCEPT ![d]["cur"] = {}]
     /\ owed' = [owed EXCEPT ![d]["cur"] = 0]

\* The request or the response is lost: fetch throws, and so does the drain.
UploadFails(d) ==
  /\ faults < MaxFaults
  /\ faults' = faults + 1
  /\ phase[d] = "await"
  /\ Idle(d)
  /\ Orphan(d)
  /\ UNCHANGED <<device, tables, review>>

\* The app is killed and started again: what is not in SQLite is lost.
AppRestarts(d) ==
  /\ faults < MaxFaults
  /\ faults' = faults + 1
  /\ phase[d] # "idle" \/ WithStatus(d, "draft") # {}
  /\ status' = [c \in Ids |-> IF c \in WithStatus(d, "draft") THEN "dropped" ELSE status[c]]
  /\ Idle(d)
  /\ Orphan(d)
  /\ UNCHANGED <<cmd, overlay, replica, tables, review>>

\* The server process dies, or a transient database error aborts the request
\* (isRetryableError), between two of its steps; a waiting device sees a failed
\* upload.
ServerDies(d, k) ==
  /\ faults < MaxFaults
  /\ faults' = faults + 1
  /\ todo[d][k] # {} \/ owed[d][k] # 0
  /\ todo' = [todo EXCEPT ![d][k] = {}]
  /\ owed' = [owed EXCEPT ![d][k] = 0]
  /\ IF k = "cur" THEN Idle(d) ELSE UNCHANGED drain
  /\ UNCHANGED <<device, tables, review>>

-----------------------------------------------------------------------------
DrainStep(d) ==
  \/ StartDrain(d)
  \/ ReconcileConfirmed(d)
  \/ PendingCommands(d)
  \/ Respond(d)
  \/ Ack(d)

Next ==
  \E d \in Devices :
    \/ UserWrites(d)
    \/ Enqueue(d)
    \/ DrainStep(d)
    \/ SyncDown(d)
    \/ UploadFails(d)
    \/ AppRestarts(d)
    \/ \E k \in Slots : ServerStep(d, k) \/ ServerDies(d, k)

\* The timer restarts the drain and a drain takes its steps; the server works
\* through a request it has; the sync service delivers.  Users and failures
\* owe nothing.
Fairness ==
  \A d \in Devices :
    /\ WF_vars(Enqueue(d))
    /\ WF_vars(DrainStep(d))
    /\ WF_vars(SyncDown(d))
    /\ \A k \in Slots : WF_vars(ServerStep(d, k))

Spec == Init /\ [][Next]_vars /\ Fairness

-----------------------------------------------------------------------------
\* Type invariant.
TypeOK ==
  /\ cmd \in [Ids -> Command \cup {Unminted}]
  /\ status \in [Ids -> Statuses]
  /\ \A c \in Minted : cmd[c] \in Command
  /\ overlay \in [Devices -> SUBSET Effect]
  /\ replica \in [Devices -> [Rows -> ReplicaRow]]
  /\ phase \in [Devices -> Phases]
  /\ plan \in [Devices -> SUBSET Ids]
  /\ batch \in [Devices -> SUBSET Ids]
  /\ results \in [Devices -> [Ids -> Results]]
  /\ todo \in [Devices -> [Slots -> SUBSET Ids]]
  /\ owed \in [Devices -> [Slots -> 0 .. MaxCommands]]
  /\ log \in [Ids -> {"none", "applied", "rejected"}]
  /\ state \in [Rows -> {"absent", "live", "deleted"}]
  /\ stamp \in [Rows -> 0 .. MaxCommands]
  /\ value \in [Rows -> [Fields -> 0 .. MaxCommands]]
  /\ version \in [Rows -> [Fields -> 0 .. MaxCommands]]
  /\ review \subseteq Ids
  /\ conflicts \subseteq [cmd : Ids, field : Fields]
  /\ faults \in 0 .. MaxFaults

-----------------------------------------------------------------------------
(* Safety.                                                                    *)

Writers(r, f) ==
  {c \in Minted : /\ log[c] = "applied"
                  /\ cmd[c].verb = "update" /\ cmd[c].row = r /\ f \in cmd[c].fields}

\* lwwFields makes the canonical rows a function of the SET of applied
\* commands, whatever the order in which devices came back online: a field
\* holds the write with the greatest HLC among the applied updates of that
\* field, and its creation value when there is none.
LastWriterWins ==
  \A r \in Rows, f \in Fields :
    /\ \A c \in Writers(r, f) : c <= version[r][f]
    /\ version[r][f] # 0 =>
         version[r][f] \in Writers(r, f) /\ value[r][f] = version[r][f]
    /\ version[r][f] = 0 /\ value[r][f] # 0 =>
         LET c == value[r][f] IN
         c \in Minted /\ cmd[c].verb = "create" /\ cmd[c].row = r /\ log[c] = "applied"

\* Causal order: when a command is decided, so is every command its device had
\* enqueued before minting it, across batches, lost responses, restarts and
\* abandoned requests that still run: the HLC order of pendingCommands and of
\* handleUpload.
CausalDelivery ==
  \A c2 \in Minted : log[c2] # "none" =>
    \A c1 \in cmd[c2].after : log[c1] # "none"

\* A command leaves the pending queue of its device only after the server has
\* recorded a verdict: no write is forgotten by uploadClientCommands.
NothingLost ==
  \A c \in Minted : status[c] \in {"applied", "rejected", "gone"} => log[c] # "none"

\* The server has refused to create the row, and no other command will.
NeverMade(r) ==
  /\ state[r] = "absent"
  /\ \E c \in Minted : cmd[c].verb = "create" /\ cmd[c].row = r /\ log[c] = "rejected"

\* A write the server has not answered stays on the screen of its device:
\* neither rollbackRejected nor the clean-up after a confirmed delete takes
\* the effects of a pending command, unless its row is deleted for good or was
\* never made.
PendingKeepsOverlay ==
  \A c \in Minted : status[c] = "pending" =>
    \/ \E e \in overlay[cmd[c].dev] : e.cmd = c /\ e.row = cmd[c].row
    \/ state[cmd[c].row] = "deleted"
    \/ NeverMade(cmd[c].row)

\* rollbackRejected runs only for a command the server rejected, and leaves no
\* effect of it behind.
RollbackOnlyRejected ==
  \A c \in Minted : status[c] = "rejected" =>
    log[c] = "rejected" /\ EffectsOf(cmd[c].dev, c) = {}

-----------------------------------------------------------------------------
(* What a step may never do.                                                  *)

\* A command that is already in command_log changes no table when a retry or
\* an abandoned request runs it again (handleCommand answers `noop`).
ReplayIsInert ==
  [][\A d \in Devices, k \in Slots :
       \A c \in todo[d][k] \ todo'[d][k] : log[c] # "none" => UNCHANGED tables]_vars

\* A tombstone is final: no late create, update or replay revives a row
\* (convergeOrOwn finds the deleted row and writes nothing).
TombstoneIsFinal ==
  [][\A r \in Rows : state[r] = "deleted" => state'[r] = "deleted"]_vars

\* The stamps that tell a device nothing about command c: none, or that of a
\* later id whose author had not enqueued c (a peer, or an overlapping write).
Uninformed(c, mark) ==
  \/ NullStamp(cmd[c].row, mark)
  \/ Supersedes(mark, c) /\ c \notin cmd[mark].after

Carries(row, c) == \A f \in cmd[c].fields : c <= row[f]

\* reconcileConfirmed lets go of an update only when the server holds it, or a
\* later write of the same field, for good; and, unless the stamp tells it
\* nothing of the update ("a skewed peer can at worst make this clear one beat
\* early"), only when the downloaded row holds it too.
ClearedOnlyWhenArrived ==
  [][\A c \in Minted :
       LET r  == cmd[c].row
           at == replica[cmd[c].dev][r]
       IN
       /\ cmd[c].verb = "update"
       /\ status[c] = "applied" /\ status'[c] = "gone"
       => \/ ~at.here
          \/ Carries(value[r], c) /\ (Carries(at.value, c) \/ Uninformed(c, at.stamp))]_vars

-----------------------------------------------------------------------------
(* Progress.                                                                  *)

\* Every queued command reaches the server and gets a verdict.
EveryCommandDecided ==
  \A c \in Ids : status[c] = "pending" ~> log[c] # "none"

\* Every queued command leaves the client: rolled back, or reconciled away
\* with all its overlay effects.
EveryCommandSettles ==
  \A c \in Ids : status[c] = "pending" ~> status[c] \in {"rejected", "gone"}

\* A row the server has deleted disappears from every device.
DeletedRowsDropOut ==
  \A d \in Devices, r \in Rows : state[r] = "deleted" ~> ~Visible(d, r)

-----------------------------------------------------------------------------
(* What the comments of the code say and the code does not do; each is        *)
(* refuted by an instance that the README names.                              *)

\* "`rejected` -> drop the overlay (rollback)": only applied commands end up
\* marked applied.
AppliedMeansAccepted ==
  \A c \in Minted : status[c] = "applied" => log[c] = "applied"

\* "every server rejection produces a durable review item": inserted, or about
\* to be by the request that rejected it.
EveryRejectionReviewed ==
  \A c \in Ids : log[c] = "rejected" =>
    c \in review \/ \E d \in Devices, k \in Slots : owed[d][k] = c

\* "there is NO revert-flicker between ack and download": dropping the overlay
\* of a confirmed command never turns a field on the screen back to an older
\* write.
NoRevertFlicker ==
  [][\A c \in Minted : status[c] = "applied" /\ status'[c] = "gone" =>
       \A r \in Rows, f \in Fields :
         Visible(cmd[c].dev, r) =>
           MergedValue(cmd[c].dev, r, f) <= MergedValue(cmd[c].dev, r, f)']_vars
=============================================================================
