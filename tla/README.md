# Prisms: a TLA+ verification project

Prisms is an offline-first planner for one user on several devices: a tree of
visions, projects and tasks, a calendar of blocks, timers, habits, a journal,
decision boards and automation rules. Every device writes optimistically into a
local SQLite store, uploads named commands (`node.create`, `timer.clock_in`,
`journal.write`, ...) to one server, and downloads the resulting rows through
PowerSync. This directory models the command protocol, the server's transactions,
every verb of the command catalogue, the jobs that run on the same tables, and
the pure algorithms the screens and the jobs compute with; TLC checks the
instances and TLAPS proves the most important results for every instance. Line
numbers refer to the repository's files; `PROJECT.json` maps every definition to
its lines.

## 1. Inventory

### 1.1 The path of a write

    user -> writer (commands.ts)            build the payload of one verb
         -> execute (execute.ts)            mint id + HLC, read the merged rows, derive
                                            depends_on, predict row effects, run the
                                            automation rules
         -> enqueue (overlay-store.ts)      client_commands row + overlay_effects,
                                            one SQLite transaction
         -> drain (connector.ts)            watch on the queue + 15 s timer,
                                            `inFlight` keeps one at a time
         -> uploadClientCommands            reconcile, read the queue in HLC order,
                                            POST /sync/upload in batches,
                                            acknowledge every result
         -> handleUpload (dispatcher.ts)    one transaction per command: command_log
                                            lookup, causal gate, handler (checks, LWW
                                            per field, cascade), automation, log row;
                                            a rejection then gets a review item
         -> PostgreSQL -> PowerSync         live rows stream to every device
         -> reconcileConfirmed              an acknowledged overlay is dropped when
                                            its canonical row has come down

A screen shows the *merged read*: canonical rows under the overlay's effects in
HLC order (`core/sync/overlay.ts`), and what selectors derive from it. Beside the
commands, jobs write the same tables: the schedule optimiser, the past-due scan,
the automation backstop, the recompute of aggregates, retention, expiry, import.

### 1.2 Components

| component | state | operations | what makes it correct |
|---|---|---|---|
| client overlay store | `client_commands`, `overlay_effects` | enqueue, markApplied, rollbackRejected, reconcileConfirmed, merged read | nothing is dropped before the server has answered, a rollback is justified, an overlay goes when the canonical row has arrived, and always goes in the end |
| optimistic writer and writers | none; awaits between mint and enqueue | execute, one writer per verb | dependencies name the pending create a command needs; the effects predicted are the ones the server makes; no writer builds a payload its schema refuses |
| upload client and driver | the drain's plan, batch, results; `inFlight` | drain, POST, acknowledge | causal order, no loss, progress after any failure |
| hybrid logical clock | `prev` per closure, last tick and import floor in memory and in localStorage | hlcTick, mergeHlc, createHlc, import, reload | exceeds its own last reading and every import, never overflows |
| server dispatcher | `command_log`, `command_field_versions`, `sync_review_items`, BatchContext caches | handleUpload, handleCommand | a command takes effect once; LWW by HLC; every request ends |
| node verbs and tree | `nodes` | create, update, soft delete, move, retype, promote | no live row under a tombstone (I10), hierarchy types (I1, I2), justification (I3), no cycle |
| dependency edges | `edges` | create, delete | the graph stays acyclic (I4) |
| time tracking, completion | `time_entries`, `completed_at` | clock in, out, review, check off, uncheck | one open entry per user (I5), intervals (I6), the completion gate |
| status and predicates | none, or an index kept by differences | derive, maintain | the index agrees with a fresh derivation |
| scheduler, suggestions | `schedule_blocks` | create, move, anchor, accept, reject; optimise; past-due scan | no double booking, dependencies hold, a preview is what is stored |
| automation | rules and spawned rows | rules to a fixpoint in the command, on the device, in the backstop | the same event spawns once |
| journal and natural-key upserts | rows with a key of their own beside the id | write, answer, score, check off a habit, ... | two devices converge on one row; a merge keeps the prose it overwrites |
| journal panel, lazy streams | draft, debounce, optimistic lock; reference counts | type, blur, lock, open, close; hold, release | what was typed is written, a locked note is not; subscribed exactly while held |
| habits, tags, boards, sprints, diagrams, settings | their tables | the single-row verbs | prediction and handler agree, rows have the shapes screens map |
| aggregates and streaks | `aggregates` | recompute | snapshots advance, and mean what they say |
| export, import, retention, expiry | all tables | backup, dry run, restore, purge, expire | a backup restores, an import takes nothing newer back, a returning device applies nothing twice |
| screen selectors | none | worklist, agenda, itinerary, kanban, ... | screens that show the same facts agree |
| rate limiter, auth, HTTP, external jobs, screens | -- | I/O | -- |

`PROJECT.json` lists each with its files, its status and what is left out; section
8 says why.

### 1.3 What is hard

* **Order.** Devices come back online in any order, so commands arrive in
  another order than their HLCs; a row's stamp is the last command *applied*.
* **Failure.** A request, a response, the app, or the server process may die
  between any two steps. A batch is then half applied and sent again, possibly
  while the first request is still running.
* **Awaits.** `execute` mints before its awaits and enqueues after them;
  `reconcileConfirmed` awaits in its loop; a job reads, computes, and only then
  opens the transaction that writes; the panel's reads lag the local database.
* **Overlapping transactions.** Two requests of one user run at READ COMMITTED
  and nothing serialises them; BatchContext caches tree, edges and facts across
  the commands of a batch.
* **Two implementations of one rule.** The device predicts in `effects.ts` what
  the server does in `runHandler`; rules run in three places; the status index is
  kept by differences beside a fresh derivation.
* **Time.** The wall clock goes back; days reset at an hour of the user's;
  command_log forgets after its horizon while devices stay away longer.
* **Boundaries.** The 16-bit HLC counter; the last batch; a row that was created
  and deleted before its first download; a period that is not over yet.

The hazards are listed line by line in `PROJECT.json`, each with the properties
that would catch it.

## 2. Modules

Three kinds: state machines (one per part that has state of its own), pure
modules (the algorithms, as operators), and the proofs.

| module | kind | what it is | checked by |
|---|---|---|---|
| `CommandSync` | state machine | devices, upload, server and download together; a command's transaction is one step | `sync_faults`, `sync_race`, `sync_one_device`, proofs |
| `ServerTxn` | state machine | the server taken apart: overlapping requests, one action per SQL statement, row locks, unique keys | `txn_overlap`, proofs |
| `HlcClock` | state machine | the clock's functions and the way the client keeps it | `hlc_clocks`, proofs |
| `Structure` | state machine | the verbs that shape the tree and the dependency graph, two requests side by side | `structure`, proofs |
| `TimeSheet` | abstract specification | what time tracking promises | refined by `Tracking` |
| `Tracking` | state machine | timers, completion and its gate, two requests side by side | `tracking`, proofs |
| `Records` | state machine | every single-row verb of the catalogue, from prediction to reconciliation | `records`, proofs |
| `Planning` | state machine | block verbs, the optimiser and the past-due scan | `planning`, proofs |
| `Automation` | state machine | rules on the device, in the command and in the backstop, and the provider's index | `derived`, proofs |
| `Upkeep` | state machine | the jobs over the tables: purge, expiry, export, import, recompute | `upkeep`, proofs |
| `JournalPanel` | state machine | the editor of a day, its lock, its reads, its stream subscription | `journal_panel`, proofs |
| `NodeTree`, `Hierarchy`, `DepGraph` | pure | soft-delete closure; types, parents, justification; cycles and topological order | through the above |
| `Status` | pure | predicates, phase, blocker rules, status | `tracking`, `derived` |
| `Catalog`, `Effects`, `Entities`, `Writers` | pure | tables and payloads; predicted and written row effects; row shapes; what the writers send | `records` |
| `Scheduler` | pure | windows, placement, greedy plan, optimiser | `planning` |
| `RulesEngine`, `StatusIndex` | pure | rules to a fixpoint; the incremental index | `derived`, proofs |
| `Archive`, `Aggregates`, `DayLog` | pure | foreign keys, purge, export and restore; streaks and practice; the day log | `upkeep` |
| `Views` | pure | selectors of the screens | assumptions of `MCTracking` |
| `...Proofs` | proofs | theorems of `CommandSync` (in the same module those of `HlcClock`), `ServerTxn`, `Structure` (with the operators of `Hierarchy`, `NodeTree`, `DepGraph`), `Tracking`, `Records` and `Planning` (`PredictionProofs`), `Upkeep` (with `Archive`, `DayLog`), `JournalPanel`, `Automation` (with `StatusIndex`) | TLAPS |

How they fit together. `CommandSync` is the whole round trip with atomic
transactions and the faults; the other state machines each take one stretch of it
apart and leave the rest atomic: `ServerTxn` the statements of a transaction,
`Structure` and `Tracking` the checks of the verbs that read other rows,
`Records` the contents of the rows, `Automation` what a command makes of its own,
`JournalPanel` what happens before a command exists, `Planning` and `Upkeep` the
jobs that write without one. What `CommandSync` says of last-writer-wins and of
live parents is true of the code *while the user's requests do not overlap*;
`ServerTxn`, `Structure` and `Tracking` state exactly that (properties named
`Serial...`, with the history variable `overlapped`) and section 5 tells what
happens otherwise. `Automation` composes `RulesEngine` and `StatusIndex`, both on
`Status`, on `Hierarchy` and `DepGraph`; `Upkeep` composes `DayLog`, `Aggregates`
and `Archive`; `Records` composes `Effects`, `Entities` and `Writers` over
`Catalog`.

### 2.1 CommandSync

| variables | code |
|---|---|
| `cmd`, `status`, `overlay` | `client_commands` (envelope, status) and `overlay_effects` |
| `replica` | the PowerSync tables of a device |
| `phase`, `plan`, `batch`, `results` | the local variables of a running drain |
| `todo`, `owed` | where `handleUpload` is in a request; `"cur"` is the one the device waits for, `"old"` one it gave up on |
| `log`, `state`, `stamp`, `value`, `version`, `review`, `conflicts` | `command_log`, `nodes` (deleted_at, last_modified_by_command_id, columns), `command_field_versions`, `sync_review_items` |

| actions | code |
|---|---|
| `CreateNode`, `UpdateNode`, `DeleteNode`; `Enqueue` | `execute` up to its awaits; `enqueue` |
| `StartDrain`, `ReconcileConfirmed`, `PendingCommands`, `Respond`, `Ack` | `startCommandUpload`, `reconcileConfirmed` (one loop turn), the read of the queue with the first POST, the response, one turn of the result loop with the next POST |
| `AnswerNoop`, `ApplyCommand`, `RejectCommand`, `CreateReviewItem` | `handleCommand`: the log lookup, the committed transaction, the logged rejection, and the review item of its own statement |
| `SyncDown` | PowerSync applies a consistent checkpoint (external) |
| `UploadFails`, `AppRestarts`, `ServerDies` | a lost request or response, a killed app, a dead process or a retryable database error |

A command is named by its HLC, a natural number (HLC strings are total and
unique), and the value it writes to a field is the command itself, so "which
write does this field hold" is visible in the state. `uid` is the UUIDv7, which
only `reconcileConfirmed` compares. `after` is history for `CausalDelivery`.

Three switches select the environment: `SerialWrites` (a device finishes one
write before it starts the next), `SyncedClocks` (HLCs of all devices are minted
in real-time order), `OrderedIds` (UUIDv7 order is HLC order). FALSE is the
weaker assumption. The liveness of `sync_one_device` needs
ordered ids: `ids.ts:41-44` mints UUIDv7s whose order within a millisecond is
random, and with `OrderedIds = FALSE` `EveryCommandSettles` fails on one device.
Two constants say how a run begins: `InitRows`, the rows there are, and `Unsigned`,
those of them that a background job inserted in no command's name
(`automation-backstop.ts:86-111`). Their `last_modified_by_command_id` is NULL, and
`reconcileConfirmed` lets any insert or update of such a row go at once
(`overlay-store.ts:294`, `NullStamp`).

A device mints increasing HLCs here (`FreshHlc`). That is more than `createHlc` keeps
when several of its closures are open and the wall clock stands still or goes back
(section 2.3): what this module says of causal order is for devices whose mints increase.

### 2.2 ServerTxn

A request has a program counter: `CheckLog` (the lookup before the transaction),
`LoadRow` (`convergeOrOwn` or `ownershipReject`), `ReadTree` (`BatchContext.tree`,
then `checkNodeCreate` or `softDeleteClosure`), `ReadVersion` and `UpsertVersion`
per field (`lwwFields`), `FieldsDone`, `WriteRows`, `InsertLog`, `Commit`; `Dies`
is a crash or a retryable error. What a transaction has written becomes visible
at `Commit`; until then it holds locks on the version rows it upserted, the nodes
it wrote and the log key, and another transaction's statement waits by its guard.
`tree` is the memoised `treeP`; `overlapped` records whether two requests have
been under way at once.

### 2.3 HlcClock

`prev` is private to each `createHlc` closure (`open`); `last` and `savedFloor`
are the localStorage keys; `floor` is the module variable. `Tick` is `next()`,
with `assertValidHlc` as its guard; `Import` is `persistImportedHlc`;
`CreateHlc`, `DropHlc` and `Restart` are mounts, unmounts and reloads. Any number of
closures is open at once, as in the app, where the timer of the layout has one and
every screen has its own (`useCommands`, `hooks.ts:1562-1578`). A closure reads the
persisted tick once, when it is made; so what holds of a device is what each closure
gives by itself, that it can tick and that it exceeds the import floor, which all of
them read. That the device's mints increase does not hold (`MonotonicPerDevice`,
section 5). The wall clock moves to any value at any time. The device id is constant
within an installation and left out, so an HLC is a pair. Several tabs, of which each
has a `floor` of its own in memory, are not modelled.

### 2.4 Structure and Tracking

Both run two upload requests as `Open`, then per command `Read` and `Commit`,
then `Close` (`Done` in `Tracking`); a second request may take any step between
the two halves of a command. `Read` is the handler up to its writes, on the
committed row and on what `BatchContext` has cached (`tree`, `graph`, `facts`);
`Commit` is the transaction's end with the unique keys and the trigger that may
still refuse it, and drops the caches that `CONTEXT_WRITES` lists for the verb.
HLCs are any unused number, so commands arrive in any order of their clocks.

`Structure` has the checks of node.create, move, retype, promote, soft_delete
(`Hierarchy`: `ValidParent`, `TaskJustified`, the limit of visions, the database
trigger) and edge.create with its cycle check (`DepGraph`). `split` records an
update of several columns that won some and lost some.

`Tracking` has clock_in (with the close of another device's timer by latest
start), clock_out, review with the completion it may carry, check_off and uncheck
with `completionGate` over the facts of `Status`. A command's `plan` is what the
handler decided at `Read`. Its promise is `TimeSheet`: sessions start, end, take
over from a running one or are booked afterwards, at most one runs, and closed
intervals do not change. `Tracking!Sheet` is the refinement (`sheet <- Intervals`,
`contended <- overlapped`); reviews and completions are stutters, and only after
an overlap may the sheet be amended beyond that, still well-formed because the
unique index `entries_open` and the interval check hold then too.

### 2.5 Records and the catalogue

`Catalog` is the mutation catalogue as data: server and device tables with their
columns, natural keys, payloads and field mappings. `Effects` has two tables
translated from two places: `Predicted` from `effects.ts`, `Written` from
`runHandler`. `Entities` has the row shapes of `entities.ts`, `Writers` what every
function of `commands.ts` puts in a payload. In `Records` a script of up to three
commands runs through `Execute`, `Look` (the handler's read of a row by its
natural key), `Handle` or `Refuse`, `LoseAnswer`, `SendAgain`, `Acknowledge` (with
the ids the server chose), `Reconcile`, `SyncDown`. Each property ranges over 389
scripts: every verb alone with every optional field present, absent and
null, on rows with all columns and on poor ones; what one device does in a row;
what two devices do to one row and to one natural key.

### 2.6 Planning

`CreateBlock` ... `RejectSuggestion`, `CheckOff` are the verbs; the optimiser is
`OptimizeRead` and `OptimizeWrite`, the scan `ScanLook` (the tasks), `ScanLoad`
(the plan of one) and `ScanWrite`, with every other step in between. `Scheduler`
is the greedy placement, translated function by function; the optimiser's
simulated order is any order of the tasks, a superset of what the seeded
generator draws, so `OptimizedPlans` is a set.

### 2.7 Automation

`Execute` predicts with the rules the device has, `Serve` applies with the rules
the server has and queues the job, `Backstop` runs the rules again over what was
committed, `Download`, `Reconcile` and `Arrive` change what the device shows, and
after every one of them `engine` is fed the difference as `maintain` in
`data-provider.tsx` does. Ids of spawned rows are `<<rule, trigger, slot>>`
constructors in place of UUIDv5. The effects of a difference and of a change are sets:
`Apply` takes them in an order of its own (`ApplyNext`), and the proof says that any
order would do. `Arrive` brings rows of the other shared tables and takes them away
again, except the settings: their row stays, as sign-out is the only thing that drops
it and it drops the engine too.

### 2.8 Upkeep

The database is a function from `<<table, id>>` to rows (`Archive`). `Upload`
sends the next command of a device, whose answer may be lost; `NextDay`; `Expire`;
`StartPurge`, `PurgeRows`, `PurgeLog` are the statements of the purge;
`BackupTable` reads one table of an export; `DryRun` and `Import` validate and
restore it; `StartRecompute`, `ReadSnapshot`, `StoreAggregates` are the recompute
transactions, two of which overlap. `plan` is one of ten scenarios, chosen in
`Init` and never changed: an account under retention and expiry with a backup, tags
and notes that are replaced, days of a habit in every streak mode, and two
recomputations.

### 2.9 JournalPanel

`Open`, `Close`, `Type`, `Focus`, `Blur`, `ToggleLock`, `Fire` (the debounce),
`LockTimer`, `HintExpires` are events of the panel, whose state is the record
`panel`; `ReadRows`, `ReadOverlay` and `Evict` are the reads behind
`useJournalDay` with `ROWS_CACHE`; `Enqueue`, `EnqueueFails`, `Deliver`,
`Download`, `Reload` the way of a command; `OtherDevice` and `RemoveNote` the
outside. `overlay` and `dispatched` are sets of commands with their HLCs, so the
merged read is a function of a row and a set of effects: `Under` is `mergeRow`, each
column as its latest effect left it since the last delete, and `Merged` is
`mergeTable`. `buried` are the ids of the deleted rows, which `journal.write` with a
known id still writes to. `held` and `subs` are the map of `streams.ts` and what it
has asked of PowerSync: `Subscribed` and `SubscribeFails` resolve a promise, also one
whose holder has left.

An editor with the focus that is torn down, by a lock or by the unmount, reports a blur
whose content is what it showed or nothing (`Reported`; `DayJournal.tsx:322-335` says
empty). Under a lock that is shown, `write` refuses either. On a day that is left
unlocked the blur comes in the commit, before the effects are undone: it clears the
debounce, so that `flushPending` finds nothing to do, and an empty content deletes the
note. `Close` has both, the flush and the blur that takes its place.

`typed`, `disturbed` and `guarded` are history. A day is `disturbed` once something
other than the panel's typing decides its text: another device, a failure, the user's
deletion, a reload that takes the debounce along, an editor that took the focus with a
text that is not the day's, a lock that the panel shows too late, or that empty blur of
an unlocked day (section 5 tells what happens then). A deletion the panel sends in any
other way disturbs nothing. A day is `guarded` from the moment this panel has locked its
only note until the day is opened again; closing the panel does not end it, so what the
unmount sends is looked at like everything else.

## 3. What the runs check

Every run ends within the five-minute bound on two workers.

| run | instance | distinct states | shows |
|---|---|---|---|
| `sync_faults` | 2 devices, parent and child row, creates and deletes, 3 commands, batches of 2, 1 failure, overlapping writes | 1.1 M | `CausalDelivery`, `NothingLost`, `PendingKeepsOverlay`, `RollbackOnlyRejected` |
| `sync_race` | 2 devices, all verbs, 2 commands, 1 failure, 2 fields, overlapping writes, skewed clocks, one row without a stamp | 216 k | `LastWriterWins`, `ClearedOnlyWhenArrived`, `EveryCommandDecided` |
| `sync_one_device` | 1 device, 2 fields, all verbs, 3 commands, 1 failure | 125 k | `EveryCommandSettles`, `DeletedRowsDropOut` |
| `hlc_clocks` | 3 milliseconds, a 1-bit counter, 5 mints, two clocks open at once | 971 k | `NeverStuck`, `ImportsDominated` |
| `txn_overlap` | 2 requests of up to 2 commands, parent and child row, 2 fields, 1 failure | 95 k | `OneVerdict`, `SerialLastWriterWins`, `SerialLiveParent`, `EveryRequestEnds` |
| `structure` | 7 nodes of every type, 23 payloads, 2 requests, 3 commands with HLCs in any order | 192 k | `SerialHierarchy`, `SerialJustified`, `SerialAcyclic`, `SerialNoParentCycle` |
| `tracking` | 2 tasks with a dependency and a blocker rule, entries of 2 devices, 3 instants, 4 commands in 2 requests | 1.16 M | `SheetSpec`, `SerialGates`, `SerialTimersResolve`, `RejectionKeepsFacts` |
| `records` | 389 scripts of 1 to 3 commands on 2 devices, 1 lost answer | 82 k | `PredictionHolds`, `RecordedSettle`, `NoTextDropped`, `RowsFit` |
| `planning` | 3 tasks with three kinds of dependency, 3 blocks, 2 days, 2 commands, 2 optimiser runs, 1 scan | 77 k | `AcceptMirrors`, `PlacementSound` |
| `derived` | a task with 2 rules that spawn 3 more, and one rule that comes later; 2 commands, 2 arrivals among 7 tables | 53 k | `IndexAgrees`, `BackstopQuiet` |
| `upkeep` | ten scenarios of up to 3 days, 2 devices, 1 import | 111 k | `RoundTrip`, `ImportTakesNothingBack`, `OnceWithinHorizon`, `AggregatesAdvance`, `FiguresMean`, `ArchiveShowsJournal` |
| `journal_panel` | sixteen visits with budgets for every event, 2 texts and the blank one, 2 days | 429 k | `TypedTextIsKept`, `LockedNoteIsLeftAlone`, `SubscriptionsBalanced` |

### 3.1 Why the bounds are enough

*Sync.* Two rows are a parent and its child, which the parent check, the causal
gate and the cascade need. Three commands against batches of two give a batch
boundary, and with two commands from one device and one from the other a
dependency raced by a delete. One failure is one lost answer, one crash, or one
dead process, after which a retry meets an abandoned request that still runs. Two
commands suffice where the question is a race between two writers. In
`txn_overlap` two fields in both orders would show a lock cycle, and the two
commands are any pair of verbs on any rows (enumerated in `Init`). In
`hlc_clocks` the counter overflows after two ticks and the last millisecond is
reached; five mints cross both, and two clocks are one that was there before an import
and one that comes after it. `ClearedOnlyWhenArrived` needs two updates of a row by two
devices, of the same field and of different ones; the row is one without a stamp, which
the first applied command stamps.

*Structure and Tracking.* The 23 payloads hold, for every check, commands that
pass alone and collide: a move under a node that is created, deleted or retyped
meanwhile, both directions of an edge, a promotion against a move. Three commands
are one that another overlaps or overtakes by HLC, and one that sees the result.
In `tracking` four commands are a clock-in of each device, a stop or review, and
a completion; instants 1 to 3 give starts before, at and after another.

*Records.* A single verb shows that prediction and handler agree, so one command
with all its payloads is enough; clashes need two; an edit or a delete
of the note that lost or won the clash is a third, also while the other device's write
is between its read and its merge.

*Planning.* Two days and a lag that crosses midnight; three tasks make a chain
and a task with two predecessors; two optimiser runs let one batch supersede
another between its read and its write.

*Derived.* Depth two of spawning is reached (`review` makes `invite`), and a
threshold of 4 rows (`RebuildThreshold`, 5000 in the code) lets both ways of
maintaining the index be taken. *Upkeep.* Retention, horizon and review windows of
90, 90 and 30 days are 1, 1 and 0 days, so that a row outlives and passes each; a
day has four instants and resets at the second. *JournalPanel.* Each visit gives
one hazard its events, at most three opens and two of any other.

Each bound is a constant named in the module that uses it (`MaxCommands`,
`MaxFaults`, `MaxMints`, `MaxLost`, `MaxRuns`, `MaxScans`, `MaxDay`, `MaxArrivals`,
`MaxImports`, the budgets of a visit); the proofs hold for every value of them.

`CHECK_DEADLOCK FALSE` appears wherever commands or requests are bounded: when all
of them are settled nothing is left to do. Symmetry is used only in runs without
liveness properties. Each property has at least one seeded fault, an operator
beside the definition it changes ("Seeded fault of ..."), under which TLC finds it
violated; `PROJECT.json` "mutants" lists them.

Besides properties, TLC evaluates assumptions on every run of their module.
`EntitiesMirrorTables` (every entity's columns are the server table's, null where
it may be), `WritersParse` (no writer builds a payload its schema refuses,
whichever options a screen gives) and `StrippingIsHarmless` (the columns
`stripTrustFields` drops are none a verb may set) are checked with `records`. Over
960 sets of facts, `tracking` evaluates five agreements of the screens:
`EveryTaskHasItsList`, `BarAgreesWithItinerary`, `KanbanDealsEachCardOnce`,
`NothingUnplaced`, `MyDayIsAnOrder`.

### 3.2 Fairness

`CommandSync`: weak fairness of `Enqueue` (an await resolves), of the drain's
steps (the 15 s timer restarts it, `connector.ts`), of each request's server
steps, and of `SyncDown` (the sync service delivers in the end). `ServerTxn`: weak
fairness of each request's statements. Users and failures owe nothing; failures
are finite by `MaxFaults`, as a link that always fails delivers nothing. The other
modules state no fairness: their properties are safety and action properties, and
what must eventually happen to a command is the subject of `CommandSync`.


## 4. What is proved

Each theorem holds for every set of devices, rows, fields, nodes, edges, requests,
entries, tasks, scenarios, days and clocks and for every bound, from the named
assumptions of the module it is about (`BoundsAssumption`, `RowsAssumption`,
`SwitchAssumption`, `FieldsAssumption`, `ClockAssumption`, `NoneAssumption`,
`StructureAssumption`, `InitialTree`, `TrackingAssumption`, `RecordsAssumption`,
`CataloguesFit`, `RecordersFit`, `MappersComplete`, `EntitiesMirrorTables`, `PlanningAssumption`,
`ArchiveAssumption`, `UpkeepAssumption`, `JournalPanelAssumption`,
`AutomationAssumption`). They say that the
bounds are numbers, that a row's parent is a row or none, that the payloads a request
may carry are those of the verbs, and that the rows a run begins with are rows the
program can have made (for `Structure`, a sound tree; for `Upkeep`, finitely many
rows as the schema has them, of which those of the account reference one another, and
no aggregate before the first recompute; what its devices make is shaped like a row
too, and ids are minted once, a node after its parent; for `Automation`, finitely many
rows under their own ids, with the same columns in all rows of a table, and rules of
finitely many actions). TLC evaluates them on every run.

* **CommandSyncProofs.** `TypeCorrect` carries `Owned` (an overlay, a plan, a
  batch and a request hold only commands of their own device). `FieldsConverge`
  proves `LastWriterWins` from `LwwInv`: a recorded version is an applied update
  and the field holds it. `Delivery` is the invariant of the protocol: a pending
  command outside the queue has a verdict (`StatusLogged`), what is logged was
  minted and sent (`LoggedMinted`), and what a drain, a request and an abandoned
  request hold is closed under the device's enqueue order (`AfterInv`, `DrainOK`,
  `QueueOK`). `CausalDelivery` alone is not inductive: it needs to know that
  whatever precedes a command in a queue is still in the queue or decided, which
  the first batch of an HLC-ordered set preserves (`FirstBatchClosed`). From it
  follow `CausalOrderKept`, `NoCommandLost` and `ReplaysAreInert`;
  `RollbacksAreJustified` adds what an answer says of the log (`RollbackInv`).
  `TombstonesAreFinal` is a step property.
  `PendingWritesStayShown` needs the most: a confirmed delete drops *every* effect
  held for its rows, so one has to know that those rows are gone for good. `KeptInv`
  says why. What an envelope writes lies below the row it names, and its device knew
  of that row (`EnvelopesInv`: in the replica, or made by a command it had
  enqueued); an overlay shows only what was enqueued (`ShownInv`); on the server a
  live row has a live parent and what was created is there (`RowsInv`). When a
  delete gets its verdict, everything before it has one (`Delivery`), so each of its
  rows is deleted, or alive and therefore inside the server's closure
  (`BelowTheDead`), or was never made because its create was refused: `DeletesDone`.
  `ArrivedBeforeCleared` proves `ClearedOnlyWhenArrived`, with no assumption on devices,
  clocks, ids or overlapping writes: an update is let go only when the server holds it,
  or a later write of the same fields, for good, and the downloaded row holds it too
  unless its stamp says nothing of the update (`Uninformed`). Reconciliation compares ids
  only, so `ClearInv` has to connect a stamp with a value: a command that is held still has its
  effect in the overlay, or its row has left the device for good (`HeldInv`); an update
  is refused only on a row that is never made (`UpdatesInv`); a command whose author had
  enqueued the update stamps no row while the update waits, which causal order gives, and
  a row with the update's stamp or such a later one carries the update (`StampsInv`,
  `CarriedInv`).
  The last part of the module is about `HlcClock`. `TickAdvances` and `MergeStrictlyDominates` are facts about the
  functions for all naturals, so for 48 and 16 bits in particular.
  `MergesAlwaysDominate` states the second for the clocks of an installation (no
  caller in the repository merges yet; only the tests use `mergeHlc`). `ClockTypeCorrect`,
  `TicksNeverStuck` and `ImportsAlwaysDominated` (from `FloorInv`: the floor in memory
  and on disk dominate every import) are about any number of clocks open at once.
* **ServerTxnProofs.** `ServerInvHolds` is the inductive invariant of the
  interleaving: per program counter, what a transaction knows about its command and
  which rows and fields it holds (`RequestOK`), that two transactions never hold the
  same lock (`LocksOK`), and that a cached tree contains only rows that exist
  (`TreeOK`). From it: `OneVerdictHolds`, `VersionsAreTrue`, `EffectsAreLogged`.
  `SerialLww`, `SerialContext` and `SerialParents` rest on `SerialInv`: while nothing
  has overlapped, one request is active (`Alone`), so what it has read is still true
  (`SerialTxn`), its cached tree is the committed one, and closing a delete under live
  children keeps every live parent (`ClosureClosed`).
* **TrackingProofs.** `ImplementsTimeSheet` is the refinement `Spec => SheetSpec`: the
  handlers of overlapping requests implement the abstract sheet. Its invariant
  `TrackingInv` adds to the types that the committed intervals are well formed and at
  most one is open (`SheetInv`), that an open request has one command in hand whose
  plan is one its handler can decide (`PlansInv`, established by `PlansSuit`), and that
  with a single request the plan is still true of what is committed (`SerialInv`).
  `WriteKeeps` and `CommitKeeps` carry it over a commit. A step is then mapped in two
  lemmas: while requests do not overlap a commit is one of the sheet's steps
  (`AloneStep`); after an overlap it is whatever the index and the interval check let
  through (`ContendedStep`). `TimersResolve` and `RejectionsKeepFacts` follow from the
  same invariant; the second is unconditional.
* **StructureProofs.** The tree and the graph under the verbs that shape them. `Inv`
  adds to the types (`TypeOK`) that a request which is not under way has nothing in
  hand (`Closed`), that a command about to write has its row (`Finds`: rows are never
  removed), and, as long as nothing has overlapped, `Serial`: one request is open, what
  it has cached is what the tables hold (`Memo`), the command it has checked still
  passes its checks (`StillAccepted`), and the tables are sound. Sound is more than
  the four properties say, for two of them are not inductive. That no walk up the
  parents comes back is replaced by `ParentsEnd` (in `SoundRows`): every set of rows
  has one whose parent is outside it. Live rows have it because the type of a parent
  ranks above that of its child, deleted rows because they hang where they hung
  (`LiveParentsEnd`). That Kahn's count is full is replaced by `Grounded`: every set of
  nodes has one without a predecessor in it, which an edge that passed the check keeps
  (`GroundedAdd`). `CreateSound`, `UpdateSound`, `DeleteSound` and `EdgesSound`
  carry them over a commit. `HierarchyKept`, `JustificationKept`, `AcyclicKept` and
  `NoRingKept` follow. On the way the module proves what the recursive functions of
  the pure modules compute, for every tree and graph: `Subtree` is closed under live
  children (`SubtreeDownward`), a live parent is an ancestor (`ParentIsAncestor`), the
  walk along the edges stops only when it is closed (`ReachableClosed`), and Kahn's
  order takes in every node of a grounded graph (`KahnCompletes`).
* **PredictionProofs.** `Records` for every script of well-formed commands, whatever its
  length, devices, rows and payloads, and `Planning`. What is known of the 67 verbs is in five
  assumptions about the catalogue tables, which TLC evaluates: the two effect tables
  name the same table and delete for the same verbs, a create names every column that
  has no default, a mapper fills every column the streams leave out (`CataloguesFit`,
  `RecordersFit`, `MappersComplete`, `EntitiesMirrorTables`; `RecordsAssumption` is
  that payloads pass their schemas and rows have their columns).
  `RowsReadable` (`RowsFit`) says that no screen is handed a row with a hole. By itself it
  is not inductive: an update that follows the device's own delete of the row would
  be shown as a row of a few columns. `DeletedAlone` excludes it, and needs `OwnRows`:
  a device names a row it minted the id of or one the server has, so that a row it has
  deleted is not offered to it again. What an answer names must exist too, since
  `markApplied` turns an effect to it (`AnswersMeant`, `Named`), and no pending delete
  of that device may come before the effect it turns (`NotDeleted`, `NotesDie`: a note's
  delete that is logged left no live row of its id, so no later handler reads it as
  the note of the day).
  `AppliedSettle` (`RecordedSettle`) follows from `EffectsSettle`, part of the same
  invariant: while no answer has been lost, what an applied command left in the overlay
  is about a row the server has, and has deleted if the effect is a delete; the last
  checkpoint therefore brings it. `RecordsInvHolds` is the invariant.
  Of `Planning`, `RowsKept`: whatever commands, optimiser and scan do in between
  each other, `schedule_blocks` holds rows of which no committed one keeps a reason, a
  batch or a row to replace (`PlanOK`). `AcceptMirrored` rests on it: a device that
  accepts a suggestion shows the plan the server answers with. It needs the row
  invariant because the preview also writes columns the server's update leaves as
  they are.
* **UpkeepProofs.** `DecidedOnce` is `OnceWithinHorizon` from `Verdicts`: what the log
  has forgotten, or holds a second verdict for, was first decided before the horizon,
  and the log inside an export obeys the same, so that a restore of an old export
  cannot make a command new that is not past the horizon. `AggregatesAlwaysAdvance`
  (`AggregatesAdvance`) from `Facts`: the aggregates of the database, of an export and
  of the snapshots of both recomputes claim only facts that are there, and carry the
  zero clock, which makes every import keep the row it meets. `ImportKeepsNewer` is
  about the restore by itself, for any database and any finite file: it leaves every
  row of another account and every row whose clock is not older than the file's,
  brings nothing but the file's rows and settings, and does all of it or nothing. Its
  argument is `Brought`, kept table by table and row by row (`RowBrought`,
  `TableBrought`, `TablesBrought`) by induction on what is left of the file.
  `ExportsRestore` is `RoundTrip`, from two halves. `RowsStaySound` is the inductive
  one: every row fits the schema, a row of the account references rows of the account
  that are there, and no two live ones share a natural key (`Sound`), while what an
  export has read, of several moments, is the account's own (`FileOf`), so that an
  import can only bring rows that may be stored (`RowTaken`, `TableTaken`). Marking,
  closing, expiring and a DELETE that is not refused are all `Faded` (`FadedSound`);
  creates, warnings and imports are `PutSound`. The other half is about the restore
  into nothing: the order of the tables has every table after those it references
  (`ImportOrder`), and of the nodes that are left one has a parent that is not, since
  nodes were minted after their parents (`NextReady`), so no row meets a missing
  reference or a rival (`FreshTable`, `FreshTables`, `WholeFile`).
  `ArchiveIsJournal` (`ArchiveShowsJournal`) holds in every state, reachable or not:
  the rows the export selects make the same day log as all rows of the account
  (`SelectionsAgree`).
* **JournalPanelProofs.** `SubscriptionsStayBalanced`, from `StreamsInv`, in both
  directions: the count held for a day is the number of its lookers and the subscription
  it names is one that was asked for and not let go (`Entered`), and a subscription nobody
  holds has been let go or will be by the promise that is still pending (`LetGo`).
  `PanelSound` is what the rest stands on: the queue is served in the order of HLCs
  (`QueueInv`), every note and every acknowledged effect is of a row the account has or
  buried (`NotesInv`), and the panel's draft, reads and intent are of its day
  (`PanelInv`).
  `TypedTextStays` (`TypedTextIsKept`) from `TypedInv`: every day that is not disturbed
  is `Safe`, which means that no deletion is anywhere on its way (`Undisturbed`), that an armed
  debounce holds the text typed last and no lock can come to be shown before it fires
  (`Free`), and that otherwise a focused editor shows the text the day will have, so that
  the blur, which writes unasked, writes nothing else. That the panel itself sends no
  deletion for such a day is not assumed: a blur with empty content deletes the row the
  panel shows, and on an undisturbed day where no text is on its way it shows none
  (`NoteComes`, `Noted`). The lemmas on `Coming` say
  what serving, settling or adding a command does to the text to come.
  `LockedNoteStays` (`LockedNoteIsLeftAlone`) from `LockedInv`: one id is the id of
  every row and command of a guarded day (`OneNote`), the lock is the last thing asked
  for (`LockLast`), and the panel shows it, whatever it reads next (`LockStays`). The
  invariant has to speak of rows and effects read at different moments: a
  download settles the effect and brings the row, and the panel may read either first.
  A guarded day that has been left keeps `OneNote` and `LockLast` (`EndsWithLock`), and
  the step that leaves it has to be looked at with the lock still shown (`LeftStep`).
  Both need `StreamsInv`, as an eviction must not take the note of an open panel.
* **AutomationProofs.** `AnswersAgree` is `IndexAgrees`, from `EngineKeepsUp`: the rows
  the engine holds are the merged rows, and the index is what those rows give
  (`EngineFollows`). `IndexAgrees` by itself is not inductive, since it compares answers
  and an answer does not say what the maps behind it hold; a counter one too low or an
  empty set left behind shows only at the next removal. `Reflects` says it of all twenty
  maps, and has a lemma for a row that goes in and one for a row that comes out of each
  table (`NodeIn`, `NodeOut`, ...). From those follow one effect (`StepReflects`), and
  then all the effects of a difference: when only some of them have been applied the
  rows are a mixture of the old and the new ones (`Mid`), every effect that is left
  still fits the mixture, and the index reflects it. What makes a difference fit is that both sets of
  rows are sound (finitely many records under their ids) and that a row keeps its
  columns (`Follows`), because an update overlays columns and removes none. That the
  merged rows are so is the other half, about the rest of the module: every row and
  effect of the server, the replica, the overlay and the arrivals has the columns of its
  table (`RowsAllFit`), which needs every operation of a command, on the device
  (`ExecuteFits`), on the server with the automation in the transaction (`ServeFits`),
  and the rewrite of an acknowledged row id (`MovedFits`). `ReflectsAgrees` ends it:
  maps that hold what the rows give answer as the facts do.

Seven properties are proved and not run, because the theorem says more than an
instance would: `TombstoneIsFinal`, `ReplayIsInert`, `MergeDominates`,
and what `VersionsAreTrue`, `EffectsAreLogged`, `SerialContext`
and `ImportKeepsNewer` state.

Facts about recursive functions are proved without the library's induction theorems,
whose operator parameters the provers cannot instantiate. `SetInduction` states
induction for a *set* of numbers, from the well-foundedness of strict inclusion among
finite sets; `Iterate` and `Saturates` give from it what a growing finite set reaches.
A property to be proved by induction is then the set of the numbers that have it.

Model-checked only:

* liveness (`EveryCommandDecided`, `EveryCommandSettles`, `DeletedRowsDropOut`,
  `EveryRequestEnds`), since fairness and ENABLED are outside what the prover handles;
* `SerialGates`: for arbitrary rules a blocker's verdict may change with the clock
  between the read and the write, so the statement needs the rules of the instance;
* `BackstopQuiet`: what a rule spawns is found again wave by wave, and the prover would
  need that the second run fires what the first one fired;
* `PredictionHolds` is true of the scripts of the run and not of
  every script a well-formed user could play. Checking off a task twice, the second time
  without a block, is predicted otherwise than it is written (section 5): a theorem
  about every script would be false, and what is known of those 389 is what TLC gives;
* `NoTextDropped`, which names the two ways a text may go instead of excluding them: the
  writer's own later write by its own id, and a merge whose handler had read an older
  text;
* `PlacementSound`, what the greedy placement computes slot by slot;
* `FiguresMean`, and `ImportTakesNothingBack`, which
  is true of the scenarios of the run and not of every scenario: a device back after the
  horizon can make a deleted row anew with an older clock, and an import then finds
  nothing newer. What holds of every scenario is `ImportKeepsNewer`.

## 5. Where code and comments disagree

The modelling met sentences of the repository the code does not keep. None of them
is a run of its own: the runs ask what the code does guarantee, under the
conditions it does. Two instances that refute a sentence stay beside the
project, each with one property; TLC ends them with a counterexample:

| configuration | module | property | sentence |
|---|---|---|---|
| `doc_answer.cfg` | `MCAutomation` | `AnswerHidesNothing` | `markApplied` rewrites only "an UNAMBIGUOUS single effect on a table" that minted another id (overlay-store.ts:213-218): a command with one effect on `nodes` whose answer names a spawned node is moved onto that node, and its own row leaves the screen |
| `doc_purge.cfg` | `MCUpkeep` | `PurgeCompletes` | "purges a node only when nothing still references it" (retention-purge.ts:6-8): a tombstone still referenced by a row the purge does not look at makes a DELETE fail, for all users, and everything after it waits for ever |

Others are refuted by an instance of the modules, with the property already
written where it is named:

| property | instance | sentence | what happens |
|---|---|---|---|
| `AppliedMeansAccepted` | `sync_faults` with verbs create, update, delete, `MaxCommands = 2`, `SerialWrites = TRUE` | `rejected` -> drop the overlay (upload-commands.ts:9) | the answer to a rejection is lost, the retry is a `noop`, the client marks it applied |
| `EveryRejectionReviewed` | the same | "every server rejection produces a durable review item" (dispatcher.ts:1803) | a crash between the log row and the item |
| `NoRevertFlicker` | one device, no failure, 2 commands | "there is NO revert-flicker" (overlay-store.ts:79-81) | a download between two turns of the reconcile loop |
| `EveryCommandSettles` | two devices, updates of 2 fields, no failure | a skewed peer cannot strand an overlay (overlay-store.ts:289-291) | the last command applied has the smaller id |
| `MonotonicPerDevice` | `hlc_clocks` with 2 mints | a monotonic per-device HLC, so that a regressed wall clock "cannot mint an HLC below an already-queued/applied one" (client-runtime.ts:67-76) | two clocks are open: each was seeded before the other's tick, so within a millisecond they mint the same reading, and after the wall clock goes back a lower one |
| `LastWriterWins` | `txn_overlap` with `MaxFaults = 0` | last-writer-wins by HLC (dispatcher.ts:486) | two requests read the version before either commits, and the newer write is lost |
| `LiveParent` | `txn_overlap` without failures | earlier cascades take care of every descendant (cascade.ts:4-9) | a create overlaps the delete of its parent |
| `NoParentCycle` | `structure` with `InitNodes <- MCRingNodes`, `Commands <- MCRingCommands`, `MaxCommands = 4` | "a single command can never introduce one" (a parent cycle, hierarchy.ts:10-13) | one request makes a roadmap and a project under a vision, another turns the vision into an activity in between; promoting that under the project closes the ring |
| `OnlyCreatesAppear` | `MCRecords`, `Scripts <- MCScripts`, `MaxLost = 1` | `mergeTable` appends "overlay-only inserts" | an update of a row the replica no longer has is shown as a row too |
| `SettingsNeverRefused` | `MCRecords`, `Scripts <- Settings`, no lost answer | settings converge field by field | a losing field makes `maybeHlcConflict` select by an `id` column the table does not have; the whole command is rejected |
| `ProseSurvives` | `MCRecords`, the run's scripts | overwritten prose "stays recoverable" (dispatcher.ts:1273-1275) | two ways: one device's note has been merged onto another's, whose writer then writes it again by its own id, without an item (1276 asks for another row's); or the writer edits between the read and the merge of the other's handler, which overwrites the edit and keeps the text it had read |
| `UpsertsSettle` | `MCRecords`, `Scripts <- Upserts`, no lost answer | an upsert that met another row's key is rewritten | `tag.answer` never records the id it chose, so a diverged overlay stays |
| `ClosingKeepsTheNote` | `journal_panel` | "an explicit Delete soft-deletes" (DayJournal.tsx:13-14) | the day is left with the focus in an unlocked editor whose teardown reports empty content, as 326-329 say it does: the note is deleted, and what was typed last with it |
| `TypingRecreates` | `MCJournalPanel`, `Visits <- MCClearing` | a cleared note is deleted and typing again re-creates it (DayJournal.tsx:313-321) | the panel still has the id of the deleted note, and blank text with that id leaves what was there |

Also met, and told here without an instance:

* *Client store.* `execute.ts:247` says `overlay_effects` holds only effects of
  still-pending commands; applied ones stay until reconciled. A refused delete
  answered `noop` is reconciled as if applied and takes the overlay of later drafts
  on a row that was never made. `DeletedRowsDropOut` fails
  with two devices and skewed clocks. "A stamp GREATER than ours is a write the server
  took after ours, which means the row already carries work newer" (283-286) is not so
  for a peer's command that was minted later and applied earlier: it may also have
  written other fields, and the row on the device then lacks our update until the next
  download, with good clocks too. A NULL stamp does the same (294). React Native has no localStorage, so nothing of
  the clock survives a restart there (client-runtime.ts:74-75).
* *Prediction and handler.* Checking off again without a block keeps the block on the
  overlay while the server nulls it. Check off, delete the spawned task, uncheck and
  check off again leaves a ghost. The client evaluates `project.phase` with the trigger
  still open. `setLayoutPosition` predicts a null group when none is given. A write
  merged onto a note that is deleted in between leaves its text on the deleted row. The
  pre-flight checks take any violation for real on stale local rows.
* *Server.* `CONTEXT_WRITES` "MUST be a SUPERSET" of what a verb writes
  (dispatcher.ts:140-142), but lists only `time_entries` for `timer.review`, which may
  complete a task and spawn nodes: the batch keeps its tree. `treeP` memoises a rejected
  promise (316), and the rejections before the transaction are logged outside the try
  (1695-1707). No writer in commands.ts sends node.retype, sprint.*, rule.update or
  blocker.update. `timer-merge.ts:11-13` says clients resolve two open entries; only the
  dispatcher does.
* *Automation.* `rules/validate.ts` rules out a rule that triggers itself, but
  `rule.toggle` never validates again. A backstop with conditions that read state can
  spawn rows the transaction did not. The index's tracked mode misses dirty marks.
* *Schedule.* A job may replace a block that was anchored after its read, and reject
  rows that stopped being suggestions (`AnchoredNeverReplaced`,
  `RejectOnlySuggestions`). `scheduled` on the worklist counts a committed block that is
  long over; a superseded past-due suggestion counts for ever.
* *Figures.* `loggedMinutesByTask` counts a whole entry by its start day and sums
  overlaps, where `progress.ts:5` forbids summing entries; `habitTodayMinutes` adds open
  time over closed. The agenda reads `sprintMember` directly, the status `prioritized`
  by inheritance. `MAX_OCCURRENCES` freezes the canonical streak after 4000
  occurrences. `incrementalBurndown` double-counts (only tests call it).
* *Archive.* Restore keeps rows of an equal HLC (`>= 0`, import-restore.ts:213) though
  its header says strictly newer. It leaves `command_field_versions` alone; a row's
  `hlc` can be below a field's winning version, so a restore can overwrite a newer field
  and `hlc_high_water` can be too low. Partial unique keys make it throw. A row purged
  after the backup returns. An import into another account may reference the other
  account's parents; an export read while a command commits may miss a parent, and its
  restore is rolled back. `task_steps` are exported and not restored. Six deletes do not
  cascade (habit, sprint, tag placement, block, board, criterion), which is what
  `doc_purge.cfg` shows. The recompute's guard can skip a fresher snapshot when the job
  with the older clock reads later.
* *Rate limiter.* Its header says a refused upload consumes nothing; `handleUpload`
  consumes the budget of earlier verbs before a later one refuses.
* *Journal panel.* An unfocused edit's blur rewrites the text though nothing was typed;
  a fired timer stays non-null, so unmount and lock write the draft again (comment at
  346-348); `dirty` is never reset after a save, so remote text is not adopted; a second
  toggle before the first is read drops the intent; a quick reopen shows a just-locked
  note as editable from `ROWS_CACHE`; a lock from another device during the debounce
  drops what was typed; `lockIntent` sticks when the row is removed remotely; a note
  whose month has not synced counts as settled and gets a second id; a rejected
  subscribe promise stays in the map and is not retried; the mobile panel writes without
  looking at the lock.

## 6. Abstractions

* `CommandSync` runs a command's transaction as one step on the committed tree;
  `ServerTxn` takes it apart but has no dependencies, no automation, no conflict items
  and a fixed set of envelopes; `Structure` and `Tracking` take it in two steps, with
  all the checks of their verbs.
* PostgreSQL is modelled from how the dispatcher uses it: READ COMMITTED, row locks to
  the end of the transaction, unique keys that wait and then fail. Its deadlock detector
  is left out; `EveryRequestEnds` shows it is not needed. PowerSync is a consistent
  snapshot of the live rows at any moment.
* Left out of the upload: schema-floor and parse rejections, `E_INTERNAL`, HTTP 4xx and
  429, a missing result. At most one abandoned request per device. The read of the queue
  and the first POST are one step, as are the last acknowledgement and the next POST.
* Rows that exist before a run have stamp 0, which is NULL for those in `Unsigned` and
  otherwise an older command's id. Spawned and upserted rows are named by
  tuples of what their UUIDv5 is made from: equal exactly when the ids are.
* Folds over sets take an order the code leaves to the database; where it matters the
  module says so (`Structure`'s closure, `Archive`'s purge order), elsewhere the
  operation commutes.
* `Records` sends a command only when a writer offers it (`Offered`); a row has each
  column abstract, present, absent or null. The text of the last writer of a note stands,
  and what it overwrites of another row's is kept in a review item.
* `Planning` leaves refused commands out and keeps civil time in slots of a day.
  `Automation` has one device that sends in order, once each. `Upkeep` receives commands
  in clock order, ends an export or a purge on the day it began, and takes its commands
  from the scenario in `plan`.
* `JournalPanel`: a day stands for its month; upload and acknowledgement are one step, as
  are download and reconciliation; the overlay query is read after the replica's; events
  have a budget per visit.
* `Views`: lists are sets, with their order as a rank; a day has six minutes
  (`DayMinutes`) and a segment at least two.

## 7. What could come next

A refinement of `CommandSync` by an abstract last-writer-wins
register; HLCs in `CommandSync` that come from several clocks of `HlcClock`; two
overlapping acceptances in `Planning`; a second device in `Automation`.

## 8. Not modelled

* **Rate limiter**: a window per user and verb in the memory of one process; no other
  state depends on it (but see section 5).
* **Notifications, push, weather, layout, the job queue, authentication and the HTTP
  shell**: calls to external services and library glue, no protocol of their own.
* **Migrations**: their result, the schema, is in `Catalog`, `Entities` and `Archive`;
  their history is not.
* **Critical path, Gantt and flowchart layout, burndown, layout.renormalize_order**: pure
  figures and coordinates that no other part reads.
* **File formats, encryption, checksums, the regular expressions of the validators**:
  data the properties do not tell apart.
* **Screens**: besides the journal panel they render the selectors of `Views` and call
  the writers of `Writers`.
* **Pre-flight checks**: advisory refusals on the device; the server repeats them.
