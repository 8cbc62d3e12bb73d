-------------------------- MODULE CommandSyncProofs --------------------------
(***************************************************************************)
(* Proofs about CommandSync, for any number of devices, rows, fields,       *)
(* commands and failures, any batch size, any skew of the clocks.           *)
(***************************************************************************)
EXTENDS CommandSync, HlcClock, FiniteSetTheorems, TLAPS

\* A device queues, sends, acknowledges and shows effects of its own commands
\* only.
Owned ==
  \A d \in Devices :
    /\ plan[d] \subseteq MintedBy(d)
    /\ batch[d] \subseteq MintedBy(d)
    /\ \A k \in Slots : todo[d][k] \subseteq MintedBy(d)
    /\ \A e \in overlay[d] : e.cmd \in MintedBy(d)

-----------------------------------------------------------------------------
\* Updating a function, or a function of functions, at one place.
LEMMA UpdateType ==
  ASSUME NEW D, NEW T, NEW f \in [D -> T], NEW x \in D, NEW v \in T
  PROVE  [f EXCEPT ![x] = v] \in [D -> T]
  OBVIOUS

\* A function of two arguments keeps its type when one value changes.
LEMMA UpdateType2 ==
  ASSUME NEW D, NEW E, NEW T, NEW f \in [D -> [E -> T]], NEW x \in D, NEW y \in E,
         NEW v \in T
  PROVE  [f EXCEPT ![x][y] = v] \in [D -> [E -> T]]
  OBVIOUS

-----------------------------------------------------------------------------
\* A write of a device adds a well-formed draft and touches nothing else.
LEMMA ExecuteType ==
  ASSUME TypeOK, NEW d \in Devices, NEW verb \in AllVerbs, NEW r \in Rows,
         NEW fields \in SUBSET Fields, NEW deps \in SUBSET (0 .. MaxCommands),
         NEW writes \in SUBSET [row : Rows, op : Ops],
         Execute(d, verb, r, fields, deps, writes)
  PROVE  TypeOK'
<1>1. PICK c \in Ids, u \in Ids, dep \in deps :
        /\ cmd' = [cmd EXCEPT ![c] =
                    [dev |-> d, verb |-> verb, row |-> r, fields |-> fields,
                     dep |-> dep, uid |-> u, writes |-> writes,
                     after |-> MintedBy(d) \ (WithStatus(d, "draft") \cup WithStatus(d, "dropped"))]]
        /\ status' = [status EXCEPT ![c] = "draft"]
  BY DEF Execute
<1> DEFINE new == [dev |-> d, verb |-> verb, row |-> r, fields |-> fields,
                   dep |-> dep, uid |-> u, writes |-> writes,
                   after |-> MintedBy(d) \ (WithStatus(d, "draft") \cup WithStatus(d, "dropped"))]
<1>2. new \in Command
  BY DEF Command, MintedBy, Minted, Ids
<1> HIDE DEF new
<1>3. cmd' = [cmd EXCEPT ![c] = new]
  BY <1>1 DEF new
<1>4. /\ cmd' \in [Ids -> Command \cup {Unminted}]
      /\ status' \in [Ids -> Statuses]
      /\ \A x \in Minted' : cmd'[x] \in Command
  <2>1. cmd' \in [Ids -> Command \cup {Unminted}]
    BY <1>2, <1>3 DEF TypeOK
  <2>2. status' \in [Ids -> Statuses]
    BY <1>1 DEF TypeOK, Statuses
  <2>3. \A x \in Minted' : x = c \/ x \in Minted
    BY <1>1 DEF TypeOK, Minted
  <2>4. cmd'[c] = new /\ \A x \in Ids \ {c} : cmd'[x] = cmd[x]
    BY <1>3 DEF TypeOK
  <2>5. \A x \in Minted' : cmd'[x] \in Command
    BY <1>2, <2>3, <2>4 DEF TypeOK, Minted
  <2> QED BY <2>1, <2>2, <2>5
<1> QED BY <1>4 DEF TypeOK, Execute, drain, tables, Minted

\* The three verbs of the user interface.
LEMMA UserWritesType ==
  ASSUME TypeOK, NEW d \in Devices, UserWrites(d)
  PROVE  TypeOK'
<1>1. ASSUME NEW r \in Rows, CreateNode(d, r) PROVE TypeOK'
  <2>1. DeriveDependsOn(d, Parent[r]) \in SUBSET (0 .. MaxCommands)
    BY BoundsAssumption DEF DeriveDependsOn, TypeOK, Effect, Ids
  <2>2. {[row |-> r, op |-> "insert"]} \in SUBSET [row : Rows, op : Ops]
    BY DEF Ops
  <2> QED BY <1>1, <2>1, <2>2, ExecuteType DEF CreateNode, AllVerbs
<1>2. ASSUME NEW r \in Rows, NEW f \in Fields, UpdateNode(d, r, f) PROVE TypeOK'
  <2>1. {0} \in SUBSET (0 .. MaxCommands)
    BY BoundsAssumption
  <2>2. {[row |-> r, op |-> "update"]} \in SUBSET [row : Rows, op : Ops]
    BY DEF Ops
  <2>3. {f} \in SUBSET Fields
    OBVIOUS
  <2> QED BY <1>2, <2>1, <2>2, <2>3, ExecuteType DEF UpdateNode, AllVerbs
<1>3. ASSUME NEW r \in Rows, DeleteNode(d, r) PROVE TypeOK'
  <2> DEFINE shown == {x \in Rows : Visible(d, x)}
             writes == {[row |-> x, op |-> "delete"] : x \in SoftDeleteClosure(Parent, shown, r)}
  <2>1. {0} \in SUBSET (0 .. MaxCommands)
    BY BoundsAssumption
  <2>2. writes \in SUBSET [row : Rows, op : Ops]
    BY DEF Ops, SoftDeleteClosure
  <2>3. Execute(d, "delete", r, {}, {0}, writes)
    BY <1>3 DEF DeleteNode
  <2> HIDE DEF writes
  <2> QED BY <2>1, <2>2, <2>3, ExecuteType DEF AllVerbs
<1> QED BY <1>1, <1>2, <1>3 DEF UserWrites

\* Queueing a draft keeps the types.
LEMMA EnqueueType ==
  ASSUME TypeOK, NEW d \in Devices, Enqueue(d)
  PROVE  TypeOK'
<1>1. PICK c \in WithStatus(d, "draft") :
        /\ status' = [status EXCEPT ![c] = "pending"]
        /\ overlay' = [overlay EXCEPT ![d] =
             @ \cup {[cmd |-> c, row |-> w.row, op |-> w.op] : w \in cmd[c].writes}]
  BY DEF Enqueue
<1>2. c \in Ids /\ c \in Minted /\ cmd[c] \in Command
  BY DEF WithStatus, MintedBy, Minted, TypeOK
<1>3. {[cmd |-> c, row |-> w.row, op |-> w.op] : w \in cmd[c].writes} \subseteq Effect
  BY <1>2 DEF Command, Effect
<1>4. overlay' \in [Devices -> SUBSET Effect]
  BY <1>1, <1>3 DEF TypeOK
<1>5. status' \in [Ids -> Statuses] /\ Minted' = Minted
  BY <1>1, <1>2 DEF TypeOK, Statuses, Minted
<1> QED BY <1>4, <1>5 DEF TypeOK, Enqueue, drain, tables

\* The drain of a device.
LEMMA SendBatchType ==
  ASSUME TypeOK, NEW d \in Devices, NEW S \in SUBSET Ids, SendBatch(d, S)
  PROVE  /\ phase' \in [Devices -> Phases]
         /\ plan' \in [Devices -> SUBSET Ids]
         /\ batch' \in [Devices -> SUBSET Ids]
         /\ todo' \in [Devices -> [Slots -> SUBSET Ids]]
<1>1. FirstBatch(S) \in SUBSET Ids /\ S \ FirstBatch(S) \in SUBSET Ids
  BY DEF FirstBatch
<1>2. "cur" \in Slots /\ "idle" \in Phases /\ "await" \in Phases
  BY DEF Slots, Phases
<1>3. todo' \in [Devices -> [Slots -> SUBSET Ids]]
  BY <1>1, <1>2, UpdateType2 DEF SendBatch, TypeOK
<1> QED BY <1>1, <1>2, <1>3, UpdateType DEF SendBatch, TypeOK

\* So does each step of the drain of the queue.
LEMMA DrainStepType ==
  ASSUME TypeOK, Owned, NEW d \in Devices, DrainStep(d)
  PROVE  TypeOK'
<1>1. CASE StartDrain(d)
  <2>1. WithStatus(d, "applied") \in SUBSET Ids
    BY DEF WithStatus, MintedBy, Minted
  <2> QED BY <1>1, <2>1 DEF StartDrain, TypeOK, Phases, device, tables, Minted
<1>2. CASE ReconcileConfirmed(d)
  <2>1. PICK c \in plan[d] :
          /\ plan' = [plan EXCEPT ![d] = @ \ {c}]
          /\ \/ /\ overlay' = [overlay EXCEPT ![d] = @ \ Settled(d, c)]
                /\ status' = [status EXCEPT ![c] = "gone"]
                /\ Confirmed(d, c)
             \/ UNCHANGED <<overlay, status>>
    BY <1>2 DEF ReconcileConfirmed
  <2>2. c \in Ids
    BY DEF TypeOK
  <2>3. /\ plan' \in [Devices -> SUBSET Ids]
        /\ overlay' \in [Devices -> SUBSET Effect]
    <3>1. plan' \in [Devices -> SUBSET Ids]
      BY <2>1 DEF TypeOK
    <3>2. overlay[d] \ Settled(d, c) \in SUBSET Effect
      BY DEF TypeOK
    <3>3. CASE overlay' = [overlay EXCEPT ![d] = @ \ Settled(d, c)]
      BY <3>1, <3>2, <3>3 DEF TypeOK
    <3>4. CASE UNCHANGED overlay
      BY <3>1, <3>4 DEF TypeOK
    <3> QED BY <2>1, <3>3, <3>4
  <2>4. status' \in [Ids -> Statuses]
    BY <2>1, <2>2 DEF TypeOK, Statuses
  <2>5. UNCHANGED cmd /\ Minted' = Minted
    BY <1>2, <2>1, <2>2 DEF ReconcileConfirmed, TypeOK, Owned, MintedBy, Minted
  <2> QED BY <1>2, <2>3, <2>4, <2>5 DEF ReconcileConfirmed, TypeOK, tables
<1>3. CASE PendingCommands(d)
  <2>1. WithStatus(d, "pending") \in SUBSET Ids
    BY DEF WithStatus, MintedBy, Minted
  <2> QED BY <1>3, <2>1, SendBatchType DEF PendingCommands, TypeOK, device, tables, Minted
<1>4. CASE Respond(d)
  BY <1>4 DEF Respond, TypeOK, Phases, device, tables, Minted
<1>5. CASE Ack(d)
  <2>1. PICK c \in batch[d] :
          /\ Acknowledge(d, c)
          /\ results' = [results EXCEPT ![d][c] = "none"]
          /\ \/ SendBatch(d, plan[d])
             \/ /\ batch' = [batch EXCEPT ![d] = @ \ {c}]
                /\ UNCHANGED <<phase, plan, todo>>
    BY <1>5 DEF Ack
  <2>2. c \in Minted /\ c \in Ids /\ plan[d] \in SUBSET Ids
    BY DEF TypeOK, Owned, MintedBy, Minted
  <2>3. /\ phase' \in [Devices -> Phases]
        /\ plan' \in [Devices -> SUBSET Ids]
        /\ batch' \in [Devices -> SUBSET Ids]
        /\ todo' \in [Devices -> [Slots -> SUBSET Ids]]
    <3>1. CASE SendBatch(d, plan[d])
      BY <2>2, <3>1, SendBatchType
    <3>2. CASE batch' = [batch EXCEPT ![d] = @ \ {c}] /\ UNCHANGED <<phase, plan, todo>>
      BY <3>2 DEF TypeOK
    <3> QED BY <2>1, <3>1, <3>2
  <2>4. results' \in [Devices -> [Ids -> Results]]
    BY <2>1 DEF TypeOK, Results
  <2>5. /\ status' \in [Ids -> Statuses] /\ Minted' = Minted
        /\ overlay' \in [Devices -> SUBSET Effect]
    <3>1. status' \in [Ids -> Statuses] /\ Minted' = Minted
      BY <2>1, <2>2 DEF Acknowledge, TypeOK, Statuses, Minted
    <3>2. overlay[d] \ EffectsOf(d, c) \in SUBSET Effect
      BY DEF TypeOK
    <3>3. CASE overlay' = [overlay EXCEPT ![d] = @ \ EffectsOf(d, c)]
      BY <3>1, <3>2, <3>3 DEF TypeOK
    <3>4. CASE UNCHANGED overlay
      BY <3>1, <3>4 DEF TypeOK
    <3> QED BY <2>1, <3>1, <3>3, <3>4 DEF Acknowledge
  <2> QED BY <1>5, <2>3, <2>4, <2>5 DEF Ack, TypeOK, tables
<1> QED BY <1>1, <1>2, <1>3, <1>4, <1>5 DEF DrainStep

\* The verb handlers keep the tables well typed.
LEMMA RunHandlerType ==
  ASSUME TypeOK, NEW c \in Minted, RunHandler(c)
  PROVE  /\ state' \in [Rows -> {"absent", "live", "deleted"}]
         /\ stamp' \in [Rows -> 0 .. MaxCommands]
         /\ value' \in [Rows -> [Fields -> 0 .. MaxCommands]]
         /\ version' \in [Rows -> [Fields -> 0 .. MaxCommands]]
         /\ conflicts' \subseteq [cmd : Ids, field : Fields]
<1> DEFINE r == cmd[c].row
<1>1. /\ c \in Ids /\ c \in 0 .. MaxCommands
      /\ r \in Rows /\ cmd[c].fields \subseteq Fields
  BY BoundsAssumption DEF TypeOK, Minted, Command, Ids
<1>2. CASE ApplyCreate(c)
  <2>1. [f \in Fields |-> c] \in [Fields -> 0 .. MaxCommands]
    BY <1>1
  <2>2. /\ [state EXCEPT ![r] = "live"] \in [Rows -> {"absent", "live", "deleted"}]
        /\ [stamp EXCEPT ![r] = c] \in [Rows -> 0 .. MaxCommands]
    BY <1>1 DEF TypeOK
  <2>3. [value EXCEPT ![r] = [f \in Fields |-> c]] \in [Rows -> [Fields -> 0 .. MaxCommands]]
    BY <1>1, <2>1, UpdateType DEF TypeOK
  <2>4. \/ UNCHANGED <<state, stamp, value>>
        \/ /\ state' = [state EXCEPT ![r] = "live"]
           /\ stamp' = [stamp EXCEPT ![r] = c]
           /\ value' = [value EXCEPT ![r] = [f \in Fields |-> c]]
    BY <1>2 DEF ApplyCreate
  <2>5. UNCHANGED <<version, conflicts>>
    BY <1>2 DEF ApplyCreate
  <2> QED BY <2>2, <2>3, <2>4, <2>5 DEF TypeOK
<1>3. CASE ApplyUpdate(c)
  <2> DEFINE win == WinningFields(c)
             over(g) == [f \in Fields |-> IF f \in win THEN c ELSE g[f]]
  <2>1. \A g \in [Fields -> 0 .. MaxCommands] : over(g) \in [Fields -> 0 .. MaxCommands]
    BY <1>1
  <2>2. /\ value' = [value EXCEPT ![r] = over(value[r])]
        /\ version' = [version EXCEPT ![r] = over(version[r])]
    BY <1>3 DEF ApplyUpdate
  <2> HIDE DEF over
  <2>3. /\ value' \in [Rows -> [Fields -> 0 .. MaxCommands]]
        /\ version' \in [Rows -> [Fields -> 0 .. MaxCommands]]
    BY <1>1, <2>1, <2>2 DEF TypeOK
  <2>4. stamp' \in [Rows -> 0 .. MaxCommands]
    BY <1>1, <1>3 DEF ApplyUpdate, TypeOK
  <2>5. conflicts' \subseteq [cmd : Ids, field : Fields]
    BY <1>1, <1>3 DEF ApplyUpdate, LosingFields, TypeOK
  <2> QED BY <1>3, <2>3, <2>4, <2>5 DEF ApplyUpdate, TypeOK
<1>4. CASE ApplyDelete(c)
  BY <1>1, <1>4 DEF ApplyDelete, TypeOK
<1> QED BY <1>2, <1>3, <1>4 DEF RunHandler

\* An answer is recorded among the results of its device.
LEMMA AnswerType ==
  ASSUME TypeOK, NEW d \in Devices, NEW k \in Slots, NEW c \in Ids,
         NEW result \in Results, Answer(d, k, c, result)
  PROVE  results' \in [Devices -> [Ids -> Results]]
<1>1. CASE k = "cur"
  BY <1>1, UpdateType2 DEF Answer, TypeOK
<1>2. CASE k # "cur"
  BY <1>2 DEF Answer, TypeOK
<1> QED BY <1>1, <1>2

\* The server keeps the state well typed.
LEMMA ServerStepType ==
  ASSUME TypeOK, Owned, NEW d \in Devices, NEW k \in Slots, ServerStep(d, k)
  PROVE  TypeOK'
<1>1. ASSUME NEW c \in todo[d][k], HandleCommand(d, k, c)
      PROVE  /\ c \in Ids /\ c \in Minted /\ c \in 0 .. MaxCommands
             /\ todo' \in [Devices -> [Slots -> SUBSET Ids]]
             /\ UNCHANGED <<cmd, status, overlay, replica, phase, plan, batch, review, faults>>
             /\ Minted' = Minted
  <2>1. c \in Ids /\ c \in Minted /\ c \in 0 .. MaxCommands
    BY BoundsAssumption DEF TypeOK, Owned, MintedBy, Minted, Ids
  <2>2. todo[d][k] \ {c} \in SUBSET Ids
    BY DEF TypeOK
  <2>3. todo' = [todo EXCEPT ![d][k] = todo[d][k] \ {c}]
    BY <1>1 DEF HandleCommand
  <2>4. todo' \in [Devices -> [Slots -> SUBSET Ids]]
    BY <2>2, <2>3 DEF TypeOK
  <2> QED BY <1>1, <2>1, <2>4 DEF HandleCommand, device, Minted
<1>2. ASSUME NEW c \in todo[d][k], AnswerNoop(d, k, c) PROVE TypeOK'
  <2>1. results' \in [Devices -> [Ids -> Results]]
    BY <1>1, <1>2, AnswerType DEF AnswerNoop, Results
  <2> QED BY <1>1, <1>2, <2>1 DEF AnswerNoop, TypeOK, tables
<1>3. ASSUME NEW c \in todo[d][k], ApplyCommand(d, k, c) PROVE TypeOK'
  <2>1. results' \in [Devices -> [Ids -> Results]]
    BY <1>1, <1>3, AnswerType DEF ApplyCommand, Results
  <2>2. log' \in [Ids -> {"none", "applied", "rejected"}]
    BY <1>3 DEF ApplyCommand, TypeOK
  <2> QED BY <1>1, <1>3, <2>1, <2>2, RunHandlerType DEF ApplyCommand, TypeOK
<1>4. ASSUME NEW c \in todo[d][k], RejectCommand(d, k, c) PROVE TypeOK'
  <2>1. results' \in [Devices -> [Ids -> Results]]
    BY <1>1, <1>4, AnswerType DEF RejectCommand, Results
  <2>2. log' \in [Ids -> {"none", "applied", "rejected"}]
    BY <1>4 DEF RejectCommand, TypeOK
  <2>3. owed' \in [Devices -> [Slots -> 0 .. MaxCommands]]
    BY <1>1, <1>4, UpdateType2 DEF RejectCommand, TypeOK
  <2> QED BY <1>1, <1>4, <2>1, <2>2, <2>3 DEF RejectCommand, TypeOK
<1>5. CASE CreateReviewItem(d, k)
  <2>1. owed' \in [Devices -> [Slots -> 0 .. MaxCommands]]
    BY <1>5, BoundsAssumption, UpdateType2 DEF CreateReviewItem, TypeOK
  <2>2. owed[d][k] \in 0 .. MaxCommands /\ owed[d][k] # 0
    BY <1>5 DEF CreateReviewItem, TypeOK
  <2>3. owed[d][k] \in Ids
    BY <2>2, BoundsAssumption DEF Ids
  <2>4. review' \subseteq Ids
    BY <1>5, <2>3 DEF CreateReviewItem, TypeOK
  <2> QED BY <1>5, <2>1, <2>4 DEF CreateReviewItem, TypeOK, device, drain, tables, Minted
<1> QED BY <1>2, <1>3, <1>4, <1>5 DEF ServerStep

\* A download brings rows of the replica.
LEMMA SyncDownType ==
  ASSUME TypeOK, NEW d \in Devices, SyncDown(d)
  PROVE  TypeOK'
<1>1. \A r \in Rows : Canonical(r) \in ReplicaRow
  BY BoundsAssumption DEF Canonical, ReplicaRow, Absent, Blank, TypeOK
<1>2. [r \in Rows |-> Canonical(r)] \in [Rows -> ReplicaRow]
  BY <1>1
<1>3. replica' \in [Devices -> [Rows -> ReplicaRow]]
  BY <1>2, UpdateType DEF SyncDown, TypeOK
<1> QED BY <1>3 DEF SyncDown, TypeOK, drain, tables, Minted

\* Failures.
LEMMA OrphanType ==
  ASSUME TypeOK, NEW d \in Devices, Orphan(d)
  PROVE  /\ todo' \in [Devices -> [Slots -> SUBSET Ids]]
         /\ owed' \in [Devices -> [Slots -> 0 .. MaxCommands]]
<1>1. Slots = {"cur", "old"} /\ 0 \in 0 .. MaxCommands
  BY BoundsAssumption DEF Slots
<1>2. CASE /\ todo' = [todo EXCEPT ![d] = [old |-> @["cur"], cur |-> {}]]
           /\ owed' = [owed EXCEPT ![d] = [old |-> @["cur"], cur |-> 0]]
  <2>1. [old |-> todo[d]["cur"], cur |-> {}] \in [Slots -> SUBSET Ids]
    BY <1>1 DEF TypeOK
  <2>2. [old |-> owed[d]["cur"], cur |-> 0] \in [Slots -> 0 .. MaxCommands]
    BY <1>1 DEF TypeOK
  <2> QED BY <1>2, <2>1, <2>2 DEF TypeOK
<1>3. CASE /\ todo' = [todo EXCEPT ![d]["cur"] = {}]
           /\ owed' = [owed EXCEPT ![d]["cur"] = 0]
  <2>1. "cur" \in Slots /\ {} \in SUBSET Ids
    BY <1>1
  <2> QED BY <1>1, <1>3, <2>1, UpdateType2 DEF TypeOK
<1> QED BY <1>2, <1>3 DEF Orphan

\* A drain that stops leaves nothing in hand.
LEMMA IdleType ==
  ASSUME TypeOK, NEW d \in Devices, Idle(d)
  PROVE  /\ phase' \in [Devices -> Phases]
         /\ plan' \in [Devices -> SUBSET Ids]
         /\ batch' \in [Devices -> SUBSET Ids]
         /\ results' \in [Devices -> [Ids -> Results]]
<1>1. [c \in Ids |-> "none"] \in [Ids -> Results]
  BY DEF Results
<1> QED BY <1>1 DEF Idle, TypeOK, Phases

\* A failure of the link, of the app or of the server keeps the types.
LEMMA FailureType ==
  ASSUME TypeOK, NEW d \in Devices, NEW k \in Slots,
         UploadFails(d) \/ AppRestarts(d) \/ ServerDies(d, k)
  PROVE  TypeOK'
<1>1. CASE UploadFails(d)
  <2>1. faults' \in 0 .. MaxFaults
    BY <1>1, BoundsAssumption DEF UploadFails, TypeOK
  <2> QED BY <1>1, <2>1, OrphanType, IdleType
          DEF UploadFails, TypeOK, device, tables, Minted
<1>2. CASE AppRestarts(d)
  <2>1. faults' \in 0 .. MaxFaults
    BY <1>2, BoundsAssumption DEF AppRestarts, TypeOK
  <2>2. status' \in [Ids -> Statuses]
    BY <1>2 DEF AppRestarts, TypeOK, Statuses
  <2>3. Minted' = Minted
    BY <1>2 DEF AppRestarts, Minted, WithStatus, MintedBy
  <2> QED BY <1>2, <2>1, <2>2, <2>3, OrphanType, IdleType
          DEF AppRestarts, TypeOK, tables
<1>3. CASE ServerDies(d, k)
  <2>1. faults' \in 0 .. MaxFaults
    BY <1>3, BoundsAssumption DEF ServerDies, TypeOK
  <2>2. todo' \in [Devices -> [Slots -> SUBSET Ids]]
    BY <1>3, UpdateType2 DEF ServerDies, TypeOK
  <2>3. owed' \in [Devices -> [Slots -> 0 .. MaxCommands]]
    BY <1>3, BoundsAssumption, UpdateType2 DEF ServerDies, TypeOK
  <2>4. /\ phase' \in [Devices -> Phases]
        /\ plan' \in [Devices -> SUBSET Ids]
        /\ batch' \in [Devices -> SUBSET Ids]
        /\ results' \in [Devices -> [Ids -> Results]]
    BY <1>3, IdleType DEF ServerDies, drain, TypeOK
  <2> QED BY <1>3, <2>1, <2>2, <2>3, <2>4
          DEF ServerDies, TypeOK, device, tables, Minted
<1> QED BY <1>1, <1>2, <1>3

-----------------------------------------------------------------------------
\* An envelope never changes once minted.
LEMMA EnvelopeFixed ==
  ASSUME TypeOK, Owned, [Next]_vars, NEW c \in Minted
  PROVE  c \in Minted' /\ cmd'[c] = cmd[c]
<1>1. c \in Ids
  BY DEF Minted
<1>2. ASSUME NEW d \in Devices, NEW verb, NEW r, NEW fields, NEW deps, NEW writes,
             Execute(d, verb, r, fields, deps, writes)
      PROVE  c \in Minted' /\ cmd'[c] = cmd[c]
  <2>1. PICK x \in Ids \ Minted :
          /\ \E v : cmd' = [cmd EXCEPT ![x] = v]
          /\ status' = [status EXCEPT ![x] = "draft"]
    BY <1>2 DEF Execute, FreshHlc
  <2> QED BY <1>1, <2>1 DEF TypeOK, Minted
<1>3. ASSUME NEW d \in Devices, UserWrites(d)
      PROVE  c \in Minted' /\ cmd'[c] = cmd[c]
  BY <1>2, <1>3 DEF UserWrites, CreateNode, UpdateNode, DeleteNode
<1>4. CASE UNCHANGED <<cmd, status>>
  BY <1>4 DEF Minted
<1>5. ASSUME NEW x \in Ids, NEW s, s # "unminted", status' = [status EXCEPT ![x] = s],
             UNCHANGED cmd
      PROVE  c \in Minted' /\ cmd'[c] = cmd[c]
  BY <1>1, <1>5 DEF TypeOK, Minted
<1>6. ASSUME NEW d \in Devices, Enqueue(d)
      PROVE  c \in Minted' /\ cmd'[c] = cmd[c]
  BY <1>5, <1>6 DEF Enqueue, WithStatus, MintedBy, Minted
<1>7. ASSUME NEW d \in Devices, DrainStep(d)
      PROVE  c \in Minted' /\ cmd'[c] = cmd[c]
  <2>1. CASE StartDrain(d) \/ PendingCommands(d) \/ Respond(d)
    BY <1>4, <2>1 DEF StartDrain, PendingCommands, Respond, device
  <2>2. CASE ReconcileConfirmed(d)
    BY <1>4, <1>5, <2>2 DEF ReconcileConfirmed, TypeOK
  <2>3. CASE Ack(d)
    BY <1>5, <2>3 DEF Ack, Acknowledge, TypeOK
  <2> QED BY <1>7, <2>1, <2>2, <2>3 DEF DrainStep
<1>8. ASSUME NEW d \in Devices, SyncDown(d) \/ UploadFails(d)
      PROVE  c \in Minted' /\ cmd'[c] = cmd[c]
  BY <1>4, <1>8 DEF SyncDown, UploadFails, device
<1>9. ASSUME NEW d \in Devices, AppRestarts(d)
      PROVE  c \in Minted' /\ cmd'[c] = cmd[c]
  BY <1>9 DEF AppRestarts, Minted, WithStatus, MintedBy
<1>10. ASSUME NEW d \in Devices, NEW k \in Slots, ServerStep(d, k) \/ ServerDies(d, k)
       PROVE  c \in Minted' /\ cmd'[c] = cmd[c]
  BY <1>4, <1>10 DEF ServerStep, ServerDies, AnswerNoop, ApplyCommand, RejectCommand,
                     CreateReviewItem, HandleCommand, device
<1>11. CASE UNCHANGED vars
  BY <1>4, <1>11 DEF vars, device
<1> QED BY <1>3, <1>6, <1>7, <1>8, <1>9, <1>10, <1>11 DEF Next

\* A device drains and answers for no command but its own.
LEMMA OwnedStep ==
  ASSUME TypeOK, Owned, [Next]_vars
  PROVE  Owned'
<1> DEFINE Ours ==
      \A x \in Devices :
        /\ plan'[x] \subseteq MintedBy(x)
        /\ batch'[x] \subseteq MintedBy(x)
        /\ \A k \in Slots : todo'[x][k] \subseteq MintedBy(x)
        /\ \A e \in overlay'[x] : e.cmd \in MintedBy(x)
<1>1. \A x \in Devices : MintedBy(x) \subseteq MintedBy(x)'
  BY EnvelopeFixed DEF MintedBy
<1>2. SUFFICES Ours
  BY <1>1 DEF Owned
<1> USE DEF Owned
<1>3. CASE UNCHANGED <<plan, batch, todo, overlay>>
  BY <1>3
<1>4. ASSUME NEW d \in Devices, NEW S \in SUBSET MintedBy(d), SendBatch(d, S),
             UNCHANGED overlay
      PROVE  Ours
  BY <1>4 DEF SendBatch, FirstBatch, TypeOK, Slots
<1>5. ASSUME NEW d \in Devices, UserWrites(d) PROVE Ours
  BY <1>3, <1>5 DEF UserWrites, CreateNode, UpdateNode, DeleteNode, Execute, drain
<1>6. ASSUME NEW d \in Devices, Enqueue(d) PROVE Ours
  <2>1. PICK c \in WithStatus(d, "draft") :
          overlay' = [overlay EXCEPT ![d] =
             @ \cup {[cmd |-> c, row |-> w.row, op |-> w.op] : w \in cmd[c].writes}]
    BY <1>6 DEF Enqueue
  <2>2. c \in MintedBy(d)
    BY DEF WithStatus
  <2>3. \A x \in Devices : \A e \in overlay'[x] : e.cmd \in MintedBy(x)
    BY <2>1, <2>2 DEF TypeOK
  <2> QED BY <1>6, <2>3 DEF Enqueue, drain
<1>7. ASSUME NEW d \in Devices, DrainStep(d) PROVE Ours
  <2>1. CASE StartDrain(d)
    BY <2>1 DEF StartDrain, TypeOK, device, WithStatus
  <2>2. CASE ReconcileConfirmed(d)
    <3>1. \A x \in Devices : plan'[x] \subseteq plan[x] /\ overlay'[x] \subseteq overlay[x]
      BY <2>2 DEF ReconcileConfirmed, TypeOK
    <3> QED BY <2>2, <3>1 DEF ReconcileConfirmed
  <2>3. CASE PendingCommands(d)
    BY <1>4, <2>3 DEF PendingCommands, WithStatus, device
  <2>4. CASE Respond(d)
    BY <1>3, <2>4 DEF Respond, device
  <2>5. CASE Ack(d)
    <3>1. PICK c \in batch[d] :
            /\ Acknowledge(d, c)
            /\ \/ SendBatch(d, plan[d])
               \/ /\ batch' = [batch EXCEPT ![d] = @ \ {c}]
                  /\ UNCHANGED <<phase, plan, todo>>
      BY <2>5 DEF Ack
    <3>2. \A x \in Devices : overlay'[x] \subseteq overlay[x]
      <4>1. CASE overlay' = [overlay EXCEPT ![d] = @ \ EffectsOf(d, c)]
        BY <4>1 DEF TypeOK
      <4>2. CASE UNCHANGED overlay
        BY <4>2
      <4> QED BY <3>1, <4>1, <4>2 DEF Acknowledge
    <3>3. CASE SendBatch(d, plan[d])
      BY <3>2, <3>3 DEF SendBatch, FirstBatch, TypeOK, Slots
    <3>4. CASE /\ batch' = [batch EXCEPT ![d] = @ \ {c}]
               /\ UNCHANGED <<phase, plan, todo>>
      BY <3>2, <3>4 DEF TypeOK
    <3> QED BY <3>1, <3>3, <3>4
  <2> QED BY <1>7, <2>1, <2>2, <2>3, <2>4, <2>5 DEF DrainStep
<1>8. ASSUME NEW d \in Devices, SyncDown(d) PROVE Ours
  BY <1>3, <1>8 DEF SyncDown, drain
<1>9. ASSUME NEW d \in Devices, Idle(d), Orphan(d), UNCHANGED overlay PROVE Ours
  <2>1. \A x \in Devices : plan'[x] \subseteq plan[x] /\ batch'[x] \subseteq batch[x]
    BY <1>9 DEF Idle, TypeOK
  <2>2. ASSUME NEW x \in Devices, NEW k \in Slots
        PROVE  todo'[x][k] \subseteq todo[x]["cur"] \cup todo[x]["old"]
    <3>1. k = "cur" \/ k = "old"
      BY DEF Slots
    <3>2. CASE todo' = [todo EXCEPT ![d] = [old |-> @["cur"], cur |-> {}]]
      BY <3>1, <3>2 DEF TypeOK
    <3>3. CASE todo' = [todo EXCEPT ![d]["cur"] = {}]
      BY <3>1, <3>3 DEF TypeOK, Slots
    <3> QED BY <1>9, <3>2, <3>3 DEF Orphan
  <2> QED BY <1>9, <2>1, <2>2 DEF Slots
<1>10. ASSUME NEW d \in Devices, UploadFails(d) \/ AppRestarts(d) PROVE Ours
  BY <1>9, <1>10 DEF UploadFails, AppRestarts, device
<1>11. ASSUME NEW d \in Devices, NEW k \in Slots, ServerDies(d, k) PROVE Ours
  BY <1>11 DEF ServerDies, Idle, TypeOK, Slots, device, drain
<1>12. ASSUME NEW d \in Devices, NEW k \in Slots, ServerStep(d, k) PROVE Ours
  <2>1. UNCHANGED <<plan, batch, overlay>>
    BY <1>12 DEF ServerStep, AnswerNoop, ApplyCommand, RejectCommand, CreateReviewItem,
                 HandleCommand, device, drain
  <2>2. \A x \in Devices, j \in Slots : todo'[x][j] \subseteq todo[x][j]
    <3>1. \/ \E c \in todo[d][k] : todo' = [todo EXCEPT ![d][k] = @ \ {c}]
          \/ UNCHANGED todo
      BY <1>12 DEF ServerStep, AnswerNoop, ApplyCommand, RejectCommand, CreateReviewItem,
                   HandleCommand
    <3>2. ASSUME NEW c \in todo[d][k], todo' = [todo EXCEPT ![d][k] = @ \ {c}],
                 NEW x \in Devices, NEW j \in Slots
          PROVE  todo'[x][j] \subseteq todo[x][j]
      BY <3>2 DEF TypeOK
    <3> QED BY <3>1, <3>2
  <2> QED BY <2>1, <2>2
<1>13. CASE UNCHANGED vars
  BY <1>3, <1>13 DEF vars, device, drain
<1> QED BY <1>5, <1>6, <1>7, <1>8, <1>10, <1>11, <1>12, <1>13 DEF Next

\* The state of the protocol is well typed, and every device and every request
\* handles its own minted commands only.
THEOREM TypeCorrect == Spec => [](TypeOK /\ Owned)
<1>1. Init => TypeOK /\ Owned
  <2> SUFFICES ASSUME Init PROVE TypeOK /\ Owned
    OBVIOUS
  <2> USE DEF Init
  <2>1. Minted = {}
    BY DEF Minted
  <2>2. \A b \in BOOLEAN : Blank(b) \in ReplicaRow
    BY BoundsAssumption DEF Blank, ReplicaRow
  <2>3. replica \in [Devices -> [Rows -> ReplicaRow]]
    <3>1. \A r \in Rows : Blank(r \in InitRows) \in ReplicaRow
      <4> TAKE r \in Rows
      <4>1. (r \in InitRows) \in BOOLEAN
        OBVIOUS
      <4> HIDE DEF Init
      <4> QED BY <2>2, <4>1
    <3>2. [r \in Rows |-> Blank(r \in InitRows)] \in [Rows -> ReplicaRow]
      BY <3>1
    <3> QED BY <3>2
  <2>4. TypeOK
    BY <2>1, <2>3, BoundsAssumption, RowsAssumption DEF TypeOK, Statuses, Phases, Results
  <2>5. Owned
    BY DEF Owned
  <2> QED BY <2>4, <2>5
<1>2. TypeOK /\ Owned /\ [Next]_vars => TypeOK' /\ Owned'
  <2> SUFFICES ASSUME TypeOK, Owned, [Next]_vars PROVE TypeOK'
    BY OwnedStep
  <2>1. CASE UNCHANGED vars
    BY <2>1 DEF vars, device, drain, tables, TypeOK, Minted
  <2> QED BY <2>1, UserWritesType, EnqueueType, DrainStepType, SyncDownType, FailureType,
             ServerStepType DEF Next, Slots
<1> QED BY <1>1, <1>2, PTL DEF Spec

-----------------------------------------------------------------------------
\* The tables change only when a request applies or rejects a command.
LEMMA TableSteps ==
  ASSUME [Next]_vars
  PROVE  \/ UNCHANGED tables
         \/ \E d \in Devices, k \in Slots : \E c \in todo[d][k] :
              ApplyCommand(d, k, c) \/ RejectCommand(d, k, c)
<1>1. ASSUME NEW d \in Devices, NEW k \in Slots, ServerStep(d, k)
      PROVE  \/ UNCHANGED tables
             \/ \E c \in todo[d][k] : ApplyCommand(d, k, c) \/ RejectCommand(d, k, c)
  BY <1>1 DEF ServerStep, AnswerNoop, CreateReviewItem
<1>2. ASSUME NEW d \in Devices, UserWrites(d) PROVE UNCHANGED tables
  BY <1>2 DEF UserWrites, CreateNode, UpdateNode, DeleteNode, Execute
<1>3. ASSUME NEW d \in Devices, DrainStep(d) PROVE UNCHANGED tables
  BY <1>3 DEF DrainStep, StartDrain, ReconcileConfirmed, PendingCommands, Respond, Ack
<1>4. ASSUME NEW d \in Devices, Enqueue(d) \/ SyncDown(d) \/ UploadFails(d) \/ AppRestarts(d)
      PROVE  UNCHANGED tables
  BY <1>4 DEF Enqueue, SyncDown, UploadFails, AppRestarts
<1>5. ASSUME NEW d \in Devices, NEW k \in Slots, ServerDies(d, k)
      PROVE  UNCHANGED tables
  BY <1>5 DEF ServerDies
<1>6. CASE UNCHANGED vars
  BY <1>6 DEF vars
<1> QED BY <1>1, <1>2, <1>3, <1>4, <1>5, <1>6 DEF Next

\* What a request that takes up a command is known to hold.
LEMMA CommandTaken ==
  ASSUME TypeOK, Owned, NEW d \in Devices, NEW k \in Slots, NEW c \in todo[d][k],
         HandleCommand(d, k, c)
  PROVE  /\ c \in Ids /\ c \in Minted /\ cmd[c] \in Command /\ cmd[c].dev = d
         /\ cmd' = cmd /\ status' = status /\ Minted' = Minted
<1>1. c \in MintedBy(d)
  BY DEF Owned
<1> QED BY <1>1 DEF HandleCommand, device, TypeOK, MintedBy, Minted

\* Only minted commands are logged, and rows that do not exist yet have no field
\* versions: what makes LastWriterWins inductive.
LwwInv ==
  /\ \A c \in Ids : log[c] # "none" => c \in Minted
  /\ \A r \in Rows, f \in Fields : state[r] = "absent" => version[r][f] = 0
  /\ LastWriterWins

\* What LastWriterWins says of one field, with its writers spelled out.
FieldOK(r, f) ==
  /\ \A c \in Minted : /\ log[c] = "applied"
                       /\ cmd[c].verb = "update" /\ cmd[c].row = r /\ f \in cmd[c].fields
                       => c <= version[r][f]
  /\ version[r][f] # 0 =>
       LET c == version[r][f] IN
       /\ c \in Minted /\ log[c] = "applied"
       /\ cmd[c].verb = "update" /\ cmd[c].row = r /\ f \in cmd[c].fields
       /\ value[r][f] = c
  /\ version[r][f] = 0 /\ value[r][f] # 0 =>
       LET c == value[r][f] IN
       c \in Minted /\ cmd[c].verb = "create" /\ cmd[c].row = r /\ log[c] = "applied"

\* Last-writer-wins, one field of one row at a time.
LEMMA LwwByField == LastWriterWins <=> \A r \in Rows, f \in Fields : FieldOK(r, f)
  BY DEF LastWriterWins, Writers, FieldOK

\* Logging a verdict keeps the fields whose columns do not change.
LEMMA LwwApply ==
  ASSUME TypeOK, Owned, LwwInv,
         NEW d \in Devices, NEW k \in Slots, NEW c \in todo[d][k], ApplyCommand(d, k, c)
  PROVE  LwwInv'
<1>1. /\ c \in Ids /\ c \in Minted /\ cmd[c] \in Command /\ cmd[c].dev = d
      /\ cmd' = cmd /\ status' = status /\ Minted' = Minted
  BY CommandTaken DEF ApplyCommand
<1>2. /\ log[c] = "none" /\ HandlerAccepts(c) /\ RunHandler(c)
      /\ log' = [log EXCEPT ![c] = "applied"]
      /\ log' \in [Ids -> {"none", "applied", "rejected"}] /\ log'[c] = "applied"
      /\ \A x \in Ids : x # c => log'[x] = log[x]
      /\ \A x \in Ids : log[x] = "applied" => log'[x] = "applied"
  BY <1>1 DEF ApplyCommand, Accepts, TypeOK
<1>3. \A x \in Ids : log'[x] # "none" => x \in Minted'
  BY <1>1, <1>2 DEF LwwInv
<1>4. c \in Nat \ {0} /\ \A r \in Rows, f \in Fields : version[r][f] \in Nat
  BY <1>1, BoundsAssumption DEF Ids, TypeOK
<1>5. \A r \in Rows, f \in Fields : FieldOK(r, f)
  BY LwwByField DEF LwwInv
<1>6. CASE cmd[c].verb = "create" /\ ApplyCreate(c)
  <2>1. \A r \in Rows, f \in Fields : state'[r] = "absent" => version'[r][f] = 0
    BY <1>1, <1>6 DEF ApplyCreate, LwwInv, TypeOK, Command
  <2>2. ASSUME NEW r \in Rows, NEW f \in Fields PROVE FieldOK(r, f)'
    <3>1. version' = version
      BY <1>6 DEF ApplyCreate
    <3>2. CASE r = cmd[c].row /\ state[r] = "absent"
      <4>1. version[r][f] = 0 /\ value'[r][f] = c
        BY <1>1, <1>6, <3>2 DEF ApplyCreate, LwwInv, TypeOK
      <4> QED BY <1>1, <1>2, <1>5, <1>6, <3>1, <3>2, <4>1 DEF FieldOK, Minted
    <3>3. CASE ~(r = cmd[c].row /\ state[r] = "absent")
      <4>1. value'[r][f] = value[r][f]
        BY <1>1, <1>6, <3>3 DEF ApplyCreate, TypeOK
      <4> QED BY <1>1, <1>2, <1>5, <1>6, <3>1, <4>1 DEF FieldOK, Minted
    <3> QED BY <3>2, <3>3
  <2> QED BY <1>3, <2>1, <2>2, LwwByField DEF LwwInv, LastWriterWins, FieldOK, Writers
<1>7. CASE cmd[c].verb = "update" /\ ApplyUpdate(c)
  <2> DEFINE win == WinningFields(c)
  <2>1. state[cmd[c].row] # "absent" /\ state' = state
    BY <1>2, <1>7 DEF ApplyUpdate, HandlerAccepts
  <2>2. ASSUME NEW r \in Rows, NEW f \in Fields
        PROVE  IF r = cmd[c].row /\ f \in win
               THEN version'[r][f] = c /\ value'[r][f] = c
               ELSE version'[r][f] = version[r][f] /\ value'[r][f] = value[r][f]
    BY <1>1, <1>7 DEF ApplyUpdate, TypeOK
  <2>3. \A r \in Rows, f \in Fields : state'[r] = "absent" => version'[r][f] = 0
    BY <2>1, <2>2 DEF LwwInv
  <2>4. ASSUME NEW r \in Rows, NEW f \in Fields PROVE FieldOK(r, f)'
    <3>1. CASE r = cmd[c].row /\ f \in win
      <4>1. f \in cmd[c].fields /\ version[r][f] < c
        BY <3>1 DEF WinningFields
      <4> QED BY <1>1, <1>2, <1>4, <1>5, <1>7, <2>2, <3>1, <4>1 DEF FieldOK, Minted, Ids
    <3>2. CASE ~(r = cmd[c].row /\ f \in win)
      <4>1. r = cmd[c].row /\ f \in cmd[c].fields => c <= version[r][f]
        BY <1>4, <3>2 DEF WinningFields
      <4> QED BY <1>1, <1>2, <1>4, <1>5, <1>7, <2>2, <3>2, <4>1 DEF FieldOK, Minted, Ids
    <3> QED BY <3>1, <3>2
  <2> QED BY <1>3, <2>3, <2>4, LwwByField DEF LwwInv, LastWriterWins, FieldOK, Writers
<1>8. CASE cmd[c].verb = "delete" /\ ApplyDelete(c)
  <2>1. \A r \in Rows, f \in Fields : state'[r] = "absent" => version'[r][f] = 0
    BY <1>8 DEF ApplyDelete, LwwInv
  <2>2. \A r \in Rows, f \in Fields : FieldOK(r, f)'
    BY <1>1, <1>2, <1>5, <1>8 DEF ApplyDelete, FieldOK, Minted
  <2> QED BY <1>3, <2>1, <2>2, LwwByField DEF LwwInv, LastWriterWins, FieldOK, Writers
<1> QED BY <1>2, <1>6, <1>7, <1>8 DEF RunHandler

\* The invariant of the fields holds throughout.
LEMMA FieldsSound == Spec => []LwwInv
<1>1. Init => LwwInv
  <2> SUFFICES ASSUME Init PROVE LwwInv
    OBVIOUS
  <2>1. Minted = {}
    BY DEF Init, Minted
  <2>2. \A r \in Rows, f \in Fields : version[r][f] = 0 /\ value[r][f] = 0
    BY DEF Init
  <2> QED BY <2>1, <2>2 DEF Init, LwwInv, LastWriterWins, Writers
<1>2. TypeOK /\ Owned /\ LwwInv /\ [Next]_vars => LwwInv'
  <2> SUFFICES ASSUME TypeOK, Owned, LwwInv, [Next]_vars PROVE LwwInv'
    OBVIOUS
  <2>1. ASSUME NEW d \in Devices, NEW k \in Slots, NEW c \in todo[d][k],
               RejectCommand(d, k, c)
        PROVE  LwwInv'
    <3>1. c \in Minted /\ c \in Ids /\ cmd' = cmd /\ Minted' = Minted
      BY <2>1, CommandTaken DEF RejectCommand
    <3>2. /\ log' = [log EXCEPT ![c] = "rejected"] /\ log[c] = "none"
          /\ UNCHANGED <<state, value, version>>
      BY <2>1 DEF RejectCommand
    <3>3. \A x \in Ids : /\ log'[x] # "none" => x \in Minted'
                         /\ log'[x] = "applied" <=> log[x] = "applied"
      BY <3>1, <3>2 DEF LwwInv, TypeOK
    <3> QED BY <3>1, <3>2, <3>3 DEF LwwInv, LastWriterWins, Writers, Minted
  <2>2. CASE UNCHANGED tables
    <3>1. \A c \in Minted : c \in Minted' /\ cmd'[c] = cmd[c]
      BY EnvelopeFixed
    <3>2. \A c \in Ids : log'[c] # "none" => c \in Minted'
      BY <2>2, <3>1 DEF LwwInv, tables
    <3>3. \A r \in Rows, f \in Fields : Writers(r, f)' = Writers(r, f)
      BY <2>2, <3>1 DEF Writers, LwwInv, tables, Minted
    <3> QED BY <2>2, <3>1, <3>2, <3>3 DEF LwwInv, LastWriterWins, tables, Writers
  <2> QED BY <2>1, <2>2, LwwApply, TableSteps
<1> QED BY <1>1, <1>2, TypeCorrect, PTL DEF Spec

\* Per-field last-writer-wins: whatever the order in which commands arrive, get
\* lost, are retried or rejected, each field holds the applied write with the
\* greatest HLC.
THEOREM FieldsConverge == Spec => []LastWriterWins
<1>1. LwwInv => LastWriterWins
  BY DEF LwwInv
<1> QED BY <1>1, FieldsSound, PTL

-----------------------------------------------------------------------------
\* Tombstones: no step of the protocol leaves the deleted state of a row.
THEOREM TombstonesAreFinal == Spec => TombstoneIsFinal
<1>1. TypeOK /\ Owned /\ [Next]_vars =>
        [\A r \in Rows : state[r] = "deleted" => state'[r] = "deleted"]_vars
  <2> SUFFICES ASSUME TypeOK, Owned, [Next]_vars, NEW r \in Rows, state[r] = "deleted"
               PROVE  state'[r] = "deleted"
    OBVIOUS
  <2>1. ASSUME NEW d \in Devices, NEW k \in Slots, NEW c \in todo[d][k],
               ApplyCommand(d, k, c)
        PROVE  state'[r] = "deleted"
    <3>1. CASE ApplyCreate(c)
      BY <3>1 DEF ApplyCreate, TypeOK
    <3>2. CASE ApplyUpdate(c)
      BY <3>2 DEF ApplyUpdate
    <3>3. CASE ApplyDelete(c)
      BY <3>3 DEF ApplyDelete
    <3> QED BY <2>1, <3>1, <3>2, <3>3 DEF ApplyCommand, RunHandler
  <2>2. ASSUME NEW d \in Devices, NEW k \in Slots, NEW c \in todo[d][k],
               RejectCommand(d, k, c)
        PROVE  state'[r] = "deleted"
    BY <2>2 DEF RejectCommand
  <2>3. CASE UNCHANGED tables
    BY <2>3 DEF tables
  <2> QED BY <2>1, <2>2, <2>3, TableSteps
<1> QED BY <1>1, TypeCorrect, PTL DEF Spec, TombstoneIsFinal

-----------------------------------------------------------------------------
(* Delivery: nothing is lost, and causal order.                               *)

Logged(c) == log[c] # "none"

\* The statuses of a command that has its verdict.
Decided == {"applied", "rejected", "gone"}

\* A verdict the client has taken is in the log.
StatusLogged == \A c \in Minted : status[c] \in Decided => Logged(c)

\* Only minted commands are logged.
LoggedMinted == \A c \in Ids : Logged(c) => c \in Minted

\* What the drain of a device holds in each of its phases.
DrainOK(d) ==
  /\ phase[d] = "idle" => plan[d] = {}
  /\ phase[d] = "reconcile" => \A c \in plan[d] : Logged(c)
  /\ phase[d] \in {"idle", "reconcile"} => batch[d] = {} /\ todo[d]["cur"] = {}
  /\ phase[d] = "await" => \A c \in batch[d] : c \in todo[d]["cur"] \/ Logged(c)
  /\ phase[d] = "ack" => todo[d]["cur"] = {} /\ \A c \in batch[d] : Logged(c)

\* The history of a command: earlier commands of the same device that had been
\* enqueued.
AfterInv ==
  \A c2 \in Minted : \A c1 \in cmd[c2].after :
    /\ c1 \in Minted /\ cmd[c1].dev = cmd[c2].dev /\ c1 < c2
    /\ status[c1] \in {"pending"} \cup Decided

\* T holds the undecided commands before each one of S.
Closed(S, T) == \A c2 \in S : \A c1 \in cmd[c2].after : c1 \in T \/ Logged(c1)

\* Requests and plans skip no undecided command.
QueueOK(d) ==
  /\ \A k \in Slots : Closed(todo[d][k], todo[d][k])
  /\ phase[d] \in {"await", "ack"} => Closed(plan[d], plan[d] \cup batch[d])

\* The inductive invariant of delivery.
DeliveryInv ==
  /\ StatusLogged
  /\ LoggedMinted
  /\ AfterInv
  /\ \A d \in Devices : DrainOK(d) /\ QueueOK(d)
  /\ CausalDelivery

\* A verdict stays in the log, and comes from a request that holds the command.
LEMMA LogGrows ==
  ASSUME TypeOK, Owned, [Next]_vars, NEW c \in Ids
  PROVE  /\ Logged(c) => Logged(c)'
         /\ Logged(c)' => Logged(c) \/ c \in Minted
<1>1. ASSUME NEW d \in Devices, NEW k \in Slots, NEW x \in todo[d][k],
             ApplyCommand(d, k, x) \/ RejectCommand(d, k, x)
      PROVE  /\ Logged(c) => Logged(c)'
             /\ Logged(c)' => Logged(c) \/ c \in Minted
  <2>1. x \in Ids /\ x \in Minted
    BY <1>1, CommandTaken DEF ApplyCommand, RejectCommand
  <2> QED BY <1>1, <2>1 DEF ApplyCommand, RejectCommand, TypeOK, Logged
<1>2. CASE UNCHANGED tables
  BY <1>2 DEF tables, Logged
<1> QED BY <1>1, <1>2, TableSteps

\* What is closed stays closed.
LEMMA ClosedStays ==
  ASSUME TypeOK, Owned, AfterInv, [Next]_vars, NEW S \in SUBSET Minted, NEW T, Closed(S, T)
  PROVE  \A c2 \in S : \A c1 \in cmd'[c2].after : c1 \in T \/ Logged(c1)'
<1> SUFFICES ASSUME NEW c2 \in S, NEW c1 \in cmd'[c2].after PROVE c1 \in T \/ Logged(c1)'
  OBVIOUS
<1>1. c2 \in Minted /\ c1 \in cmd[c2].after
  BY EnvelopeFixed
<1>2. c1 \in T \/ Logged(c1)
  BY <1>1 DEF Closed
<1>3. c1 \in Ids
  BY <1>1 DEF AfterInv, Minted
<1> QED BY <1>2, <1>3, LogGrows

\* A batch taken from a closed queue is closed: causal order survives the
\* splitting into requests.
LEMMA FirstBatchClosed ==
  ASSUME TypeOK, AfterInv, NEW S \in SUBSET Minted, Closed(S, S)
  PROVE  Closed(FirstBatch(S), FirstBatch(S))
<1> SUFFICES ASSUME NEW c2 \in FirstBatch(S), NEW c1 \in cmd[c2].after, ~Logged(c1)
             PROVE  c1 \in FirstBatch(S)
  BY DEF Closed
<1>1. c2 \in S /\ c1 \in S /\ c1 < c2
  BY DEF Closed, FirstBatch, AfterInv
<1>2. /\ S \subseteq 1 .. MaxCommands
      /\ c1 \in Int /\ c2 \in Int
  BY <1>1 DEF Minted, Ids
<1> DEFINE B1 == {x \in S : x < c1}
           B2 == {x \in S : x < c2}
<1>3. IsFiniteSet(B2)
  <2>1. IsFiniteSet(1 .. MaxCommands)
    BY BoundsAssumption, FS_Interval
  <2>2. B2 \subseteq 1 .. MaxCommands
    BY <1>2
  <2> QED BY <2>1, <2>2, FS_Subset
<1>4. B1 \subseteq B2
  <2> SUFFICES ASSUME NEW x \in S, x < c1 PROVE x < c2
    OBVIOUS
  <2>1. x \in 1 .. MaxCommands
    BY <1>2
  <2>2. x \in Int
    BY <2>1, BoundsAssumption
  <2> QED BY <1>1, <1>2, <2>2
<1>5. /\ Cardinality(B1) <= Cardinality(B2)
      /\ Cardinality(B1) \in Nat /\ Cardinality(B2) \in Nat
  BY <1>3, <1>4, FS_Subset, FS_CardinalityType
<1>6. Cardinality(B2) < MaxBatch
  BY DEF FirstBatch
<1> HIDE DEF B1, B2
<1>7. Cardinality(B1) < MaxBatch
  BY <1>5, <1>6, BoundsAssumption
<1> QED BY <1>1, <1>7 DEF FirstBatch, B1

\* Posting the next batch of a closed queue.
LEMMA SendBatchDelivers ==
  ASSUME TypeOK, Owned, AfterInv, NEW d \in Devices, NEW S \in SUBSET MintedBy(d),
         Closed(S, S), DrainOK(d), QueueOK(d), SendBatch(d, S), UNCHANGED <<cmd, log>>
  PROVE  /\ DrainOK(d)' /\ QueueOK(d)'
         /\ \A x \in Devices \ {d} :
              /\ phase'[x] = phase[x] /\ plan'[x] = plan[x] /\ batch'[x] = batch[x]
              /\ todo'[x] = todo[x]
<1> DEFINE B == FirstBatch(S)
<1>1. /\ phase'[d] = (IF S = {} THEN "idle" ELSE "await")
      /\ batch'[d] = B /\ plan'[d] = S \ B
      /\ todo'[d]["cur"] = B /\ todo'[d]["old"] = todo[d]["old"]
      /\ \A x \in Devices \ {d} :
           /\ phase'[x] = phase[x] /\ plan'[x] = plan[x] /\ batch'[x] = batch[x]
           /\ todo'[x] = todo[x]
  BY DEF SendBatch, TypeOK, Slots
<1>2. B \subseteq S /\ (S = {} => B = {})
  BY DEF FirstBatch
<1>3. Closed(B, B)
  BY FirstBatchClosed DEF MintedBy
<1> HIDE DEF B
<1>4. Closed(S \ B, (S \ B) \cup B)
  BY <1>2 DEF Closed
<1>5. DrainOK(d)'
  BY <1>1, <1>2 DEF DrainOK
<1>6. QueueOK(d)'
  BY <1>1, <1>3, <1>4 DEF QueueOK, Closed, Slots, Logged
<1> QED BY <1>1, <1>5, <1>6

\* A step that leaves the queues of a device alone keeps what is known of them.
LEMMA QueuesKept ==
  ASSUME TypeOK, Owned, AfterInv, [Next]_vars, NEW d \in Devices, DrainOK(d), QueueOK(d),
         phase'[d] = phase[d], plan'[d] = plan[d], batch'[d] = batch[d], todo'[d] = todo[d]
  PROVE  DrainOK(d)' /\ QueueOK(d)'
<1>1. \A c \in plan[d] \cup batch[d] : c \in Ids
  BY DEF TypeOK
<1>2. DrainOK(d)'
  BY <1>1, LogGrows DEF DrainOK
<1>3. /\ plan[d] \in SUBSET Minted
      /\ \A k \in Slots : todo[d][k] \in SUBSET Minted
  BY DEF Owned, MintedBy
<1>4. QueueOK(d)'
  BY <1>3, ClosedStays DEF QueueOK, Closed
<1> QED BY <1>2, <1>4

\* A step of a device or of a request.  The commands it mints or whose status it
\* moves are treated by the caller.
LEMMA HistoryKept ==
  ASSUME TypeOK, Owned, DeliveryInv, [Next]_vars,
         Minted' = Minted,
         \A c \in Minted : \/ status'[c] = status[c]
                           \/ status'[c] = "pending"
                           \/ status'[c] \in Decided /\ Logged(c)'
                           \/ status[c] = "draft" /\ status'[c] = "dropped",
         log' = log
  PROVE  StatusLogged' /\ LoggedMinted' /\ AfterInv' /\ CausalDelivery'
<1>1. \A c \in Minted : c \in Ids /\ cmd'[c] = cmd[c] /\ (Logged(c) => Logged(c)')
  BY EnvelopeFixed, LogGrows DEF Minted
<1>2. StatusLogged'
  BY <1>1 DEF StatusLogged, DeliveryInv, Decided
<1>3. LoggedMinted'
  BY DEF LoggedMinted, DeliveryInv, Logged
<1>4. AfterInv'
  BY <1>1 DEF AfterInv, DeliveryInv, Decided
<1>5. CausalDelivery'
  BY <1>1 DEF CausalDelivery, DeliveryInv
<1> QED BY <1>2, <1>3, <1>4, <1>5

\* A new command: its history is what its device has queued so far.
LEMMA ExecuteDelivers ==
  ASSUME TypeOK, Owned, DeliveryInv, [Next]_vars, NEW d \in Devices,
         NEW verb, NEW r, NEW fields, NEW deps, NEW writes,
         Execute(d, verb, r, fields, deps, writes)
  PROVE  DeliveryInv'
<1> DEFINE past == MintedBy(d) \ (WithStatus(d, "draft") \cup WithStatus(d, "dropped"))
<1>1. PICK c \in Ids \ Minted :
        /\ \A x \in MintedBy(d) : x < c
        /\ \E new : /\ cmd' = [cmd EXCEPT ![c] = new]
                    /\ new.dev = d /\ new.after = past
        /\ status' = [status EXCEPT ![c] = "draft"]
  <2> DEFINE Env(u, dep) ==
        [dev |-> d, verb |-> verb, row |-> r, fields |-> fields,
         dep |-> dep, uid |-> u, writes |-> writes, after |-> past]
  <2>1. PICK c \in Ids, u \in Ids, dep \in deps :
          /\ FreshHlc(d, c)
          /\ cmd' = [cmd EXCEPT ![c] = Env(u, dep)]
          /\ status' = [status EXCEPT ![c] = "draft"]
    BY DEF Execute
  <2>2. Env(u, dep).dev = d /\ Env(u, dep).after = past
    OBVIOUS
  <2> HIDE DEF Env, past
  <2> QED BY <2>1, <2>2 DEF FreshHlc
<1>2. /\ cmd'[c].dev = d /\ cmd'[c].after = past
      /\ Minted' = Minted \cup {c}
      /\ UNCHANGED <<phase, plan, batch, todo, log>>
      /\ \A x \in Minted : cmd'[x] = cmd[x] /\ status'[x] = status[x]
      /\ status'[c] = "draft" /\ ~Logged(c)
  BY <1>1 DEF Execute, drain, tables, TypeOK, Minted, DeliveryInv, LoggedMinted
<1> HIDE DEF past
<1>3. StatusLogged' /\ LoggedMinted' /\ CausalDelivery'
  BY <1>2 DEF StatusLogged, LoggedMinted, CausalDelivery, DeliveryInv, Decided, Logged
<1>4. ASSUME NEW c1 \in past
      PROVE  /\ c1 \in Minted /\ cmd[c1].dev = d /\ c1 < c
             /\ status[c1] \in {"pending"} \cup Decided
  BY <1>1 DEF past, WithStatus, MintedBy, Minted, TypeOK, Statuses, Decided
<1>5. AfterInv'
  BY <1>2, <1>4 DEF AfterInv, DeliveryInv, Minted
<1>6. ASSUME NEW x \in Devices PROVE DrainOK(x)' /\ QueueOK(x)'
  BY <1>2, QueuesKept DEF DeliveryInv
<1> QED BY <1>3, <1>5, <1>6 DEF DeliveryInv

\* The steps of the drain.
LEMMA DrainDelivers ==
  ASSUME TypeOK, Owned, DeliveryInv, [Next]_vars, NEW d \in Devices, DrainStep(d)
  PROVE  DeliveryInv'
<1> USE DEF DeliveryInv
<1>1. CASE StartDrain(d)
  <2>1. /\ UNCHANGED <<cmd, status, log, batch, todo>>
        /\ phase[d] = "idle" /\ phase'[d] = "reconcile"
        /\ plan'[d] = WithStatus(d, "applied")
        /\ \A x \in Devices \ {d} : phase'[x] = phase[x] /\ plan'[x] = plan[x]
    BY <1>1 DEF StartDrain, device, tables, TypeOK
  <2>2. StatusLogged' /\ LoggedMinted' /\ AfterInv' /\ CausalDelivery'
    BY <2>1, HistoryKept DEF Minted
  <2>3. DrainOK(d)' /\ QueueOK(d)'
    <3>1. \A c \in WithStatus(d, "applied") : Logged(c)
      BY DEF WithStatus, MintedBy, StatusLogged, Decided
    <3> QED BY <2>1, <3>1 DEF DrainOK, QueueOK, Closed, Logged
  <2>4. \A x \in Devices \ {d} : DrainOK(x)' /\ QueueOK(x)'
    BY <2>1, QueuesKept
  <2> QED BY <2>2, <2>3, <2>4
<1>2. CASE ReconcileConfirmed(d)
  <2>1. PICK c \in plan[d] :
          /\ phase[d] = "reconcile"
          /\ plan' = [plan EXCEPT ![d] = @ \ {c}]
          /\ status' = [status EXCEPT ![c] = "gone"] \/ UNCHANGED status
          /\ UNCHANGED <<cmd, log, phase, batch, todo>>
    BY <1>2 DEF ReconcileConfirmed, tables
  <2>2. c \in Ids /\ c \in Minted /\ Logged(c)
    BY <2>1 DEF DrainOK, Owned, MintedBy, Minted
  <2>3. StatusLogged' /\ LoggedMinted' /\ AfterInv' /\ CausalDelivery'
    <3>1. Minted' = Minted
      BY <2>1, <2>2 DEF Minted, TypeOK
    <3>2. \A x \in Minted : status'[x] = status[x] \/ (status'[x] = "gone" /\ Logged(x)')
      BY <2>1, <2>2 DEF Minted, TypeOK, Logged
    <3> QED BY <2>1, <3>1, <3>2, HistoryKept DEF Decided
  <2>4. /\ plan'[d] = plan[d] \ {c}
        /\ \A x \in Devices \ {d} : plan'[x] = plan[x]
    BY <2>1 DEF TypeOK
  <2>5. DrainOK(d)' /\ QueueOK(d)'
    BY <2>1, <2>4 DEF DrainOK, QueueOK, Closed, Logged
  <2>6. \A x \in Devices \ {d} : DrainOK(x)' /\ QueueOK(x)'
    BY <2>1, <2>4, QueuesKept
  <2> QED BY <2>3, <2>5, <2>6
<1>3. CASE PendingCommands(d)
  <2> DEFINE S == WithStatus(d, "pending")
  <2>1. UNCHANGED <<cmd, status, log>> /\ SendBatch(d, S)
    BY <1>3 DEF PendingCommands, device, tables
  <2>2. StatusLogged' /\ LoggedMinted' /\ AfterInv' /\ CausalDelivery'
    BY <2>1, HistoryKept DEF Minted
  <2>3. S \in SUBSET MintedBy(d)
    BY DEF WithStatus
  <2>4. Closed(S, S)
    BY DEF Closed, AfterInv, StatusLogged, WithStatus, MintedBy, Decided
  <2>5. /\ DrainOK(d)' /\ QueueOK(d)'
        /\ \A x \in Devices \ {d} :
             /\ phase'[x] = phase[x] /\ plan'[x] = plan[x] /\ batch'[x] = batch[x]
             /\ todo'[x] = todo[x]
    BY <2>1, <2>3, <2>4, SendBatchDelivers
  <2>6. \A x \in Devices \ {d} : DrainOK(x)' /\ QueueOK(x)'
    BY <2>5, QueuesKept
  <2> QED BY <2>2, <2>5, <2>6
<1>4. CASE Respond(d)
  <2>1. /\ UNCHANGED <<cmd, status, log, plan, batch, todo>>
        /\ phase[d] = "await" /\ phase'[d] = "ack" /\ todo[d]["cur"] = {}
        /\ \A x \in Devices \ {d} : phase'[x] = phase[x]
    BY <1>4 DEF Respond, device, tables, TypeOK
  <2>2. StatusLogged' /\ LoggedMinted' /\ AfterInv' /\ CausalDelivery'
    BY <2>1, HistoryKept DEF Minted
  <2>3. DrainOK(d)' /\ QueueOK(d)'
    BY <2>1 DEF DrainOK, QueueOK, Closed, Logged
  <2>4. \A x \in Devices \ {d} : DrainOK(x)' /\ QueueOK(x)'
    BY <2>1, QueuesKept
  <2> QED BY <2>2, <2>3, <2>4
<1>5. CASE Ack(d)
  <2>1. PICK c \in batch[d] :
          /\ phase[d] = "ack"
          /\ \/ status' = [status EXCEPT ![c] = "rejected"]
             \/ status' = [status EXCEPT ![c] = "applied"]
          /\ \/ batch[d] = {c} /\ SendBatch(d, plan[d])
             \/ /\ batch' = [batch EXCEPT ![d] = @ \ {c}]
                /\ UNCHANGED <<phase, plan, todo>>
          /\ UNCHANGED <<cmd, log>>
    BY <1>5 DEF Ack, Acknowledge, tables
  <2>2. c \in Ids /\ c \in Minted /\ Logged(c)
    BY <2>1 DEF DrainOK, Owned, MintedBy, Minted
  <2>3. StatusLogged' /\ LoggedMinted' /\ AfterInv' /\ CausalDelivery'
    <3>1. Minted' = Minted
      BY <2>1, <2>2 DEF Minted, TypeOK
    <3>2. \A x \in Minted : \/ status'[x] = status[x]
                            \/ status'[x] \in {"applied", "rejected"} /\ Logged(x)'
      BY <2>1, <2>2 DEF Minted, TypeOK, Logged
    <3> QED BY <2>1, <3>1, <3>2, HistoryKept DEF Decided
  <2>4. CASE batch[d] = {c} /\ SendBatch(d, plan[d])
    <3>1. plan[d] \in SUBSET MintedBy(d)
      BY DEF Owned
    <3>2. Closed(plan[d], plan[d])
      BY <2>1, <2>2, <2>4 DEF QueueOK, Closed
    <3>3. /\ DrainOK(d)' /\ QueueOK(d)'
          /\ \A x \in Devices \ {d} :
               /\ phase'[x] = phase[x] /\ plan'[x] = plan[x] /\ batch'[x] = batch[x]
               /\ todo'[x] = todo[x]
      BY <2>1, <2>4, <3>1, <3>2, SendBatchDelivers
    <3>4. \A x \in Devices \ {d} : DrainOK(x)' /\ QueueOK(x)'
      BY <3>3, QueuesKept
    <3> QED BY <2>3, <3>3, <3>4
  <2>5. CASE /\ batch' = [batch EXCEPT ![d] = @ \ {c}]
             /\ UNCHANGED <<phase, plan, todo>>
    <3>1. /\ batch'[d] = batch[d] \ {c}
          /\ \A x \in Devices \ {d} : batch'[x] = batch[x]
      BY <2>5 DEF TypeOK
    <3>2. DrainOK(d)' /\ QueueOK(d)'
      BY <2>1, <2>2, <2>5, <3>1 DEF DrainOK, QueueOK, Closed, Logged
    <3>3. \A x \in Devices \ {d} : DrainOK(x)' /\ QueueOK(x)'
      BY <2>5, <3>1, QueuesKept
    <3> QED BY <2>3, <3>2, <3>3
  <2> QED BY <2>1, <2>4, <2>5
<1> QED BY <1>1, <1>2, <1>3, <1>4, <1>5 DEF DrainStep

\* The steps of a request on the server.
LEMMA ServerDelivers ==
  ASSUME TypeOK, Owned, DeliveryInv, [Next]_vars, NEW d \in Devices, NEW k \in Slots,
         ServerStep(d, k)
  PROVE  DeliveryInv'
<1> USE DEF DeliveryInv
<1>1. ASSUME NEW c \in todo[d][k], HandleCommand(d, k, c), Logged(c)',
             \A x \in Ids : x # c => log'[x] = log[x]
      PROVE  DeliveryInv'
  <2>1. /\ c \in Ids /\ c \in Minted /\ Minted' = Minted
        /\ cmd' = cmd /\ status' = status
    BY <1>1, CommandTaken
  <2>2. /\ UNCHANGED <<phase, plan, batch>>
        /\ \A x \in todo[d][k] : c <= x
        /\ todo'[d][k] = todo[d][k] \ {c}
        /\ \A j \in Slots \ {k} : todo'[d][j] = todo[d][j]
        /\ \A x \in Devices \ {d} : todo'[x] = todo[x]
    BY <1>1 DEF HandleCommand, NextInOrder, TypeOK
  <2>3. \A x \in Ids : (Logged(x) => Logged(x)') /\ (Logged(x)' => Logged(x) \/ x = c)
    BY <1>1 DEF Logged
  <2>4. StatusLogged' /\ LoggedMinted' /\ AfterInv'
    BY <2>1, <2>3 DEF StatusLogged, LoggedMinted, AfterInv, Minted
  <2>5. \A c1 \in cmd[c].after : Logged(c1)
    <3> SUFFICES ASSUME NEW c1 \in cmd[c].after, ~Logged(c1) PROVE FALSE
      OBVIOUS
    <3>1. c1 \in todo[d][k]
      BY <1>1 DEF QueueOK, Closed
    <3>2. c1 < c /\ c1 \in Int /\ c \in Int
      BY <2>1, <3>1 DEF AfterInv, Minted, Ids
    <3> QED BY <2>2, <3>1, <3>2
  <2>6. CausalDelivery'
    <3> SUFFICES ASSUME NEW c2 \in Minted, Logged(c2)', NEW c1 \in cmd[c2].after
                 PROVE  Logged(c1)'
      BY <2>1 DEF CausalDelivery, Logged
    <3>1. c1 \in Ids /\ c2 \in Ids
      BY DEF AfterInv, Minted
    <3>2. Logged(c1)
      BY <2>3, <2>5, <3>1 DEF CausalDelivery, Logged
    <3> QED BY <2>3, <3>1, <3>2
  <2>7. ASSUME NEW j \in Slots
        PROVE  \A c2 \in todo'[d][j] : \A c1 \in cmd[c2].after :
                 c1 \in todo'[d][j] \/ Logged(c1)'
    <3> SUFFICES ASSUME NEW c2 \in todo'[d][j], NEW c1 \in cmd[c2].after
                 PROVE  c1 \in todo'[d][j] \/ Logged(c1)'
      OBVIOUS
    <3>1. c2 \in todo[d][j] /\ c2 \in Minted
      BY <2>2 DEF Owned, MintedBy
    <3>2. c1 \in todo[d][j] \/ Logged(c1)
      BY <3>1 DEF QueueOK, Closed
    <3>3. c1 \in Ids
      BY <3>1 DEF AfterInv, Minted
    <3> QED BY <1>1, <2>2, <2>3, <3>2, <3>3
  <2>8. DrainOK(d)'
    <3>1. \A x \in plan[d] \cup batch[d] : x \in Ids
      BY DEF TypeOK
    <3>2. todo'[d]["cur"] \subseteq todo[d]["cur"]
          /\ \A x \in todo[d]["cur"] : x \in todo'[d]["cur"] \/ Logged(x)'
      BY <1>1, <2>2 DEF Slots
    <3> QED BY <2>2, <2>3, <3>1, <3>2 DEF DrainOK
  <2>9. QueueOK(d)'
    <3>1. phase[d] \in {"await", "ack"} =>
            \A c2 \in plan[d] : \A c1 \in cmd[c2].after :
              c1 \in plan[d] \cup batch[d] \/ Logged(c1)'
      <4>1. plan[d] \subseteq Minted
        BY DEF Owned, MintedBy
      <4> QED BY <2>3, <4>1 DEF QueueOK, Closed, AfterInv, Minted
    <3> QED BY <2>1, <2>2, <2>7, <3>1 DEF QueueOK, Closed
  <2>10. \A x \in Devices \ {d} : DrainOK(x)' /\ QueueOK(x)'
    BY <2>2, QueuesKept
  <2> QED BY <2>4, <2>6, <2>8, <2>9, <2>10
<1>2. ASSUME NEW c \in todo[d][k], AnswerNoop(d, k, c) PROVE DeliveryInv'
  BY <1>1, <1>2 DEF AnswerNoop, tables, Logged
<1>3. ASSUME NEW c \in todo[d][k], ApplyCommand(d, k, c) \/ RejectCommand(d, k, c)
      PROVE  DeliveryInv'
  <2>1. HandleCommand(d, k, c) /\ c \in Ids
    BY <1>3 DEF ApplyCommand, RejectCommand, TypeOK
  <2>2. Logged(c)' /\ \A x \in Ids : x # c => log'[x] = log[x]
    BY <1>3, <2>1 DEF ApplyCommand, RejectCommand, TypeOK, Logged
  <2> QED BY <1>1, <2>1, <2>2
<1>4. CASE CreateReviewItem(d, k)
  <2>1. UNCHANGED <<cmd, status, log, phase, plan, batch, todo>>
    BY <1>4 DEF CreateReviewItem, device, drain, tables
  <2>2. StatusLogged' /\ LoggedMinted' /\ AfterInv' /\ CausalDelivery'
    BY <2>1, HistoryKept DEF Minted
  <2>3. \A x \in Devices : DrainOK(x)' /\ QueueOK(x)'
    BY <2>1, QueuesKept
  <2> QED BY <2>2, <2>3
<1> QED BY <1>2, <1>3, <1>4 DEF ServerStep

\* Failures: what is abandoned was closed, and what is dropped was never queued.
LEMMA FailureDelivers ==
  ASSUME TypeOK, Owned, DeliveryInv, [Next]_vars, NEW d \in Devices, NEW k \in Slots,
         UploadFails(d) \/ AppRestarts(d) \/ ServerDies(d, k)
  PROVE  DeliveryInv'
<1> USE DEF DeliveryInv
<1>1. UNCHANGED <<cmd, log>>
  BY DEF UploadFails, AppRestarts, ServerDies, device, tables
<1>2. StatusLogged' /\ LoggedMinted' /\ AfterInv' /\ CausalDelivery'
  <2>1. CASE UNCHANGED status
    BY <1>1, <2>1, HistoryKept DEF Minted
  <2>2. CASE AppRestarts(d)
    <3>1. \A c \in Minted : \/ status'[c] = status[c]
                            \/ status[c] = "draft" /\ status'[c] = "dropped"
      BY <2>2 DEF AppRestarts, WithStatus, MintedBy, Minted
    <3>2. Minted' = Minted
      BY <2>2 DEF AppRestarts, WithStatus, MintedBy, Minted
    <3> QED BY <1>1, <3>1, <3>2, HistoryKept
  <2> QED BY <2>1, <2>2 DEF UploadFails, ServerDies, device
<1>3. CASE UploadFails(d) \/ AppRestarts(d)
  <2>1. /\ phase'[d] = "idle" /\ plan'[d] = {} /\ batch'[d] = {} /\ todo'[d]["cur"] = {}
        /\ todo'[d]["old"] \in {todo[d]["old"], todo[d]["cur"]}
        /\ \A x \in Devices \ {d} :
             /\ phase'[x] = phase[x] /\ plan'[x] = plan[x] /\ batch'[x] = batch[x]
             /\ todo'[x] = todo[x]
    <3>1. Idle(d) /\ Orphan(d)
      BY <1>3 DEF UploadFails, AppRestarts
    <3>2. /\ phase'[d] = "idle" /\ plan'[d] = {} /\ batch'[d] = {}
          /\ \A x \in Devices \ {d} :
               phase'[x] = phase[x] /\ plan'[x] = plan[x] /\ batch'[x] = batch[x]
      BY <3>1 DEF Idle, TypeOK
    <3>3. /\ todo'[d]["cur"] = {} /\ todo'[d]["old"] \in {todo[d]["old"], todo[d]["cur"]}
          /\ \A x \in Devices \ {d} : todo'[x] = todo[x]
      BY <3>1 DEF Orphan, TypeOK, Slots
    <3> QED BY <3>2, <3>3
  <2>2. DrainOK(d)' /\ QueueOK(d)'
    BY <1>1, <2>1 DEF DrainOK, QueueOK, Closed, Logged, Slots
  <2>3. \A x \in Devices \ {d} : DrainOK(x)' /\ QueueOK(x)'
    BY <2>1, QueuesKept
  <2> QED BY <1>2, <2>2, <2>3
<1>4. CASE ServerDies(d, k)
  <2>1. /\ todo'[d][k] = {} /\ \A j \in Slots \ {k} : todo'[d][j] = todo[d][j]
        /\ \A x \in Devices \ {d} : todo'[x] = todo[x]
    BY <1>4 DEF ServerDies, TypeOK
  <2>2. CASE k = "cur"
    <3>1. /\ phase'[d] = "idle" /\ plan'[d] = {} /\ batch'[d] = {}
          /\ \A x \in Devices \ {d} :
               phase'[x] = phase[x] /\ plan'[x] = plan[x] /\ batch'[x] = batch[x]
      BY <1>4, <2>2 DEF ServerDies, Idle, TypeOK
    <3>2. DrainOK(d)' /\ QueueOK(d)'
      BY <1>1, <2>1, <2>2, <3>1 DEF DrainOK, QueueOK, Closed, Logged, Slots
    <3>3. \A x \in Devices \ {d} : DrainOK(x)' /\ QueueOK(x)'
      BY <2>1, <3>1, QueuesKept
    <3> QED BY <1>2, <3>2, <3>3
  <2>3. CASE k = "old"
    <3>1. UNCHANGED <<phase, plan, batch>> /\ todo'[d]["cur"] = todo[d]["cur"]
      BY <1>4, <2>1, <2>3 DEF ServerDies, drain, Slots
    <3>2. DrainOK(d)' /\ QueueOK(d)'
      BY <1>1, <2>1, <2>3, <3>1 DEF DrainOK, QueueOK, Closed, Logged, Slots
    <3>3. \A x \in Devices \ {d} : DrainOK(x)' /\ QueueOK(x)'
      BY <2>1, <3>1, QueuesKept
    <3> QED BY <1>2, <3>2, <3>3
  <2> QED BY <2>2, <2>3 DEF Slots
<1> QED BY <1>3, <1>4

\* The delivery invariant holds throughout.
THEOREM Delivery == Spec => []DeliveryInv
<1>1. Init => DeliveryInv
  <2> SUFFICES ASSUME Init PROVE DeliveryInv
    OBVIOUS
  <2>1. Minted = {} /\ \A c \in Ids : ~Logged(c)
    BY DEF Init, Minted, Logged
  <2>2. StatusLogged /\ LoggedMinted /\ AfterInv /\ CausalDelivery
    BY <2>1 DEF StatusLogged, LoggedMinted, AfterInv, CausalDelivery
  <2>3. \A d \in Devices : DrainOK(d) /\ QueueOK(d)
    BY DEF Init, DrainOK, QueueOK, Closed, Slots
  <2> QED BY <2>2, <2>3 DEF DeliveryInv
<1>2. TypeOK /\ Owned /\ DeliveryInv /\ [Next]_vars => DeliveryInv'
  <2> SUFFICES ASSUME TypeOK, Owned, DeliveryInv, [Next]_vars PROVE DeliveryInv'
    OBVIOUS
  <2>1. ASSUME NEW d \in Devices, UserWrites(d) PROVE DeliveryInv'
    BY <2>1, ExecuteDelivers DEF UserWrites, CreateNode, UpdateNode, DeleteNode
  <2>2. ASSUME UNCHANGED <<cmd, log, phase, plan, batch, todo>>, Minted' = Minted,
               \A c \in Minted : status'[c] = status[c] \/ status'[c] = "pending"
        PROVE  DeliveryInv'
    <3>1. StatusLogged' /\ LoggedMinted' /\ AfterInv' /\ CausalDelivery'
      BY <2>2, HistoryKept
    <3>2. \A x \in Devices : DrainOK(x)' /\ QueueOK(x)'
      BY <2>2, QueuesKept DEF DeliveryInv
    <3> QED BY <3>1, <3>2 DEF DeliveryInv
  <2>3. ASSUME NEW d \in Devices, Enqueue(d) PROVE DeliveryInv'
    <3>1. PICK c \in WithStatus(d, "draft") : status' = [status EXCEPT ![c] = "pending"]
      BY <2>3 DEF Enqueue
    <3>2. /\ Minted' = Minted
          /\ \A x \in Minted : status'[x] = status[x] \/ status'[x] = "pending"
      BY <3>1 DEF WithStatus, MintedBy, Minted, TypeOK
    <3> QED BY <2>2, <2>3, <3>2 DEF Enqueue, drain, tables
  <2>4. ASSUME NEW d \in Devices, SyncDown(d) PROVE DeliveryInv'
    BY <2>2, <2>4 DEF SyncDown, drain, tables, Minted
  <2>5. CASE UNCHANGED vars
    BY <2>2, <2>5 DEF vars, device, drain, tables, Minted
  <2> QED BY <2>1, <2>3, <2>4, <2>5, DrainDelivers, FailureDelivers, ServerDelivers
          DEF Next, Slots
<1> QED BY <1>1, <1>2, TypeCorrect, PTL DEF Spec

\* Causal order: whatever is lost, retried, abandoned or restarted, no command is
\* decided before one its device had queued when it was minted.
THEOREM CausalOrderKept == Spec => []CausalDelivery
<1>1. DeliveryInv => CausalDelivery
  BY DEF DeliveryInv
<1> QED BY <1>1, Delivery, PTL

\* No command leaves the queue of its device without a verdict of the server.
THEOREM NoCommandLost == Spec => []NothingLost
<1>1. DeliveryInv => NothingLost
  BY DEF DeliveryInv, StatusLogged, NothingLost, Decided, Logged
<1> QED BY <1>1, Delivery, PTL

-----------------------------------------------------------------------------
\* Idempotence: running a logged command again, from a retry or an abandoned
\* request, changes no table of the server.
THEOREM ReplaysAreInert == Spec => ReplayIsInert
<1>1. TypeOK /\ Owned /\ [Next]_vars =>
        [\A d \in Devices, k \in Slots :
           \A c \in todo[d][k] \ todo'[d][k] : log[c] # "none" => UNCHANGED tables]_vars
  <2> SUFFICES ASSUME TypeOK, Owned, [Next]_vars,
                      NEW d \in Devices, NEW k \in Slots,
                      NEW c \in todo[d][k] \ todo'[d][k], log[c] # "none"
               PROVE  UNCHANGED tables
    OBVIOUS
  <2>1. ASSUME NEW e \in Devices, NEW j \in Slots, NEW x \in todo[e][j],
               ApplyCommand(e, j, x) \/ RejectCommand(e, j, x)
        PROVE  FALSE
    <3>1. todo' = [todo EXCEPT ![e][j] = @ \ {x}] /\ log[x] = "none"
      BY <2>1 DEF ApplyCommand, RejectCommand, HandleCommand
    <3>2. c = x
      BY <3>1 DEF TypeOK
    <3> QED BY <3>1, <3>2
  <2> QED BY <2>1, TableSteps
<1> QED BY <1>1, TypeCorrect, PTL DEF Spec, ReplayIsInert

-----------------------------------------------------------------------------
\* Rollback: a device is told of a rejection only by the log.
RollbackInv ==
  /\ \A d \in Devices, c \in Ids : results[d][c] = "rejected" => log[c] = "rejected"
  /\ RollbackOnlyRejected

\* A rejection in the log is never revised.
LEMMA RejectionStays ==
  ASSUME TypeOK, Owned, [Next]_vars, NEW c \in Ids, log[c] = "rejected"
  PROVE  log'[c] = "rejected"
<1>1. ASSUME NEW e \in Devices, NEW j \in Slots, NEW x \in todo[e][j],
             ApplyCommand(e, j, x) \/ RejectCommand(e, j, x)
      PROVE  log'[c] = "rejected"
  BY <1>1 DEF ApplyCommand, RejectCommand, TypeOK
<1>2. CASE UNCHANGED tables
  BY <1>2 DEF tables
<1> QED BY <1>1, <1>2, TableSteps

\* Only answers move a result away from "none".
LEMMA ResultsStep ==
  ASSUME TypeOK, Owned, [Next]_vars, RollbackInv, NEW d \in Devices, NEW c \in Ids,
         results'[d][c] = "rejected"
  PROVE  log'[c] = "rejected"
<1>1. CASE results[d][c] = "rejected"
  BY <1>1, RejectionStays DEF RollbackInv
<1>2. CASE results[d][c] # "rejected"
  <2>1. ASSUME NEW e \in Devices, NEW k \in Slots, ServerStep(e, k)
        PROVE  log'[c] = "rejected"
    <3>1. ASSUME NEW x \in todo[e][k], NEW result \in Results, Answer(e, k, x, result),
                 result # "rejected"
          PROVE  FALSE
      BY <1>2, <3>1 DEF Answer, TypeOK
    <3>2. ASSUME NEW x \in todo[e][k], RejectCommand(e, k, x)
          PROVE  log'[c] = "rejected"
      <4>1. x = c
        BY <1>2, <3>2 DEF RejectCommand, Answer, TypeOK
      <4> QED BY <3>2, <4>1 DEF RejectCommand, TypeOK
    <3>3. CASE CreateReviewItem(e, k)
      BY <1>2, <3>3 DEF CreateReviewItem, drain
    <3> QED BY <2>1, <3>1, <3>2, <3>3 DEF ServerStep, AnswerNoop, ApplyCommand, Results
  <2>2. ASSUME NEW e \in Devices, Idle(e) PROVE FALSE
    BY <1>2, <2>2 DEF Idle, TypeOK
  <2>3. ASSUME NEW e \in Devices, Ack(e) PROVE FALSE
    BY <1>2, <2>3 DEF Ack, TypeOK
  <2>4. CASE UNCHANGED results
    BY <1>2, <2>4
  <2>5. ASSUME NEW e \in Devices, UserWrites(e) PROVE UNCHANGED results
    BY <2>5 DEF UserWrites, CreateNode, UpdateNode, DeleteNode, Execute, drain
  <2>6. ASSUME NEW e \in Devices, DrainStep(e) PROVE UNCHANGED results \/ Ack(e)
    BY <2>6 DEF DrainStep, StartDrain, ReconcileConfirmed, PendingCommands, Respond
  <2>7. ASSUME NEW e \in Devices, NEW k \in Slots,
               Enqueue(e) \/ SyncDown(e) \/ UploadFails(e) \/ AppRestarts(e) \/ ServerDies(e, k)
        PROVE  UNCHANGED results \/ Idle(e)
    BY <2>7 DEF Enqueue, SyncDown, UploadFails, AppRestarts, ServerDies, drain
  <2>8. CASE UNCHANGED vars
    BY <2>4, <2>8 DEF vars, drain
  <2> QED BY <2>1, <2>2, <2>3, <2>4, <2>5, <2>6, <2>7, <2>8 DEF Next, Slots
<1> QED BY <1>1, <1>2

\* A command is rolled back only when the server rejected it, and completely.
THEOREM RollbacksAreJustified == Spec => []RollbackOnlyRejected
<1>1. Init => RollbackInv
  BY DEF Init, RollbackInv, RollbackOnlyRejected, Minted
<1>2. TypeOK /\ Owned /\ RollbackInv /\ [Next]_vars => RollbackInv'
  <2> SUFFICES ASSUME TypeOK, Owned, RollbackInv, [Next]_vars PROVE RollbackInv'
    OBVIOUS
  <2>1. \A d \in Devices, c \in Ids : results'[d][c] = "rejected" => log'[c] = "rejected"
    BY ResultsStep
  <2> DEFINE Clean(c) == \A e \in overlay'[cmd[c].dev] : e.cmd # c
  <2>2. SUFFICES ASSUME NEW c \in Minted', status'[c] = "rejected"
                 PROVE  c \in Minted /\ log'[c] = "rejected" /\ Clean(c)
    BY <2>1, <2>2, EnvelopeFixed DEF RollbackInv, RollbackOnlyRejected, EffectsOf
  <2> USE DEF RollbackInv, RollbackOnlyRejected
  <2>3. c \in Ids
    BY DEF Minted
  <2>4. ASSUME status[c] = "rejected",
               \A x \in Devices : \A e \in overlay'[x] : e \in overlay[x] \/ e.cmd # c
        PROVE  c \in Minted /\ log'[c] = "rejected" /\ Clean(c)
    <3>1. c \in Minted /\ log[c] = "rejected" /\ EffectsOf(cmd[c].dev, c) = {}
      BY <2>3, <2>4 DEF Minted
    <3>2. cmd[c].dev \in Devices
      BY <3>1 DEF TypeOK, Command
    <3> QED BY <2>3, <2>4, <3>1, <3>2, RejectionStays DEF EffectsOf
  <2>5. ASSUME status'[c] = status[c], UNCHANGED overlay
        PROVE  c \in Minted /\ log'[c] = "rejected" /\ Clean(c)
    BY <2>2, <2>4, <2>5
  <2>6. ASSUME NEW d \in Devices, UserWrites(d)
        PROVE  c \in Minted /\ log'[c] = "rejected" /\ Clean(c)
    <3>1. /\ \E x \in Ids : status' = [status EXCEPT ![x] = "draft"]
          /\ UNCHANGED overlay
      BY <2>6 DEF UserWrites, CreateNode, UpdateNode, DeleteNode, Execute
    <3> QED BY <2>2, <2>3, <2>5, <3>1 DEF TypeOK
  <2>7. ASSUME NEW d \in Devices, Enqueue(d)
        PROVE  c \in Minted /\ log'[c] = "rejected" /\ Clean(c)
    <3>1. PICK x \in WithStatus(d, "draft") :
            /\ status' = [status EXCEPT ![x] = "pending"]
            /\ overlay' = [overlay EXCEPT ![d] =
                 @ \cup {[cmd |-> x, row |-> w.row, op |-> w.op] : w \in cmd[x].writes}]
      BY <2>7 DEF Enqueue
    <3>2. x # c /\ status'[c] = status[c]
      BY <2>2, <2>3, <3>1 DEF TypeOK
    <3>3. \A y \in Devices : \A e \in overlay'[y] : e \in overlay[y] \/ e.cmd # c
      BY <3>1, <3>2 DEF TypeOK
    <3> QED BY <2>2, <2>4, <3>2, <3>3
  <2>8. ASSUME NEW d \in Devices, DrainStep(d)
        PROVE  c \in Minted /\ log'[c] = "rejected" /\ Clean(c)
    <3>1. CASE StartDrain(d) \/ PendingCommands(d) \/ Respond(d)
      BY <2>5, <3>1 DEF StartDrain, PendingCommands, Respond, device
    <3>2. CASE ReconcileConfirmed(d)
      <4>1. \A y \in Devices : overlay'[y] \subseteq overlay[y]
        <5>1. CASE UNCHANGED overlay
          BY <5>1
        <5>2. ASSUME NEW x, overlay' = [overlay EXCEPT ![d] = @ \ Settled(d, x)]
              PROVE  \A y \in Devices : overlay'[y] \subseteq overlay[y]
          BY <5>2 DEF TypeOK
        <5> QED BY <3>2, <5>1, <5>2 DEF ReconcileConfirmed
      <4>2. status'[c] = status[c]
        BY <2>2, <2>3, <3>2 DEF ReconcileConfirmed, TypeOK
      <4> QED BY <2>2, <2>4, <4>1, <4>2
    <3>3. CASE Ack(d)
      <4>1. PICK x \in batch[d] : Acknowledge(d, x)
        BY <3>3 DEF Ack
      <4>2. x \in Ids /\ x \in MintedBy(d)
        BY DEF TypeOK, Owned
      <4>3. CASE x = c
        <5>1. /\ results[d][c] = "rejected"
              /\ overlay' = [overlay EXCEPT ![d] = @ \ EffectsOf(d, c)]
          BY <2>2, <2>3, <4>1, <4>3 DEF Acknowledge, TypeOK
        <5>2. c \in Minted /\ cmd[c].dev = d
          BY <4>2, <4>3 DEF MintedBy
        <5>3. Clean(c)
          BY <5>1, <5>2 DEF EffectsOf, TypeOK
        <5> QED BY <2>3, <5>1, <5>2, <5>3, RejectionStays
      <4>4. CASE x # c
        <5>1. status'[c] = status[c]
          BY <2>3, <4>1, <4>4 DEF Acknowledge, TypeOK
        <5>2. \A y \in Devices : overlay'[y] \subseteq overlay[y]
          <6>1. CASE UNCHANGED overlay
            BY <6>1
          <6>2. CASE overlay' = [overlay EXCEPT ![d] = @ \ EffectsOf(d, x)]
            BY <6>2 DEF TypeOK
          <6> QED BY <4>1, <6>1, <6>2 DEF Acknowledge
        <5> QED BY <2>2, <2>4, <5>1, <5>2
      <4> QED BY <4>3, <4>4
    <3> QED BY <2>8, <3>1, <3>2, <3>3 DEF DrainStep
  <2>9. ASSUME NEW d \in Devices, AppRestarts(d)
        PROVE  c \in Minted /\ log'[c] = "rejected" /\ Clean(c)
    <3>1. status'[c] = status[c] /\ UNCHANGED overlay
      BY <2>2, <2>3, <2>9 DEF AppRestarts
    <3> QED BY <2>5, <3>1
  <2>10. ASSUME NEW d \in Devices, NEW k \in Slots,
                SyncDown(d) \/ UploadFails(d) \/ ServerDies(d, k) \/ ServerStep(d, k)
         PROVE  UNCHANGED <<status, overlay>>
    BY <2>10 DEF SyncDown, UploadFails, ServerDies, ServerStep, AnswerNoop, ApplyCommand,
                 RejectCommand, CreateReviewItem, HandleCommand, device
  <2>11. CASE UNCHANGED vars
    BY <2>5, <2>11 DEF vars, device
  <2> QED BY <2>5, <2>6, <2>7, <2>8, <2>9, <2>10, <2>11 DEF Next, Slots
<1>3. RollbackInv => RollbackOnlyRejected
  BY DEF RollbackInv
<1> QED BY <1>1, <1>2, <1>3, TypeCorrect, PTL DEF Spec
-----------------------------------------------------------------------------
(* What a pending write shows.                                                *)

\* On the server a live row has a live parent, and what was created is there.
RowsInv ==
  /\ \A r \in Rows : state[r] = "live" /\ Parent[r] # NoRow => state[Parent[r]] = "live"
  /\ \A c \in Minted : log[c] = "applied" /\ cmd[c].verb = "create" => state[cmd[c].row] # "absent"
  /\ \A d \in Devices, r \in Rows : replica[d][r].here => state[r] # "absent"

\* Row r hangs somewhere under `root`.
Below(root, r) ==
  \A T \in SUBSET Rows :
    root \in T /\ (\A y \in Rows : Parent[y] \in T => y \in T) => r \in T

\* The row is on the server, or one of the commands A creates it.
Known(r, A) ==
  \/ state[r] # "absent"
  \/ \E a \in A : cmd[a].verb = "create" /\ cmd[a].row = r

\* The commands a device has enqueued.
Past(d) == MintedBy(d) \ (WithStatus(d, "draft") \cup WithStatus(d, "dropped"))

\* The row writes of an envelope: of a row that it knows, under the one it names.
WriteOK(c, w) ==
  /\ w.op = "insert" => cmd[c].verb = "create" /\ w.row = cmd[c].row
  /\ w.op = "delete" => cmd[c].verb = "delete" /\ cmd[c].dep = 0 /\ Below(cmd[c].row, w.row)
  /\ w.op # "insert" => Known(w.row, cmd[c].after)

EnvelopesInv ==
  /\ \A c \in Minted : /\ \E w \in cmd[c].writes : w.row = cmd[c].row
                       /\ \A w \in cmd[c].writes : WriteOK(c, w)
  /\ \A a, b \in Minted : cmd[a].verb = "create" /\ cmd[b].verb = "create" /\ cmd[a].row = cmd[b].row
                           => a = b

\* An overlay holds row writes of enqueued commands.
ShownInv ==
  \A d \in Devices : \A e \in overlay[d] :
    /\ [row |-> e.row, op |-> e.op] \in cmd[e.cmd].writes
    /\ status[e.cmd] \in {"pending"} \cup Decided

\* A row that is deleted, or never was.
Gone(r) == state[r] = "deleted" \/ NeverMade(r)

\* A delete that has its verdict has left none of its rows.
DeletesDone ==
  \A c \in Minted : Logged(c) => \A w \in cmd[c].writes : w.op = "delete" => Gone(w.row)

KeptInv == RowsInv /\ EnvelopesInv /\ ShownInv /\ DeletesDone /\ PendingKeepsOverlay

\* How the state of a row moves.
LEMMA StateMoves ==
  ASSUME TypeOK, Owned, [Next]_vars, NEW r \in Rows
  PROVE  /\ state[r] = "deleted" => state'[r] = "deleted"
         /\ state[r] # "absent" => state'[r] # "absent"
         /\ state[r] = "absent" /\ state'[r] # "absent" =>
              \E c \in Minted : /\ cmd[c].verb = "create" /\ cmd[c].row = r
                               /\ log[c] = "none"
<1>1. ASSUME NEW d \in Devices, NEW k \in Slots, NEW c \in todo[d][k], ApplyCommand(d, k, c)
      PROVE  /\ state[r] = "deleted" => state'[r] = "deleted"
             /\ state[r] # "absent" => state'[r] # "absent"
             /\ state[r] = "absent" /\ state'[r] # "absent" =>
                  \E x \in Minted : /\ cmd[x].verb = "create" /\ cmd[x].row = r
                                   /\ log[x] = "none"
  <2>1. c \in Minted /\ log[c] = "none"
    BY <1>1, CommandTaken DEF ApplyCommand
  <2>2. CASE cmd[c].verb = "create" /\ ApplyCreate(c)
    BY <2>1, <2>2 DEF ApplyCreate, TypeOK
  <2>3. CASE ApplyUpdate(c)
    BY <2>3 DEF ApplyUpdate
  <2>4. CASE ApplyDelete(c)
    <3>1. state' = [x \in Rows |-> IF x \in SoftDeleteClosure(Parent, Live, cmd[c].row)
                                  THEN "deleted" ELSE state[x]]
      BY <2>4 DEF ApplyDelete
    <3>2. r \in SoftDeleteClosure(Parent, Live, cmd[c].row) => state[r] = "live"
      BY DEF SoftDeleteClosure, Live
    <3> QED BY <3>1, <3>2
  <2> QED BY <1>1, <2>2, <2>3, <2>4 DEF ApplyCommand, RunHandler
<1>2. ASSUME NEW d \in Devices, NEW k \in Slots, NEW c \in todo[d][k], RejectCommand(d, k, c)
      PROVE  UNCHANGED state
  BY <1>2 DEF RejectCommand
<1>3. CASE UNCHANGED tables
  BY <1>3 DEF tables
<1> QED BY <1>1, <1>2, <1>3, TableSteps

\* A row that is gone stays gone, since only one command ever creates it.
LEMMA GoneStays ==
  ASSUME TypeOK, Owned, EnvelopesInv, [Next]_vars, NEW r \in Rows, Gone(r)
  PROVE  Gone(r)'
<1>1. CASE state[r] = "deleted"
  BY <1>1, StateMoves DEF Gone
<1>2. CASE NeverMade(r)
  <2>1. PICK c \in Minted : cmd[c].verb = "create" /\ cmd[c].row = r /\ log[c] = "rejected"
    BY <1>2 DEF NeverMade
  <2>2. c \in Minted' /\ cmd'[c] = cmd[c] /\ log'[c] = "rejected"
    BY <2>1, EnvelopeFixed, RejectionStays DEF Minted
  <2>3. state'[r] = "absent"
    BY <1>2, <2>1, StateMoves DEF NeverMade, EnvelopesInv
  <2> QED BY <2>1, <2>2, <2>3 DEF Gone, NeverMade
<1> QED BY <1>1, <1>2 DEF Gone

\* The device knows of every row it shows.
LEMMA VisibleKnown ==
  ASSUME TypeOK, Owned, AfterInv, RowsInv, EnvelopesInv, ShownInv,
         NEW d \in Devices, NEW r \in Rows, Visible(d, r)
  PROVE  Known(r, Past(d))
<1>1. CASE replica[d][r].here
  BY <1>1 DEF RowsInv, Known
<1>2. CASE ~replica[d][r].here
  <2>1. PICK e \in overlay[d] : e.row = r /\ e.op # "delete"
    BY <1>2 DEF Visible, EffectsOn
  <2>2. /\ e.cmd \in Minted /\ cmd[e.cmd].dev = d
        /\ [row |-> r, op |-> e.op] \in cmd[e.cmd].writes
        /\ status[e.cmd] \in {"pending"} \cup Decided
    BY <2>1 DEF Owned, MintedBy, ShownInv
  <2>3. WriteOK(e.cmd, [row |-> r, op |-> e.op])
    BY <2>2 DEF EnvelopesInv
  <2>4. \A a \in Minted : cmd[a].dev = d /\ status[a] \in {"pending"} \cup Decided => a \in Past(d)
    BY DEF Past, MintedBy, WithStatus, Decided
  <2>5. CASE e.op = "insert"
    BY <2>2, <2>3, <2>4, <2>5 DEF WriteOK, Known
  <2>6. CASE e.op # "insert"
    <3>1. Known(r, cmd[e.cmd].after)
      BY <2>3, <2>6 DEF WriteOK
    <3>2. \A a \in cmd[e.cmd].after : a \in Past(d)
      BY <2>2, <2>4 DEF AfterInv
    <3> QED BY <3>1, <3>2 DEF Known
  <2> QED BY <2>5, <2>6
<1> QED BY <1>1, <1>2

\* A delete leaves no live row under the one it names: when it applies, the closure
\* on the server holds every row below that is alive; when it is refused, that row
\* does not exist, and nothing below it does.
LEMMA BelowTheDead ==
  ASSUME RowsInv, NEW root \in Rows, NEW r \in Rows, Below(root, r), state[r] = "live"
  PROVE  r \in SoftDeleteClosure(Parent, Live, root)
<1>1. \A y \in Live : Parent[y] \in Rows => Parent[y] \in Live
  BY RowsAssumption DEF RowsInv, Live
<1>2. r \in Live
  BY DEF Live
<1>3. root \in Live
  <2> DEFINE T == Rows \ Live
  <2>1. \A y \in Rows : Parent[y] \in T => y \in T
    BY <1>1
  <2> QED BY <1>2, <2>1 DEF Below
<1>4. ASSUME NEW S \in SUBSET Live, root \in S, \A x \in Live : Parent[x] \in S => x \in S
      PROVE  r \in S
  <2> DEFINE T == (Rows \ Live) \cup S
  <2>1. T \in SUBSET Rows /\ root \in T
    BY <1>4 DEF Live
  <2>2. \A y \in Rows : Parent[y] \in T => y \in T
    <3> TAKE y \in Rows
    <3> HAVE Parent[y] \in T
    <3>1. CASE y \in Live
      BY <1>1, <1>4, <2>1, <3>1
    <3> QED BY <3>1
  <2>3. r \in T
    BY <2>1, <2>2 DEF Below
  <2> QED BY <1>2, <2>3
<1> QED BY <1>2, <1>3, <1>4 DEF SoftDeleteClosure

\* After the verdict on a delete the row is gone, whichever verdict it is.
LEMMA DeleteDecided ==
  ASSUME TypeOK, Owned, DeliveryInv, RowsInv, EnvelopesInv, [Next]_vars,
         NEW d \in Devices, NEW k \in Slots, NEW c \in todo[d][k],
         ApplyCommand(d, k, c) \/ RejectCommand(d, k, c),
         NEW w \in cmd[c].writes, w.op = "delete"
  PROVE  Gone(w.row)'
<1>1. /\ c \in Minted /\ cmd[c] \in Command
      /\ HandleCommand(d, k, c) /\ log[c] = "none"
  BY CommandTaken DEF ApplyCommand, RejectCommand
<1>2. /\ w.row \in Rows /\ cmd[c].row \in Rows
      /\ cmd[c].verb = "delete" /\ cmd[c].dep = 0 /\ Below(cmd[c].row, w.row)
      /\ Known(w.row, cmd[c].after)
  BY <1>1 DEF EnvelopesInv, WriteOK, Command
<1>3. ASSUME NEW a \in cmd[c].after PROVE a \in Minted /\ Logged(a)
  <2>1. a \in Minted /\ a < c /\ a \in Ids /\ c \in Ids
    BY <1>1 DEF DeliveryInv, AfterInv, Minted
  <2>2. a \in todo[d][k] \/ Logged(a)
    BY DEF DeliveryInv, QueueOK, Closed
  <2>3. a \notin todo[d][k]
    BY <1>1, <2>1, BoundsAssumption DEF HandleCommand, NextInOrder, Ids
  <2> QED BY <2>1, <2>2, <2>3
<1>4. CASE state[w.row] = "absent"
  <2>1. PICK a \in cmd[c].after : cmd[a].verb = "create" /\ cmd[a].row = w.row
    BY <1>2, <1>4 DEF Known
  <2>2. a \in Minted /\ a \in Ids /\ log[a] # "none" /\ log[a] # "applied"
    BY <1>3, <1>4, <2>1 DEF RowsInv, Logged, Minted
  <2>3. log[a] = "rejected"
    BY <2>2 DEF TypeOK
  <2>4. Gone(w.row)
    BY <1>4, <2>1, <2>2, <2>3 DEF Gone, NeverMade
  <2> QED BY <1>2, <2>4, GoneStays
<1>5. CASE state[w.row] = "deleted"
  BY <1>2, <1>5, StateMoves DEF Gone
<1>6. CASE state[w.row] = "live"
  <2>1. w.row \in SoftDeleteClosure(Parent, Live, cmd[c].row)
    BY <1>2, <1>6, BelowTheDead
  <2>2. CASE ApplyCommand(d, k, c)
    <3>1. ApplyDelete(c)
      BY <1>2, <2>2 DEF ApplyCommand, RunHandler
    <3> QED BY <1>2, <2>1, <3>1 DEF ApplyDelete, Gone
  <2>3. CASE RejectCommand(d, k, c)
    <3>1. state[cmd[c].row] = "absent"
      BY <1>2, <2>3 DEF RejectCommand, Accepts, DependencyMet, HandlerAccepts
    <3>2. cmd[c].row \in Live
      BY <2>1 DEF SoftDeleteClosure
    <3> QED BY <3>1, <3>2 DEF Live
  <2> QED BY <2>2, <2>3
<1>7. state[w.row] \in {"absent", "live", "deleted"}
  BY <1>2 DEF TypeOK
<1> QED BY <1>4, <1>5, <1>6, <1>7

\* The tables of the server.
LEMMA RowsStep ==
  ASSUME TypeOK, Owned, LoggedMinted, RowsInv, [Next]_vars
  PROVE  RowsInv'
<1>1. \A c \in Minted' : log'[c] = "applied" => c \in Minted
  BY LogGrows DEF Minted, Logged, LoggedMinted
<1>2. ASSUME NEW d \in Devices, NEW r \in Rows, replica'[d][r].here
      PROVE  state'[r] # "absent"
  <2>1. CASE replica'[d][r] = replica[d][r]
    BY <1>2, <2>1, StateMoves DEF RowsInv
  <2>2. ASSUME NEW e \in Devices, SyncDown(e) PROVE state'[r] # "absent"
    <3>1. CASE d = e
      <4>1. replica'[d][r] = Canonical(r)
        BY <2>2, <3>1 DEF SyncDown, TypeOK
      <4>2. state[r] = "live"
        BY <1>2, <4>1 DEF Canonical, Absent, Blank
      <4> QED BY <4>2, StateMoves
    <3>2. CASE d # e
      BY <2>1, <2>2, <3>2 DEF SyncDown, TypeOK
    <3> QED BY <3>1, <3>2
  <2>3. ASSUME NEW e \in Devices, UserWrites(e) \/ Enqueue(e) \/ DrainStep(e)
        PROVE  UNCHANGED replica
    BY <2>3 DEF UserWrites, CreateNode, UpdateNode, DeleteNode, Execute, Enqueue, DrainStep,
                StartDrain, ReconcileConfirmed, PendingCommands, Respond, Ack, device
  <2>4. ASSUME NEW e \in Devices, NEW k \in Slots,
               UploadFails(e) \/ AppRestarts(e) \/ ServerStep(e, k) \/ ServerDies(e, k)
        PROVE  UNCHANGED replica
    BY <2>4 DEF UploadFails, AppRestarts, ServerStep, AnswerNoop, ApplyCommand, RejectCommand,
                CreateReviewItem, HandleCommand, ServerDies, device
  <2>5. CASE UNCHANGED vars
    BY <2>1, <2>5 DEF vars, device
  <2> QED BY <2>1, <2>2, <2>3, <2>4, <2>5 DEF Next, Slots
<1>3. ASSUME UNCHANGED <<state, log>> PROVE RowsInv'
  BY <1>1, <1>2, <1>3, EnvelopeFixed DEF RowsInv
<1>4. ASSUME NEW d \in Devices, NEW k \in Slots, NEW c \in todo[d][k], ApplyCommand(d, k, c)
      PROVE  RowsInv'
  <2>1. /\ c \in Ids /\ c \in Minted /\ cmd[c] \in Command /\ cmd' = cmd /\ Minted' = Minted
        /\ cmd[c].row \in Rows
    BY <1>4, CommandTaken DEF ApplyCommand, Command
  <2>2. log' = [log EXCEPT ![c] = "applied"] /\ HandlerAccepts(c)
    BY <1>4 DEF ApplyCommand, Accepts
  <2>3. ASSUME NEW a \in Minted', log'[a] = "applied", cmd'[a].verb = "create"
        PROVE  state'[cmd'[a].row] # "absent"
    <3>1. a \in Minted /\ a \in Ids /\ cmd[a].verb = "create" /\ cmd[a].row \in Rows
      BY <2>1, <2>3 DEF TypeOK, Command, Minted
    <3>2. CASE a = c
      <4>1. ApplyCreate(c)
        BY <1>4, <3>1, <3>2 DEF ApplyCommand, RunHandler
      <4> QED BY <2>1, <3>2, <4>1 DEF ApplyCreate, TypeOK
    <3>3. CASE a # c
      BY <2>1, <2>2, <2>3, <3>1, <3>3, StateMoves DEF RowsInv, TypeOK
    <3> QED BY <3>2, <3>3
  <2>4. ASSUME NEW r \in Rows, state'[r] = "live", Parent[r] # NoRow
        PROVE  state'[Parent[r]] = "live"
    <3>1. Parent[r] \in Rows
      BY <2>4, RowsAssumption
    <3>2. CASE cmd[c].verb = "create" /\ ApplyCreate(c)
      <4>1. CASE r = cmd[c].row /\ state[r] = "absent"
        <5>1. state[Parent[r]] = "live" /\ Parent[r] # r
          BY <2>2, <2>4, <4>1 DEF HandlerAccepts, Live
        <5> QED BY <3>1, <3>2, <5>1 DEF ApplyCreate, TypeOK
      <4>2. CASE ~(r = cmd[c].row /\ state[r] = "absent")
        <5>1. state[r] = "live"
          BY <2>4, <3>2, <4>2 DEF ApplyCreate, TypeOK
        <5>2. state[Parent[r]] = "live"
          BY <2>4, <5>1 DEF RowsInv
        <5> QED BY <3>1, <3>2, <5>2 DEF ApplyCreate, TypeOK
      <4> QED BY <4>1, <4>2
    <3>3. CASE ApplyUpdate(c)
      BY <2>4, <3>3 DEF ApplyUpdate, RowsInv
    <3>4. CASE ApplyDelete(c)
      <4> DEFINE ids == SoftDeleteClosure(Parent, Live, cmd[c].row)
      <4>1. state' = [x \in Rows |-> IF x \in ids THEN "deleted" ELSE state[x]]
        BY <3>4 DEF ApplyDelete
      <4>2. state[r] = "live" /\ r \notin ids
        BY <2>4, <4>1
      <4>3. Parent[r] \notin ids
        BY <4>2 DEF SoftDeleteClosure, Live
      <4> QED BY <2>4, <3>1, <4>1, <4>2, <4>3 DEF RowsInv
    <3> QED BY <1>4, <3>2, <3>3, <3>4 DEF ApplyCommand, RunHandler
  <2> QED BY <1>2, <2>3, <2>4 DEF RowsInv
<1>5. ASSUME NEW d \in Devices, NEW k \in Slots, NEW c \in todo[d][k], RejectCommand(d, k, c)
      PROVE  RowsInv'
  <2>1. /\ c \in Ids /\ cmd' = cmd /\ Minted' = Minted /\ state' = state
        /\ log' = [log EXCEPT ![c] = "rejected"]
    BY <1>5, CommandTaken DEF RejectCommand
  <2>2. \A a \in Minted : log'[a] = "applied" => log[a] = "applied"
    BY <2>1 DEF TypeOK, Minted
  <2> QED BY <1>2, <2>1, <2>2 DEF RowsInv
<1> QED BY <1>3, <1>4, <1>5, TableSteps DEF tables

\* Only the user mints commands.
LEMMA MintedMoves ==
  ASSUME TypeOK, Owned, [Next]_vars
  PROVE  (\E d \in Devices : UserWrites(d)) \/ Minted' = Minted
<1>1. ASSUME NEW x \in Minted, NEW s, s # "unminted", status' = [status EXCEPT ![x] = s]
      PROVE  Minted' = Minted
  BY <1>1 DEF TypeOK, Minted
<1>2. ASSUME UNCHANGED status PROVE Minted' = Minted
  BY <1>2 DEF Minted
<1>3. ASSUME NEW d \in Devices, Enqueue(d) PROVE Minted' = Minted
  BY <1>1, <1>3 DEF Enqueue, WithStatus, MintedBy
<1>4. ASSUME NEW d \in Devices, DrainStep(d) PROVE Minted' = Minted
  <2>1. CASE StartDrain(d) \/ PendingCommands(d) \/ Respond(d)
    BY <1>2, <2>1 DEF StartDrain, PendingCommands, Respond, device
  <2>2. CASE ReconcileConfirmed(d)
    <3>1. PICK c \in plan[d] : UNCHANGED status \/ status' = [status EXCEPT ![c] = "gone"]
      BY <2>2 DEF ReconcileConfirmed
    <3>2. c \in Minted
      BY DEF Owned, MintedBy
    <3> QED BY <1>1, <1>2, <3>1, <3>2
  <2>3. CASE Ack(d)
    <3>1. PICK c \in batch[d] : \/ status' = [status EXCEPT ![c] = "rejected"]
                               \/ status' = [status EXCEPT ![c] = "applied"]
      BY <2>3 DEF Ack, Acknowledge
    <3>2. c \in Minted
      BY DEF Owned, MintedBy
    <3> QED BY <1>1, <3>1, <3>2
  <2> QED BY <1>4, <2>1, <2>2, <2>3 DEF DrainStep
<1>5. ASSUME NEW d \in Devices, AppRestarts(d) PROVE Minted' = Minted
  BY <1>5 DEF AppRestarts, Minted, WithStatus, MintedBy
<1>6. ASSUME NEW d \in Devices, SyncDown(d) \/ UploadFails(d) PROVE Minted' = Minted
  BY <1>2, <1>6 DEF SyncDown, UploadFails, device
<1>7. ASSUME NEW d \in Devices, NEW k \in Slots, ServerStep(d, k) \/ ServerDies(d, k)
      PROVE  Minted' = Minted
  BY <1>2, <1>7 DEF ServerStep, ServerDies, AnswerNoop, ApplyCommand, RejectCommand,
                    CreateReviewItem, HandleCommand, device
<1>8. CASE UNCHANGED vars
  BY <1>2, <1>8 DEF vars, device
<1> QED BY <1>3, <1>4, <1>5, <1>6, <1>7, <1>8 DEF Next

\* An envelope keeps what is known of it.
LEMMA WritesStay ==
  ASSUME TypeOK, Owned, AfterInv, [Next]_vars, NEW c \in Minted, NEW w \in cmd[c].writes,
         WriteOK(c, w)
  PROVE  WriteOK(c, w)'
<1>1. cmd'[c] = cmd[c] /\ w.row \in Rows
  BY EnvelopeFixed DEF TypeOK, Command
<1>2. ASSUME Known(w.row, cmd[c].after) PROVE Known(w.row, cmd[c].after)'
  <2>1. CASE state[w.row] # "absent"
    BY <1>1, <2>1, StateMoves DEF Known
  <2>2. ASSUME NEW a \in cmd[c].after, cmd[a].verb = "create", cmd[a].row = w.row
        PROVE  Known(w.row, cmd[c].after)'
    <3>1. a \in Minted
      BY <2>2 DEF AfterInv
    <3>2. cmd'[a] = cmd[a]
      BY <3>1, EnvelopeFixed
    <3> QED BY <1>1, <2>2, <3>2 DEF Known
  <2> QED BY <1>2, <2>1, <2>2 DEF Known
<1>3. Below(cmd[c].row, w.row) => Below(cmd[c].row, w.row)'
  BY <1>1 DEF Below
<1> QED BY <1>1, <1>2, <1>3 DEF WriteOK

\* A create makes a row that no command has made.
MakesNew(verb, r) == verb = "create" => \A x \in Minted : ~(cmd[x].verb = "create" /\ cmd[x].row = r)

\* A new envelope, of which the caller knows the row writes.
LEMMA ExecuteWrites ==
  ASSUME TypeOK, Owned, AfterInv, EnvelopesInv, [Next]_vars, NEW d \in Devices,
         NEW verb, NEW r, NEW fields, NEW deps, NEW writes,
         Execute(d, verb, r, fields, deps, writes),
         \E w \in writes : w.row = r,
         MakesNew(verb, r),
         \A w \in writes :
           /\ w.op = "insert" => verb = "create" /\ w.row = r
           /\ w.op = "delete" => verb = "delete" /\ deps = {0} /\ Below(r, w.row)
           /\ w.op # "insert" =>
                Known(w.row, Past(d))
  PROVE  EnvelopesInv'
<1>1. PICK c \in Ids \ Minted :
        /\ \E new : /\ cmd' = [cmd EXCEPT ![c] = new]
                    /\ new.verb = verb /\ new.row = r /\ new.dep \in deps
                    /\ new.writes = writes /\ new.after = Past(d)
        /\ status' = [status EXCEPT ![c] = "draft"]
  <2> DEFINE Env(u, dep) ==
        [dev |-> d, verb |-> verb, row |-> r, fields |-> fields,
         dep |-> dep, uid |-> u, writes |-> writes, after |-> Past(d)]
  <2>1. PICK c \in Ids, u \in Ids, dep \in deps :
          /\ FreshHlc(d, c)
          /\ cmd' = [cmd EXCEPT ![c] = Env(u, dep)]
          /\ status' = [status EXCEPT ![c] = "draft"]
    BY DEF Execute, Past
  <2>2. /\ Env(u, dep).verb = verb /\ Env(u, dep).row = r /\ Env(u, dep).dep = dep
        /\ Env(u, dep).writes = writes /\ Env(u, dep).after = Past(d)
    OBVIOUS
  <2> HIDE DEF Env
  <2> QED BY <2>1, <2>2 DEF FreshHlc
<1>2. /\ cmd'[c].verb = verb /\ cmd'[c].row = r /\ cmd'[c].dep \in deps
      /\ cmd'[c].writes = writes /\ cmd'[c].after = Past(d)
      /\ Minted' = Minted \cup {c}
      /\ \A x \in Minted : cmd'[x] = cmd[x]
      /\ state' = state /\ Past(d) \subseteq Minted
  BY <1>1 DEF Execute, tables, TypeOK, Minted, MintedBy, Past
<1>3. \A w \in writes : WriteOK(c, w)'
  <2> TAKE w \in writes
  <2>1. Below(r, w.row) => Below(cmd[c].row, w.row)'
    BY <1>2 DEF Below
  <2>2. Known(w.row, Past(d)) => Known(w.row, cmd[c].after)'
    BY <1>2 DEF Known
  <2> QED BY <1>2, <2>1, <2>2 DEF WriteOK
<1>4. \A x \in Minted : \A w \in cmd[x].writes : WriteOK(x, w)'
  BY WritesStay DEF EnvelopesInv
<1>5. \A x \in Minted' : /\ \E w \in cmd'[x].writes : w.row = cmd'[x].row
                         /\ \A w \in cmd'[x].writes : WriteOK(x, w)'
  BY <1>2, <1>3, <1>4 DEF EnvelopesInv
<1>6. \A a, b \in Minted' : cmd'[a].verb = "create" /\ cmd'[b].verb = "create" /\ cmd'[a].row = cmd'[b].row
                            => a = b
  BY <1>2 DEF EnvelopesInv, MakesNew
<1> QED BY <1>5, <1>6 DEF EnvelopesInv

\* The three verbs know the rows they write.
LEMMA EnvelopesStep ==
  ASSUME TypeOK, Owned, AfterInv, RowsInv, EnvelopesInv, ShownInv, [Next]_vars
  PROVE  EnvelopesInv'
<1>1. ASSUME NEW d \in Devices, NEW r \in Rows, CreateNode(d, r) PROVE EnvelopesInv'
  <2> DEFINE writes == {[row |-> r, op |-> "insert"]}
             deps   == DeriveDependsOn(d, Parent[r])
  <2>1. /\ MakesNew("create", r)
        /\ Execute(d, "create", r, Fields, deps, writes)
    BY <1>1 DEF CreateNode, MakesNew
  <2>2. \A w \in writes : w.op = "insert" /\ w.row = r
    OBVIOUS
  <2>3. \E w \in writes : w.row = r
    OBVIOUS
  <2> HIDE DEF writes, deps
  <2> QED BY <2>1, <2>2, <2>3, ExecuteWrites
<1>2. ASSUME NEW d \in Devices, NEW r \in Rows, NEW f \in Fields, UpdateNode(d, r, f)
      PROVE  EnvelopesInv'
  <2> DEFINE writes == {[row |-> r, op |-> "update"]}
  <2>1. Visible(d, r) /\ Execute(d, "update", r, {f}, {0}, writes)
    BY <1>2 DEF UpdateNode
  <2>9. MakesNew("update", r)
    BY DEF MakesNew
  <2>2. \A w \in writes : w.op = "update" /\ w.row = r
    OBVIOUS
  <2>3. \E w \in writes : w.row = r
    OBVIOUS
  <2>4. Known(r, Past(d))
    BY <2>1, VisibleKnown
  <2> HIDE DEF writes
  <2> QED BY <2>1, <2>2, <2>3, <2>4, <2>9, ExecuteWrites
<1>3. ASSUME NEW d \in Devices, NEW r \in Rows, DeleteNode(d, r) PROVE EnvelopesInv'
  <2> DEFINE shown  == {x \in Rows : Visible(d, x)}
             ids    == SoftDeleteClosure(Parent, shown, r)
             writes == {[row |-> x, op |-> "delete"] : x \in ids}
  <2>1. r \in shown /\ Execute(d, "delete", r, {}, {0}, writes)
    BY <1>3 DEF DeleteNode
  <2>9. MakesNew("delete", r)
    BY DEF MakesNew
  <2>2. ids \subseteq shown /\ r \in ids
    BY <2>1 DEF SoftDeleteClosure
  <2>3. \A x \in ids : Known(x, Past(d))
    BY <2>2, VisibleKnown
  <2>4. \A x \in ids : Below(r, x)
    <3> SUFFICES ASSUME NEW x \in ids, NEW T \in SUBSET Rows, r \in T,
                        \A y \in Rows : Parent[y] \in T => y \in T
                 PROVE  x \in T
      BY DEF Below
    <3> DEFINE S == T \cap shown
    <3>1. S \in SUBSET shown /\ r \in S /\ \A y \in shown : Parent[y] \in S => y \in S
      BY <2>1
    <3>2. x \in S
      BY <3>1 DEF SoftDeleteClosure
    <3> QED BY <3>2
  <2>5. \A w \in writes : w.op = "delete" /\ w.row \in ids
    OBVIOUS
  <2>6. \E w \in writes : w.row = r
    <3>1. [row |-> r, op |-> "delete"] \in writes
      BY <2>2
    <3> QED BY <3>1
  <2> HIDE DEF ids, writes
  <2> QED BY <2>1, <2>3, <2>4, <2>5, <2>6, <2>9, ExecuteWrites
<1>4. ASSUME Minted' = Minted PROVE EnvelopesInv'
  <2>1. \A c \in Minted : cmd'[c] = cmd[c]
    BY EnvelopeFixed
  <2> QED BY <1>4, <2>1, WritesStay DEF EnvelopesInv
<1>5. (\E d \in Devices : UserWrites(d)) \/ Minted' = Minted
  BY MintedMoves
<1> QED BY <1>1, <1>2, <1>3, <1>4, <1>5 DEF UserWrites

\* What a step does to an overlay: it adds the writes of a command put in the queue,
\* or takes away what a confirmed, or a rejected, command held.
Enqueues(d, x) ==
  /\ status' = [status EXCEPT ![x] = "pending"]
  /\ overlay' = [overlay EXCEPT ![d] =
                   @ \cup {[cmd |-> x, row |-> w.row, op |-> w.op] : w \in cmd[x].writes}]

Reconciles(d, x) ==
  /\ phase[d] = "reconcile" /\ Confirmed(d, x)
  /\ status' = [status EXCEPT ![x] = "gone"]
  /\ overlay' = [overlay EXCEPT ![d] = @ \ Settled(d, x)]

RollsBack(d, x) ==
  /\ status' = [status EXCEPT ![x] = "rejected"]
  /\ overlay' = [overlay EXCEPT ![d] = @ \ EffectsOf(d, x)]

\* Every other step.
Elsewhere ==
  /\ UNCHANGED overlay
  /\ \A c \in Ids : \/ status'[c] = status[c]
                    \/ status'[c] = "applied"
                    \/ status[c] = "draft" /\ status'[c] = "dropped"
                    \/ status[c] = "unminted" /\ status'[c] = "draft"

\* The overlay moves in four ways: queued, reconciled, rolled back, or not at all.
LEMMA OverlayMoves ==
  ASSUME TypeOK, Owned, [Next]_vars
  PROVE  \/ Elsewhere
         \/ \E d \in Devices : \E x \in WithStatus(d, "draft") : Enqueues(d, x)
         \/ \E d \in Devices : \E x \in plan[d] : Reconciles(d, x)
         \/ \E d \in Devices : \E x \in batch[d] : RollsBack(d, x)
<1>1. ASSUME UNCHANGED <<status, overlay>> PROVE Elsewhere
  BY <1>1 DEF Elsewhere
<1>2. ASSUME NEW d \in Devices, UserWrites(d) PROVE Elsewhere
  <2>1. PICK x \in Ids \ Minted : status' = [status EXCEPT ![x] = "draft"] /\ UNCHANGED overlay
    BY <1>2 DEF UserWrites, CreateNode, UpdateNode, DeleteNode, Execute, FreshHlc
  <2>2. status[x] = "unminted"
    BY DEF Minted
  <2> QED BY <2>1, <2>2 DEF Elsewhere, TypeOK
<1>3. ASSUME NEW d \in Devices, Enqueue(d)
      PROVE  \E x \in WithStatus(d, "draft") : Enqueues(d, x)
  BY <1>3 DEF Enqueue, Enqueues
<1>4. ASSUME NEW d \in Devices, ReconcileConfirmed(d)
      PROVE  Elsewhere \/ \E x \in plan[d] : Reconciles(d, x)
  BY <1>1, <1>4 DEF ReconcileConfirmed, Reconciles
<1>5. ASSUME NEW d \in Devices, Ack(d)
      PROVE  Elsewhere \/ \E x \in batch[d] : RollsBack(d, x)
  <2>1. PICK x \in batch[d] : Acknowledge(d, x)
    BY <1>5 DEF Ack
  <2>2. CASE RollsBack(d, x)
    BY <2>2
  <2>3. CASE status' = [status EXCEPT ![x] = "applied"] /\ UNCHANGED overlay
    BY <2>3 DEF Elsewhere, TypeOK
  <2> QED BY <2>1, <2>2, <2>3 DEF Acknowledge, RollsBack
<1>6. ASSUME NEW d \in Devices, StartDrain(d) \/ PendingCommands(d) \/ Respond(d)
      PROVE  Elsewhere
  BY <1>1, <1>6 DEF StartDrain, PendingCommands, Respond, device
<1>7. ASSUME NEW d \in Devices, AppRestarts(d) PROVE Elsewhere
  BY <1>7 DEF AppRestarts, Elsewhere, WithStatus, MintedBy
<1>8. ASSUME NEW d \in Devices, NEW k \in Slots,
             SyncDown(d) \/ UploadFails(d) \/ ServerDies(d, k) \/ ServerStep(d, k)
      PROVE  Elsewhere
  BY <1>1, <1>8 DEF SyncDown, UploadFails, ServerDies, ServerStep, AnswerNoop, ApplyCommand,
                    RejectCommand, CreateReviewItem, HandleCommand, device
<1>9. CASE UNCHANGED vars
  BY <1>1, <1>9 DEF vars, device
<1> QED BY <1>2, <1>3, <1>4, <1>5, <1>6, <1>7, <1>8, <1>9 DEF Next, DrainStep, Slots

\* An overlay shows nothing that was not enqueued.
LEMMA ShownStep ==
  ASSUME TypeOK, Owned, ShownInv, [Next]_vars
  PROVE  ShownInv'
<1> DEFINE Queued(s) == s \in {"pending"} \cup Decided
<1>1. SUFFICES \A d \in Devices : \A e \in overlay'[d] :
                 /\ e.cmd \in Minted
                 /\ [row |-> e.row, op |-> e.op] \in cmd[e.cmd].writes
                 /\ Queued(status'[e.cmd])
  <2>1. \A c \in Minted : cmd'[c] = cmd[c]
    BY EnvelopeFixed
  <2> QED BY <1>1, <2>1 DEF ShownInv
<1> TAKE d \in Devices
<1> TAKE e \in overlay'[d]
<1>2. ASSUME NEW x \in overlay[d]
      PROVE  /\ x.cmd \in Minted /\ x.cmd \in Ids
             /\ [row |-> x.row, op |-> x.op] \in cmd[x.cmd].writes
             /\ Queued(status[x.cmd])
  BY DEF ShownInv, Owned, MintedBy, Minted
<1>3. CASE Elsewhere
  <2>1. e \in overlay[d]
    BY <1>3 DEF Elsewhere
  <2> QED BY <1>2, <1>3, <2>1 DEF Elsewhere, Decided
<1>4. ASSUME NEW y \in Devices, NEW x \in WithStatus(y, "draft"), Enqueues(y, x)
      PROVE  /\ e.cmd \in Minted
             /\ [row |-> e.row, op |-> e.op] \in cmd[e.cmd].writes
             /\ Queued(status'[e.cmd])
  <2>1. x \in Minted /\ x \in Ids /\ cmd[x] \in Command
    BY DEF WithStatus, MintedBy, Minted, TypeOK
  <2>2. CASE e \in overlay[d]
    BY <1>2, <1>4, <2>1, <2>2 DEF Enqueues, TypeOK
  <2>3. CASE e \notin overlay[d]
    <3>1. PICK w \in cmd[x].writes : e = [cmd |-> x, row |-> w.row, op |-> w.op]
      BY <1>4, <2>3 DEF Enqueues, TypeOK
    <3>2. [row |-> w.row, op |-> w.op] = w
      BY <2>1 DEF Command
    <3> QED BY <1>4, <2>1, <3>1, <3>2 DEF Enqueues, TypeOK
  <2> QED BY <2>2, <2>3
<1>5. ASSUME NEW y \in Devices, NEW x, Reconciles(y, x) \/ RollsBack(y, x)
      PROVE  /\ e.cmd \in Minted
             /\ [row |-> e.row, op |-> e.op] \in cmd[e.cmd].writes
             /\ Queued(status'[e.cmd])
  <2>1. e \in overlay[d]
    BY <1>5 DEF Reconciles, RollsBack, TypeOK
  <2> QED BY <1>2, <1>5, <2>1 DEF Reconciles, RollsBack, TypeOK, Decided
<1> QED BY <1>3, <1>4, <1>5, OverlayMoves

\* A delete gets its verdict in the step that clears its rows.
LEMMA DeletesStep ==
  ASSUME TypeOK, Owned, DeliveryInv, RowsInv, EnvelopesInv, DeletesDone, [Next]_vars
  PROVE  DeletesDone'
<1>1. SUFFICES ASSUME NEW c \in Minted, Logged(c)', NEW w \in cmd[c].writes, w.op = "delete"
               PROVE  Gone(w.row)'
  <2>1. \A c \in Minted' : Logged(c)' => c \in Minted
    BY LogGrows DEF DeliveryInv, LoggedMinted, Minted
  <2> QED BY <1>1, <2>1, EnvelopeFixed DEF DeletesDone
<1>2. c \in Ids /\ w.row \in Rows
  BY DEF TypeOK, Minted, Command
<1>3. CASE Logged(c)
  BY <1>1, <1>2, <1>3, GoneStays DEF DeletesDone
<1>4. CASE ~Logged(c)
  <2>1. ~UNCHANGED tables
    BY <1>1, <1>4 DEF tables, Logged
  <2>2. PICK d \in Devices, k \in Slots : \E x \in todo[d][k] :
               ApplyCommand(d, k, x) \/ RejectCommand(d, k, x)
    BY <2>1, TableSteps
  <2>3. PICK x \in todo[d][k] : ApplyCommand(d, k, x) \/ RejectCommand(d, k, x)
    BY <2>2
  <2>4. x = c
    BY <1>1, <1>2, <1>4, <2>3 DEF ApplyCommand, RejectCommand, Logged, TypeOK
  <2> QED BY <1>1, <2>3, <2>4, DeleteDecided
<1> QED BY <1>3, <1>4

\* The overlay of a pending command loses its write only with the row.
LEMMA KeptStep ==
  ASSUME TypeOK, Owned, DeliveryInv, EnvelopesInv, ShownInv, DeletesDone, PendingKeepsOverlay,
         [Next]_vars
  PROVE  PendingKeepsOverlay'
<1>1. SUFFICES ASSUME NEW c \in Minted', status'[c] = "pending"
               PROVE  \E r \in Rows, d \in Devices :
                        /\ cmd'[c].row = r /\ cmd'[c].dev = d
                        /\ (\E e \in overlay'[d] : e.cmd = c /\ e.row = r) \/ Gone(r)'
  BY <1>1 DEF PendingKeepsOverlay, Gone
<1>2. c \in Ids /\ c \in Minted /\ cmd'[c] = cmd[c]
  <2>1. c \in Ids
    BY DEF Minted
  <2>2. c \in Minted
    BY <1>1, <2>1, OverlayMoves DEF Minted, Elsewhere, Enqueues, Reconciles, RollsBack, WithStatus,
       MintedBy, TypeOK
  <2> QED BY <2>1, <2>2, EnvelopeFixed
<1>3. PICK r \in Rows, d \in Devices : cmd[c].row = r /\ cmd[c].dev = d
  BY <1>2 DEF TypeOK, Command
<1> SUFFICES (\E e \in overlay'[d] : e.cmd = c /\ e.row = r) \/ Gone(r)'
  BY <1>2, <1>3
<1>4. ASSUME status[c] = "pending"
      PROVE  (\E e \in overlay[d] : e.cmd = c /\ e.row = r) \/ Gone(r)
  BY <1>2, <1>3, <1>4 DEF PendingKeepsOverlay, Gone
<1>5. ASSUME Gone(r) PROVE Gone(r)'
  BY <1>5, GoneStays
<1>6. CASE Elsewhere
  <2>1. status[c] = "pending" /\ overlay'[d] = overlay[d]
    BY <1>1, <1>2, <1>6 DEF Elsewhere
  <2> QED BY <1>4, <1>5, <2>1
<1>7. ASSUME NEW y \in Devices, NEW x \in WithStatus(y, "draft"), Enqueues(y, x)
      PROVE  (\E e \in overlay'[d] : e.cmd = c /\ e.row = r) \/ Gone(r)'
  <2>1. CASE x = c
    <3>1. y = d
      BY <1>3, <2>1 DEF WithStatus, MintedBy
    <3>2. PICK w \in cmd[c].writes : w.row = r
      BY <1>2, <1>3 DEF EnvelopesInv
    <3>3. [cmd |-> c, row |-> r, op |-> w.op] \in overlay'[d]
      BY <1>2, <1>7, <2>1, <3>1, <3>2 DEF Enqueues, TypeOK
    <3> QED BY <3>3
  <2>2. CASE x # c
    <3>1. status[c] = "pending" /\ overlay[d] \subseteq overlay'[d]
      BY <1>1, <1>2, <1>7, <2>2 DEF Enqueues, TypeOK
    <3> QED BY <1>4, <1>5, <3>1
  <2> QED BY <2>1, <2>2
<1>8. ASSUME NEW y \in Devices, NEW x \in plan[y], Reconciles(y, x)
      PROVE  (\E e \in overlay'[d] : e.cmd = c /\ e.row = r) \/ Gone(r)'
  <2>1. x \in Ids /\ x # c /\ status[c] = "pending"
    BY <1>1, <1>2, <1>8 DEF Reconciles, TypeOK
  <2>2. CASE Gone(r)
    BY <1>5, <2>2
  <2>3. CASE ~Gone(r)
    <3>1. PICK e \in overlay[d] : e.cmd = c /\ e.row = r
      BY <1>4, <2>1, <2>3
    <3>2. SUFFICES ASSUME y = d, e \in Settled(d, x) PROVE FALSE
      BY <1>8, <3>1 DEF Reconciles, TypeOK
    <3>3. PICK own \in overlay[d] : own.cmd = x /\ own.op = "delete" /\ own.row = r
      BY <2>1, <3>1, <3>2 DEF Settled, EffectsOf
    <3>4. [row |-> r, op |-> "delete"] \in cmd[x].writes
      BY <3>3 DEF ShownInv
    <3>5. x \in Minted /\ Logged(x)
      BY <1>8, <3>2 DEF DeliveryInv, DrainOK, Reconciles, Owned, MintedBy
    <3> QED BY <2>3, <3>4, <3>5 DEF DeletesDone
  <2> QED BY <2>2, <2>3
<1>9. ASSUME NEW y \in Devices, NEW x \in batch[y], RollsBack(y, x)
      PROVE  (\E e \in overlay'[d] : e.cmd = c /\ e.row = r) \/ Gone(r)'
  <2>1. x # c /\ status[c] = "pending"
    BY <1>1, <1>2, <1>9 DEF RollsBack, TypeOK
  <2>2. \A e \in overlay[d] : e.cmd = c => e \in overlay'[d]
    BY <1>9, <2>1 DEF RollsBack, EffectsOf, TypeOK
  <2> QED BY <1>4, <1>5, <2>1, <2>2
<1> QED BY <1>6, <1>7, <1>8, <1>9, OverlayMoves

\* The invariant of what devices show holds throughout.
LEMMA KeptSound == Spec => []KeptInv
<1>1. Init => KeptInv
  <2> SUFFICES ASSUME Init PROVE KeptInv
    OBVIOUS
  <2>1. Minted = {}
    BY DEF Init, Minted
  <2>2. RowsInv
    <3>1. \A r \in InitRows : Parent[r] # NoRow => Parent[r] \in InitRows
      BY RowsAssumption
    <3>2. \A r \in Rows : state[r] = "live" => r \in InitRows
      BY DEF Init
    <3>3. \A r \in InitRows : r \in Rows /\ state[r] = "live"
      BY RowsAssumption DEF Init
    <3>4. \A d \in Devices, r \in Rows : replica[d][r].here => r \in InitRows
      BY DEF Init, Blank
    <3> QED BY <2>1, <3>1, <3>2, <3>3, <3>4 DEF RowsInv
  <2>3. EnvelopesInv /\ DeletesDone /\ PendingKeepsOverlay
    BY <2>1 DEF EnvelopesInv, DeletesDone, PendingKeepsOverlay
  <2>4. ShownInv
    BY DEF Init, ShownInv
  <2> QED BY <2>2, <2>3, <2>4 DEF KeptInv
<1>2. TypeOK /\ Owned /\ DeliveryInv /\ KeptInv /\ [Next]_vars => KeptInv'
  BY RowsStep, EnvelopesStep, ShownStep, DeletesStep, KeptStep DEF KeptInv, DeliveryInv
<1> QED BY <1>1, <1>2, TypeCorrect, Delivery, PTL DEF Spec

\* A write the server has not answered stays on the screen of its device, whatever
\* is rolled back or cleaned up around it, unless the row it writes is gone for good.
THEOREM PendingWritesStayShown == Spec => []PendingKeepsOverlay
<1>1. KeptInv => PendingKeepsOverlay
  BY DEF KeptInv
<1> QED BY <1>1, KeptSound, PTL
-----------------------------------------------------------------------------
(* What a device lets go of.                                                  *)

\* What a drain has in hand was enqueued, and is in the queue for as long as the drain
\* has not let go of it; and nothing else ever gets a verdict.
InHand ==
  /\ \A d \in Devices :
       /\ phase[d] = "reconcile" => \A c \in plan[d] : status[c] = "applied"
       /\ phase[d] \in {"await", "ack"} => /\ \A c \in plan[d] \cup batch[d] : status[c] = "pending"
                                           /\ plan[d] \cap batch[d] = {}
       /\ \A k \in Slots : \A c \in todo[d][k] : status[c] \in {"pending"} \cup Decided
  /\ \A c \in Minted : Logged(c) => status[c] \in {"pending"} \cup Decided

\* The write of a command that is still held is in the overlay, or its row has left the
\* device for good.
HeldInv ==
  \A c \in Minted : status[c] \in {"pending", "applied"} =>
    \/ \E e \in overlay[cmd[c].dev] : e.cmd = c /\ e.row = cmd[c].row
    \/ Gone(cmd[c].row) /\ ~replica[cmd[c].dev][cmd[c].row].here

\* Updates depend on nothing, and are refused only on rows that are never made.
UpdatesInv ==
  \A c \in Minted : cmd[c].verb = "update" =>
    /\ cmd[c].dep = 0
    /\ log[c] = "rejected" => NeverMade(cmd[c].row)

\* The stamp of a row is an applied command.
StampsInv ==
  /\ \A r \in Rows : stamp[r] # 0 => stamp[r] \in Minted /\ log[stamp[r]] = "applied"
  /\ \A d \in Devices, r \in Rows :
       LET s == replica[d][r].stamp IN s # 0 => s \in Minted /\ log[s] = "applied"

\* A row stamped by a command, or by one minted after its device had enqueued it,
\* carries the command.
CarriedInv ==
  \A d \in Devices, c \in Minted :
    LET at == replica[d][cmd[c].row] IN
    /\ cmd[c].verb = "update" /\ log[c] = "applied" /\ at.here
    /\ at.stamp # 0
    /\ at.stamp = c \/ c \in cmd[at.stamp].after
    => Carries(at.value, c)

ClearInv == InHand /\ HeldInv /\ UpdatesInv /\ StampsInv /\ CarriedInv

\* How the status of a command moves.
LEMMA StatusMoves ==
  ASSUME TypeOK, Owned, DeliveryInv, InHand, [Next]_vars, NEW c \in Ids
  PROVE  \/ status'[c] = status[c]
         \/ status[c] = "unminted" /\ status'[c] = "draft"
         \/ status[c] = "draft" /\ status'[c] \in {"pending", "dropped"}
         \/ status[c] = "pending" /\ status'[c] \in {"applied", "rejected"}
         \/ status[c] = "applied" /\ status'[c] = "gone"
<1> DEFINE Moves == \/ status'[c] = status[c]
                    \/ status[c] = "unminted" /\ status'[c] = "draft"
                    \/ status[c] = "draft" /\ status'[c] \in {"pending", "dropped"}
                    \/ status[c] = "pending" /\ status'[c] \in {"applied", "rejected"}
                    \/ status[c] = "applied" /\ status'[c] = "gone"
<1>1. ASSUME UNCHANGED status PROVE Moves
  BY <1>1
<1>2. ASSUME NEW d \in Devices, UserWrites(d) PROVE Moves
  <2>1. PICK x \in Ids \ Minted : status' = [status EXCEPT ![x] = "draft"]
    BY <1>2 DEF UserWrites, CreateNode, UpdateNode, DeleteNode, Execute, FreshHlc
  <2>2. status[x] = "unminted"
    BY DEF Minted
  <2> QED BY <2>1, <2>2 DEF TypeOK
<1>3. ASSUME NEW d \in Devices, Enqueue(d) PROVE Moves
  <2>1. PICK x \in WithStatus(d, "draft") : status' = [status EXCEPT ![x] = "pending"]
    BY <1>3 DEF Enqueue
  <2>2. status[x] = "draft"
    BY DEF WithStatus
  <2> QED BY <2>1, <2>2 DEF TypeOK
<1>4. ASSUME NEW d \in Devices, ReconcileConfirmed(d) PROVE Moves
  <2>1. PICK x \in plan[d] : UNCHANGED status \/ status' = [status EXCEPT ![x] = "gone"]
    BY <1>4 DEF ReconcileConfirmed
  <2>2. status[x] = "applied"
    BY <1>4 DEF ReconcileConfirmed, InHand
  <2> QED BY <2>1, <2>2 DEF TypeOK
<1>5. ASSUME NEW d \in Devices, Ack(d) PROVE Moves
  <2>1. PICK x \in batch[d] : \/ status' = [status EXCEPT ![x] = "rejected"]
                             \/ status' = [status EXCEPT ![x] = "applied"]
    BY <1>5 DEF Ack, Acknowledge
  <2>2. status[x] = "pending"
    BY <1>5 DEF Ack, InHand
  <2> QED BY <2>1, <2>2 DEF TypeOK
<1>6. ASSUME NEW d \in Devices, StartDrain(d) \/ PendingCommands(d) \/ Respond(d) PROVE Moves
  BY <1>1, <1>6 DEF StartDrain, PendingCommands, Respond, device
<1>7. ASSUME NEW d \in Devices, AppRestarts(d) PROVE Moves
  BY <1>7 DEF AppRestarts, WithStatus, MintedBy
<1>8. ASSUME NEW d \in Devices, NEW k \in Slots,
             SyncDown(d) \/ UploadFails(d) \/ ServerDies(d, k) \/ ServerStep(d, k)
      PROVE  Moves
  BY <1>1, <1>8 DEF SyncDown, UploadFails, ServerDies, ServerStep, AnswerNoop, ApplyCommand,
                    RejectCommand, CreateReviewItem, HandleCommand, device
<1>9. CASE UNCHANGED vars
  BY <1>1, <1>9 DEF vars, device
<1> QED BY <1>2, <1>3, <1>4, <1>5, <1>6, <1>7, <1>8, <1>9 DEF Next, DrainStep, Slots

\* A command that was enqueued stays so.
LEMMA QueuedStays ==
  ASSUME TypeOK, Owned, DeliveryInv, InHand, [Next]_vars, NEW c \in Ids,
         status[c] \in {"pending"} \cup Decided
  PROVE  status'[c] \in {"pending"} \cup Decided
BY StatusMoves DEF Decided

\* What InHand says of the device d.
HandOK(d) ==
  /\ phase[d] = "reconcile" => \A c \in plan[d] : status[c] = "applied"
  /\ phase[d] \in {"await", "ack"} => /\ \A c \in plan[d] \cup batch[d] : status[c] = "pending"
                                      /\ plan[d] \cap batch[d] = {}
  /\ \A k \in Slots : \A c \in todo[d][k] : status[c] \in {"pending"} \cup Decided

\* The requests of d hold no other commands than before.
Shrinks(d) == \A k \in Slots : \A c \in todo'[d][k] : \E j \in Slots : c \in todo[d][j]

\* A step that moves no command d has in hand.
LEMMA HandKept ==
  ASSUME TypeOK, Owned, DeliveryInv, InHand, [Next]_vars, NEW d \in Devices, Shrinks(d),
         \/ phase'[d] = "idle"
         \/ /\ phase'[d] = phase[d] /\ plan'[d] \subseteq plan[d] /\ batch'[d] \subseteq batch[d]
            /\ \A c \in plan'[d] \cup batch'[d] : phase[d] # "idle" => status'[c] = status[c]
  PROVE  HandOK(d)'
<1>1. \A k \in Slots : \A c \in todo'[d][k] : status'[c] \in {"pending"} \cup Decided
  <2> TAKE k \in Slots
  <2> TAKE c \in todo'[d][k]
  <2>1. PICK j \in Slots : c \in todo[d][j]
    BY DEF Shrinks
  <2>2. c \in Ids /\ status[c] \in {"pending"} \cup Decided
    BY <2>1 DEF InHand, TypeOK
  <2> QED BY <2>2, QueuedStays
<1>2. CASE phase'[d] = "idle"
  BY <1>1, <1>2 DEF HandOK
<1>3. CASE /\ phase'[d] = phase[d] /\ plan'[d] \subseteq plan[d] /\ batch'[d] \subseteq batch[d]
           /\ \A c \in plan'[d] \cup batch'[d] : phase[d] # "idle" => status'[c] = status[c]
  <2>1. phase'[d] = "reconcile" => \A c \in plan'[d] : status'[c] = "applied"
    BY <1>3 DEF InHand
  <2>2. phase'[d] \in {"await", "ack"} => /\ \A c \in plan'[d] \cup batch'[d] : status'[c] = "pending"
                                          /\ plan'[d] \cap batch'[d] = {}
    BY <1>3 DEF InHand
  <2> QED BY <1>1, <2>1, <2>2 DEF HandOK
<1> QED BY <1>2, <1>3

\* A batch that is posted is of commands in the queue.
LEMMA HandSends ==
  ASSUME TypeOK, Owned, DeliveryInv, InHand, [Next]_vars, NEW d \in Devices, NEW S \in SUBSET Ids,
         SendBatch(d, S), \A c \in S : status'[c] = "pending"
  PROVE  HandOK(d)'
<1>1. /\ phase'[d] \in {"idle", "await"} /\ batch'[d] = FirstBatch(S) /\ plan'[d] = S \ FirstBatch(S)
      /\ todo'[d]["cur"] = FirstBatch(S) /\ todo'[d]["old"] = todo[d]["old"]
  BY DEF SendBatch, TypeOK, Slots
<1>2. FirstBatch(S) \subseteq S
  BY DEF FirstBatch
<1>3. \A c \in todo[d]["old"] : status'[c] \in {"pending"} \cup Decided
  <2> TAKE c \in todo[d]["old"]
  <2>1. c \in Ids /\ status[c] \in {"pending"} \cup Decided
    BY DEF InHand, TypeOK, Slots
  <2> QED BY <2>1, QueuedStays
<1> QED BY <1>1, <1>2, <1>3 DEF HandOK, Slots

\* What gets a verdict was in a request.
LEMMA LoggedQueued ==
  ASSUME TypeOK, Owned, DeliveryInv, InHand, [Next]_vars, NEW c \in Minted', Logged(c)'
  PROVE  c \in Minted /\ status'[c] \in {"pending"} \cup Decided
<1>1. c \in Ids
  BY DEF Minted
<1>2. c \in Minted
  BY <1>1, LogGrows DEF DeliveryInv, LoggedMinted
<1>3. status[c] \in {"pending"} \cup Decided
  <2>1. CASE Logged(c)
    BY <1>2, <2>1 DEF InHand
  <2>2. CASE ~Logged(c)
    <3>1. ~UNCHANGED tables
      BY <2>2 DEF Logged, tables
    <3>2. PICK d \in Devices, k \in Slots : \E x \in todo[d][k] :
                 ApplyCommand(d, k, x) \/ RejectCommand(d, k, x)
      BY <3>1, TableSteps
    <3>3. PICK x \in todo[d][k] : ApplyCommand(d, k, x) \/ RejectCommand(d, k, x)
      BY <3>2
    <3>4. x = c
      BY <1>1, <2>2, <3>3 DEF ApplyCommand, RejectCommand, Logged, TypeOK
    <3> QED BY <3>4 DEF InHand
  <2> QED BY <2>1, <2>2
<1> QED BY <1>1, <1>2, <1>3, QueuedStays

\* What the drains have in hand, after every step.
LEMMA InHandStep ==
  ASSUME TypeOK, Owned, DeliveryInv, InHand, [Next]_vars
  PROVE  InHand'
<1>1. SUFFICES ASSUME NEW x \in Devices PROVE HandOK(x)'
  <2>1. \A c \in Minted' : Logged(c)' => status'[c] \in {"pending"} \cup Decided
    BY LoggedQueued
  <2> QED BY <1>1, <2>1 DEF InHand, HandOK
\* A step that leaves the drain and the requests alone, and no command that is in hand.
<1>2. ASSUME UNCHANGED <<drain, todo>>,
             \A c \in Ids : status[c] \in {"applied", "pending"} => status'[c] = status[c]
      PROVE  HandOK(x)'
  <2>1. Shrinks(x)
    BY <1>2 DEF Shrinks
  <2>2. \A c \in plan[x] \cup batch[x] : c \in Ids /\ (phase[x] # "idle" => status'[c] = status[c])
    <3> TAKE c \in plan[x] \cup batch[x]
    <3>1. c \in Ids /\ phase[x] \in {"idle", "reconcile", "await", "ack"}
      BY DEF TypeOK, Phases
    <3>2. phase[x] = "reconcile" => batch[x] = {}
      BY DEF DeliveryInv, DrainOK
    <3>3. phase[x] # "idle" => status[c] \in {"applied", "pending"}
      BY <3>1, <3>2 DEF InHand
    <3> QED BY <1>2, <3>1, <3>3
  <2> QED BY <1>2, <2>1, <2>2, HandKept DEF drain
\* A step of another device.
<1>3. ASSUME NEW d \in Devices, d # x,
             phase'[x] = phase[x], plan'[x] = plan[x], batch'[x] = batch[x], todo'[x] = todo[x],
             \A c \in MintedBy(x) : status'[c] = status[c]
      PROVE  HandOK(x)'
  <2>1. Shrinks(x) /\ plan[x] \subseteq MintedBy(x) /\ batch[x] \subseteq MintedBy(x)
    BY <1>3 DEF Shrinks, Owned
  <2> QED BY <1>3, <2>1, HandKept
<1>4. ASSUME NEW d \in Devices, UserWrites(d) PROVE HandOK(x)'
  <2>1. PICK y \in Ids \ Minted : status' = [status EXCEPT ![y] = "draft"] /\ UNCHANGED <<drain, todo>>
    BY <1>4 DEF UserWrites, CreateNode, UpdateNode, DeleteNode, Execute, FreshHlc
  <2> QED BY <1>2, <2>1 DEF Minted, TypeOK
<1>5. ASSUME NEW d \in Devices, Enqueue(d) PROVE HandOK(x)'
  <2>1. PICK y \in WithStatus(d, "draft") :
          status' = [status EXCEPT ![y] = "pending"] /\ UNCHANGED <<drain, todo>>
    BY <1>5 DEF Enqueue
  <2> QED BY <1>2, <2>1 DEF WithStatus, TypeOK
<1>6. ASSUME NEW d \in Devices, SyncDown(d) PROVE HandOK(x)'
  BY <1>2, <1>6 DEF SyncDown
<1>7. ASSUME UNCHANGED vars PROVE HandOK(x)'
  BY <1>2, <1>7 DEF vars, device
<1>8. ASSUME NEW d \in Devices, StartDrain(d) PROVE HandOK(x)'
  <2>1. /\ UNCHANGED <<status, batch, todo>> /\ phase'[d] = "reconcile"
        /\ plan'[d] = WithStatus(d, "applied")
        /\ x # d => phase'[x] = phase[x] /\ plan'[x] = plan[x]
    BY <1>8 DEF StartDrain, device, TypeOK
  <2>2. CASE x = d
    BY <2>1, <2>2 DEF HandOK, InHand, WithStatus
  <2> QED BY <1>3, <2>1, <2>2
<1>9. ASSUME NEW d \in Devices, ReconcileConfirmed(d) PROVE HandOK(x)'
  <2>1. PICK c \in plan[d] : /\ plan' = [plan EXCEPT ![d] = @ \ {c}]
                             /\ UNCHANGED status \/ status' = [status EXCEPT ![c] = "gone"]
    BY <1>9 DEF ReconcileConfirmed
  <2>2. phase[d] = "reconcile" /\ UNCHANGED <<phase, batch, todo>> /\ batch[d] = {}
    BY <1>9 DEF ReconcileConfirmed, DeliveryInv, DrainOK
  <2>3. c \in Ids /\ c \in MintedBy(d) /\ \A y \in Ids : y # c => status'[y] = status[y]
    BY <2>1 DEF TypeOK, Owned, MintedBy, Minted
  <2>4. CASE x = d
    <3>1. plan'[x] = plan[x] \ {c} /\ plan[x] \subseteq Ids /\ Shrinks(x)
      BY <2>1, <2>2, <2>4 DEF TypeOK, Shrinks
    <3> QED BY <2>2, <2>3, <2>4, <3>1, HandKept
  <2>5. CASE x # d
    <3>1. plan'[x] = plan[x] /\ \A y \in MintedBy(x) : y \in Ids /\ y # c
      BY <2>1, <2>3, <2>5 DEF TypeOK, MintedBy, Minted
    <3> QED BY <1>3, <2>2, <2>3, <2>5, <3>1
  <2> QED BY <2>4, <2>5
<1>10. ASSUME NEW d \in Devices, PendingCommands(d) PROVE HandOK(x)'
  <2>1. SendBatch(d, WithStatus(d, "pending")) /\ status' = status /\ cmd' = cmd
    BY <1>10 DEF PendingCommands, device
  <2>2. CASE x = d
    BY <2>1, <2>2, HandSends DEF WithStatus, MintedBy, Minted
  <2>3. x # d => phase'[x] = phase[x] /\ plan'[x] = plan[x] /\ batch'[x] = batch[x] /\ todo'[x] = todo[x]
    BY <2>1 DEF SendBatch, TypeOK
  <2> QED BY <1>3, <2>1, <2>2, <2>3
<1>11. ASSUME NEW d \in Devices, Respond(d) PROVE HandOK(x)'
  <2>1. /\ phase[d] = "await" /\ phase' = [phase EXCEPT ![d] = "ack"]
        /\ UNCHANGED <<status, plan, batch, todo>>
    BY <1>11 DEF Respond, device
  <2>2. CASE x = d
    BY <2>1, <2>2 DEF HandOK, InHand, TypeOK
  <2>3. x # d => phase'[x] = phase[x]
    BY <2>1 DEF TypeOK
  <2> QED BY <1>3, <2>1, <2>2, <2>3
<1>12. ASSUME NEW d \in Devices, Ack(d) PROVE HandOK(x)'
  <2>1. PICK c \in batch[d] :
          /\ \/ status' = [status EXCEPT ![c] = "rejected"]
             \/ status' = [status EXCEPT ![c] = "applied"]
          /\ IF batch[d] = {c} THEN SendBatch(d, plan[d])
             ELSE batch' = [batch EXCEPT ![d] = @ \ {c}] /\ UNCHANGED <<phase, plan, todo>>
    BY <1>12 DEF Ack, Acknowledge
  <2>2. phase[d] = "ack"
    BY <1>12 DEF Ack
  <2>3. c \in Ids /\ c \in MintedBy(d) /\ \A y \in Ids : y # c => status'[y] = status[y]
    BY <2>1 DEF TypeOK, Owned, MintedBy, Minted
  <2>4. plan[d] \in SUBSET Ids /\ \A y \in plan[d] : y # c /\ status'[y] = "pending"
    BY <2>2, <2>3 DEF InHand, TypeOK
  <2>5. CASE x = d
    <3>1. CASE batch[d] = {c}
      BY <2>1, <2>4, <2>5, <3>1, HandSends
    <3>2. CASE batch[d] # {c}
      <4>1. /\ batch'[x] = batch[x] \ {c} /\ batch[x] \subseteq Ids /\ Shrinks(x)
            /\ phase'[x] = phase[x] /\ plan'[x] = plan[x]
        BY <2>1, <2>5, <3>2 DEF TypeOK, Shrinks
      <4> QED BY <2>3, <2>4, <2>5, <4>1, HandKept
    <3> QED BY <3>1, <3>2
  <2>6. CASE x # d
    <3>1. phase'[x] = phase[x] /\ plan'[x] = plan[x] /\ batch'[x] = batch[x] /\ todo'[x] = todo[x]
      BY <2>1, <2>6 DEF SendBatch, TypeOK
    <3>2. \A y \in MintedBy(x) : y \in Ids /\ y # c
      BY <2>3, <2>6 DEF MintedBy, Minted
    <3> QED BY <1>3, <2>3, <2>6, <3>1, <3>2
  <2> QED BY <2>5, <2>6
<1>13. ASSUME NEW d \in Devices, NEW k \in Slots,
              UploadFails(d) \/ AppRestarts(d) \/ ServerDies(d, k)
       PROVE  HandOK(x)'
  <2>1. /\ \A y \in Devices : Shrinks(y)
        /\ \/ phase'[d] = "idle"
           \/ UNCHANGED drain /\ status' = status
        /\ x # d => phase'[x] = phase[x] /\ plan'[x] = plan[x] /\ batch'[x] = batch[x] /\ todo'[x] = todo[x]
        /\ x # d => \A c \in MintedBy(x) : status'[c] = status[c]
    <3>1. CASE UploadFails(d) \/ AppRestarts(d)
      <4>1. Idle(d) /\ Orphan(d) /\ \A c \in Ids : c \notin WithStatus(d, "draft") => status'[c] = status[c]
        BY <3>1 DEF UploadFails, AppRestarts, device
      <4>2. \A c \in MintedBy(x) : x # d => c \in Ids /\ c \notin WithStatus(d, "draft")
        BY DEF MintedBy, WithStatus, Minted
      <4>3. ASSUME NEW y \in Devices PROVE Shrinks(y)
        <5>1. CASE y = d
          <6>1. todo'[y]["cur"] = {} /\ todo'[y]["old"] \in {todo[y]["old"], todo[y]["cur"]}
            BY <4>1, <5>1 DEF Orphan, TypeOK, Slots
          <6> QED BY <6>1 DEF Shrinks, Slots
        <5>2. CASE y # d
          <6>1. todo'[y] = todo[y]
            BY <4>1, <5>2 DEF Orphan, TypeOK
          <6> QED BY <6>1 DEF Shrinks
        <5> QED BY <5>1, <5>2
      <4>4. x # d => todo'[x] = todo[x]
        BY <4>1 DEF Orphan, TypeOK
      <4> QED BY <4>1, <4>2, <4>3, <4>4 DEF Idle, TypeOK
    <3>2. CASE ServerDies(d, k)
      <4>1. /\ todo' = [todo EXCEPT ![d][k] = {}] /\ status' = status
            /\ Idle(d) \/ UNCHANGED drain
        BY <3>2 DEF ServerDies, device
      <4>2. \A y \in Devices : Shrinks(y)
        BY <4>1 DEF Shrinks, TypeOK
      <4>3. x # d => todo'[x] = todo[x]
        BY <4>1 DEF TypeOK
      <4> QED BY <4>1, <4>2, <4>3 DEF Idle, TypeOK, drain
    <3> QED BY <1>13, <3>1, <3>2
  <2>2. CASE x = d
    BY <2>1, <2>2, HandKept DEF drain
  <2> QED BY <1>3, <2>1, <2>2
<1>14. ASSUME NEW d \in Devices, NEW k \in Slots, ServerStep(d, k) PROVE HandOK(x)'
  <2>1. UNCHANGED <<status, phase, plan, batch>>
    BY <1>14 DEF ServerStep, AnswerNoop, ApplyCommand, RejectCommand, CreateReviewItem,
                 HandleCommand, device, drain
  <2>2. Shrinks(x)
    <3>1. todo' = todo \/ \E c : todo' = [todo EXCEPT ![d][k] = @ \ {c}]
      BY <1>14 DEF ServerStep, AnswerNoop, ApplyCommand, RejectCommand, CreateReviewItem,
                   HandleCommand
    <3>2. CASE todo' = todo
      BY <3>2 DEF Shrinks
    <3>3. ASSUME NEW c, todo' = [todo EXCEPT ![d][k] = @ \ {c}], NEW j \in Slots
          PROVE  todo'[x][j] \subseteq todo[x][j]
      BY <3>3 DEF TypeOK
    <3> QED BY <3>1, <3>2, <3>3 DEF Shrinks
  <2> QED BY <2>1, <2>2, HandKept
<1> QED BY <1>4, <1>5, <1>6, <1>7, <1>8, <1>9, <1>10, <1>11, <1>12, <1>13, <1>14 DEF Next, DrainStep, Slots

\* A device keeps what it has downloaded, or takes the rows of the server.
LEMMA ReplicaMoves ==
  ASSUME TypeOK, [Next]_vars, NEW d \in Devices, NEW r \in Rows
  PROVE  replica'[d][r] = replica[d][r] \/ replica'[d][r] = Canonical(r)
<1>1. ASSUME NEW e \in Devices, SyncDown(e)
      PROVE  replica'[d][r] = replica[d][r] \/ replica'[d][r] = Canonical(r)
  BY <1>1 DEF SyncDown, TypeOK
<1>2. ASSUME NEW e \in Devices, UserWrites(e) \/ Enqueue(e) \/ DrainStep(e)
      PROVE  UNCHANGED replica
  BY <1>2 DEF UserWrites, CreateNode, UpdateNode, DeleteNode, Execute, Enqueue, DrainStep,
              StartDrain, ReconcileConfirmed, PendingCommands, Respond, Ack, device
<1>3. ASSUME NEW e \in Devices, NEW k \in Slots,
             UploadFails(e) \/ AppRestarts(e) \/ ServerStep(e, k) \/ ServerDies(e, k)
      PROVE  UNCHANGED replica
  BY <1>3 DEF UploadFails, AppRestarts, ServerStep, AnswerNoop, ApplyCommand, RejectCommand,
              CreateReviewItem, HandleCommand, ServerDies, device
<1>4. CASE UNCHANGED vars
  BY <1>4 DEF vars, device
<1> QED BY <1>1, <1>2, <1>3, <1>4 DEF Next, Slots

\* A row that is gone and has left a device does not come back to it.
LEMMA OutStays ==
  ASSUME TypeOK, Owned, EnvelopesInv, [Next]_vars, NEW d \in Devices, NEW r \in Rows,
         Gone(r), ~replica[d][r].here
  PROVE  Gone(r)' /\ ~replica'[d][r].here
<1>1. state[r] # "live"
  BY DEF Gone, NeverMade
<1>2. ~Canonical(r).here
  BY <1>1 DEF Canonical, Absent, Blank
<1>3. replica'[d][r] = replica[d][r] \/ replica'[d][r] = Canonical(r)
  BY ReplicaMoves
<1>4. ~replica'[d][r].here
  BY <1>2, <1>3
<1>5. Gone(r)'
  BY GoneStays
<1> QED BY <1>4, <1>5

\* What a device holds for a command leaves the overlay only with the command, or with
\* the row.
LEMMA HeldStep ==
  ASSUME TypeOK, Owned, DeliveryInv, InHand, EnvelopesInv, ShownInv, DeletesDone, HeldInv,
         [Next]_vars
  PROVE  HeldInv'
<1>1. SUFFICES ASSUME NEW c \in Minted', status'[c] \in {"pending", "applied"}
               PROVE  \E r \in Rows, d \in Devices :
                        /\ cmd'[c].row = r /\ cmd'[c].dev = d
                        /\ \/ \E e \in overlay'[d] : e.cmd = c /\ e.row = r
                           \/ Gone(r)' /\ ~replica'[d][r].here
  BY <1>1 DEF HeldInv, Gone
<1>2. c \in Ids /\ c \in Minted /\ cmd'[c] = cmd[c]
  <2>1. c \in Ids
    BY DEF Minted
  <2>2. c \in Minted
    BY <1>1, <2>1, StatusMoves DEF Minted
  <2> QED BY <2>1, <2>2, EnvelopeFixed
<1>3. PICK r \in Rows, d \in Devices : cmd[c].row = r /\ cmd[c].dev = d
  BY <1>2 DEF TypeOK, Command
<1> DEFINE Holds == \E e \in overlay'[d] : e.cmd = c /\ e.row = r
           Out   == Gone(r)' /\ ~replica'[d][r].here
<1> SUFFICES Holds \/ Out
  BY <1>2, <1>3
<1>4. ASSUME status[c] \in {"pending", "applied"},
             \A e \in overlay[d] : e.cmd = c /\ e.row = r => e \in overlay'[d]
      PROVE  Holds \/ Out
  <2>1. CASE \E e \in overlay[d] : e.cmd = c /\ e.row = r
    BY <1>4, <2>1
  <2>2. CASE Gone(r) /\ ~replica[d][r].here
    BY <2>2, OutStays
  <2> QED BY <1>2, <1>3, <1>4, <2>1, <2>2 DEF HeldInv
<1>5. status[c] \in {"pending", "applied"} \/ (status[c] = "draft" /\ status'[c] = "pending")
  BY <1>1, <1>2, StatusMoves
<1>6. CASE Elsewhere
  <2>1. status[c] \in {"pending", "applied"}
    BY <1>2, <1>5, <1>6 DEF Elsewhere
  <2> QED BY <1>4, <1>6, <2>1 DEF Elsewhere
<1>7. ASSUME NEW y \in Devices, NEW x \in WithStatus(y, "draft"), Enqueues(y, x)
      PROVE  Holds \/ Out
  <2>1. CASE x = c
    <3>1. y = d
      BY <1>3, <2>1 DEF WithStatus, MintedBy
    <3>2. PICK w \in cmd[c].writes : w.row = r
      BY <1>2, <1>3 DEF EnvelopesInv
    <3>3. [cmd |-> c, row |-> r, op |-> w.op] \in overlay'[d]
      BY <1>2, <1>7, <2>1, <3>1, <3>2 DEF Enqueues, TypeOK
    <3> QED BY <3>3
  <2>2. CASE x # c
    <3>1. status[c] = status'[c] /\ overlay[d] \subseteq overlay'[d]
      BY <1>2, <1>7, <2>2 DEF Enqueues, TypeOK
    <3> QED BY <1>1, <1>4, <3>1
  <2> QED BY <2>1, <2>2
<1>8. ASSUME NEW y \in Devices, NEW x \in plan[y], Reconciles(y, x)
      PROVE  Holds \/ Out
  <2>1. x \in Ids /\ x # c /\ status[c] = status'[c]
    BY <1>1, <1>2, <1>8 DEF Reconciles, TypeOK
  <2>2. CASE \A e \in overlay[d] : e.cmd = c /\ e.row = r => e \in overlay'[d]
    BY <1>1, <1>4, <2>1, <2>2
  <2>3. CASE ~\A e \in overlay[d] : e.cmd = c /\ e.row = r => e \in overlay'[d]
    <3>1. PICK e \in overlay[d] : e.cmd = c /\ e.row = r /\ e \notin overlay'[d]
      BY <2>3
    <3>2. y = d /\ e \in Settled(d, x)
      BY <1>8, <3>1 DEF Reconciles, TypeOK
    <3>3. PICK own \in overlay[d] : own.cmd = x /\ own.op = "delete" /\ own.row = r
      BY <2>1, <3>1, <3>2 DEF Settled, EffectsOf
    <3>4. [row |-> r, op |-> "delete"] \in cmd[x].writes
      BY <3>3 DEF ShownInv
    <3>5. x \in Minted /\ Logged(x)
      BY <1>8, <3>2 DEF DeliveryInv, DrainOK, Reconciles, Owned, MintedBy
    <3>6. ~replica[d][r].here
      BY <1>8, <3>2, <3>3 DEF Reconciles, Confirmed, EffectsOf, Arrived
    <3>7. Gone(r)
      BY <3>4, <3>5 DEF DeletesDone
    <3> QED BY <3>6, <3>7, OutStays
  <2> QED BY <2>2, <2>3
<1>9. ASSUME NEW y \in Devices, NEW x \in batch[y], RollsBack(y, x)
      PROVE  Holds \/ Out
  <2>1. x # c /\ status[c] = status'[c]
    BY <1>1, <1>2, <1>9 DEF RollsBack, TypeOK
  <2>2. \A e \in overlay[d] : e.cmd = c => e \in overlay'[d]
    BY <1>9, <2>1 DEF RollsBack, EffectsOf, TypeOK
  <2> QED BY <1>1, <1>4, <2>1, <2>2
<1> QED BY <1>6, <1>7, <1>8, <1>9, OverlayMoves

\* What a device mints.
MintsAt(d, c) ==
  /\ c \notin Minted /\ Minted' = Minted \cup {c}
  /\ \A x \in MintedBy(d) : x < c
  /\ SerialWrites => WithStatus(d, "draft") = {}
  /\ cmd'[c].dev = d /\ cmd'[c].after = Past(d)
  /\ OrderedIds => cmd'[c].uid = c
  /\ cmd'[c].verb = "update" => cmd'[c].dep = 0
  /\ UNCHANGED <<tables, replica>>

\* A write of a device mints one command, after every one the device has minted.
LEMMA ExecuteMints ==
  ASSUME TypeOK, NEW d \in Devices, NEW verb, NEW r, NEW fields, NEW deps, NEW writes,
         verb = "update" => deps = {0}, Execute(d, verb, r, fields, deps, writes)
  PROVE  \E c \in Ids : MintsAt(d, c)
<1> DEFINE Env(u, dep) ==
      [dev |-> d, verb |-> verb, row |-> r, fields |-> fields,
       dep |-> dep, uid |-> u, writes |-> writes, after |-> Past(d)]
<1>1. PICK c \in Ids, u \in Ids, dep \in deps :
        /\ FreshHlc(d, c) /\ FreshUid(c, u)
        /\ cmd' = [cmd EXCEPT ![c] = Env(u, dep)]
        /\ status' = [status EXCEPT ![c] = "draft"]
  BY DEF Execute, Past
<1>2. /\ Env(u, dep).dev = d /\ Env(u, dep).after = Past(d) /\ Env(u, dep).uid = u
      /\ Env(u, dep).verb = verb /\ Env(u, dep).dep = dep
  OBVIOUS
<1> HIDE DEF Env
<1>3. cmd'[c] = Env(u, dep) /\ Minted' = Minted \cup {c}
  BY <1>1 DEF TypeOK, Minted
<1>4. /\ SerialWrites => WithStatus(d, "draft") = {}
      /\ UNCHANGED <<tables, replica>>
  BY DEF Execute
<1> QED BY <1>1, <1>2, <1>3, <1>4 DEF MintsAt, FreshHlc, FreshUid

\* A command that is new is what a device mints.
LEMMA Mints ==
  ASSUME TypeOK, Owned, [Next]_vars, NEW c \in Minted', c \notin Minted
  PROVE  \E d \in Devices : MintsAt(d, c)
<1>1. PICK d \in Devices : UserWrites(d)
  BY MintedMoves
<1>2. \E x \in Ids : MintsAt(d, x)
  <2>1. ASSUME NEW r \in Rows, CreateNode(d, r) PROVE \E x \in Ids : MintsAt(d, x)
    BY <2>1, ExecuteMints DEF CreateNode
  <2>2. ASSUME NEW r \in Rows, NEW f \in Fields, UpdateNode(d, r, f)
        PROVE  \E x \in Ids : MintsAt(d, x)
    BY <2>2, ExecuteMints DEF UpdateNode
  <2>3. ASSUME NEW r \in Rows, DeleteNode(d, r) PROVE \E x \in Ids : MintsAt(d, x)
    BY <2>3, ExecuteMints DEF DeleteNode
  <2> QED BY <1>1, <2>1, <2>2, <2>3 DEF UserWrites
<1> QED BY <1>2 DEF MintsAt

\* What a request runs is a queued command whose past has its verdicts.
LEMMA PastDecided ==
  ASSUME TypeOK, Owned, DeliveryInv, NEW d \in Devices, NEW k \in Slots, NEW c \in todo[d][k],
         HandleCommand(d, k, c)
  PROVE  \A a \in cmd[c].after : a \in Minted /\ Logged(a)
<1> TAKE a \in cmd[c].after
<1>1. c \in Minted
  BY CommandTaken
<1>2. a \in Minted /\ a < c /\ a \in Ids /\ c \in Ids
  BY <1>1 DEF DeliveryInv, AfterInv, Minted
<1>3. a \in todo[d][k] \/ Logged(a)
  BY DEF DeliveryInv, QueueOK, Closed
<1>4. a \notin todo[d][k]
  BY <1>2, BoundsAssumption DEF HandleCommand, NextInOrder, Ids
<1> QED BY <1>2, <1>3, <1>4

\* A row that was never made never is.
LEMMA NeverMadeStays ==
  ASSUME TypeOK, Owned, EnvelopesInv, [Next]_vars, NEW r \in Rows, NeverMade(r)
  PROVE  NeverMade(r)'
<1>1. PICK c \in Minted : cmd[c].verb = "create" /\ cmd[c].row = r /\ log[c] = "rejected"
  BY DEF NeverMade
<1>2. c \in Minted' /\ cmd'[c] = cmd[c] /\ log'[c] = "rejected"
  BY <1>1, EnvelopeFixed, RejectionStays DEF Minted
<1>3. state'[r] = "absent"
  BY <1>1, StateMoves DEF NeverMade, EnvelopesInv
<1> QED BY <1>1, <1>2, <1>3 DEF NeverMade

\* The tables say who got a verdict.
LEMMA NewVerdict ==
  ASSUME TypeOK, Owned, [Next]_vars, NEW c \in Ids, log'[c] # log[c]
  PROVE  \E d \in Devices, k \in Slots :
           /\ c \in todo[d][k] /\ log[c] = "none"
           /\ ApplyCommand(d, k, c) \/ RejectCommand(d, k, c)
<1>1. ~UNCHANGED tables
  BY DEF tables
<1>2. PICK d \in Devices, k \in Slots : \E x \in todo[d][k] :
             ApplyCommand(d, k, x) \/ RejectCommand(d, k, x)
  BY <1>1, TableSteps
<1>3. PICK x \in todo[d][k] : ApplyCommand(d, k, x) \/ RejectCommand(d, k, x)
  BY <1>2
<1>4. x = c /\ log[x] = "none"
  BY <1>3 DEF ApplyCommand, RejectCommand, TypeOK
<1> QED BY <1>3, <1>4

\* An update is refused only when the row it writes was never made.
LEMMA UpdatesStep ==
  ASSUME TypeOK, Owned, DeliveryInv, RowsInv, EnvelopesInv, UpdatesInv, [Next]_vars
  PROVE  UpdatesInv'
<1>1. SUFFICES ASSUME NEW c \in Minted', cmd'[c].verb = "update"
               PROVE  /\ cmd'[c].dep = 0
                      /\ log'[c] = "rejected" =>
                           \E r \in Rows : cmd'[c].row = r /\ NeverMade(r)'
  BY <1>1 DEF UpdatesInv, NeverMade
<1>2. CASE c \notin Minted
  <2>1. cmd'[c].dep = 0 /\ log'[c] = log[c]
    BY <1>1, <1>2, Mints DEF MintsAt, tables
  <2>2. log[c] = "none"
    BY <1>2 DEF DeliveryInv, LoggedMinted, Logged, Minted
  <2> QED BY <2>1, <2>2
<1>3. CASE c \in Minted
  <2>1. cmd'[c] = cmd[c] /\ c \in Ids /\ cmd[c].row \in Rows /\ cmd[c].dep = 0
    BY <1>1, <1>3, EnvelopeFixed DEF TypeOK, Command, UpdatesInv, Minted
  <2>2. PICK r \in Rows : cmd[c].row = r
    BY <2>1
  <2>3. SUFFICES ASSUME log'[c] = "rejected" PROVE NeverMade(r)
    BY <2>1, <2>2, NeverMadeStays
  <2>4. CASE log[c] = "rejected"
    BY <1>1, <1>3, <2>1, <2>4, <2>2 DEF UpdatesInv
  <2>5. CASE log[c] # "rejected"
    <3>1. PICK d \in Devices, k \in Slots :
                 /\ c \in todo[d][k] /\ log[c] = "none"
                 /\ ApplyCommand(d, k, c) \/ RejectCommand(d, k, c)
      BY <2>1, <2>3, <2>5, NewVerdict
    <3>2. RejectCommand(d, k, c)
      BY <2>1, <2>3, <3>1 DEF ApplyCommand, TypeOK
    <3>3. state[r] = "absent"
      BY <2>1, <2>2, <3>2 DEF RejectCommand, Accepts, DependencyMet, HandlerAccepts
    <3>4. PICK w \in cmd[c].writes : w.row = r /\ WriteOK(c, w)
      BY <1>3, <2>2 DEF EnvelopesInv
    <3>5. PICK a \in cmd[c].after : cmd[a].verb = "create" /\ cmd[a].row = r
      BY <1>1, <2>1, <3>3, <3>4 DEF WriteOK, Known
    <3>6. a \in Minted /\ Logged(a) /\ a \in Ids
      BY <3>1, <3>2, PastDecided DEF RejectCommand, Minted
    <3>7. log[a] = "rejected"
      BY <3>3, <3>5, <3>6 DEF RowsInv, Logged, TypeOK
    <3> QED BY <3>3, <3>5, <3>6, <3>7 DEF NeverMade
  <2> QED BY <2>4, <2>5
<1> QED BY <1>2, <1>3

\* An applied command stays applied.
LEMMA AppliedStays ==
  ASSUME TypeOK, Owned, [Next]_vars, NEW c \in Ids, log[c] = "applied"
  PROVE  log'[c] = "applied"
BY NewVerdict

\* Rows are stamped by the commands that apply.
LEMMA StampsStep ==
  ASSUME TypeOK, Owned, StampsInv, [Next]_vars
  PROVE  StampsInv'
<1> DEFINE Good(s) == s # 0 => s \in Minted /\ log[s] = "applied"
<1>1. ASSUME NEW s, Good(s) PROVE s # 0 => s \in Minted' /\ log'[s] = "applied"
  BY <1>1, EnvelopeFixed, AppliedStays DEF Minted
<1>2. \A r \in Rows : stamp'[r] # 0 => stamp'[r] \in Minted' /\ log'[stamp'[r]] = "applied"
  <2> TAKE r \in Rows
  <2>1. Good(stamp[r])
    BY DEF StampsInv
  <2>2. CASE stamp'[r] = stamp[r]
    BY <1>1, <2>1, <2>2
  <2>3. CASE stamp'[r] # stamp[r]
    <3>1. PICK d \in Devices, k \in Slots : \E x \in todo[d][k] :
                 ApplyCommand(d, k, x) \/ RejectCommand(d, k, x)
      BY <2>3, TableSteps DEF tables
    <3>2. PICK x \in todo[d][k] : ApplyCommand(d, k, x)
      BY <2>3, <3>1 DEF RejectCommand
    <3>3. x \in Ids /\ x \in Minted' /\ cmd[x].row \in Rows
      BY <3>2, CommandTaken DEF ApplyCommand, Command
    <3>4. stamp'[r] = x
      BY <2>3, <3>2, <3>3 DEF ApplyCommand, RunHandler, ApplyCreate, ApplyUpdate, ApplyDelete, TypeOK
    <3>5. log'[x] = "applied"
      BY <3>2, <3>3 DEF ApplyCommand, TypeOK
    <3> QED BY <3>3, <3>4, <3>5
  <2> QED BY <2>2, <2>3
<1>3. \A d \in Devices, r \in Rows :
        LET s == replica'[d][r].stamp IN s # 0 => s \in Minted' /\ log'[s] = "applied"
  <2> TAKE d \in Devices, r \in Rows
  <2>1. Good(stamp[r]) /\ Good(replica[d][r].stamp)
    BY DEF StampsInv
  <2>2. Canonical(r).stamp \in {0, stamp[r]}
    BY DEF Canonical, Absent, Blank
  <2>3. replica'[d][r] = replica[d][r] \/ replica'[d][r] = Canonical(r)
    BY ReplicaMoves
  <2>4. Good(replica'[d][r].stamp)
    BY <2>1, <2>2, <2>3
  <2> HIDE DEF Good
  <2> QED BY <1>1, <2>4
<1> QED BY <1>2, <1>3 DEF StampsInv

\* An applied update stays in the columns of its row, unless a later write of the same
\* field takes its place.
LEMMA ServerCarries ==
  ASSUME TypeOK, LwwInv, NEW c \in Minted, NEW r \in Rows,
         cmd[c].verb = "update", cmd[c].row = r, log[c] = "applied"
  PROVE  Carries(value[r], c)
<1>1. c \in Ids /\ cmd[c] \in Command
  BY DEF TypeOK, Minted
<1>2. SUFFICES ASSUME NEW f \in cmd[c].fields PROVE c <= value[r][f]
  BY DEF Carries
<1>3. f \in Fields /\ FieldOK(r, f)
  BY <1>1, LwwByField DEF LwwInv, Command
<1> QED BY <1>1, <1>2, <1>3 DEF FieldOK, Ids

\* When an update is applied, no row is stamped by it yet, nor by a command whose device
\* had enqueued it: causal order.
LEMMA CarriedStep ==
  ASSUME TypeOK, Owned, DeliveryInv, LwwInv, InHand, StampsInv, CarriedInv, [Next]_vars
  PROVE  CarriedInv'
<1> DEFINE mark(d, r) == replica'[d][r].stamp
<1>1. SUFFICES ASSUME NEW d \in Devices, NEW c \in Minted', NEW r,  cmd'[c].row = r,
                      cmd'[c].verb = "update", log'[c] = "applied",
                      replica'[d][r].here, mark(d, r) # 0,
                      mark(d, r) = c \/ c \in cmd'[mark(d, r)].after
               PROVE  \A f \in cmd'[c].fields : c <= replica'[d][r].value[f]
  BY <1>1 DEF CarriedInv, Carries
<1>2. c \in Ids /\ c \in Minted
  BY <1>1, LoggedQueued DEF Logged, Minted
<1>3. cmd'[c] = cmd[c] /\ cmd[c] \in Command /\ r \in Rows
  BY <1>1, <1>2, EnvelopeFixed DEF TypeOK, Command
<1>4. \A s \in Minted : cmd'[s] = cmd[s]
  BY EnvelopeFixed
<1>5. CASE log[c] = "applied"
  <2>1. CASE replica'[d][r] = replica[d][r]
    <3>1. replica[d][r].stamp \in Minted
      BY <1>1, <1>3, <2>1 DEF StampsInv
    <3>2. Carries(replica[d][r].value, c)
      BY <1>1, <1>2, <1>3, <1>4, <1>5, <2>1, <3>1 DEF CarriedInv
    <3> QED BY <1>3, <2>1, <3>2 DEF Carries
  <2>2. CASE replica'[d][r] = Canonical(r)
    <3>1. replica'[d][r].value = value[r]
      BY <1>1, <2>2 DEF Canonical, Absent, Blank
    <3>2. Carries(value[r], c)
      BY <1>1, <1>2, <1>3, <1>5, ServerCarries
    <3> QED BY <1>3, <3>1, <3>2 DEF Carries
  <2> QED BY <1>3, <2>1, <2>2, ReplicaMoves
<1>6. CASE log[c] # "applied"
  <2>1. PICK e \in Devices, k \in Slots : /\ c \in todo[e][k] /\ log[c] = "none"
                                         /\ ApplyCommand(e, k, c)
    BY <1>1, <1>2, <1>6, NewVerdict DEF RejectCommand, TypeOK
  <2>2. replica' = replica
    BY <2>1 DEF ApplyCommand, HandleCommand, device
  <2> DEFINE s == replica[d][r].stamp
  <2>3. s \in Minted /\ log[s] = "applied"
    BY <1>1, <1>3, <2>2 DEF StampsInv
  <2>4. s # c
    BY <2>1, <2>3
  <2>5. c \notin cmd[s].after
    BY <2>1, <2>3 DEF DeliveryInv, CausalDelivery
  <2> QED BY <1>1, <1>4, <2>2, <2>3, <2>4, <2>5
<1> QED BY <1>5, <1>6

\* The invariant of what devices let go of.
LEMMA ClearStep ==
  ASSUME TypeOK, Owned, DeliveryInv, KeptInv, LwwInv, ClearInv, [Next]_vars
  PROVE  ClearInv'
BY InHandStep, HeldStep, UpdatesStep, StampsStep, CarriedStep DEF ClearInv, KeptInv

\* What a reconciled update has left behind, on the server and on the device.
LEMMA ClearedArrived ==
  ASSUME TypeOK, Owned, DeliveryInv, KeptInv, LwwInv, ClearInv, [Next]_vars,
         NEW c \in Minted, cmd[c].verb = "update", status[c] = "applied", status'[c] = "gone"
  PROVE  LET r  == cmd[c].row
             at == replica[cmd[c].dev][r]
         IN  \/ ~at.here
             \/ Carries(value[r], c) /\ (Carries(at.value, c) \/ Uninformed(c, at.stamp))
<1>1. c \in Ids /\ cmd[c] \in Command
  BY DEF TypeOK, Minted
<1>2. PICK d \in Devices, r \in Rows : cmd[c].dev = d /\ cmd[c].row = r
  BY <1>1 DEF Command
<1> DEFINE at == replica[d][r]
<1>3. SUFFICES ASSUME at.here
               PROVE  Carries(value[r], c) /\ (Carries(at.value, c) \/ Uninformed(c, at.stamp))
  BY <1>2
<1>4. PICK e \in overlay[d] : e.cmd = c /\ e.row = r
  BY <1>2, <1>3 DEF ClearInv, HeldInv
<1>5. Arrived(d, e)
  <2>1. PICK y \in Devices : \E x \in plan[y] : Reconciles(y, x)
    BY <1>1, OverlayMoves DEF Elsewhere, Enqueues, RollsBack, TypeOK
  <2>2. PICK x \in plan[y] : Reconciles(y, x)
    BY <2>1
  <2>3. x = c
    BY <1>1, <2>2 DEF Reconciles, TypeOK
  <2>4. y = d
    BY <1>2, <2>3 DEF Owned, MintedBy
  <2> QED BY <1>4, <2>2, <2>3, <2>4 DEF Reconciles, Confirmed, EffectsOf
<1>6. e.op \notin {"insert", "delete"}
  BY <1>4 DEF KeptInv, ShownInv, EnvelopesInv, WriteOK
<1>7. at.stamp = c \/ Supersedes(at.stamp, c) \/ NullStamp(r, at.stamp)
  BY <1>4, <1>5, <1>6 DEF Arrived
<1>8. Supersedes(at.stamp, c) => at.stamp # 0
  BY <1>1 DEF Supersedes, Uid, Command, Ids
<1>9. \/ at.stamp # 0 /\ (at.stamp = c \/ c \in cmd[at.stamp].after)
      \/ Uninformed(c, at.stamp)
  BY <1>1, <1>2, <1>7, <1>8 DEF Uninformed, Ids
<1>10. log[c] = "applied"
  <2>1. Logged(c)
    BY DEF DeliveryInv, StatusLogged, Decided
  <2>2. log[c] # "rejected"
    BY <1>2, <1>3 DEF ClearInv, UpdatesInv, NeverMade, KeptInv, RowsInv
  <2> QED BY <1>1, <2>1, <2>2 DEF Logged, TypeOK
<1>11. Carries(at.value, c) \/ Uninformed(c, at.stamp)
  BY <1>2, <1>3, <1>9, <1>10 DEF ClearInv, CarriedInv
<1>12. Carries(value[r], c)
  BY <1>2, <1>10, ServerCarries
<1> QED BY <1>11, <1>12

\* Whatever the clocks, the number of devices and the overlap of their writes,
\* reconciliation lets go of an update only when the server holds it, or a later write
\* of the same fields, and only when the downloaded row does too, unless its stamp says
\* nothing of the update.
THEOREM ArrivedBeforeCleared == Spec => ClearedOnlyWhenArrived
<1>1. Init => ClearInv
  <2> SUFFICES ASSUME Init PROVE ClearInv
    OBVIOUS
  <2>1. Minted = {}
    BY DEF Init, Minted
  <2>2. InHand
    BY <2>1 DEF Init, InHand, Slots
  <2>3. HeldInv /\ UpdatesInv /\ CarriedInv
    BY <2>1 DEF HeldInv, UpdatesInv, CarriedInv
  <2>4. StampsInv
    BY DEF Init, StampsInv, Blank
  <2> QED BY <2>2, <2>3, <2>4 DEF ClearInv
<1>2. TypeOK /\ Owned /\ DeliveryInv /\ KeptInv /\ LwwInv /\ ClearInv /\ [Next]_vars => ClearInv'
  BY ClearStep
<1>3. TypeOK /\ Owned /\ DeliveryInv /\ KeptInv /\ LwwInv /\ ClearInv /\ [Next]_vars =>
        [\A c \in Minted :
           LET r  == cmd[c].row
               at == replica[cmd[c].dev][r]
           IN
           /\ cmd[c].verb = "update"
           /\ status[c] = "applied" /\ status'[c] = "gone"
           => \/ ~at.here
              \/ Carries(value[r], c) /\ (Carries(at.value, c) \/ Uninformed(c, at.stamp))]_vars
  BY ClearedArrived
<1> QED BY <1>1, <1>2, <1>3, TypeCorrect, Delivery, KeptSound, FieldsSound, PTL
        DEF Spec, ClearedOnlyWhenArrived

-----------------------------------------------------------------------------
(* The clock that stamps the commands: what the two clock rules return, for   *)
(* every width of the physical and the logical part; and, for an installation *)
(* with any number of closures in use, that the mints dominate every import.  *)

\* Carry returns an HLC later than (p, c - 1), unless the milliseconds are
\* exhausted.
LEMMA CarryAdvances ==
  ASSUME NEW p \in Nat, NEW c \in 1 .. (CounterMax + 1)
  PROVE  /\ Carry(p, c) \in [p : Nat, c : 0 .. CounterMax]
         /\ Later(Carry(p, c), [p |-> p, c |-> c - 1])
         /\ p < PhysMax => Carry(p, c) \in Hlc
  BY ClockAssumption DEF Carry, Later, Hlc

\* Later is transitive.
LEMMA LaterTransitive ==
  ASSUME NEW x \in [p : Nat, c : Nat], NEW y \in [p : Nat, c : Nat],
         NEW z \in [p : Nat, c : Nat],
         Later(x, y), Later(y, z)
  PROVE  Later(x, z)
  BY DEF Later

\* hlcTick: the new HLC is later than the one it is computed from, even when the
\* wall clock stalls or jumps backwards, and it stays within its 48 and 16 bits
\* while a later millisecond remains.
THEOREM TickAdvances ==
  ASSUME NEW before \in Hlc \cup {None}, NEW at \in 0 .. PhysMax
  PROVE  LET next == HlcTick(before, at) IN
         /\ next \in [p : Nat, c : 0 .. CounterMax]
         /\ before # None => Later(next, before)
         /\ PhysOf(before) < PhysMax => next \in Hlc
<1> USE ClockAssumption
<1>1. CASE before = None \/ at > before.p
  BY <1>1 DEF HlcTick, Hlc, Later, PhysOf
<1>2. CASE ~(before = None \/ at > before.p)
  <2>1. before \in Hlc /\ before.p \in Nat /\ before.c + 1 \in 1 .. (CounterMax + 1)
    BY <1>2 DEF Hlc
  <2>2. HlcTick(before, at) = Carry(before.p, before.c + 1)
    BY <1>2 DEF HlcTick
  <2>3. before = [p |-> before.p, c |-> (before.c + 1) - 1]
    BY <2>1 DEF Hlc
  <2> QED
    BY <1>2, <2>1, <2>2, <2>3, CarryAdvances DEF PhysOf
<1> QED BY <1>1, <1>2

\* mergeHlc: the merged clock is strictly later than the local and the remote
\* one, and stays an HLC while a later millisecond remains.
THEOREM MergeStrictlyDominates ==
  ASSUME NEW local \in Hlc \cup {None}, NEW remote \in Hlc, NEW at \in 0 .. PhysMax
  PROVE  LET merged == MergeHlc(local, remote, at) IN
         /\ Later(merged, remote)
         /\ local # None => Later(merged, local)
         /\ PhysOf(local) < PhysMax /\ remote.p < PhysMax => merged \in Hlc
<1> USE ClockAssumption
<1> DEFINE p == MaxOf(MaxOf(PhysOf(local), remote.p), at)
           lc == CounterOf(local)
<1>1. /\ PhysOf(local) \in 0 .. PhysMax /\ lc \in 0 .. CounterMax
      /\ remote.p \in 0 .. PhysMax /\ remote.c \in 0 .. CounterMax
      /\ local # None => local.p = PhysOf(local) /\ local.c = lc
  BY DEF PhysOf, CounterOf, Hlc
<1>2. /\ p \in 0 .. PhysMax /\ p >= PhysOf(local) /\ p >= remote.p
      /\ PhysOf(local) < PhysMax /\ remote.p < PhysMax =>
           p < PhysMax \/ (p # PhysOf(local) /\ p # remote.p)
  BY <1>1 DEF MaxOf
<1>3. CASE p = PhysOf(local) /\ p = remote.p
  <2> DEFINE c == MaxOf(lc, remote.c) + 1
  <2>1. c \in 1 .. (CounterMax + 1) /\ c > lc /\ c > remote.c
    BY <1>1 DEF MaxOf
  <2>2. MergeHlc(local, remote, at) = Carry(p, c)
    BY <1>3 DEF MergeHlc
  <2> QED BY <1>1, <1>2, <1>3, <2>1, <2>2 DEF Carry, Later, Hlc
<1>4. CASE p = PhysOf(local) /\ p # remote.p
  <2>1. MergeHlc(local, remote, at) = Carry(p, lc + 1)
    BY <1>4 DEF MergeHlc
  <2> QED BY <1>1, <1>2, <1>4, <2>1 DEF Carry, Later, Hlc
<1>5. CASE p # PhysOf(local) /\ p = remote.p
  <2>1. MergeHlc(local, remote, at) = Carry(p, remote.c + 1)
    BY <1>5 DEF MergeHlc
  <2> QED BY <1>1, <1>2, <1>5, <2>1 DEF Carry, Later, Hlc
<1>6. CASE p # PhysOf(local) /\ p # remote.p
  <2>1. MergeHlc(local, remote, at) = [p |-> p, c |-> 0]
    BY <1>6 DEF MergeHlc
  <2> QED BY <1>1, <1>2, <1>6, <2>1 DEF Later, Hlc
<1> QED BY <1>3, <1>4, <1>5, <1>6

-----------------------------------------------------------------------------
\* The state of an installation is well typed.
THEOREM ClockTypeCorrect == ClockSpec => []ClockTypeOK
<1>1. ClockInit => ClockTypeOK
  BY DEF ClockInit, ClockTypeOK
<1>2. ClockTypeOK /\ [ClockNext]_clockVars => ClockTypeOK'
  <2> SUFFICES ASSUME ClockTypeOK, [ClockNext]_clockVars PROVE ClockTypeOK'
    OBVIOUS
  <2> USE DEF ClockTypeOK
  <2>1. ASSUME NEW k \in Clocks, CreateHlc(k) PROVE ClockTypeOK'
    BY <2>1 DEF CreateHlc
  <2>2. ASSUME NEW k \in Clocks, DropHlc(k) PROVE ClockTypeOK'
    BY <2>2 DEF DropHlc
  <2>3. ASSUME NEW k \in Clocks, Tick(k) PROVE ClockTypeOK'
    BY <2>3 DEF Tick
  <2>4. CASE Restart
    BY <2>4 DEF Restart
  <2>5. ASSUME NEW h \in Hlc, Import(h) PROVE ClockTypeOK'
    BY <2>5 DEF Import
  <2>6. CASE WallClock
    BY <2>6 DEF WallClock
  <2>7. CASE UNCHANGED clockVars
    BY <2>7 DEF clockVars
  <2> QED BY <2>1, <2>2, <2>3, <2>4, <2>5, <2>6, <2>7 DEF ClockNext
<1> QED BY <1>1, <1>2, PTL DEF ClockSpec

\* Each tick is later than the closure's previous one and than the floor.
LEMMA TickLater ==
  ASSUME ClockTypeOK, NEW k \in Clocks, NEW g \in Hlc,
         g = prev[k] \/ g = floor \/ (prev[k] # None /\ Later(prev[k], g))
                     \/ (floor # None /\ Later(floor, g))
  PROVE  Later(HlcTick(Base(k), now), g)
<1>1. Base(k) \in Hlc \cup {None}
  BY DEF ClockTypeOK, Base
<1>2. None \notin Hlc /\ Hlc \subseteq [p : Nat, c : Nat]
  BY ClockAssumption, NoneAssumption DEF Hlc
<1>3. Base(k) # None /\ (Base(k) = g \/ Later(Base(k), g))
  BY <1>2 DEF Base, LaterOrFirst, Later, ClockTypeOK, Hlc
<1>4. /\ HlcTick(Base(k), now) \in [p : Nat, c : Nat]
      /\ Later(HlcTick(Base(k), now), Base(k))
  BY <1>1, <1>3, TickAdvances, ClockAssumption DEF ClockTypeOK
<1> QED BY <1>1, <1>2, <1>3, <1>4, LaterTransitive

\* Ticks do not get stuck while a later millisecond remains.
THEOREM TicksNeverStuck == ClockSpec => []NeverStuck
<1>1. ClockTypeOK => NeverStuck
  <2> SUFFICES ASSUME ClockTypeOK, NEW k \in open, PhysOf(Base(k)) < PhysMax
               PROVE  HlcTick(Base(k), now) \in Hlc
    BY DEF NeverStuck
  <2>1. Base(k) \in Hlc \cup {None} /\ now \in 0 .. PhysMax
    BY DEF ClockTypeOK, Base
  <2> QED BY <2>1, TickAdvances
<1> QED BY <1>1, ClockTypeCorrect, PTL

\* A merge into an open clock strictly dominates both readings.
THEOREM MergesAlwaysDominate == ClockSpec => []MergeDominates
<1>1. ClockTypeOK => MergeDominates
  <2> SUFFICES ASSUME ClockTypeOK, NEW k \in open, NEW remote \in Hlc
               PROVE  LET merged == MergeHlc(Base(k), remote, now) IN
                      /\ Later(merged, remote)
                      /\ Base(k) # None => Later(merged, Base(k))
                      /\ PhysOf(Base(k)) < PhysMax /\ remote.p < PhysMax => merged \in Hlc
    BY DEF MergeDominates
  <2>1. Base(k) \in Hlc \cup {None} /\ now \in 0 .. PhysMax
    BY DEF ClockTypeOK, Base
  <2> QED BY <2>1, MergeStrictlyDominates
<1> QED BY <1>1, ClockTypeCorrect, PTL

-----------------------------------------------------------------------------
\* The floor in memory and in storage agree, and no import exceeds them.
FloorInv ==
  /\ floor = savedFloor
  /\ \A h \in imported : floor # None /\ (floor = h \/ Later(floor, h))

\* An import raises the floor for good: it is never lost by a restart and every
\* later mint of any closure exceeds it, also with several closures open.
THEOREM ImportsAlwaysDominated == ClockSpec => ImportsDominated
<1>1. ClockInit => FloorInv
  BY DEF ClockInit, FloorInv
<1>2. ClockTypeOK /\ FloorInv /\ [ClockNext]_clockVars => FloorInv'
  <2> SUFFICES ASSUME ClockTypeOK, FloorInv, [ClockNext]_clockVars PROVE FloorInv'
    OBVIOUS
  <2>1. ASSUME NEW h \in Hlc, Import(h) PROVE FloorInv'
    <3>1. /\ floor \in Hlc \cup {None} /\ imported \subseteq Hlc
          /\ h # None
          /\ Hlc \subseteq [p : Nat, c : Nat]
      BY ClockAssumption, NoneAssumption DEF ClockTypeOK, Hlc
    <3>2. floor' # None /\ floor' = savedFloor'
      BY <2>1, <3>1 DEF Import, FloorInv, LaterOrFirst
    <3>3. floor' = h \/ Later(floor', h)
      BY <2>1, <3>1 DEF Import, LaterOrFirst, Later, Hlc
    <3>4. ASSUME NEW g \in imported PROVE floor' = g \/ Later(floor', g)
      <4>1. floor' = floor \/ (floor' = h /\ Later(h, floor))
        BY <2>1, <3>1, <3>4 DEF Import, LaterOrFirst, FloorInv
      <4>2. floor = g \/ Later(floor, g)
        BY DEF FloorInv
      <4> QED BY <3>1, <4>1, <4>2, LaterTransitive DEF FloorInv
    <3> QED BY <2>1, <3>2, <3>3, <3>4 DEF FloorInv, Import
  <2>2. CASE Restart
    BY <2>2 DEF Restart, FloorInv
  <2>3. CASE UNCHANGED <<floor, savedFloor, imported>>
    BY <2>3 DEF FloorInv
  <2> QED BY <2>1, <2>2, <2>3
           DEF ClockNext, clockVars, CreateHlc, DropHlc, Tick, WallClock
<1>3. ClockTypeOK /\ FloorInv /\ [ClockNext]_clockVars =>
        [minted' # minted => \A h \in imported : Later(minted'[Len(minted')], h)]_clockVars
  <2> SUFFICES ASSUME ClockTypeOK, FloorInv, ClockNext, minted' # minted, NEW h \in imported
               PROVE  Later(minted'[Len(minted')], h)
    OBVIOUS
  <2>1. PICK k \in Clocks : Tick(k)
    BY DEF ClockNext, CreateHlc, DropHlc, Restart, Import, WallClock
  <2>2. minted'[Len(minted')] = HlcTick(Base(k), now)
    BY <2>1 DEF Tick, ClockTypeOK
  <2>3. h \in Hlc
    BY DEF ClockTypeOK
  <2> QED BY <2>2, <2>3, TickLater DEF FloorInv
<1> QED BY <1>1, <1>2, <1>3, ClockTypeCorrect, PTL DEF ClockSpec, ImportsDominated

=============================================================================
