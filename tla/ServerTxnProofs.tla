-------------------------- MODULE ServerTxnProofs --------------------------
(***************************************************************************)
(* What holds of the overlapping transactions of ServerTxn for every number  *)
(* of requests, rows, fields and commands: a command takes effect once, and  *)
(* the recorded writer of a field is the one it holds.  Last-writer-wins,    *)
(* the cached tree and the parents of live rows are proved for a server that *)
(* has one request of the user at a time.                                    *)
(***************************************************************************)
EXTENDS ServerTxn, TLAPS

\* A request in the middle of a command.
InTxn(q) == pc[q] \in {"load", "tree", "read", "upsert", "write", "log", "commit"}

\* A request in the middle of a command has one.
Begun == \A q \in Requests : InTxn(q) => cur[q] \in Ids

\* Only an update names fields.
LEMMA CommandFields ==
  ASSUME NEW e \in Command
  PROVE  /\ e.verb \in {"create", "update", "delete"}
         /\ e.row \in Rows
         /\ e.fields \subseteq Fields
         /\ e.verb # "update" => e.fields = {}
         /\ e.verb = "create" => e.row \notin InitRows
  BY DEF Command

\* A function keeps its type when one value changes.
LEMMA UpdateType ==
  ASSUME NEW S, NEW T, NEW f \in [S -> T], NEW x \in S, NEW v \in T
  PROVE  [f EXCEPT ![x] = v] \in [S -> T]
  OBVIOUS

\* A step inside a transaction.
LEMMA GotoType ==
  ASSUME TypeOK, Begun, NEW q \in Requests, NEW l \in Pcs, Goto(q, l), InTxn(q), UNCHANGED cur
  PROVE  pc' \in [Requests -> Pcs] /\ Begun'
  BY DEF Goto, TypeOK, Begun, InTxn

\* A decision keeps the types.
LEMMA DecideType ==
  ASSUME TypeOK, Begun, NEW q \in Requests, NEW result \in {"applied", "rejected"},
         Decide(q, result), InTxn(q), UNCHANGED cur
  PROVE  /\ pc' \in [Requests -> Pcs] /\ Begun'
         /\ verdict' \in [Requests -> {"none", "applied", "rejected"}]
<1>1. Goto(q, "log") /\ "log" \in Pcs
  BY DEF Decide, Pcs
<1>2. verdict' \in [Requests -> {"none", "applied", "rejected"}]
  BY UpdateType DEF Decide, TypeOK
<1> QED BY <1>1, <1>2, GotoType

\* The tree a request goes by, read before or now, is a set of rows.
LEMMA SeenTree ==
  ASSUME TypeOK, NEW q \in Requests
  PROVE  (IF tree[q] = {} THEN Live ELSE CHOOSE t \in tree[q] : TRUE) \in SUBSET Rows
<1>1. CASE tree[q] = {}
  BY <1>1 DEF Live
<1>2. CASE tree[q] # {}
  <2>1. (CHOOSE t \in tree[q] : TRUE) \in tree[q]
    BY <1>2
  <2> QED BY <1>2, <2>1 DEF TypeOK
<1> QED BY <1>1, <1>2

\* A request that begins the next command keeps the types.
LEMMA ResetType ==
  ASSUME TypeOK, NEW q \in Requests, Reset(q)
  PROVE  /\ cur' \in [Requests -> 0 .. MaxCommands]
         /\ todo' \in [Requests -> SUBSET Fields]
         /\ field' \in [Requests -> SUBSET Fields]
         /\ won' \in [Requests -> SUBSET Fields]
         /\ touched' \in [Requests -> SUBSET Rows]
         /\ verdict' \in [Requests -> {"none", "applied", "rejected"}]
  BY BoundsAssumption DEF TypeOK, Reset

\* So does one that ends a command with its result.
LEMMA FinishType ==
  ASSUME TypeOK, NEW q \in Requests, NEW c \in Ids, NEW S \in SUBSET Ids,
         NEW result \in Results, Finish(q, c, S, result)
  PROVE  /\ pc' \in [Requests -> Pcs]
         /\ queue' \in [Requests -> SUBSET Ids]
         /\ answers' \in [Requests -> [Ids -> Results]]
         /\ cur' \in [Requests -> 0 .. MaxCommands]
         /\ todo' \in [Requests -> SUBSET Fields]
         /\ field' \in [Requests -> SUBSET Fields]
         /\ won' \in [Requests -> SUBSET Fields]
         /\ touched' \in [Requests -> SUBSET Rows]
         /\ verdict' \in [Requests -> {"none", "applied", "rejected"}]
         /\ \A o \in Requests : InTxn(o)' => o # q /\ InTxn(o) /\ cur'[o] = cur[o]
<1>1. Reset(q)
  BY DEF Finish
<1>2. pc' \in [Requests -> Pcs] /\ queue' \in [Requests -> SUBSET Ids]
  BY DEF Finish, Goto, TypeOK, Pcs
<1>3. answers' \in [Requests -> [Ids -> Results]]
  BY DEF Finish, TypeOK, Results
<1>4. \A o \in Requests : InTxn(o)' => o # q /\ InTxn(o) /\ cur'[o] = cur[o]
  BY DEF Finish, Goto, Reset, InTxn, TypeOK
<1> QED BY <1>1, <1>2, <1>3, <1>4, ResetType

\* Every statement of a request keeps the types.
LEMMA StatementType ==
  ASSUME TypeOK, Begun, NEW q \in Requests, Statement(q)
  PROVE  TypeOK' /\ Begun'
<1> DEFINE e == cmd[cur[q]]
<1>0. InTxn(q) => e \in Command
  BY DEF Begun, TypeOK
<1>1. CASE CheckLog(q)
  <2>1. PICK c \in queue[q] :
          IF log[c] # "none" THEN Finish(q, c, queue[q] \ {c}, "noop")
          ELSE /\ queue' = [queue EXCEPT ![q] = @ \ {c}]
               /\ cur' = [cur EXCEPT ![q] = c]
               /\ Goto(q, "load")
               /\ UNCHANGED <<answers, todo, field, won, touched, verdict>>
    BY <1>1 DEF CheckLog
  <2>2. c \in Ids /\ queue[q] \ {c} \in SUBSET Ids
    BY DEF TypeOK
  <2>3. CASE log[c] # "none"
    BY <1>1, <2>1, <2>2, <2>3, FinishType DEF CheckLog, Results, TypeOK, tables, Begun
  <2>4. CASE log[c] = "none"
    <3>1. /\ queue' = [queue EXCEPT ![q] = @ \ {c}]
          /\ cur' = [cur EXCEPT ![q] = c]
          /\ pc' = [pc EXCEPT ![q] = "load"]
          /\ UNCHANGED <<answers, todo, field, won, touched, verdict>>
      BY <2>1, <2>4 DEF Goto
    <3>2. queue' \in [Requests -> SUBSET Ids] /\ cur' \in [Requests -> 0 .. MaxCommands]
      BY <2>2, <3>1, BoundsAssumption DEF TypeOK, Ids
    <3>3. pc' \in [Requests -> Pcs]
      BY <3>1 DEF TypeOK, Pcs
    <3>4. Begun'
      BY <2>2, <3>1 DEF TypeOK, Begun, InTxn
    <3> QED BY <1>1, <3>1, <3>2, <3>3, <3>4 DEF CheckLog, TypeOK, tables
  <2> QED BY <2>3, <2>4
<1>2. CASE LoadRow(q)
  <2>1. e \in Command
    BY <1>0, <1>2 DEF LoadRow, InTxn
  <2>2. todo' \in [Requests -> SUBSET Fields]
    BY <1>2, <2>1, CommandFields DEF LoadRow, TypeOK
  <2>3. InTxn(q) /\ UNCHANGED cur /\ {"read", "tree"} \subseteq Pcs
    BY <1>2 DEF LoadRow, InTxn, Pcs
  <2>4. \/ Decide(q, "applied") \/ Decide(q, "rejected")
        \/ UNCHANGED verdict /\ Goto(q, "read")
        \/ UNCHANGED verdict /\ Goto(q, "tree")
    BY <1>2 DEF LoadRow
  <2>5. pc' \in [Requests -> Pcs] /\ Begun' /\ verdict' \in [Requests -> {"none", "applied", "rejected"}]
    BY <2>3, <2>4, DecideType, GotoType DEF TypeOK
  <2> QED BY <1>2, <2>2, <2>5 DEF LoadRow, TypeOK, tables
<1>3. CASE ReadTree(q)
  <2> DEFINE seen == IF tree[q] = {} THEN Live ELSE CHOOSE t \in tree[q] : TRUE
  <2>1. e \in Command
    BY <1>0, <1>3 DEF ReadTree, InTxn
  <2>2. seen \in SUBSET Rows /\ Cascade(seen, e.row) \in SUBSET Rows
    BY SeenTree DEF Cascade, SoftDeleteClosure
  <2>3. tree' \in [Requests -> SUBSET SUBSET Rows]
    <3>1. tree' = [tree EXCEPT ![q] = {seen}]
      BY <1>3 DEF ReadTree
    <3> QED BY <2>2, <3>1 DEF TypeOK
  <2>4. touched' \in [Requests -> SUBSET Rows]
    <3>1. \/ UNCHANGED touched
          \/ touched' = [touched EXCEPT ![q] = {e.row}]
          \/ touched' = [touched EXCEPT ![q] = Cascade(seen, e.row)]
      BY <1>3 DEF ReadTree
    <3>2. {e.row} \in SUBSET Rows
      BY <2>1, CommandFields
    <3>3. touched \in [Requests -> SUBSET Rows]
      BY DEF TypeOK
    <3>4. /\ [touched EXCEPT ![q] = {e.row}] \in [Requests -> SUBSET Rows]
          /\ [touched EXCEPT ![q] = Cascade(seen, e.row)] \in [Requests -> SUBSET Rows]
      BY <2>2, <3>2, <3>3, UpdateType
    <3> QED BY <3>1, <3>3, <3>4
  <2>5. /\ pc' \in [Requests -> Pcs] /\ Begun'
        /\ verdict' \in [Requests -> {"none", "applied", "rejected"}]
    <3>1. \/ UNCHANGED verdict /\ Goto(q, "write")
          \/ Decide(q, "rejected")
          \/ Decide(q, "applied")
      BY <1>3 DEF ReadTree
    <3>2. InTxn(q) /\ UNCHANGED cur /\ "write" \in Pcs
      BY <1>3 DEF ReadTree, InTxn, Pcs
    <3> QED BY <3>1, <3>2, DecideType, GotoType DEF TypeOK
  <2> QED BY <1>3, <2>3, <2>4, <2>5 DEF ReadTree, TypeOK, tables
<1>4. CASE ReadVersion(q)
  <2>1. InTxn(q) /\ UNCHANGED cur /\ "upsert" \in Pcs
    BY <1>4 DEF ReadVersion, InTxn, Pcs
  <2>2. PICK f \in todo[q] :
          /\ todo' = [todo EXCEPT ![q] = @ \ {f}]
          /\ \/ field' = [field EXCEPT ![q] = {f}] /\ Goto(q, "upsert")
             \/ UNCHANGED <<field, pc>>
    BY <1>4 DEF ReadVersion
  <2>3. todo' \in [Requests -> SUBSET Fields] /\ field' \in [Requests -> SUBSET Fields]
    <3>1. todo \in [Requests -> SUBSET Fields] /\ field \in [Requests -> SUBSET Fields]
      BY DEF TypeOK
    <3>2. todo[q] \ {f} \in SUBSET Fields /\ {f} \in SUBSET Fields
      BY <3>1
    <3>3. /\ [todo EXCEPT ![q] = @ \ {f}] \in [Requests -> SUBSET Fields]
          /\ [field EXCEPT ![q] = {f}] \in [Requests -> SUBSET Fields]
      BY <3>1, <3>2, UpdateType
    <3> QED BY <2>2, <3>1, <3>3
  <2>4. pc' \in [Requests -> Pcs] /\ Begun'
    BY <2>1, <2>2, GotoType DEF TypeOK, Begun, InTxn
  <2> QED BY <1>4, <2>3, <2>4 DEF ReadVersion, TypeOK, tables
<1>5. CASE UpsertVersion(q)
  <2>1. InTxn(q) /\ UNCHANGED cur /\ "read" \in Pcs /\ Goto(q, "read")
    BY <1>5 DEF UpsertVersion, InTxn, Pcs
  <2>2. won' \in [Requests -> SUBSET Fields] /\ field' \in [Requests -> SUBSET Fields]
    BY <1>5 DEF UpsertVersion, TypeOK
  <2> QED BY <1>5, <2>1, <2>2, GotoType DEF UpsertVersion, TypeOK, tables
<1>6. CASE FieldsDone(q)
  <2>1. InTxn(q) /\ UNCHANGED cur /\ "write" \in Pcs
    BY <1>6 DEF FieldsDone, InTxn, Pcs
  <2>2. {RowOf(q)} \in SUBSET Rows
    BY <1>0, <2>1, CommandFields DEF RowOf
  <2>3. \/ Decide(q, "applied") /\ UNCHANGED touched
        \/ touched' = [touched EXCEPT ![q] = {RowOf(q)}] /\ Goto(q, "write") /\ UNCHANGED verdict
    BY <1>6 DEF FieldsDone
  <2>4. touched' \in [Requests -> SUBSET Rows]
    <3>1. touched \in [Requests -> SUBSET Rows]
      BY DEF TypeOK
    <3>2. [touched EXCEPT ![q] = {RowOf(q)}] \in [Requests -> SUBSET Rows]
      BY <2>2, <3>1, UpdateType
    <3> QED BY <2>3, <3>1, <3>2
  <2>5. /\ pc' \in [Requests -> Pcs] /\ Begun'
        /\ verdict' \in [Requests -> {"none", "applied", "rejected"}]
    BY <2>1, <2>3, GotoType, DecideType DEF TypeOK
  <2> QED BY <1>6, <2>4, <2>5 DEF FieldsDone, TypeOK, tables
<1>7. CASE WriteRows(q)
  <2>1. cur[q] \in Ids /\ queue[q] \in SUBSET Ids
    BY <1>7 DEF WriteRows, InTxn, Begun, TypeOK
  <2>2. CASE Duplicate(q)
    BY <1>7, <2>1, <2>2, FinishType DEF WriteRows, Results, Duplicate, TypeOK, tables, Begun
  <2>3. CASE Decide(q, "applied") /\ UNCHANGED <<queue, answers, cur, todo, field, won, touched>>
    BY <1>7, <2>3 DEF WriteRows, Decide, Goto, TypeOK, tables, Begun, InTxn, Pcs
  <2> QED BY <1>7, <2>2, <2>3 DEF WriteRows
<1>8. CASE InsertLog(q)
  <2>1. cur[q] \in Ids /\ queue[q] \in SUBSET Ids
    BY <1>8 DEF InsertLog, InTxn, Begun, TypeOK
  <2>2. CASE Duplicate(q)
    BY <1>8, <2>1, <2>2, FinishType DEF InsertLog, Results, Duplicate, TypeOK, tables, Begun
  <2>3. CASE Goto(q, "commit") /\ UNCHANGED <<queue, answers, txn>>
    BY <1>8, <2>3 DEF InsertLog, Goto, TypeOK, tables, txn, Begun, InTxn, Pcs
  <2> QED BY <1>8, <2>2, <2>3 DEF InsertLog
<1>9. CASE Commit(q)
  <2>1. cur[q] \in Ids /\ queue[q] \in SUBSET Ids /\ cur[q] \in 0 .. MaxCommands
    BY <1>9 DEF Commit, InTxn, Begun, TypeOK
  <2>2. verdict[q] \in {"none", "applied", "rejected"} /\ verdict[q] \in Results
    BY DEF TypeOK, Results
  <2>3. log' \in [Ids -> {"none", "applied", "rejected"}]
    BY <1>9, <2>1, <2>2 DEF Commit, TypeOK
  <2>4. tree' \in [Requests -> SUBSET SUBSET Rows]
    BY <1>9 DEF Commit, Invalidate, TypeOK
  <2>5. /\ state' \in [Rows -> {"absent", "live", "deleted"}]
        /\ value' \in [Rows -> [Fields -> 0 .. MaxCommands]]
        /\ version' \in [Rows -> [Fields -> 0 .. MaxCommands]]
    BY <1>9, <2>1 DEF Commit, StoreRows, TypeOK
  <2> QED BY <1>9, <2>1, <2>2, <2>3, <2>4, <2>5, FinishType DEF Commit, TypeOK, Begun
<1> QED BY <1>1, <1>2, <1>3, <1>4, <1>5, <1>6, <1>7, <1>8, <1>9 DEF Statement

\* The variables keep their types, and a request in the middle of a command has
\* one.
THEOREM TypeCorrect == Spec => [](TypeOK /\ Begun)
<1>1. Init => TypeOK /\ Begun
  <2> SUFFICES ASSUME Init PROVE TypeOK /\ Begun
    OBVIOUS
  <2>1. Begun
    BY DEF Init, Begun, InTxn
  <2>2. cmd \in [Ids -> Command]
    BY DEF Init
  <2>3. /\ queue \in [Requests -> SUBSET Ids]
        /\ tree \in [Requests -> SUBSET SUBSET Rows]
        /\ todo \in [Requests -> SUBSET Fields]
        /\ field \in [Requests -> SUBSET Fields]
        /\ won \in [Requests -> SUBSET Fields]
        /\ touched \in [Requests -> SUBSET Rows]
    BY DEF Init
  <2>4. /\ pc \in [Requests -> Pcs]
        /\ cur \in [Requests -> 0 .. MaxCommands]
        /\ verdict \in [Requests -> {"none", "applied", "rejected"}]
        /\ answers \in [Requests -> [Ids -> Results]]
    BY BoundsAssumption DEF Init, Pcs, Results
  <2>5. /\ log \in [Ids -> {"none", "applied", "rejected"}]
        /\ faults \in 0 .. MaxFaults
    BY BoundsAssumption DEF Init
  <2>6. state \in [Rows -> {"absent", "live", "deleted"}]
    BY DEF Init
  <2>7. /\ value \in [Rows -> [Fields -> 0 .. MaxCommands]]
        /\ version \in [Rows -> [Fields -> 0 .. MaxCommands]]
    BY BoundsAssumption DEF Init
  <2>8. overlapped \in BOOLEAN
    BY DEF Init
  <2> QED BY <2>1, <2>2, <2>3, <2>4, <2>5, <2>6, <2>7, <2>8 DEF TypeOK
<1>2. TypeOK /\ Begun /\ [Next]_vars => TypeOK' /\ Begun'
  <2> SUFFICES ASSUME TypeOK, Begun, [Next]_vars PROVE TypeOK' /\ Begun'
    OBVIOUS
  <2>1. ASSUME NEW q \in Requests, Receive(q) PROVE TypeOK' /\ Begun'
    BY <2>1 DEF Receive, TypeOK, Begun, InTxn, txn, tables, Pcs
  <2>2. ASSUME NEW q \in Requests, Dies(q) PROVE TypeOK' /\ Begun'
    <3>1. pc' \in [Requests -> Pcs] /\ Begun'
      BY <2>2 DEF Dies, TypeOK, Begun, Pcs, InTxn, Goto, Reset
    <3>2. /\ queue' \in [Requests -> SUBSET Ids] /\ tree' \in [Requests -> SUBSET SUBSET Rows]
          /\ faults' \in 0 .. MaxFaults
      BY <2>2, BoundsAssumption DEF Dies, TypeOK
    <3> QED BY <2>2, <3>1, <3>2, ResetType DEF Dies, TypeOK, tables
  <2>3. CASE UNCHANGED vars
    BY <2>3 DEF vars, txn, tables, TypeOK, Begun, InTxn
  <2> QED BY <2>1, <2>2, <2>3, StatementType DEF Next
<1> QED BY <1>1, <1>2, PTL DEF Spec

-----------------------------------------------------------------------------
(* Requests keep to their own variables, and only a commit changes tables.    *)

\* A step of the request q.
Step(q) == Receive(q) \/ Statement(q) \/ Dies(q)

\* A step of a request leaves the variables of every other request alone.
LEMMA Apart ==
  ASSUME TypeOK, NEW q \in Requests, Step(q), NEW o \in Requests \ {q}
  PROVE  /\ pc'[o] = pc[o] /\ queue'[o] = queue[o] /\ cur'[o] = cur[o] /\ tree'[o] = tree[o]
         /\ todo'[o] = todo[o] /\ field'[o] = field[o] /\ won'[o] = won[o]
         /\ touched'[o] = touched[o] /\ verdict'[o] = verdict[o] /\ answers'[o] = answers[o]
         /\ cmd' = cmd
<1>1. CASE Receive(q)
  BY <1>1 DEF Receive, TypeOK, txn
<1>2. CASE Dies(q)
  BY <1>2 DEF Dies, TypeOK, Goto, Reset
<1>3. CASE CheckLog(q)
  BY <1>3 DEF CheckLog, TypeOK, Goto, Finish, Reset
<1>4. CASE LoadRow(q)
  BY <1>4 DEF LoadRow, TypeOK, Goto, Decide
<1>5. CASE ReadTree(q)
  BY <1>5 DEF ReadTree, TypeOK, Goto, Decide
<1>6. CASE ReadVersion(q) \/ UpsertVersion(q)
  BY <1>6 DEF ReadVersion, UpsertVersion, TypeOK, Goto
<1>7. CASE FieldsDone(q)
  BY <1>7 DEF FieldsDone, TypeOK, Goto, Decide
<1>8. CASE WriteRows(q)
  BY <1>8 DEF WriteRows, TypeOK, Goto, Decide, Duplicate, Finish, Reset
<1>9. CASE InsertLog(q)
  BY <1>9 DEF InsertLog, TypeOK, Goto, Duplicate, Finish, Reset, txn
<1>10. CASE Commit(q)
  BY <1>10 DEF Commit, TypeOK, Goto, Finish, Reset, Invalidate
<1> QED BY <1>1, <1>2, <1>3, <1>4, <1>5, <1>6, <1>7, <1>8, <1>9, <1>10 DEF Step, Statement

\* Only a commit writes the tables.
LEMMA TablesKept ==
  ASSUME NEW q \in Requests, Step(q), ~Commit(q)
  PROVE  UNCHANGED tables
<1>1. CASE CheckLog(q)
  BY <1>1 DEF CheckLog
<1>2. CASE LoadRow(q)
  BY <1>2 DEF LoadRow
<1>3. CASE ReadTree(q)
  BY <1>3 DEF ReadTree
<1>4. CASE ReadVersion(q) \/ UpsertVersion(q) \/ FieldsDone(q)
  BY <1>4 DEF ReadVersion, UpsertVersion, FieldsDone
<1>5. CASE WriteRows(q) \/ InsertLog(q)
  BY <1>5 DEF WriteRows, InsertLog
<1>6. CASE Receive(q) \/ Dies(q)
  BY <1>6 DEF Receive, Dies
<1> QED BY <1>1, <1>2, <1>3, <1>4, <1>5, <1>6 DEF Step, Statement

-----------------------------------------------------------------------------
(* The inductive invariant of overlapping transactions.                       *)

\* What a request holds of a transaction at each of its statements.
TxnOK(q) ==
  LET e == cmd[cur[q]] IN
  /\ cur[q] \in Ids
  /\ pc[q] \in {"load", "tree"} => todo[q] = {} /\ won[q] = {} /\ touched[q] = {}
  /\ pc[q] = "tree" => e.verb # "update"
  /\ pc[q] \in {"read", "upsert"} => e.verb = "update" /\ touched[q] = {}
  /\ IF pc[q] = "upsert" THEN \E f \in e.fields : field[q] = {f} ELSE field[q] = {}
  /\ todo[q] \cup won[q] \subseteq e.fields
  /\ pc[q] \in {"write", "log", "commit"} =>
       /\ todo[q] = {}
       /\ e.verb = "update" => touched[q] = IF won[q] = {} THEN {} ELSE {e.row}
       /\ e.verb = "create" => touched[q] \subseteq {e.row}
  /\ IF pc[q] \in {"log", "commit"} THEN verdict[q] \in {"applied", "rejected"}
     ELSE verdict[q] = "none"
  /\ verdict[q] = "rejected" => touched[q] = {} /\ won[q] = {}

\* ... and nothing of one between commands.
NoTxn(q) ==
  /\ cur[q] = 0 /\ todo[q] = {} /\ field[q] = {} /\ won[q] = {} /\ touched[q] = {}
  /\ verdict[q] = "none"

\* What a transaction knows of the committed rows.
RowOK(q) ==
  LET e == cmd[cur[q]] IN
  /\ e.verb = "update" /\ (pc[q] \in {"read", "upsert"} \/ touched[q] # {}) => state[e.row] # "absent"
  /\ e.verb = "delete" => \A r \in touched[q] : state[r] # "absent"
  /\ pc[q] \in {"log", "commit"} /\ e.verb = "create" /\ touched[q] # {} => state[e.row] = "absent"
  /\ pc[q] = "commit" => log[cur[q]] = "none"

\* A request is in order, inside a transaction and outside.
RequestOK(q) == IF InTxn(q) THEN TxnOK(q) /\ RowOK(q) ELSE NoTxn(q)

\* Two transactions never hold the same row, or the same key of command_log.
LocksOK ==
  \A q, o \in Requests : q # o =>
    RowLocks(q) \cap RowLocks(o) = {} /\ LogLock(q) \cap LogLock(o) = {}

\* The rows of a cached tree exist, if perhaps deleted by now.
TreeOK == \A q \in Requests : \A t \in tree[q] : \A r \in t : state[r] # "absent"

\* Nothing is recorded for the fields of a row that was never created.
AbsentBlank == \A r \in Rows, f \in Fields : state[r] = "absent" => version[r][f] = 0

ServerInv ==
  /\ \A q \in Requests : RequestOK(q)
  /\ LocksOK
  /\ TreeOK
  /\ AbsentBlank

\* A request that has ended a command is in no transaction.
LEMMA FinishClears ==
  ASSUME TypeOK, NEW q \in Requests, NEW c, NEW S, NEW result, Finish(q, c, S, result)
  PROVE  ~InTxn(q)' /\ NoTxn(q)'
  BY DEF Finish, Goto, Reset, TypeOK, NoTxn, InTxn

\* A statement leaves its own request in order.
LEMMA OwnTxn ==
  ASSUME TypeOK, Begun, ServerInv, NEW q \in Requests, Step(q)
  PROVE  IF InTxn(q)' THEN TxnOK(q)' ELSE NoTxn(q)'
<1> DEFINE e == cmd[cur[q]]
<1>0. cmd' = cmd /\ (InTxn(q) => TxnOK(q) /\ RowOK(q) /\ e \in Command)
  BY DEF ServerInv, RequestOK, Begun, TypeOK, Step, Statement, Receive, Dies, CheckLog, LoadRow,
         ReadTree, ReadVersion, UpsertVersion, FieldsDone, WriteRows, InsertLog, Commit
<1>1. CASE CheckLog(q)
  <2>1. PICK c \in queue[q] :
          IF log[c] # "none" THEN Finish(q, c, queue[q] \ {c}, "noop")
          ELSE /\ cur' = [cur EXCEPT ![q] = c]
               /\ Goto(q, "load")
               /\ UNCHANGED <<answers, todo, field, won, touched, verdict>>
    BY <1>1 DEF CheckLog
  <2>2. CASE log[c] # "none"
    BY <2>1, <2>2, FinishClears
  <2>3. CASE log[c] = "none"
    <3>1. NoTxn(q) /\ c \in Ids
      BY <1>1 DEF CheckLog, ServerInv, RequestOK, InTxn, TypeOK
    <3>2. pc'[q] = "load" /\ cur'[q] = c /\ c \in Ids
      BY <2>1, <2>3, <3>1 DEF Goto, TypeOK
    <3> QED BY <2>1, <2>3, <3>1, <3>2 DEF TxnOK, NoTxn, InTxn
  <2> QED BY <2>2, <2>3
<1>2. CASE LoadRow(q)
  <2>1. /\ InTxn(q) /\ pc[q] = "load" /\ cur' = cur /\ UNCHANGED <<field, won, touched>>
        /\ \/ pc'[q] = "log" /\ verdict'[q] \in {"applied", "rejected"} /\ UNCHANGED todo
           \/ e.verb = "update" /\ pc'[q] = "read" /\ todo'[q] = e.fields /\ UNCHANGED verdict
           \/ e.verb # "update" /\ pc'[q] = "tree" /\ UNCHANGED <<todo, verdict>>
    BY <1>2 DEF LoadRow, Decide, Goto, TypeOK, InTxn
  <2> QED BY <1>0, <2>1 DEF TxnOK, InTxn
<1>3. CASE ReadTree(q)
  <2>1. /\ InTxn(q) /\ pc[q] = "tree" /\ cur' = cur /\ UNCHANGED <<field, won, todo>>
        /\ \/ pc'[q] = "log" /\ verdict'[q] \in {"applied", "rejected"} /\ UNCHANGED touched
           \/ e.verb = "create" /\ pc'[q] = "write" /\ touched'[q] = {e.row} /\ UNCHANGED verdict
           \/ e.verb = "delete" /\ pc'[q] = "write" /\ UNCHANGED verdict
    BY <1>3 DEF ReadTree, Decide, Goto, TypeOK, InTxn
  <2> QED BY <1>0, <2>1 DEF TxnOK, InTxn
<1>4. CASE ReadVersion(q)
  <2>1. /\ InTxn(q) /\ pc[q] = "read" /\ cur' = cur /\ UNCHANGED <<won, touched, verdict>>
        /\ \E f \in todo[q] :
             /\ todo'[q] = todo[q] \ {f}
             /\ \/ field'[q] = {f} /\ pc'[q] = "upsert"
                \/ UNCHANGED <<field, pc>>
    BY <1>4 DEF ReadVersion, Goto, TypeOK, InTxn
  <2> QED BY <1>0, <2>1 DEF TxnOK, InTxn
<1>5. CASE UpsertVersion(q)
  <2>1. /\ InTxn(q) /\ pc[q] = "upsert" /\ cur' = cur /\ UNCHANGED <<todo, touched, verdict>>
        /\ won'[q] = won[q] \cup field[q] /\ field'[q] = {} /\ pc'[q] = "read"
    BY <1>5 DEF UpsertVersion, Goto, TypeOK, InTxn
  <2> QED BY <1>0, <2>1 DEF TxnOK, InTxn
<1>6. CASE FieldsDone(q)
  <2>1. /\ InTxn(q) /\ pc[q] = "read" /\ todo[q] = {} /\ cur' = cur /\ UNCHANGED <<todo, field, won>>
        /\ \/ won[q] = {} /\ pc'[q] = "log" /\ verdict'[q] = "applied" /\ UNCHANGED touched
           \/ won[q] # {} /\ pc'[q] = "write" /\ touched'[q] = {e.row} /\ UNCHANGED verdict
    BY <1>6 DEF FieldsDone, Decide, Goto, TypeOK, InTxn, RowOf
  <2> QED BY <1>0, <2>1 DEF TxnOK, InTxn
<1>7. CASE WriteRows(q)
  <2>1. CASE Duplicate(q)
    BY <2>1, FinishClears DEF Duplicate
  <2>2. CASE ~Duplicate(q)
    <3>1. /\ InTxn(q) /\ pc[q] = "write" /\ UNCHANGED <<cur, todo, field, won, touched>>
          /\ pc'[q] = "log" /\ verdict'[q] = "applied"
      BY <1>7, <2>2 DEF WriteRows, Decide, Goto, TypeOK, InTxn
    <3> QED BY <1>0, <3>1 DEF TxnOK, InTxn
  <2> QED BY <2>1, <2>2
<1>8. CASE InsertLog(q)
  <2>1. CASE Duplicate(q)
    BY <2>1, FinishClears DEF Duplicate
  <2>2. CASE ~Duplicate(q)
    <3>1. InTxn(q) /\ pc[q] = "log" /\ UNCHANGED txn /\ pc'[q] = "commit"
      BY <1>8, <2>2 DEF InsertLog, Goto, TypeOK, InTxn
    <3> QED BY <1>0, <3>1 DEF TxnOK, InTxn, txn
  <2> QED BY <2>1, <2>2
<1>9. CASE Commit(q)
  BY <1>9, FinishClears DEF Commit
<1>10. CASE Receive(q)
  BY <1>10 DEF Receive, ServerInv, RequestOK, InTxn, NoTxn, TypeOK, txn
<1>11. CASE Dies(q)
  BY <1>11 DEF Dies, InTxn, NoTxn, TypeOK, Goto, Reset
<1> QED BY <1>1, <1>2, <1>3, <1>4, <1>5, <1>6, <1>7, <1>8, <1>9, <1>10, <1>11 DEF Step, Statement

\* What a commit does to the rows: none disappears, and the ones outside the
\* transaction's locks stay as they are.
LEMMA CommitRows ==
  ASSUME TypeOK, NEW q \in Requests, Commit(q), NEW r \in Rows
  PROVE  /\ state[r] # "absent" => state'[r] # "absent"
         /\ r \notin touched[q] => state'[r] = state[r]
         /\ cmd[cur[q]].verb = "update" => state'[r] = state[r]
  BY DEF Commit, StoreRows, TypeOK

\* A row of the tree a request goes by is a row that was made.
LEMMA TreeRows ==
  ASSUME TypeOK, TreeOK, NEW q \in Requests, NEW r,
         r \in IF tree[q] = {} THEN Live ELSE CHOOSE t \in tree[q] : TRUE
  PROVE  r \in Rows /\ state[r] # "absent"
<1>1. CASE tree[q] = {}
  BY <1>1 DEF Live
<1>2. CASE tree[q] # {}
  <2>1. (CHOOSE t \in tree[q] : TRUE) \in tree[q]
    BY <1>2
  <2> QED BY <1>2, <2>1, SeenTree DEF TreeOK
<1> QED BY <1>1, <1>2

\* A statement keeps what its own request knows of the rows.
LEMMA OwnRow ==
  ASSUME TypeOK, Begun, ServerInv, NEW q \in Requests, Step(q), InTxn(q)'
  PROVE  RowOK(q)'
<1> DEFINE e == cmd[cur[q]]
<1>0. (InTxn(q) => TxnOK(q) /\ RowOK(q) /\ e \in Command) /\ (~InTxn(q) => NoTxn(q))
  BY DEF ServerInv, RequestOK, Begun, TypeOK
<1>1. ~Receive(q) /\ ~Dies(q) /\ ~Commit(q)
  <2>1. Commit(q) => ~InTxn(q)'
    BY FinishClears DEF Commit
  <2>2. Receive(q) \/ Dies(q) => ~InTxn(q)'
    BY DEF Receive, Dies, InTxn, TypeOK, Goto
  <2> QED BY <2>1, <2>2
<1>2. UNCHANGED tables /\ ~Duplicate(q)
  <2>1. Duplicate(q) => ~InTxn(q)'
    BY FinishClears DEF Duplicate
  <2> QED BY <1>1, <2>1, TablesKept
<1>3. state' = state /\ log' = log /\ Statement(q)
  BY <1>1, <1>2 DEF tables, Step
<1>4. CASE CheckLog(q)
  <2>1. pc'[q] = "load" /\ touched'[q] = {}
    <3>1. PICK c \in queue[q] :
            IF log[c] # "none" THEN Finish(q, c, queue[q] \ {c}, "noop")
            ELSE Goto(q, "load") /\ UNCHANGED touched
      BY <1>4 DEF CheckLog
    <3>2. log[c] = "none"
      BY <3>1, FinishClears
    <3> QED BY <1>0, <1>4, <3>1, <3>2 DEF CheckLog, InTxn, NoTxn, Goto, TypeOK
  <2> QED BY <2>1 DEF RowOK
<1>5. CASE LoadRow(q)
  <2>1. /\ InTxn(q) /\ pc[q] = "load" /\ cmd' = cmd /\ cur' = cur /\ touched' = touched
        /\ \/ pc'[q] \in {"log", "tree"}
           \/ pc'[q] = "read" /\ state[e.row] # "absent"
    BY <1>5 DEF LoadRow, Decide, Goto, TypeOK, InTxn
  <2> QED BY <1>0, <1>3, <2>1 DEF TxnOK, RowOK
<1>6. CASE ReadTree(q)
  <2> DEFINE seen == IF tree[q] = {} THEN Live ELSE CHOOSE t \in tree[q] : TRUE
  <2>1. /\ InTxn(q) /\ pc[q] = "tree" /\ cmd' = cmd /\ cur' = cur
        /\ \/ pc'[q] = "log" /\ touched' = touched
           \/ e.verb = "create" /\ pc'[q] = "write"
           \/ e.verb = "delete" /\ pc'[q] = "write" /\ touched'[q] = Cascade(seen, e.row)
    BY <1>6 DEF ReadTree, Decide, Goto, TypeOK, InTxn
  <2>2. \A r \in Cascade(seen, e.row) : state[r] # "absent"
    BY TreeRows DEF Cascade, SoftDeleteClosure, ServerInv
  <2> QED BY <1>0, <1>3, <2>1, <2>2 DEF TxnOK, RowOK
<1>7. CASE ReadVersion(q) \/ UpsertVersion(q)
  <2>1. /\ InTxn(q) /\ pc[q] \in {"read", "upsert"} /\ cmd' = cmd /\ cur' = cur /\ touched' = touched
        /\ pc'[q] \in {"read", "upsert"}
    BY <1>7 DEF ReadVersion, UpsertVersion, Goto, TypeOK, InTxn
  <2> QED BY <1>0, <1>3, <2>1 DEF TxnOK, RowOK
<1>8. CASE FieldsDone(q)
  <2>1. /\ InTxn(q) /\ pc[q] = "read" /\ cmd' = cmd /\ cur' = cur
        /\ pc'[q] \in {"write", "log"}
    BY <1>8 DEF FieldsDone, Decide, Goto, TypeOK, InTxn
  <2> QED BY <1>0, <1>3, <2>1 DEF TxnOK, RowOK
<1>9. CASE WriteRows(q)
  <2>1. /\ InTxn(q) /\ pc[q] = "write" /\ cmd' = cmd /\ cur' = cur /\ touched' = touched
        /\ pc'[q] = "log"
        /\ e.verb = "create" => state[e.row] = "absent"
    BY <1>2, <1>9 DEF WriteRows, Decide, Goto, TypeOK, InTxn
  <2> QED BY <1>0, <1>3, <2>1 DEF TxnOK, RowOK
<1>10. CASE InsertLog(q)
  <2>1. /\ InTxn(q) /\ pc[q] = "log" /\ cmd' = cmd /\ cur' = cur /\ touched' = touched
        /\ pc'[q] = "commit" /\ log[cur[q]] = "none"
    BY <1>2, <1>10 DEF InsertLog, Goto, TypeOK, InTxn, txn
  <2> QED BY <1>0, <1>3, <2>1 DEF TxnOK, RowOK
<1> QED BY <1>1, <1>3, <1>4, <1>5, <1>6, <1>7, <1>8, <1>9, <1>10 DEF Statement

\* Nor does a statement disturb what another request knows of them: it holds
\* their locks.
LEMMA OtherRow ==
  ASSUME TypeOK, Begun, ServerInv, NEW q \in Requests, Step(q),
         NEW o \in Requests \ {q}, InTxn(o)
  PROVE  RowOK(o)'
<1> DEFINE e == cmd[cur[o]]
<1>0. TxnOK(o) /\ RowOK(o) /\ e \in Command /\ e.row \in Rows
  BY CommandFields DEF ServerInv, RequestOK, Begun, TypeOK
<1>1. pc'[o] = pc[o] /\ cur'[o] = cur[o] /\ touched'[o] = touched[o] /\ cmd' = cmd
  BY Apart
<1>2. CASE ~Commit(q)
  <2>1. state' = state /\ log' = log
    BY <1>2, TablesKept DEF tables
  <2> QED BY <1>0, <1>1, <2>1 DEF RowOK
<1>3. CASE Commit(q)
  <2>1. \A r \in Rows : state[r] # "absent" => state'[r] # "absent"
    BY <1>3, CommitRows
  <2>2. pc[o] \in {"log", "commit"} /\ e.verb = "create" /\ touched[o] # {}
        => state'[e.row] = "absent"
    <3> SUFFICES ASSUME pc[o] \in {"log", "commit"}, e.verb = "create", touched[o] # {}
                 PROVE  state'[e.row] = "absent"
      OBVIOUS
    <3>1. touched[o] = {e.row} /\ state[e.row] = "absent"
      BY <1>0 DEF TxnOK, RowOK
    <3>2. e.row \notin touched[q]
      BY <1>3, <3>1 DEF ServerInv, LocksOK, RowLocks, Commit
    <3> QED BY <1>0, <1>3, <3>1, <3>2, CommitRows
  <2>3. pc[o] = "commit" => log'[cur[o]] = "none"
    <3> SUFFICES ASSUME pc[o] = "commit" PROVE log'[cur[o]] = "none"
      OBVIOUS
    <3>1. cur[o] # cur[q]
      BY <1>3 DEF ServerInv, LocksOK, LogLock, Commit
    <3> QED BY <1>0, <1>3, <3>1 DEF Commit, RowOK, TypeOK, TxnOK
  <2>4. \A r \in touched[o] : r \in Rows
    BY DEF TypeOK
  <2> QED BY <1>0, <1>1, <2>1, <2>2, <2>3, <2>4 DEF RowOK
<1> QED BY <1>2, <1>3

\* Whom a statement gives a row or a key of command_log, nobody else holds it.
LEMMA LocksStay ==
  ASSUME TypeOK, Begun, ServerInv, NEW q \in Requests, Step(q)
  PROVE  LocksOK'
<1>1. ASSUME NEW o \in Requests \ {q}
      PROVE  RowLocks(o)' = RowLocks(o) /\ LogLock(o)' = LogLock(o)
  BY <1>1, Apart DEF RowLocks, LogLock
<1>2. InTxn(q) => TxnOK(q)
  BY DEF ServerInv, RequestOK
<1>3. ASSUME NEW o \in Requests \ {q}
      PROVE  RowLocks(q)' \cap RowLocks(o) = {}
  <2>1. CASE RowLocks(q)' \subseteq RowLocks(q)
    BY <2>1, <1>3 DEF ServerInv, LocksOK
  <2>2. CASE WriteRows(q) /\ ~Duplicate(q)
    <3>1. touched'[q] = touched[q]
      BY <2>2 DEF WriteRows
    <3>2. o \in Others(q) \/ RowLocks(o) = {}
      BY <1>3 DEF Others, Active, RowLocks, TypeOK, Pcs
    <3> QED BY <2>2, <3>1, <3>2 DEF WriteRows, RowLocks
  <2>3. ~(WriteRows(q) /\ ~Duplicate(q)) => RowLocks(q)' \subseteq RowLocks(q)
    <3>1. CASE ~InTxn(q)'
      BY <3>1 DEF RowLocks, InTxn
    <3>2. CASE Duplicate(q)
      BY <3>2, FinishClears DEF Duplicate, RowLocks, InTxn
    <3>3. CASE InTxn(q)' /\ (LoadRow(q) \/ ReadTree(q) \/ FieldsDone(q))
      <4>1. pc'[q] = "log" => touched'[q] = touched[q]
        BY <3>3 DEF LoadRow, ReadTree, FieldsDone, Goto, TypeOK, InTxn
      <4>2. pc'[q] \notin {"commit"}
        BY <3>3 DEF LoadRow, ReadTree, FieldsDone, Goto, Decide, TypeOK, InTxn
      <4>3. touched[q] = {}
        BY <1>2, <3>3 DEF LoadRow, ReadTree, FieldsDone, TxnOK, InTxn
      <4> QED BY <4>1, <4>2, <4>3 DEF RowLocks
    <3>4. CASE InTxn(q)' /\ CheckLog(q)
      <4>1. pc'[q] = "load"
        <5>1. \A c, S : ~Finish(q, c, S, "noop")
          BY <3>4, FinishClears
        <5> QED BY <3>4, <5>1 DEF CheckLog, Goto, TypeOK
      <4> QED BY <4>1 DEF RowLocks
    <3>5. CASE ReadVersion(q) \/ UpsertVersion(q)
      BY <3>5 DEF ReadVersion, UpsertVersion, Goto, TypeOK, RowLocks
    <3>6. CASE InsertLog(q) /\ ~Duplicate(q)
      BY <3>6 DEF InsertLog, Goto, TypeOK, RowLocks, txn
    <3>7. Receive(q) \/ Dies(q) \/ Commit(q) => ~InTxn(q)'
      BY FinishClears DEF Receive, Dies, Commit, InTxn, TypeOK, Goto
    <3> QED BY <3>1, <3>2, <3>3, <3>4, <3>5, <3>6, <3>7 DEF Step, Statement
  <2> QED BY <2>1, <2>2, <2>3
<1>4. ASSUME NEW o \in Requests \ {q}
      PROVE  LogLock(q)' \cap LogLock(o) = {}
  <2>1. CASE InsertLog(q) /\ ~Duplicate(q)
    <3>1. cur'[q] = cur[q]
      BY <2>1 DEF InsertLog, txn
    <3>2. o \in Others(q) \/ LogLock(o) = {}
      BY <1>4 DEF Others, Active, LogLock, TypeOK, Pcs
    <3> QED BY <2>1, <3>1, <3>2 DEF InsertLog, LogLock
  <2>2. CASE ~(InsertLog(q) /\ ~Duplicate(q))
    <3>1. pc'[q] # "commit"
      <4>1. Duplicate(q) \/ Commit(q) => ~InTxn(q)'
        BY FinishClears DEF Duplicate, Commit
      <4>2. CheckLog(q) \/ LoadRow(q) \/ ReadTree(q) => pc'[q] # "commit"
        <5>1. \A c, S : Finish(q, c, S, "noop") => ~InTxn(q)'
          BY FinishClears
        <5> QED BY <5>1 DEF CheckLog, LoadRow, ReadTree, Goto, Decide, TypeOK, InTxn
      <4>3. ReadVersion(q) \/ UpsertVersion(q) \/ FieldsDone(q) => pc'[q] # "commit"
        BY DEF ReadVersion, UpsertVersion, FieldsDone, Goto, Decide, TypeOK
      <4>4. WriteRows(q) \/ Receive(q) \/ Dies(q) => pc'[q] # "commit" \/ Duplicate(q)
        BY DEF WriteRows, Receive, Dies, Goto, Decide, TypeOK
      <4> QED BY <2>2, <4>1, <4>2, <4>3, <4>4 DEF Step, Statement, InsertLog, InTxn
    <3> QED BY <3>1 DEF LogLock
  <2> QED BY <2>1, <2>2
<1> QED BY <1>1, <1>3, <1>4 DEF ServerInv, LocksOK

\* No row disappears, so cached trees keep to the rows there are.
LEMMA TreesStay ==
  ASSUME TypeOK, Begun, ServerInv, NEW q \in Requests, Step(q)
  PROVE  TreeOK'
<1>1. \A r \in Rows : state[r] # "absent" => state'[r] # "absent"
  BY CommitRows, TablesKept DEF tables
<1>2. \A o \in Requests : \A t \in tree[o] : t \subseteq Rows
  BY DEF TypeOK
<1>3. \A o \in Requests \ {q} : tree'[o] = tree[o]
  BY Apart
<1>4. CASE ReadTree(q)
  <2> DEFINE seen == IF tree[q] = {} THEN Live ELSE CHOOSE t \in tree[q] : TRUE
  <2>1. tree'[q] = {seen}
    BY <1>4 DEF ReadTree, TypeOK
  <2>2. \A r \in seen : r \in Rows /\ state[r] # "absent"
    BY TreeRows DEF ServerInv
  <2> QED BY <1>1, <1>2, <1>3, <2>1, <2>2 DEF ServerInv, TreeOK
<1>5. CASE ~ReadTree(q)
  <2>1. tree'[q] \subseteq tree[q]
    <3>1. Commit(q) \/ Dies(q) => tree'[q] \subseteq tree[q]
      BY DEF Commit, Dies, Invalidate, TypeOK
    <3>2. CheckLog(q) \/ LoadRow(q) \/ ReadVersion(q) \/ UpsertVersion(q) \/ FieldsDone(q)
          \/ WriteRows(q) \/ InsertLog(q) \/ Receive(q) => tree' = tree
      BY DEF CheckLog, LoadRow, ReadVersion, UpsertVersion, FieldsDone, WriteRows, InsertLog, Receive
    <3> QED BY <1>5, <3>1, <3>2 DEF Step, Statement
  <2> QED BY <1>1, <1>2, <1>3, <2>1 DEF ServerInv, TreeOK
<1> QED BY <1>4, <1>5

\* A winner is recorded for the fields of a row that exists.
LEMMA BlankStays ==
  ASSUME TypeOK, Begun, ServerInv, NEW q \in Requests, Step(q)
  PROVE  AbsentBlank'
<1>1. CASE ~Commit(q)
  BY <1>1, TablesKept DEF tables, ServerInv, AbsentBlank
<1>2. CASE Commit(q)
  <2>1. TxnOK(q) /\ RowOK(q) /\ cmd[cur[q]] \in Command
    BY <1>2 DEF ServerInv, RequestOK, Commit, InTxn, Begun, TypeOK
  <2> SUFFICES ASSUME NEW r \in Rows, NEW f \in Fields, state'[r] = "absent"
               PROVE  version'[r][f] = 0
    BY DEF AbsentBlank
  <2>2. state[r] = "absent"
    BY <1>2, CommitRows
  <2>3. r = RowOf(q) => won[q] = {}
    <3> SUFFICES ASSUME r = RowOf(q), won[q] # {} PROVE FALSE
      OBVIOUS
    <3>1. cmd[cur[q]].verb = "update"
      BY <2>1, CommandFields DEF TxnOK
    <3>2. touched[q] = {cmd[cur[q]].row}
      BY <1>2, <2>1, <3>1 DEF TxnOK, Commit
    <3> QED BY <2>1, <2>2, <3>1, <3>2 DEF RowOK, RowOf
  <2>4. version'[r][f] = version[r][f]
    BY <1>2, <2>3 DEF Commit, StoreRows
  <2> QED BY <2>2, <2>4 DEF ServerInv, AbsentBlank
<1> QED BY <1>1, <1>2

\* Every step keeps the requests, the locks and the trees in order.
LEMMA ServerInvStep ==
  ASSUME TypeOK, Begun, ServerInv, [Next]_vars
  PROVE  ServerInv'
<1>1. ASSUME NEW q \in Requests, Step(q) PROVE ServerInv'
  <2>1. RequestOK(q)'
    BY <1>1, OwnTxn, OwnRow DEF RequestOK
  <2>2. ASSUME NEW o \in Requests \ {q} PROVE RequestOK(o)'
    <3>1. /\ pc'[o] = pc[o] /\ cur'[o] = cur[o] /\ todo'[o] = todo[o] /\ field'[o] = field[o]
          /\ won'[o] = won[o] /\ touched'[o] = touched[o] /\ verdict'[o] = verdict[o] /\ cmd' = cmd
      BY <1>1, Apart
    <3>2. IF InTxn(o) THEN TxnOK(o) ELSE NoTxn(o)
      BY DEF ServerInv, RequestOK
    <3>3. IF InTxn(o)' THEN TxnOK(o)' ELSE NoTxn(o)'
      BY <3>1, <3>2 DEF InTxn, TxnOK, NoTxn
    <3>4. InTxn(o)' => RowOK(o)'
      BY <1>1, <3>1, OtherRow DEF InTxn
    <3> QED BY <3>3, <3>4 DEF RequestOK
  <2> QED BY <1>1, <2>1, <2>2, LocksStay, TreesStay, BlankStays DEF ServerInv
<1>2. CASE UNCHANGED vars
  <2>1. /\ UNCHANGED <<cmd, pc, tree, cur, todo, field, won, touched, verdict>>
        /\ UNCHANGED <<log, state, version>>
    BY <1>2 DEF vars, txn, tables
  <2>2. \A q \in Requests : RequestOK(q)'
    <3> SUFFICES ASSUME NEW q \in Requests PROVE RequestOK(q)'
      OBVIOUS
    <3>1. TxnOK(q)' <=> TxnOK(q)
      BY <2>1 DEF TxnOK
    <3>2. RowOK(q)' <=> RowOK(q)
      BY <2>1 DEF RowOK
    <3>3. NoTxn(q)' <=> NoTxn(q)
      BY <2>1 DEF NoTxn
    <3> QED BY <2>1, <3>1, <3>2, <3>3 DEF ServerInv, RequestOK, InTxn
  <2>3. LocksOK'
    BY <2>1 DEF ServerInv, LocksOK, RowLocks, LogLock
  <2>4. TreeOK' /\ AbsentBlank'
    BY <2>1 DEF ServerInv, TreeOK, AbsentBlank
  <2> QED BY <2>2, <2>3, <2>4 DEF ServerInv
<1> QED BY <1>1, <1>2 DEF Next, Step

\* They are in order before the first request.
LEMMA ServerInvInit == Init => ServerInv
  BY DEF Init, ServerInv, RequestOK, InTxn, NoTxn, LocksOK, RowLocks, LogLock, TreeOK, AbsentBlank

\* What the overlapping transactions of a user know of each other and of the
\* committed rows, at every statement.
THEOREM ServerInvHolds == Spec => []ServerInv
<1>1. TypeOK /\ Begun /\ ServerInv /\ [Next]_vars => ServerInv'
  BY ServerInvStep
<1> QED BY <1>1, ServerInvInit, TypeCorrect, PTL DEF Spec

-----------------------------------------------------------------------------
(* What overlapping requests leave behind.                                    *)

\* A request commits a command that has no verdict yet, with its own.
LEMMA FirstVerdict ==
  ASSUME TypeOK, Begun, ServerInv, NEW q \in Requests, Commit(q)
  PROVE  /\ cur[q] \in Ids /\ cmd[cur[q]] \in Command /\ TxnOK(q) /\ RowOK(q)
         /\ log[cur[q]] = "none" /\ verdict[q] \in {"applied", "rejected"}
         /\ log' = [log EXCEPT ![cur[q]] = verdict[q]]
         /\ answers' = [answers EXCEPT ![q][cur[q]] = verdict[q]]
<1>1. InTxn(q)
  BY DEF Commit, InTxn
<1>2. TxnOK(q) /\ RowOK(q) /\ cur[q] \in Ids /\ cmd[cur[q]] \in Command
  BY <1>1 DEF ServerInv, RequestOK, Begun, TypeOK
<1> QED BY <1>2 DEF Commit, Finish, TxnOK, RowOK

\* Only a commit answers with a verdict: the other answers are `noop`.
LEMMA NoopAnswers ==
  ASSUME TypeOK, Begun, NEW q \in Requests, Step(q), ~Commit(q), NEW c \in Ids
  PROVE  answers'[q][c] = answers[q][c] \/ answers'[q][c] = "noop"
<1>1. ASSUME NEW x \in Ids, NEW S, Finish(q, x, S, "noop")
      PROVE  answers'[q][c] = answers[q][c] \/ answers'[q][c] = "noop"
  BY <1>1 DEF Finish, TypeOK
<1>2. CASE CheckLog(q)
  <2>1. PICK x \in queue[q] : Finish(q, x, queue[q] \ {x}, "noop") \/ UNCHANGED answers
    BY <1>2 DEF CheckLog
  <2>2. x \in Ids
    BY DEF TypeOK
  <2> QED BY <1>1, <2>1, <2>2
<1>3. CASE WriteRows(q) \/ InsertLog(q)
  <2>1. cur[q] \in Ids
    BY <1>3 DEF WriteRows, InsertLog, Begun, InTxn
  <2>2. Finish(q, cur[q], queue[q], "noop") \/ UNCHANGED answers
    BY <1>3 DEF WriteRows, InsertLog, Duplicate
  <2> QED BY <1>1, <2>1, <2>2
<1>4. CASE LoadRow(q) \/ ReadTree(q) \/ ReadVersion(q) \/ UpsertVersion(q) \/ FieldsDone(q)
           \/ Receive(q) \/ Dies(q)
  BY <1>4 DEF LoadRow, ReadTree, ReadVersion, UpsertVersion, FieldsDone, Receive, Dies
<1> QED BY <1>2, <1>3, <1>4 DEF Step, Statement

\* However often a command is sent, and however its requests overlap, one of
\* them at most applies or rejects it.
THEOREM OneVerdictHolds == Spec => []OneVerdict
<1>1. Init => OneVerdict
  BY DEF Init, OneVerdict
<1>2. TypeOK /\ Begun /\ ServerInv /\ OneVerdict /\ [Next]_vars => OneVerdict'
  <2> SUFFICES ASSUME TypeOK, Begun, ServerInv, OneVerdict, [Next]_vars PROVE OneVerdict'
    OBVIOUS
  <2>1. ASSUME NEW q \in Requests, Step(q), ~Commit(q) PROVE OneVerdict'
    <3>1. log' = log
      BY <2>1, TablesKept DEF tables
    <3>2. \A o \in Requests, c \in Ids : answers'[o][c] = answers[o][c] \/ answers'[o][c] = "noop"
      BY <2>1, NoopAnswers, Apart
    <3> QED BY <3>1, <3>2 DEF OneVerdict
  <2>2. ASSUME NEW q \in Requests, Commit(q) PROVE OneVerdict'
    <3>1. \A o \in Requests : answers[o][cur[q]] \notin {"applied", "rejected"}
      BY <2>2, FirstVerdict DEF OneVerdict
    <3>2. \A o \in Requests, c \in Ids :
            IF c = cur[q] THEN /\ log'[c] = verdict[q]
                               /\ answers'[o][c] = IF o = q THEN verdict[q] ELSE answers[o][c]
            ELSE log'[c] = log[c] /\ answers'[o][c] = answers[o][c]
      BY <2>2, FirstVerdict DEF TypeOK
    <3> QED BY <3>1, <3>2 DEF OneVerdict
  <2>3. CASE UNCHANGED vars
    BY <2>3 DEF vars, tables, OneVerdict
  <2> QED BY <2>1, <2>2, <2>3 DEF Next, Step
<1> QED BY <1>1, <1>2, TypeCorrect, ServerInvHolds, PTL DEF Spec

\* The recorded writer of a field is the command whose value the row holds.
THEOREM VersionsAreTrue == Spec => []VersionTellsWriter
<1>1. Init => VersionTellsWriter
  BY DEF Init, VersionTellsWriter
<1>2. TypeOK /\ Begun /\ ServerInv /\ VersionTellsWriter /\ [Next]_vars => VersionTellsWriter'
  <2> SUFFICES ASSUME TypeOK, Begun, ServerInv, VersionTellsWriter, [Next]_vars
               PROVE  VersionTellsWriter'
    OBVIOUS
  <2>1. ASSUME NEW q \in Requests, Step(q), ~Commit(q) PROVE VersionTellsWriter'
    BY <2>1, TablesKept DEF tables, VersionTellsWriter
  <2>2. ASSUME NEW q \in Requests, Commit(q) PROVE VersionTellsWriter'
    <3> SUFFICES ASSUME NEW r \in Rows, NEW f \in Fields, version'[r][f] # 0
                 PROVE  value'[r][f] = version'[r][f]
      BY DEF VersionTellsWriter
    <3> DEFINE e == cmd[cur[q]]
    <3>1. e \in Command /\ TxnOK(q) /\ RowOK(q)
      BY <2>2, FirstVerdict
    <3>2. CASE e.verb = "update"
      <4>1. touched[q] = IF won[q] = {} THEN {} ELSE {e.row}
        BY <2>2, <3>1, <3>2 DEF TxnOK, Commit
      <4> QED BY <2>2, <3>2, <4>1 DEF Commit, StoreRows, RowOf, VersionTellsWriter
    <3>3. CASE e.verb = "create"
      <4>1. won[q] = {}
        BY <3>1, <3>3, CommandFields DEF TxnOK
      <4>2. version'[r][f] = version[r][f]
        BY <2>2, <4>1 DEF Commit, StoreRows
      <4>3. r \in touched[q] => state[r] = "absent"
        BY <2>2, <3>1, <3>3 DEF Commit, TxnOK, RowOK
      <4>4. r \notin touched[q]
        BY <4>2, <4>3 DEF ServerInv, AbsentBlank
      <4> QED BY <2>2, <4>2, <4>4 DEF Commit, StoreRows, VersionTellsWriter
    <3>4. CASE e.verb = "delete"
      <4>1. won[q] = {}
        BY <3>1, <3>4, CommandFields DEF TxnOK
      <4> QED BY <2>2, <3>4, <4>1 DEF Commit, StoreRows, VersionTellsWriter
    <3> QED BY <3>1, <3>2, <3>3, <3>4, CommandFields
  <2>3. CASE UNCHANGED vars
    BY <2>3 DEF vars, tables, VersionTellsWriter
  <2> QED BY <2>1, <2>2, <2>3 DEF Next, Step
<1> QED BY <1>1, <1>2, TypeCorrect, ServerInvHolds, PTL DEF Spec

\* No effect without its command_log row.
THEOREM EffectsAreLogged == Spec => EffectsWithVerdict
<1> DEFINE Logged == <<state, value, version>>' # <<state, value, version>> =>
                       \E c \in Ids : log[c] = "none" /\ log'[c] = "applied"
<1>1. TypeOK /\ Begun /\ ServerInv /\ [Next]_vars => [Logged]_vars
  <2> SUFFICES ASSUME TypeOK, Begun, ServerInv, Next PROVE Logged
    OBVIOUS
  <2>1. ASSUME NEW q \in Requests, Step(q), ~Commit(q) PROVE Logged
    BY <2>1, TablesKept DEF tables
  <2>2. ASSUME NEW q \in Requests, Commit(q) PROVE Logged
    <3>1. CASE verdict[q] = "applied"
      BY <2>2, <3>1, FirstVerdict DEF TypeOK
    <3>2. CASE verdict[q] = "rejected"
      <4>1. touched[q] = {} /\ won[q] = {}
        BY <2>2, <3>2, FirstVerdict DEF TxnOK
      <4> QED BY <2>2, <4>1 DEF Commit, StoreRows, TypeOK
    <3> QED BY <2>2, <3>1, <3>2, FirstVerdict
  <2> QED BY <2>1, <2>2 DEF Next, Step
<1> QED BY <1>1, TypeCorrect, ServerInvHolds, PTL DEF Spec, EffectsWithVerdict

-----------------------------------------------------------------------------
(* One request at a time.                                                     *)

\* What a transaction knows of the tree and of the recorded writers when
\* nobody else is at work.
SerialTxn(q) ==
  LET c == cur[q]
      e == cmd[c]
  IN
  /\ pc[q] \in {"write", "log", "commit"} /\ touched[q] # {} =>
       /\ e.verb = "create" => Parent[e.row] \in Live \cup {NoRow}
       /\ e.verb = "delete" => \A r \in Live : Parent[r] \in touched[q] => r \in touched[q]
  /\ pc[q] \in {"read", "upsert", "write", "log", "commit"} /\ verdict[q] # "rejected" =>
       \A f \in e.fields : IF f \in field[q] \cup won[q] THEN version[e.row][f] < c
                           ELSE f \in todo[q] \/ c <= version[e.row][f]

\* At most one request is under way.
Alone == \A q, o \in Active : q = o

\* A request brings no tree.
NoTreeYet == \A q \in Requests : pc[q] = "new" => tree[q] = {}

\* What holds while requests come one at a time.
SerialCore ==
  /\ Alone
  /\ \A q \in Requests : InTxn(q) => SerialTxn(q)
  /\ ContextFresh
  /\ LiveParent
  /\ LastWriterWins

\* It does as long as none have overlapped.
SerialInv == ~overlapped => SerialCore

\* Whoever hangs under a row of the closure, and is live, is in it.
LEMMA ClosureClosed ==
  ASSUME NEW live \in SUBSET Rows, NEW root, NEW r \in live,
         Parent[r] \in SoftDeleteClosure(Parent, live, root)
  PROVE  r \in SoftDeleteClosure(Parent, live, root)
  BY DEF SoftDeleteClosure

\* No step gives a request a tree before it is received.
LEMMA NoTreeYetHolds ==
  ASSUME TypeOK, NoTreeYet, [Next]_vars
  PROVE  NoTreeYet'
<1>1. ASSUME NEW q \in Requests, Step(q) PROVE NoTreeYet'
  <2>1. \A o \in Requests \ {q} : pc'[o] = pc[o] /\ tree'[o] = tree[o]
    BY <1>1, Apart
  <2>2. pc'[q] # "new"
    <3>1. Receive(q) \/ Dies(q) \/ Commit(q) => pc'[q] # "new"
      BY DEF Receive, Dies, Commit, Finish, Goto, TypeOK
    <3>2. CheckLog(q) \/ LoadRow(q) \/ ReadTree(q) => pc'[q] # "new"
      BY DEF CheckLog, LoadRow, ReadTree, Finish, Decide, Goto, TypeOK
    <3>3. ReadVersion(q) \/ UpsertVersion(q) \/ FieldsDone(q) => pc'[q] # "new"
      BY DEF ReadVersion, UpsertVersion, FieldsDone, Decide, Goto, TypeOK
    <3>4. WriteRows(q) \/ InsertLog(q) => pc'[q] # "new"
      BY DEF WriteRows, InsertLog, Duplicate, Finish, Decide, Goto, TypeOK
    <3> QED BY <1>1, <3>1, <3>2, <3>3, <3>4 DEF Step, Statement
  <2> QED BY <2>1, <2>2 DEF NoTreeYet
<1>2. CASE UNCHANGED vars
  BY <1>2 DEF vars, NoTreeYet
<1> QED BY <1>1, <1>2 DEF Next, Step

\* Without a commit the tables stay, and so does what is said of them alone.
LEMMA QuietTables ==
  ASSUME SerialCore, UNCHANGED tables, UNCHANGED cmd
  PROVE  /\ Live' = Live /\ LiveParent' /\ LastWriterWins'
<1>1. Live' = Live
  BY DEF tables, Live
<1> QED BY <1>1 DEF tables, SerialCore, LiveParent, LastWriterWins, Writers

\* A request that is received finds nobody at work.
LEMMA SerialReceive ==
  ASSUME TypeOK, NoTreeYet, SerialInv, NEW q \in Requests, Receive(q), ~overlapped'
  PROVE  SerialCore'
<1>1. SerialCore /\ Active = {} /\ UNCHANGED <<cmd, tree, txn, tables>>
  BY DEF Receive, SerialInv
<1>2. pc' = [pc EXCEPT ![q] = "next"] /\ pc[q] = "new"
  BY DEF Receive
<1>3. Active' = {q}
  BY <1>1, <1>2 DEF Active, TypeOK
<1>4. \A o \in Requests : ~InTxn(o)'
  BY <1>1, <1>2 DEF Active, TypeOK, InTxn
<1>5. ContextFresh'
  BY <1>1, <1>2, <1>3 DEF ContextFresh, NoTreeYet
<1> QED BY <1>1, <1>3, <1>4, <1>5, QuietTables DEF SerialCore, Alone

\* Between its commits the one request at work sees what is committed.
LEMMA SerialQuiet ==
  ASSUME TypeOK, Begun, ServerInv, SerialCore, NEW q \in Requests,
         Statement(q) \/ Dies(q), ~Commit(q)
  PROVE  SerialCore'
<1> DEFINE e == cmd[cur[q]]
<1>0. /\ \A o \in Requests \ {q} : pc'[o] = pc[o] /\ tree'[o] = tree[o] /\ o \notin Active
      /\ cmd' = cmd /\ UNCHANGED tables /\ q \in Active
  <2>1. q \in Active
    BY DEF Active, Statement, Dies, CheckLog, LoadRow, ReadTree, ReadVersion, UpsertVersion,
           FieldsDone, WriteRows, InsertLog, Commit
  <2>2. Step(q)
    BY DEF Step
  <2>3. \A o \in Requests \ {q} : pc'[o] = pc[o] /\ tree'[o] = tree[o] /\ cmd' = cmd
    BY <2>2, Apart
  <2>4. cmd' = cmd
    BY <2>1 DEF Statement, Dies, CheckLog, LoadRow, ReadTree, ReadVersion, UpsertVersion,
                FieldsDone, WriteRows, InsertLog, Commit
  <2>5. \A o \in Requests \ {q} : o \notin Active
    BY <2>1 DEF SerialCore, Alone
  <2>6. UNCHANGED tables
    BY <2>2, TablesKept
  <2> QED BY <2>1, <2>3, <2>4, <2>5, <2>6
<1>1. Live' = Live /\ LiveParent' /\ LastWriterWins' /\ version' = version
  BY <1>0, QuietTables DEF tables
<1>2. Alone' /\ Active' \subseteq {q}
  BY <1>0 DEF Alone, Active
<1>3. (InTxn(q) => TxnOK(q) /\ SerialTxn(q) /\ e \in Command /\ cur[q] \in Nat)
      /\ (~InTxn(q) => NoTxn(q)) /\ tree[q] \subseteq {Live}
  BY <1>0 DEF ServerInv, RequestOK, Begun, TypeOK, SerialCore, ContextFresh, Ids
<1>4. tree'[q] \subseteq {Live}
  <2>1. CASE ReadTree(q)
    <3>1. tree'[q] = {IF tree[q] = {} THEN Live ELSE CHOOSE t \in tree[q] : TRUE}
      BY <2>1 DEF ReadTree, TypeOK
    <3>2. tree[q] # {} => (CHOOSE t \in tree[q] : TRUE) \in tree[q]
      OBVIOUS
    <3> QED BY <1>3, <3>1, <3>2
  <2>2. Dies(q) => tree'[q] = {}
    BY DEF Dies, TypeOK
  <2>3. CheckLog(q) \/ LoadRow(q) \/ ReadVersion(q) \/ UpsertVersion(q) \/ FieldsDone(q)
        \/ WriteRows(q) \/ InsertLog(q) => tree' = tree
    BY DEF CheckLog, LoadRow, ReadVersion, UpsertVersion, FieldsDone, WriteRows, InsertLog
  <2> QED BY <1>3, <2>1, <2>2, <2>3 DEF Statement
<1>5. ContextFresh'
  BY <1>1, <1>2, <1>4 DEF ContextFresh
<1>6. InTxn(q)' => SerialTxn(q)'
  <2> SUFFICES ASSUME InTxn(q)' PROVE SerialTxn(q)'
    OBVIOUS
  <2>0. ~Duplicate(q) /\ ~Dies(q)
    BY FinishClears DEF Duplicate, Dies, Goto, TypeOK, InTxn
  <2>1. CASE CheckLog(q)
    <3>1. \A c, S : ~Finish(q, c, S, "noop")
      BY FinishClears
    <3>2. pc'[q] = "load"
      BY <2>1, <3>1 DEF CheckLog, Goto, TypeOK
    <3> QED BY <3>2 DEF SerialTxn
  <2>2. CASE LoadRow(q)
    <3>1. /\ InTxn(q) /\ pc[q] = "load" /\ cur' = cur /\ UNCHANGED <<touched, field, won>>
          /\ \/ e.verb = "create" /\ pc'[q] = "log"
             \/ verdict'[q] = "rejected" /\ pc'[q] = "log"
             \/ pc'[q] = "read" /\ todo'[q] = e.fields
             \/ pc'[q] = "tree"
      BY <2>2 DEF LoadRow, Decide, Goto, TypeOK, InTxn
    <3>2. touched[q] = {} /\ field[q] = {} /\ won[q] = {} /\ (e.verb = "create" => e.fields = {})
      BY <1>3, <3>1, CommandFields DEF TxnOK
    <3> QED BY <1>0, <3>1, <3>2 DEF SerialTxn
  <2>3. CASE ReadTree(q)
    <3> DEFINE seen == IF tree[q] = {} THEN Live ELSE CHOOSE t \in tree[q] : TRUE
    <3>1. seen = Live
      <4>1. tree[q] # {} => (CHOOSE t \in tree[q] : TRUE) \in tree[q]
        OBVIOUS
      <4> QED BY <1>3, <4>1
    <3>2. /\ InTxn(q) /\ pc[q] = "tree" /\ cur' = cur
          /\ \/ pc'[q] = "log" /\ UNCHANGED touched
             \/ e.verb = "create" /\ Parent[e.row] \in seen \cup {NoRow} /\ pc'[q] = "write"
             \/ e.verb = "delete" /\ touched'[q] = Cascade(seen, e.row) /\ pc'[q] = "write"
      BY <2>3 DEF ReadTree, Decide, Goto, TypeOK, InTxn
    <3>3. touched[q] = {} /\ e.fields = {}
      BY <1>3, <3>2, CommandFields DEF TxnOK
    <3>4. \A r \in Live : Parent[r] \in Cascade(Live, e.row) => r \in Cascade(Live, e.row)
      BY ClosureClosed DEF Cascade, Live
    <3> QED BY <1>0, <1>1, <3>1, <3>2, <3>3, <3>4 DEF SerialTxn
  <2>4. CASE ReadVersion(q)
    <3>1. /\ InTxn(q) /\ pc[q] = "read" /\ cur' = cur /\ UNCHANGED <<won, touched, verdict>>
          /\ \E f \in todo[q] :
               /\ todo'[q] = todo[q] \ {f}
               /\ IF version[e.row][f] < cur[q]
                  THEN field'[q] = {f} /\ pc'[q] = "upsert"
                  ELSE UNCHANGED field /\ pc'[q] = "read"
      BY <2>4 DEF ReadVersion, Beats, Goto, TypeOK, InTxn, RowOf
    <3>2. todo[q] \subseteq Fields /\ e.row \in Rows /\ field[q] = {}
      BY <1>3, <3>1, CommandFields DEF TypeOK, TxnOK
    <3>3. \A f \in todo[q] : version[e.row][f] \in Nat
      BY <3>2 DEF TypeOK
    <3> QED BY <1>0, <1>1, <1>3, <3>1, <3>2, <3>3 DEF SerialTxn
  <2>5. CASE UpsertVersion(q)
    <3>1. /\ InTxn(q) /\ pc[q] = "upsert" /\ cur' = cur /\ UNCHANGED <<todo, touched, verdict>>
          /\ won'[q] = won[q] \cup field[q] /\ field'[q] = {} /\ pc'[q] = "read"
      BY <2>5 DEF UpsertVersion, Goto, TypeOK, InTxn
    <3> QED BY <1>0, <1>1, <1>3, <3>1 DEF SerialTxn
  <2>6. CASE FieldsDone(q)
    <3>1. /\ InTxn(q) /\ pc[q] = "read" /\ cur' = cur /\ UNCHANGED <<todo, field, won>>
          /\ pc'[q] \in {"log", "write"}
      BY <2>6 DEF FieldsDone, Decide, Goto, TypeOK, InTxn
    <3>2. e.verb = "update" /\ verdict[q] = "none"
      BY <1>3, <3>1 DEF TxnOK
    <3> QED BY <1>0, <1>1, <1>3, <3>1, <3>2 DEF SerialTxn
  <2>7. CASE WriteRows(q)
    <3>1. /\ InTxn(q) /\ pc[q] = "write" /\ UNCHANGED <<cur, todo, field, won, touched>>
          /\ pc'[q] = "log"
      BY <2>0, <2>7 DEF WriteRows, Decide, Goto, TypeOK, InTxn
    <3>2. verdict[q] = "none"
      BY <1>3, <3>1 DEF TxnOK
    <3> QED BY <1>0, <1>1, <1>3, <3>1, <3>2 DEF SerialTxn
  <2>8. CASE InsertLog(q)
    <3>1. InTxn(q) /\ pc[q] = "log" /\ UNCHANGED txn /\ pc'[q] = "commit"
      BY <2>0, <2>8 DEF InsertLog, Goto, TypeOK, InTxn
    <3> QED BY <1>0, <1>1, <1>3, <3>1 DEF SerialTxn, txn
  <2> QED BY <2>0, <2>1, <2>2, <2>3, <2>4, <2>5, <2>6, <2>7, <2>8 DEF Statement
<1>7. \A o \in Requests \ {q} : ~InTxn(o)'
  BY <1>0 DEF InTxn, Active
<1> QED BY <1>1, <1>2, <1>5, <1>6, <1>7 DEF SerialCore

\* A commit carries out what the request saw.
LEMMA SerialCommit ==
  ASSUME TypeOK, Begun, ServerInv, SerialCore, NEW q \in Requests, Commit(q)
  PROVE  SerialCore'
<1> DEFINE c == cur[q]
           e == cmd[c]
<1>1. /\ c \in Ids /\ e \in Command /\ TxnOK(q) /\ RowOK(q) /\ SerialTxn(q) /\ pc[q] = "commit"
      /\ verdict[q] \in {"applied", "rejected"} /\ log' = [log EXCEPT ![c] = verdict[q]]
  BY FirstVerdict DEF Commit, SerialCore, InTxn
<1>2. q \in Active /\ \A o \in Requests \ {q} : o \notin Active
  BY <1>1 DEF SerialCore, Alone, Active
<1>3. cmd' = cmd /\ \A o \in Requests \ {q} : pc'[o] = pc[o]
  BY Apart DEF Step, Statement, Commit
<1>4. Active' \subseteq {q}
  BY <1>2, <1>3 DEF Active
<1>5. \A o \in Requests : ~InTxn(o)'
  <2>1. ~InTxn(q)'
    BY FinishClears DEF Commit
  <2> QED BY <1>2, <1>3, <2>1 DEF InTxn, Active
<1>6. ContextFresh'
  <2>1. CASE verdict[q] = "applied"
    <3>1. tree'[q] = {}
      BY <2>1 DEF Commit, Invalidate, TypeOK
    <3> QED BY <1>4, <3>1 DEF ContextFresh
  <2>2. CASE verdict[q] = "rejected"
    <3>1. tree'[q] = tree[q]
      BY <2>2 DEF Commit, Invalidate, TypeOK
    <3>2. Live' = Live
      BY <1>1, <2>2 DEF TxnOK, Commit, StoreRows, Live
    <3> QED BY <1>2, <1>4, <3>1, <3>2 DEF ContextFresh, SerialCore
  <2> QED BY <1>1, <2>1, <2>2
<1>7. LiveParent'
  <2>1. CASE e.verb = "update" \/ touched[q] = {}
    <3>1. Live' = Live
      BY <2>1 DEF Commit, StoreRows, Live
    <3> QED BY <3>1 DEF LiveParent, SerialCore
  <2>2. CASE e.verb = "create" /\ touched[q] # {}
    <3>1. touched[q] = {e.row} /\ e.row \in Rows /\ Parent[e.row] \in Live \cup {NoRow}
      BY <1>1, <2>2, CommandFields DEF TxnOK, SerialTxn
    <3>2. Live' = Live \cup {e.row}
      BY <2>2, <3>1 DEF Commit, StoreRows, Live
    <3> QED BY <3>1, <3>2 DEF LiveParent, SerialCore
  <2>3. CASE e.verb = "delete" /\ touched[q] # {}
    <3>1. Live' = Live \ touched[q]
      BY <2>3 DEF Commit, StoreRows, Live
    <3>2. \A r \in Live : Parent[r] \in touched[q] => r \in touched[q]
      BY <1>1, <2>3 DEF SerialTxn
    <3> QED BY <3>1, <3>2 DEF LiveParent, SerialCore
  <2> QED BY <1>1, <2>1, <2>2, <2>3, CommandFields
<1>8. LastWriterWins'
  <2> SUFFICES ASSUME NEW r \in Rows, NEW f \in Fields, NEW x \in Writers(r, f)'
               PROVE  x <= version'[r][f]
    BY DEF LastWriterWins
  <2>1. /\ x \in Ids /\ log'[x] = "applied" /\ cmd[x].verb = "update" /\ cmd[x].row = r
        /\ f \in cmd[x].fields
    BY <1>3 DEF Writers
  <2>2. /\ version'[r][f] = IF r = e.row /\ f \in won[q] THEN c ELSE version[r][f]
        /\ version[r][f] \in Nat /\ c \in Nat /\ x \in Nat
    BY <1>1, <2>1 DEF Commit, StoreRows, RowOf, TypeOK, Ids
  <2>3. x # c => x <= version[r][f]
    BY <1>1, <2>1 DEF TypeOK, Writers, SerialCore, LastWriterWins
  <2>4. r = e.row /\ f \in won[q] => version[r][f] < c
    <3> SUFFICES ASSUME r = e.row, f \in won[q] PROVE version[r][f] < c
      OBVIOUS
    <3>1. f \in e.fields /\ verdict[q] # "rejected"
      BY <1>1 DEF TxnOK
    <3> QED BY <1>1, <3>1 DEF SerialTxn
  <2>5. x = c => f \in won[q] \/ c <= version[r][f]
    BY <1>1, <2>1 DEF SerialTxn, TxnOK, TypeOK
  <2> QED BY <2>1, <2>2, <2>3, <2>4, <2>5
<1> QED BY <1>4, <1>5, <1>6, <1>7, <1>8 DEF SerialCore, Alone

\* While the server has one request of the user at a time, the invariant holds.
LEMMA SerialInvHolds == Spec => []SerialInv
<1>1. Init => SerialInv /\ NoTreeYet
  <2> SUFFICES ASSUME Init PROVE SerialInv /\ NoTreeYet
    OBVIOUS
  <2>1. Active = {} /\ NoTreeYet /\ Live = InitRows
    BY RowsAssumption DEF Init, Active, NoTreeYet, Live
  <2>2. \A q \in Requests : ~InTxn(q)
    BY DEF Init, InTxn
  <2>3. LiveParent
    BY <2>1, RowsAssumption DEF LiveParent
  <2>4. LastWriterWins
    BY DEF Init, LastWriterWins, Writers
  <2> QED BY <2>1, <2>2, <2>3, <2>4 DEF SerialInv, SerialCore, Alone, ContextFresh
<1>2. TypeOK /\ Begun /\ ServerInv /\ SerialInv /\ NoTreeYet /\ [Next]_vars => SerialInv' /\ NoTreeYet'
  <2> SUFFICES ASSUME TypeOK, Begun, ServerInv, SerialInv, NoTreeYet, [Next]_vars, ~overlapped'
               PROVE  SerialCore'
    BY NoTreeYetHolds DEF SerialInv
  <2>1. ASSUME NEW q \in Requests, Receive(q) PROVE SerialCore'
    BY <2>1, SerialReceive
  <2>2. ASSUME NEW q \in Requests, Statement(q) \/ Dies(q) PROVE SerialCore'
    <3>1. overlapped' = overlapped
      BY <2>2 DEF Statement, Dies, CheckLog, LoadRow, ReadTree, ReadVersion, UpsertVersion,
                  FieldsDone, WriteRows, InsertLog, Commit
    <3>2. SerialCore
      BY <3>1 DEF SerialInv
    <3> QED BY <2>2, <3>2, SerialQuiet, SerialCommit
  <2>3. CASE UNCHANGED vars
    <3>1. SerialCore /\ UNCHANGED <<cmd, pc, tree, cur, todo, field, won, touched, verdict, state, version>>
          /\ UNCHANGED tables
      BY <2>3 DEF vars, txn, tables, SerialInv
    <3>2. LiveParent' /\ LastWriterWins' /\ Live' = Live
      BY <3>1, QuietTables
    <3>3. \A q \in Requests : InTxn(q)' => SerialTxn(q)'
      BY <3>1, <3>2 DEF SerialCore, InTxn, SerialTxn
    <3> QED BY <3>1, <3>2, <3>3 DEF SerialCore, Alone, Active, ContextFresh
  <2> QED BY <2>1, <2>2, <2>3 DEF Next
<1> QED BY <1>1, <1>2, TypeCorrect, ServerInvHolds, PTL DEF Spec

\* Last-writer-wins by HLC, for a user whose requests do not overlap.
THEOREM SerialLww == Spec => []SerialLastWriterWins
<1>1. SerialInv => SerialLastWriterWins
  BY DEF SerialInv, SerialCore, SerialLastWriterWins
<1> QED BY <1>1, SerialInvHolds, PTL

\* The tree a request has cached is the committed one.
THEOREM SerialContext == Spec => []SerialContextFresh
<1>1. SerialInv => SerialContextFresh
  BY DEF SerialInv, SerialCore, SerialContextFresh
<1> QED BY <1>1, SerialInvHolds, PTL

\* No live row hangs under a deleted one.
THEOREM SerialParents == Spec => []SerialLiveParent
<1>1. SerialInv => SerialLiveParent
  BY DEF SerialInv, SerialCore, SerialLiveParent
<1> QED BY <1>1, SerialInvHolds, PTL
=============================================================================
