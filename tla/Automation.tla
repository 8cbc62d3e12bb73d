------------------------------ MODULE Automation ------------------------------
(***************************************************************************)
(* One user's automation rules at work: a device predicts what a command      *)
(* spawns (packages/ui/src/powersync/execute.ts), the server spawns it in the *)
(* transaction of the command (apps/server/src/dispatcher.ts) and runs the    *)
(* rules once more in a job (jobs/automation-backstop.ts); the acknowledged   *)
(* effects, the replica and the overlay meet on the device, whose facts are   *)
(* kept up to date from the merged rows (StatusIndex).                        *)
(*                                                                          *)
(* All writes come from one device and reach the server in order, each once:  *)
(* so all of its fields win, and a command's number is its UUIDv7 and its HLC. *)
(* What is lost or reordered on the way is the matter of CommandSync, writes  *)
(* that overlap on the server of ServerTxn.                                   *)
(***************************************************************************)
EXTENDS RulesEngine, StatusIndex

CONSTANTS
  InitNodes, InitRules,  \* what the server holds when the device has just synced
  InitFacts,             \* what it holds of the other tables, as tables by name
  Commands,              \* what the user may do
  Arrivals,              \* rows of other tables that may come down: [table, id, row]
  MaxCommands, MaxArrivals   \* bounds

OtherTables == SharedTables \ {"nodes", "edges"}

\* The rows of another table there may ever be.
FactRows(t) ==
  Range(At(InitFacts, t, << >>)) \cup ({a.row : a \in {x \in Arrivals : x.table = t}} \ {None})

NodeColumns ==
  {"id", "type", "parent", "habit", "title", "done", "estimate", "created", "due", "stamp", "live"}

\* A row of automation_rules has finitely many actions.
RuleRow(r) == "actions" \in DOMAIN r /\ IsFiniteSet(r.actions)

\* Rows bear their ids and the columns of their table, and there are finitely
\* many at first.  Once it is there the row of the settings stays.
ASSUME AutomationAssumption ==
  /\ MaxCommands \in Nat /\ MaxDepth \in Nat
  /\ IsFiniteSet(DOMAIN InitNodes) /\ \A n \in DOMAIN InitNodes : DOMAIN InitNodes[n] \subseteq NodeColumns \ {"id"}
  /\ IsFiniteSet(DOMAIN InitRules) /\ \A r \in DOMAIN InitRules : RuleRow(InitRules[r])
  /\ \A c \in Commands :
       /\ c.verb \in {"create", "checkOff", "uncheck", "delete", "createRule"}
       /\ c.verb = "createRule" => RuleRow(c.rule)
  /\ DOMAIN InitFacts \subseteq OtherTables
  /\ \A t \in DOMAIN InitFacts :
       /\ IsFiniteSet(DOMAIN InitFacts[t]) /\ InitFacts[t] = [i \in DOMAIN InitFacts[t] |-> InitFacts[t][i]]
       /\ \A i \in DOMAIN InitFacts[t] : InitFacts[t][i].id = i
  /\ \A a \in Arrivals :
       \/ a.table = "user_settings" /\ a.row # None
       \/ a.table \in OtherTables /\ (a.row # None => a.row.id = a.id)
  /\ \A t \in OtherTables : \A r, s \in FactRows(t) :
       DOMAIN r = DOMAIN s /\ r = [c \in DOMAIN r |-> r[c]]

VARIABLES
  srv,       \* the tables nodes, edges and automation_rules of the server
  jobs,      \* the queued backstop jobs; `seen` is srv when the job was queued
  items,     \* the kinds of review items the automation has filed
  replica,   \* the live rows of srv the device last downloaded
  commands,  \* client_commands: [cmd, status]
  overlay,   \* overlay_effects: [command, table, id, op, fields]
  facts,     \* the device's rows of the other tables
  arrived,   \* how many rows came down in those
  engine     \* the data provider's index and the rows it reflects

vars == <<srv, jobs, items, replica, commands, overlay, facts, arrived, engine>>

Now == Len(commands)

Tables == {"nodes", "edges", "automation_rules"}

Live(rows) == [n \in {x \in DOMAIN rows : rows[x].live} |-> rows[n]]
LiveRows(tables) == [t \in Tables |-> Live(tables[t])]

\* FactRows of the engine: it is given nodes and edges only, and so knows no
\* entries, no weather and the default day.
EngineFacts(nodes, edges) ==
  BuildFactContext([NoRows EXCEPT !.nodes = nodes, !.edges = edges] ++ [user_settings |-> None])

-----------------------------------------------------------------------------
(* The merged read of the device.                                             *)

\* toNode: the defaults of the columns an effect on a row not yet here leaves out.
BareNode ==
  [type |-> None, parent |-> None, habit |-> None, title |-> << >>, done |-> None,
   estimate |-> None, created |-> 0, due |-> None, stamp |-> None, live |-> TRUE]

Bare(t) ==
  CASE t = "nodes" -> BareNode [] t = "edges" -> [stamp |-> None, live |-> TRUE]
    [] OTHER -> << >>

OfCommand(effects, i) == {e \in effects : e.command = i}

\* mergeRow: the effects on a row in the order of their commands, of which none
\* has two; {} is no row.
MergeNext(row, mine) ==
  IF mine = {} THEN row
  ELSE {e.fields ++ x : e \in {y \in mine : y.op # "delete"}, x \in IF row = {} THEN {<< >>} ELSE row}

MergeRow(row, effects) ==
  LET after[i \in 0 .. MaxCommands] ==
        IF i = 0 THEN row ELSE MergeNext(after[i - 1], OfCommand(effects, i))
  IN after[MaxCommands]

MergeTable(rep, effects, t) ==
  LET mine      == {e \in effects : e.table = t}
      Merged(n) == MergeRow({rep[t][x] : x \in {n} \cap DOMAIN rep[t]}, {e \in mine : e.id = n})
      ids       == {n \in DOMAIN rep[t] \cup {e.id : e \in mine} : Merged(n) # {}}
  IN [n \in ids |-> (CHOOSE r \in Merged(n) : TRUE) ++ Bare(t)]

\* The shared rows; the tables the automation does not touch are as they came.
SharedRows(rep, effects, others) ==
  [others EXCEPT !.nodes = MergeTable(rep, effects, "nodes"),
                 !.edges = MergeTable(rep, effects, "edges")]

Follow == \E R \in {SharedRows(replica', overlay', facts')} : engine' = Maintain(engine, R)

-----------------------------------------------------------------------------
(* execute: the optimistic effects.                                           *)

Effect(i, t, n, op, fields) == [command |-> i, table |-> t, id |-> n, op |-> op, fields |-> fields]

NewTask(c, at) ==
  [id |-> c.node, type |-> "task", parent |-> c.parent, habit |-> None, title |-> c.title,
   done |-> None, estimate |-> None, created |-> at, due |-> None]

\* The columns a command sets on its node.
Columns(c, at) == IF c.verb = "checkOff" THEN [done |-> at] ELSE [done |-> None]

OwnEffects(i, c, nodes) ==
  CASE c.verb = "create" -> {Effect(i, "nodes", c.node, "insert", NewTask(c, i))}
    [] c.verb \in {"checkOff", "uncheck"} ->
         {Effect(i, "nodes", c.node, "update", Columns(c, i) ++ [id |-> c.node])}
    [] c.verb = "delete" ->
         {Effect(i, "nodes", n, "delete", << >>) : n \in {c.node} \cup Subtree(nodes, c.node)}
    [] c.verb = "createRule" ->
         {Effect(i, "automation_rules", c.rule.id, "insert", c.rule)}

KeptEffects(i, nodes, out) ==
  {Effect(i, "nodes", n, "insert", [id |-> n] ++ out.nodes[n]) : n \in KeptNodes(nodes, out)}
  \cup {Effect(i, "edges", e, "insert", out.edges[e]) : e \in KeptEdges(nodes, out)}

\* automationSpawnEffects.  The task that is being created is not in the merged
\* rows yet, and the one that is checked off is there as it was.
SpawnEffects(i, c, nodes, edges, rules) ==
  LET trigger ==
        IF c.verb = "create" THEN [kind |-> "task_created", node |-> c.node, row |-> NewTask(c, i)]
        ELSE [kind |-> "task_completed", node |-> c.node, row |-> [nodes[c.node] EXCEPT !.done = i]]
  IN IF \/ c.verb = "create"
        \/ c.verb = "checkOff" /\ c.node \in DOMAIN nodes /\ nodes[c.node].type = "task"
     THEN KeptEffects(i, nodes, RunAutomations(EngineFacts(nodes, edges), Range(rules), trigger))
     ELSE {}

\* What is made is new, and what is acted on is on the screen.
Offered(c, nodes) ==
  CASE c.verb \in {"create", "createRule"} -> \A i \in DOMAIN commands : commands[i].cmd # c
    [] OTHER -> c.node \in DOMAIN nodes

Execute ==
  /\ Now < MaxCommands
  /\ \E c \in Commands :
       LET Merged(t) == MergeTable(replica, overlay, t) IN
       /\ Offered(c, Merged("nodes"))
       /\ commands' = Append(commands, [cmd |-> c, status |-> "pending"])
       /\ overlay' =
            overlay \cup OwnEffects(Now + 1, c, Merged("nodes"))
              \cup SpawnEffects(Now + 1, c, Merged("nodes"), Merged("edges"), Merged("automation_rules"))
  /\ UNCHANGED <<srv, jobs, items, replica, facts, arrived>>
  /\ Follow

-----------------------------------------------------------------------------
(* The server: the handler, the automation in its transaction, the answer.     *)

\* The handler rejects.
Rejects(c) ==
  LET t == Live(srv.nodes)
      n == c.node
  IN CASE c.verb = "create" -> ~CheckNodeCreate(t, "task", c.parent, None)
       [] c.verb = "checkOff" ->
            ~(/\ n \in DOMAIN srv.nodes
              /\ srv.nodes[n].done = None => CheckCompletion(EngineFacts(t, Live(srv.edges)), n, Now))
       [] c.verb \in {"uncheck", "delete"} -> n \notin DOMAIN srv.nodes
       [] c.verb = "createRule" ->
            ~ValidateRule(DayOf[DefaultResetHour], c.rule, Range(Live(srv.automation_rules)))

Stamped(i) == [stamp |-> i, live |-> TRUE]

\* The tables after the handler of command i.
Handled(i, c) ==
  CASE c.verb = "create" -> [srv EXCEPT !.nodes = Put(@, c.node, NewTask(c, Now) ++ Stamped(i))]
    [] c.verb \in {"checkOff", "uncheck"} ->
         [srv EXCEPT !.nodes[c.node] = Columns(c, i) ++ [stamp |-> i] ++ @]
    [] c.verb = "delete" ->
         [srv EXCEPT !.nodes = [n \in DOMAIN @ |->
            IF n \in Subtree(Live(@), c.node) THEN [live |-> FALSE, stamp |-> i] ++ @[n] ELSE @[n]]]
    [] c.verb = "createRule" -> [srv EXCEPT !.automation_rules = Put(@, c.rule.id, c.rule ++ Stamped(i))]

\* runAutomations on the tables `s`, and what of it is inserted: of the kept rows
\* those whose id no row bears, deleted ones included.
Outcome(s, trigger) ==
  RunAutomations(EngineFacts(Live(s.nodes), Live(s.edges)), Range(Live(s.automation_rules)), trigger)

Inserted(s, out, i) ==
  [s EXCEPT !.nodes = @ ++ [n \in KeptNodes(Live(@), out) |-> [id |-> n] ++ out.nodes[n] ++ Stamped(i)],
            !.edges = @ ++ [e \in KeptEdges(Live(s.nodes), out) |-> out.edges[e] ++ Stamped(i)]]

\* The trigger a handler returns for the engine.
Triggers(c, s) ==
  CASE c.verb = "create" -> {[kind |-> "task_created", node |-> c.node]}
    [] c.verb = "checkOff" ->
         {[kind |-> "task_completed", node |-> n] : n \in {x \in {c.node} : s.nodes[x].type = "task"}}
    [] OTHER -> {}

\* A deleted task triggers nothing.
Fired(c, s) ==
  {[kind |-> t.kind, node |-> t.node, row |-> s.nodes[t.node]] :
     t \in {x \in Triggers(c, s) : s.nodes[x.node].live}}

\* The effects of the answer: the rows of the handler that records them, then
\* the rows the automation inserted.
Answered(c, before, after) ==
  {[table |-> "nodes", id |-> n] : n \in {x \in DOMAIN after.nodes :
                                           x \notin DOMAIN before.nodes \/ before.nodes[x] # after.nodes[x]}}
  \cup {[table |-> "edges", id |-> e] : e \in DOMAIN after.edges \ DOMAIN before.edges}

\* markApplied: the only effect of the command on its table is moved to the row
\* that was acknowledged in that table, the last one of several.
MovedTo(e, id) ==
  IF id = e.id THEN e ELSE [e EXCEPT !.id = id, !.op = "update", !.fields = [id |-> id] ++ @]

Moved(i, answer) ==
  LET mine  == OfCommand(overlay, i)
      alone == {e \in mine : \A x \in mine : x.table = e.table => x = e}
      To(e) == {a.id : a \in {x \in answer : x.table = e.table}} \ {e.id}
      ends  == {to \in [alone -> {a.id : a \in answer} \cup {e.id : e \in alone}] :
                  \A e \in alone : to[e] \in IF To(e) = {} THEN {e.id} ELSE To(e)}
  IN {(overlay \ alone) \cup {MovedTo(e, to[e]) : e \in alone} : to \in ends}

\* What the automation makes of the tables the handler of command i left: the
\* tables at the end, and the items filed.
Automated(s, runs, i) ==
  LET Found(out) == [tables |-> Inserted(s, out, i), items |-> {"max_depth" : x \in {TRUE} \cap {out.depthLimited}}]
  IN IF runs = {} THEN [tables |-> s, items |-> {}]
     ELSE Found(Outcome(s, CHOOSE x \in runs : TRUE))

Serve ==
  \E i \in DOMAIN commands :
    LET c == commands[i].cmd IN
    /\ commands[i].status = "pending"
    /\ \A j \in 1 .. i - 1 : commands[j].status # "pending"
    /\ \/ /\ Rejects(c)
          /\ commands' = [commands EXCEPT ![i].status = "rejected"]
          /\ overlay' = {e \in overlay : e.command # i}
          /\ UNCHANGED <<srv, jobs, items>>
       \/ /\ ~Rejects(c)
          /\ commands' = [commands EXCEPT ![i].status = "applied"]
          /\ \E done \in {Handled(i, c)} : \E after \in {Automated(done, Fired(c, done), i)} :
               /\ srv' = after.tables
               /\ overlay' \in Moved(i, Answered(c, srv, srv'))
               /\ jobs' = jobs \cup {t ++ [seen |-> srv'] : t \in Triggers(c, done)}
               /\ items' = items \cup after.items
    /\ UNCHANGED <<replica, facts, arrived>>
    /\ Follow

\* What a backstop files when it leaves the tables `after`: its own work, and the
\* spawned rows that are not what the rules make of them now.
Drifted(out, after) ==
  {"automation_backstop" : x \in {y \in {srv} : after # y}}
  \cup {"automation_drift" : n \in {x \in DOMAIN out.replayed \cap DOMAIN srv.nodes :
          srv.nodes[x].live /\ Content(srv.nodes[x]) # Content(out.replayed[x])}}

\* automation.backstop: the same rules on the tables as they are when it runs.
Backstop ==
  \E j \in jobs :
    LET row == srv.nodes[j.node] IN
    /\ jobs' = jobs \ {j}
    /\ \/ /\ ~row.live
          /\ UNCHANGED <<srv, items>>
       \/ /\ row.live
          /\ \E out \in {Outcome(srv, [kind |-> j.kind, node |-> j.node, row |-> row])} :
               /\ srv' = Inserted(srv, out, None)
               /\ items' = items \cup Drifted(out, srv')
    /\ UNCHANGED <<replica, commands, overlay, facts, arrived, engine>>

-----------------------------------------------------------------------------
(* Back on the device.                                                        *)

Download ==
  /\ replica # LiveRows(srv)
  /\ replica' = LiveRows(srv)
  /\ UNCHANGED <<srv, jobs, items, commands, overlay, facts, arrived>>
  /\ Follow

\* An effect is confirmed by its row being gone, or there with no stamp, the
\* command's own or a later one.
Confirmed(e) ==
  LET rows == replica[e.table] IN
  IF e.op = "delete" THEN e.id \notin DOMAIN rows
  ELSE e.id \in DOMAIN rows /\ (rows[e.id].stamp # None => rows[e.id].stamp >= e.command)

\* reconcileConfirmed of one command; a confirmed delete takes along every
\* effect still held for its row.
Reconcile ==
  \E i \in DOMAIN commands :
    LET mine == OfCommand(overlay, i)
        gone == {<<e.table, e.id>> : e \in {x \in mine : x.op = "delete"}}
    IN
    /\ commands[i].status = "applied"
    /\ \A e \in mine : Confirmed(e)
    /\ commands' = [commands EXCEPT ![i].status = "cleared"]
    /\ overlay' = {e \in overlay \ mine : <<e.table, e.id>> \notin gone}
    /\ UNCHANGED <<srv, jobs, items, replica, facts, arrived>>
    /\ Follow

\* A row of another table comes down, changes or goes.
Arrive ==
  /\ arrived < MaxArrivals
  /\ arrived' = arrived + 1
  /\ \E a \in Arrivals :
       facts' = [facts EXCEPT ![a.table] =
                   IF a.table = "user_settings" THEN a.row
                   ELSE IF a.row = None THEN Without(@, a.id) ELSE Put(@, a.id, a.row)]
  /\ UNCHANGED <<srv, jobs, items, replica, commands, overlay>>
  /\ Follow

-----------------------------------------------------------------------------
InitTables ==
  [nodes |-> [n \in DOMAIN InitNodes |-> [id |-> n, live |-> TRUE, stamp |-> None] ++ InitNodes[n]],
   edges |-> << >>,
   automation_rules |-> [r \in DOMAIN InitRules |-> InitRules[r] ++ Stamped(None)]]

FactsAtFirst == InitFacts ++ NoRows ++ [user_settings |-> None]

Init ==
  /\ srv = InitTables
  /\ jobs = {}
  /\ items = {}
  /\ replica = LiveRows(InitTables)
  /\ commands = << >>
  /\ overlay = {}
  /\ facts = FactsAtFirst
  /\ arrived = 0
  /\ engine = Seed(SharedRows(replica, {}, FactsAtFirst))

Next == Execute \/ Serve \/ Backstop \/ Download \/ Reconcile \/ Arrive

Spec == Init /\ [][Next]_vars

-----------------------------------------------------------------------------
\* Everything the screens derive from the incrementally kept facts - the tree, the
\* edges, the timers, the blocker rules and the status of every task - is what a
\* fresh derivation from the merged rows gives, through optimistic writes,
\* answers, downloads, rollbacks and changes of every other table
\* (status-index.ts, data-provider.tsx maintain).
IndexAgrees ==
  Agrees(engine.index, SharedRows(replica, overlay, facts))

\* With rules whose conditions read the trigger alone, the backstop finds nothing
\* to do when the tables are as the transaction of the command left them: the
\* transaction ran the rules to their fixpoint, and to run a trigger again is a
\* no-op, deleted outputs included (engine.ts, automation-backstop.ts).
BackstopQuiet ==
  [][\A j \in jobs \ jobs' : j.seen = srv => srv' = srv]_vars

\* The answer to a command takes no node off the screen of the device that sent
\* it.  markApplied moves an effect to another row when it is the only one of its
\* command on the table, also when that row is not the one it was made for but
\* one the automation spawned beside it.
AnswerHidesNothing ==
  [][\A i \in DOMAIN commands :
       commands[i].status = "pending" /\ commands'[i].status = "applied" =>
         DOMAIN MergeTable(replica, overlay, "nodes") \subseteq DOMAIN MergeTable(replica', overlay', "nodes")]_vars

\* Once every command is answered, the replica is current and nothing is left to
\* reconcile, the device shows the nodes the server holds.
Converged ==
  /\ \A i \in DOMAIN commands : commands[i].status # "pending"
  /\ replica = LiveRows(srv)
  /\ \A i \in DOMAIN commands :
       commands[i].status = "applied" => \E e \in overlay : e.command = i /\ ~Confirmed(e)
  => DOMAIN MergeTable(replica, overlay, "nodes") = DOMAIN replica.nodes

\* A rule that was accepted never fires on what it spawned itself, however
\* indirectly: with fewer rules than waves no cascade is cut off.
NoSelfTrigger ==
  Cardinality(DOMAIN srv.automation_rules) < MaxDepth => "max_depth" \notin items
=============================================================================
