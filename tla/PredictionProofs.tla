-------------------------- MODULE PredictionProofs --------------------------
(***************************************************************************)
(* Proofs about what a device predicts and what the server then writes: the   *)
(* row writes of the catalogue (Records), for any script of commands by any   *)
(* number of devices, and the plan of schedule blocks (Planning), whose       *)
(* acceptance of a suggestion is the one prediction of several rows.          *)
(*                                                                          *)
(* Of Records two properties are proved.  RowsFit: a row on a screen is whole, *)
(* which needs that nothing a device writes comes after its own delete of the *)
(* row.  RecordedSettle: an applied effect settles, which needs that the       *)
(* answer names a row the server has, also when the effect is turned to a row *)
(* of another device.  Both need to know whose a row is: a device names rows   *)
(* it minted or was sent, so nobody brings back a row it has deleted.          *)
(***************************************************************************)
EXTENDS Records, Planning, FiniteSetTheorems, WellFoundedInduction, TLAPS

-----------------------------------------------------------------------------
(* The invariant of Records.                                                  *)

\* The commands are those of one of the scripts.
FromScript ==
  \E s \in Scripts : cmds = s.cmds

\* The variables have every command and device, and no effect is left out of account.
Whole ==
  /\ status \in [Ids -> {"unissued", "pending", "applied", "cleared", "rejected"}]
  /\ log \in [Ids -> {"none", "applied", "rejected"}]
  /\ found = [c \in Ids |-> found[c]] /\ answer = [c \in Ids |-> answer[c]]
  /\ replica = [d \in Devices |-> replica[d]]
  /\ lost \in Nat
  /\ IsFiniteSet(overlay)

\* Where a command is: not issued, under way, logged, or done with on its device; the
\* commands of a device are issued and logged in their order.
Sequenced ==
  \A c \in Ids :
    /\ status[c] = "unissued" => log[c] = "none" /\ found[c] = {}
    /\ found[c] # {} => log[c] = "none" /\ status[c] = "pending"
    /\ log[c] = "none" => answer[c] = {} /\ status[c] \in {"unissued", "pending"}
    /\ status[c] # "unissued" => \A b \in Earlier(c) : status[b] # "unissued"
    /\ log[c] # "none" \/ found[c] # {} => \A b \in Earlier(c) : log[b] # "none"

\* No delete of row k by an earlier command of c's device is pending.
NotDeleted(c, k) ==
  \A x \in overlay : x.op = "delete" /\ x.key = k /\ cmds[x.cmd].dev = cmds[c].dev => ~(x.cmd < c)

\* The rows an applied command's answer names.
Named(c, effects) ==
  IF cmds[c].verb \notin Recorded THEN effects = {}
  ELSE \/ effects = {} /\ Key(c) \in DOMAIN rows /\ Written[cmds[c].verb].op # "delete"
       \/ \E k \in DOMAIN rows :
            /\ effects = {k} /\ k[1] = Key(c)[1]
            /\ Written[cmds[c].verb].op = "delete" => k = Key(c) /\ ~rows[k].live
            /\ k # Key(c) => cmds[c].verb = "journal.write" /\ NotDeleted(c, k)

\* An answer on its way is one, a noop only after a lost one, and names what it applied.
AnswersMeant ==
  \A c \in Ids : \A r \in answer[c] :
    /\ answer[c] = {r}
    /\ lost = 0 => r.result # "noop"
    /\ r.result \in {"applied", "rejected", "noop"}
    /\ r.result = "applied" => Named(c, r.effects)
    /\ r.result # "applied" => r.effects = {}

\* Unless an answer got lost, a command that waits without one is not in the log.
NoneMissing ==
  \A c \in Ids : lost = 0 /\ answer[c] = {} /\ status[c] = "pending" => log[c] = "none"

\* A command's delete is pending on its device.
Undone(c) == \E x \in overlay : x.op = "delete" /\ x.cmd = c

\* What a handler read is still so where it matters: the row it found under its id and
\* under its key is there, and no row of a note it is about to delete has come up.
FoundMeant ==
  \A c \in Ids : \A r \in found[c] :
    /\ found[c] = {r}
    /\ r.own \in BOOLEAN
    /\ r.own => Key(c) \in DOMAIN rows
    /\ \A k \in r.key : k \in DOMAIN rows /\ k[1] = Key(c)[1] /\ (cmds[c].verb = "journal.write" => NotDeleted(c, k))
    /\ Undone(c) /\ Key(c)[1] = "journal_entries" /\ ~r.own => Key(c) \notin DOMAIN rows

\* An effect is its command's, on the command's row or on the one it was turned to.
EffectsMeant ==
  \A e \in overlay :
    /\ e = [cmd |-> e.cmd, op |-> e.op, key |-> e.key, fields |-> e.fields]
    /\ e.cmd \in Ids
    /\ status[e.cmd] \in {"pending", "applied"}
    /\ e.fields = Fields(Predicted[cmds[e.cmd].verb], cmds[e.cmd].pay)
    /\ e.key[1] = Written[cmds[e.cmd].verb].table
    /\ e.key = Key(e.cmd) => e.op = Predicted[cmds[e.cmd].verb].op
    /\ e.key # Key(e.cmd) => /\ e.op = "update" /\ cmds[e.cmd].verb = "journal.write"
                             /\ e.key \in DOMAIN rows /\ status[e.cmd] = "applied"
                             /\ NotDeleted(e.cmd, e.key)

\* A command has one effect at most.
OneEach == \A e, f \in overlay : e.cmd = f.cmd => e = f

\* What an applied command of a verb that records left in the overlay is about a row the
\* server has, and has deleted if the effect is a delete.
EffectsSettle ==
  \A e \in overlay :
    lost = 0 /\ status[e.cmd] = "applied" /\ cmds[e.cmd].verb \in Recorded =>
      e.key \in DOMAIN rows /\ (e.op = "delete" => ~rows[e.key].live)

\* A device names a row no more that it has deleted.
DeletedAlone ==
  \A x \in overlay : \A a \in Ids :
    x.op = "delete" /\ cmds[a].dev = cmds[x.cmd].dev /\ x.cmd < a /\ status[a] # "unissued" => Key(a) # x.key

\* A note's delete that the server has answered, or is logging, left no live row.
NotesDie ==
  \A x \in overlay :
    x.op = "delete" /\ x.key[1] = "journal_entries" /\ log[x.cmd] # "none" =>
      x.key \notin DOMAIN rows \/ ~rows[x.key].live

\* The first command that names a row is its device's, or the server has the row.
Minted(b) ==
  \/ Key(b) \in DOMAIN rows
  \/ Key(b)[1] \in {"user_settings", "diagram_layouts"}
  \/ \E i \in Ids : /\ cmds[i].dev = cmds[b].dev /\ Key(i) = Key(b)
                    /\ \A j \in Ids : j < i => Key(j) # Key(b)

\* An issued command names a row of its device or of the server.
OwnRows == \A b \in Ids : status[b] # "unissued" => Minted(b)

\* Every row, on the server and on a device, has its columns with values they may hold,
\* and a device has no row the server never had.
RowsSound ==
  /\ \A k \in DOMAIN rows : IsRow(k[1], rows[k].cols)
  /\ \A d \in Devices : \A k \in DOMAIN replica[d] :
       k \in DOMAIN rows /\ IsRow(k[1], replica[d][k].cols)

\* The inductive invariant.
RecordsInv ==
  /\ FromScript /\ Whole /\ Sequenced /\ AnswersMeant /\ NoneMissing /\ FoundMeant /\ EffectsMeant
  /\ OneEach /\ EffectsSettle /\ DeletedAlone /\ NotesDie /\ OwnRows /\ RowsSound

\* The commands of a script are well formed.
LEMMA CmdFacts ==
  ASSUME FromScript
  PROVE  /\ Ids \subseteq Nat /\ IsFiniteSet(Ids)
         /\ \A c \in Ids : /\ cmds[c].dev \in Devices /\ cmds[c].verb \in Verbs
                           /\ Accepts(cmds[c].verb, cmds[c].pay)
BY RecordsAssumption DEF FromScript, Ids

\* The two literals that stand for no value are two, and no payload holds them.
LEMMA NullIs == Literal(Null) /\ Literal(Required) /\ Null # Required
BY DEF Literal, Null, Required, Lit

\* The values of a change fit the columns of its table.
LEMMA FieldsFill ==
  ASSUME NEW v \in Verbs, NEW ch, Suits(v, ch), NEW pay, Accepts(v, pay)
  PROVE  \A f \in DOMAIN Fields(ch, pay) : Fills(ch.table, f, Fields(ch, pay)[f])
<1> DEFINE given == {c \in DOMAIN ch.cols : ch.cols[c] \in DOMAIN pay}
           value(c) == IF c = "month_key" THEN MonthKey(pay[ch.cols[c]]) ELSE pay[ch.cols[c]]
<1>1. DOMAIN Fields(ch, pay) = given \cup DOMAIN ch.orElse
  BY DEF Fields
<1>2. SUFFICES ASSUME NEW f \in given \cup DOMAIN ch.orElse
               PROVE  Fills(ch.table, f, Fields(ch, pay)[f])
  BY <1>1
<1>3. Fields(ch, pay)[f] = IF f \in given /\ (f \in DOMAIN ch.orElse => value(f) # Null)
                           THEN value(f) ELSE ch.orElse[f]
  BY DEF Fields
<1>4. CASE ~(f \in given /\ (f \in DOMAIN ch.orElse => value(f) # Null))
  <2>1. f \in DOMAIN ch.orElse
    BY <1>4
  <2> QED BY <1>3, <1>4, <2>1 DEF Suits
<1>5. CASE f \in given /\ (f \in DOMAIN ch.orElse => value(f) # Null)
  <2>1. Fields(ch, pay)[f] = value(f)
    BY <1>3, <1>5
  <2>2. CASE value(f) = Null
    <3>1. f \in DOMAIN ch.cols \ DOMAIN ch.orElse
      BY <1>5, <2>2
    <3>2. f # "month_key"
      BY <2>2 DEF MonthKey, Null, Lit
    <3>3. ch.cols[f] \in Payloads[v].nullable
      BY <1>5, <2>2, <3>2 DEF Accepts
    <3> QED BY <2>1, <2>2, <3>1, <3>3 DEF Suits
  <2>3. CASE value(f) # Null
    <3>1. ~Literal(value(f))
      <4>1. CASE f = "month_key"
        BY <4>1 DEF MonthKey, Literal
      <4>2. CASE f # "month_key"
        BY <1>5, <2>3, <4>2 DEF Accepts
      <4> QED BY <4>1, <4>2
    <3> HIDE DEF value
    <3> QED BY <2>1, <2>3, <3>1, NullIs DEF Fills
  <2> QED BY <2>2, <2>3
<1> QED BY <1>4, <1>5

\* A change names what it always names.
LEMMA NamesNamed ==
  ASSUME NEW v \in Verbs, NEW ch, NEW pay, Accepts(v, pay), NEW c, Names(v, ch, c)
  PROVE  c \in DOMAIN Fields(ch, pay)
BY DEF Names, Accepts, Fields

\* One row laid over another of its table.
LEMMA OverFills ==
  ASSUME NEW t, NEW f, NEW g, \A c \in DOMAIN f : Fills(t, c, f[c]), IsRow(t, g)
  PROVE  IsRow(t, f ++ g)
<1>1. DOMAIN (f ++ g) = DOMAIN f \cup DOMAIN g
  BY DEF ++
<1>2. \A c \in DOMAIN (f ++ g) : (f ++ g)[c] = IF c \in DOMAIN f THEN f[c] ELSE g[c]
  BY DEF ++
<1> QED BY <1>1, <1>2 DEF IsRow

\* Some columns of a change laid over a row.
LEMMA PartFills ==
  ASSUME NEW t, NEW f, NEW S, S \subseteq DOMAIN f, \A c \in DOMAIN f : Fills(t, c, f[c]), NEW g, IsRow(t, g)
  PROVE  IsRow(t, [c \in S |-> f[c]] ++ g)
<1>1. \A c \in DOMAIN [x \in S |-> f[x]] : Fills(t, c, [x \in S |-> f[x]][c])
  OBVIOUS
<1> QED BY <1>1, OverFills

\* The written change of a command, and the row a create makes of it.
LEMMA WrittenFill ==
  ASSUME FromScript, NEW c \in Ids
  PROVE  /\ \A f \in DOMAIN Fields(Written[cmds[c].verb], cmds[c].pay) :
              Fills(Key(c)[1], f, Fields(Written[cmds[c].verb], cmds[c].pay)[f])
         /\ Written[cmds[c].verb].op \in {"refuse", "skip", "look", "merge"} =>
              IsRow(Key(c)[1], Fields(Written[cmds[c].verb], cmds[c].pay) ++ Tables[Key(c)[1]])
<1> DEFINE v == cmds[c].verb
           new == Fields(Written[v], cmds[c].pay)
           t == Written[v].table
<1>1. v \in Verbs /\ Accepts(v, cmds[c].pay)
  BY CmdFacts
<1>2. Key(c)[1] = t
  BY DEF Key
<1>3. \A f \in DOMAIN new : Fills(t, f, new[f])
  <2>1. Suits(v, Written[v])
    BY <1>1, CataloguesFit
  <2> HIDE DEF v
  <2> QED BY <1>1, <2>1, FieldsFill
<1>4. ASSUME Written[v].op \in {"refuse", "skip", "look", "merge"}
      PROVE  IsRow(t, new ++ Tables[t])
  <2>1. t \in DOMAIN Tables /\ \A x \in DOMAIN Tables[t] : Tables[t][x] = Required => Names(v, Written[v], x)
    BY <1>1, <1>4, CataloguesFit
  <2>2. \A x \in DOMAIN Tables[t] : Tables[t][x] = Required => x \in DOMAIN new
    BY <1>1, <2>1, NamesNamed
  <2>3. /\ DeviceTables[t] \subseteq DOMAIN Tables[t]
        /\ \A x \in DOMAIN Tables[t] : Tables[t][x] # Required => Fills(t, x, Tables[t][x])
    BY <2>1, MappersComplete
  <2>4. /\ DOMAIN (new ++ Tables[t]) = DOMAIN new \cup DOMAIN Tables[t]
        /\ \A x \in DOMAIN (new ++ Tables[t]) :
             (new ++ Tables[t])[x] = IF x \in DOMAIN new THEN new[x] ELSE Tables[t][x]
    BY DEF ++
  <2> HIDE DEF new, t
  <2> QED BY <1>3, <2>1, <2>2, <2>3, <2>4 DEF IsRow
<1> QED BY <1>2, <1>3, <1>4

\* A checkpoint brings the live rows, with the device's columns.
LEMMA StreamedRows ==
  ASSUME RowsSound
  PROVE  /\ \A k \in DOMAIN Streamed : /\ k \in DOMAIN rows /\ IsRow(k[1], Streamed[k].cols)
                                       /\ Streamed[k].live = rows[k].live
                                       /\ k[1] \notin Stamped => Streamed[k].by = 0
         /\ \A k \in DOMAIN rows : rows[k].live => k \in DOMAIN Streamed
<1>1. /\ DOMAIN Streamed = {x \in DOMAIN rows : x[1] \in LiveOnly => rows[x].live}
      /\ \A k \in DOMAIN Streamed :
           Streamed[k] = Row([c \in DeviceTables[k[1]] |-> rows[k].cols[c]], rows[k].live,
                             IF k[1] \in Stamped THEN rows[k].by ELSE 0)
  BY DEF Streamed
<1>2. ASSUME NEW k \in DOMAIN Streamed
      PROVE  /\ k \in DOMAIN rows /\ IsRow(k[1], Streamed[k].cols)
             /\ Streamed[k].live = rows[k].live
             /\ k[1] \notin Stamped => Streamed[k].by = 0
  <2>1. k \in DOMAIN rows /\ IsRow(k[1], rows[k].cols)
    BY <1>1, <1>2 DEF RowsSound
  <2>2. /\ Streamed[k].cols = [c \in DeviceTables[k[1]] |-> rows[k].cols[c]]
        /\ Streamed[k].live = rows[k].live
        /\ Streamed[k].by = IF k[1] \in Stamped THEN rows[k].by ELSE 0
    <3>1. Streamed[k] = Row([c \in DeviceTables[k[1]] |-> rows[k].cols[c]], rows[k].live,
                            IF k[1] \in Stamped THEN rows[k].by ELSE 0)
      BY <1>1, <1>2
    <3> QED BY ONLY <3>1 DEF Row
  <2>3. IsRow(k[1], Streamed[k].cols)
    <3>1. DeviceTables[k[1]] \subseteq DOMAIN rows[k].cols /\ k[1] \in DOMAIN Tables
          /\ \A c \in DOMAIN rows[k].cols : Fills(k[1], c, rows[k].cols[c])
      BY <2>1 DEF IsRow
    <3>2. DOMAIN Streamed[k].cols = DeviceTables[k[1]]
          /\ \A c \in DeviceTables[k[1]] : Streamed[k].cols[c] = rows[k].cols[c]
      BY <2>2
    <3> QED BY <3>1, <3>2 DEF IsRow
  <2> QED BY <2>1, <2>2, <2>3
<1> QED BY <1>1, <1>2

\* It holds before the first command.
LEMMA InvInit == Init => RecordsInv
<1> SUFFICES ASSUME Init PROVE RecordsInv
  OBVIOUS
<1> USE DEF Ids
<1>1. PICK s \in Scripts :
        /\ cmds = s.cmds /\ rows = s.rows
        /\ log = [c \in DOMAIN s.cmds |-> "none"]
        /\ found = [c \in DOMAIN s.cmds |-> {}] /\ answer = [c \in DOMAIN s.cmds |-> {}]
        /\ lost = 0 /\ status = [c \in DOMAIN s.cmds |-> "unissued"]
        /\ overlay = {} /\ replica = [d \in Devices |-> Streamed]
  BY DEF Init
<1>2. FromScript
  BY <1>1 DEF FromScript
<1>3. Whole
  <2>1. IsFiniteSet(overlay)
    BY <1>1, FS_EmptySet
  <2> QED BY <1>1, <2>1 DEF Whole
<1>4. /\ Sequenced /\ AnswersMeant /\ NoneMissing /\ FoundMeant
      /\ EffectsMeant /\ OneEach /\ EffectsSettle /\ DeletedAlone /\ NotesDie /\ OwnRows
  BY <1>1 DEF Sequenced, AnswersMeant, NoneMissing, FoundMeant, EffectsMeant, OneEach, EffectsSettle,
              DeletedAlone, NotesDie, OwnRows
<1>5. \A k \in DOMAIN rows : IsRow(k[1], rows[k].cols)
  BY <1>1, RecordsAssumption
<1>6. \A k \in DOMAIN Streamed : k \in DOMAIN rows /\ IsRow(k[1], Streamed[k].cols)
  <2>1. ASSUME NEW k \in DOMAIN Streamed
        PROVE  k \in DOMAIN rows /\ IsRow(k[1], Streamed[k].cols)
    <3>1. /\ k \in DOMAIN rows
          /\ Streamed[k] = Row([c \in DeviceTables[k[1]] |-> rows[k].cols[c]], rows[k].live,
                               IF k[1] \in Stamped THEN rows[k].by ELSE 0)
      BY DEF Streamed
    <3>2. Streamed[k].cols = [c \in DeviceTables[k[1]] |-> rows[k].cols[c]]
      BY ONLY <3>1 DEF Row
    <3>3. IsRow(k[1], rows[k].cols)
      BY <3>1, <1>5
    <3> QED BY <3>1, <3>2, <3>3 DEF IsRow
  <2> QED BY <2>1
<1>7. RowsSound
  BY <1>1, <1>5, <1>6 DEF RowsSound
<1> QED BY <1>2, <1>3, <1>4, <1>7 DEF RecordsInv

-----------------------------------------------------------------------------
(* What a handler does to the rows: a row stays, a tombstone stays one, but   *)
(* for the settings, which have none; a new row is the command's.             *)

\* No row goes, and none but the settings comes back to life.
RowsStay ==
  \A k \in DOMAIN rows :
    k \in DOMAIN rows' /\ (k[1] # "user_settings" /\ ~rows[k].live => ~rows'[k].live)

\* A row that comes is the one the command creates.
RowsAdded(c) ==
  \A k \in DOMAIN rows' \ DOMAIN rows :
    k = Key(c) /\ Written[cmds[c].verb].op \in {"refuse", "skip", "look", "merge"}

\* What a handler may do to the rows.
RowsStep(c) == RowsStay /\ RowsAdded(c) /\ \A k \in DOMAIN rows' : IsRow(k[1], rows'[k].cols)

\* The server's half of RowsSound.
AllRows == \A k \in DOMAIN rows : IsRow(k[1], rows[k].cols)

\* Nothing is such a step.
LEMMA SameRows ==
  ASSUME AllRows, rows' = rows, NEW c
  PROVE  RowsStep(c)
BY DEF AllRows, RowsStep, RowsStay, RowsAdded

\* So is a write of one row that is there.
LEMMA OneRow ==
  ASSUME AllRows, NEW c, NEW k \in DOMAIN rows, NEW r, IsRow(k[1], r.cols),
         k[1] # "user_settings" /\ ~rows[k].live => ~r.live,
         rows' = [rows EXCEPT ![k] = r]
  PROVE  RowsStep(c) /\ rows'[k] = r
BY DEF AllRows, RowsStep, RowsStay, RowsAdded

\* So is an update by last writer.
LEMMA UpdateKeeps ==
  ASSUME AllRows, NEW c, NEW k \in DOMAIN rows, NEW new, NEW kept,
         \A f \in DOMAIN new : Fills(k[1], f, new[f]),
         UpdateRow(k, new, c, kept)
  PROVE  RowsStep(c)
<1> DEFINE win == Winning(k, new, c)
           r == Row([f \in win |-> new[f]] ++ rows[k].cols, rows[k].live, c)
<1>1. rows' = IF win = {} THEN rows ELSE [rows EXCEPT ![k] = r]
  BY DEF UpdateRow
<1>2. CASE win = {}
  BY <1>1, <1>2, SameRows
<1>3. CASE win # {}
  <2>1. win \subseteq DOMAIN new
    BY DEF Winning
  <2>2. IsRow(k[1], rows[k].cols)
    BY DEF AllRows
  <2>3. IsRow(k[1], [f \in win |-> new[f]] ++ rows[k].cols)
    <3> HIDE DEF win
    <3> QED BY <2>1, <2>2, PartFills
  <2>4. r.cols = [f \in win |-> new[f]] ++ rows[k].cols /\ r.live = rows[k].live
    BY DEF Row
  <2>5. rows' = [rows EXCEPT ![k] = r]
    BY <1>1, <1>3
  <2> HIDE DEF r, win
  <2> QED BY <2>3, <2>4, <2>5, OneRow
<1> QED BY <1>2, <1>3

\* So is a delete, and the row is dead.
LEMMA DeleteKeeps ==
  ASSUME AllRows, NEW c, NEW k \in DOMAIN rows, DeleteRow(k, c)
  PROVE  RowsStep(c) /\ k \in DOMAIN rows' /\ ~rows'[k].live
<1> DEFINE r == Row(rows[k].cols, FALSE, c)
<1>1. rows' = [rows EXCEPT ![k] = r]
  BY DEF DeleteRow
<1>2. r.cols = rows[k].cols /\ r.live = FALSE
  BY DEF Row
<1>3. IsRow(k[1], r.cols)
  BY <1>2 DEF AllRows
<1>4. DOMAIN rows' = DOMAIN rows
  BY <1>1
<1> HIDE DEF r
<1> QED BY <1>1, <1>2, <1>3, <1>4, OneRow

\* So is a row that comes, or the settings written over.
LEMMA InsertKeeps ==
  ASSUME AllRows, NEW c, NEW k, NEW r, IsRow(k[1], r.cols), k = Key(c),
         Written[cmds[c].verb].op \in {"refuse", "skip", "look", "merge"},
         k \notin DOMAIN rows \/ k[1] = "user_settings",
         rows' = WithRow(k, r)
  PROVE  RowsStep(c) /\ k \in DOMAIN rows'
<1>1. /\ DOMAIN rows' = DOMAIN rows \cup {k}
      /\ \A x \in DOMAIN rows' : rows'[x] = IF x = k THEN r ELSE rows[x]
  BY DEF WithRow
<1> QED BY <1>1 DEF AllRows, RowsStep, RowsStay, RowsAdded

\* What an applied command's answer may name, of the rows after it.
MayName(c, effects) ==
  \/ effects = {} /\ Key(c) \in DOMAIN rows' /\ Written[cmds[c].verb].op # "delete"
  \/ \E k \in DOMAIN rows' :
       /\ effects = {k} /\ k[1] = Key(c)[1]
       /\ Written[cmds[c].verb].op = "delete" => k = Key(c) /\ ~rows'[k].live
       /\ k # Key(c) => cmds[c].verb = "journal.write" /\ NotDeleted(c, k)

\* A verdict is logged and on its way, with what it names.
Outcome(c) ==
  \E r : /\ answer' = [answer EXCEPT ![c] = {r}] /\ log' = [log EXCEPT ![c] = r.result]
         /\ \/ r.result = "rejected" /\ r.effects = {} /\ rows' = rows
            \/ r.result = "applied" /\ Named(c, r.effects)'

\* A deleted note is dead, or was never there.
Dead(c) ==
  Undone(c) /\ Key(c)[1] = "journal_entries" =>
    Key(c) \notin DOMAIN rows' \/ ~rows'[Key(c)].live

\* Applied gives one.
LEMMA OutcomeApplied ==
  ASSUME NEW c, NEW effects, Applied(c, effects), UNCHANGED <<cmds, overlay>>,
         cmds[c].verb \in Recorded => MayName(c, effects)
  PROVE  Outcome(c)
<1>1. PICK named : named = IF cmds[c].verb \in Recorded THEN effects ELSE {}
  OBVIOUS
<1>2. PICK r : r = [result |-> "applied", effects |-> named]
  OBVIOUS
<1>3. answer' = [answer EXCEPT ![c] = {r}] /\ log' = [log EXCEPT ![c] = r.result]
  BY <1>1, <1>2 DEF Applied
<1>4. \A k : NotDeleted(c, k)' <=> NotDeleted(c, k)
  BY DEF NotDeleted
<1>5. Named(c, named)'
  <2>1. CASE cmds[c].verb \notin Recorded
    BY <1>1, <2>1 DEF Named
  <2>2. CASE cmds[c].verb \in Recorded
    <3>1. Key(c)' = Key(c)
      BY DEF Key
    <3>2. MayName(c, effects) /\ named = effects
      BY <1>1, <2>2
    <3> QED BY <2>2, <3>1, <3>2, <1>4 DEF Named, MayName
  <2> QED BY <2>1, <2>2
<1>6. r.result = "applied" /\ r.effects = named
  BY <1>2
<1> QED BY <1>3, <1>5, <1>6 DEF Outcome

\* Rejected gives one.
LEMMA OutcomeRejected ==
  ASSUME NEW c, Rejected(c)
  PROVE  Outcome(c) /\ rows' = rows
<1> DEFINE r == [result |-> "rejected", effects |-> {}]
<1>1. answer' = [answer EXCEPT ![c] = {r}] /\ log' = [log EXCEPT ![c] = r.result] /\ rows' = rows
  BY DEF Rejected, Nothing
<1>2. r.result = "rejected" /\ r.effects = {}
  OBVIOUS
<1> HIDE DEF r
<1> QED BY <1>1, <1>2 DEF Outcome

\* What a handler under way has read.
LEMMA FoundIs ==
  ASSUME RecordsInv, NEW c \in Ids, found[c] # {}
  PROVE  /\ found[c] = {Only(found[c])}
         /\ Only(found[c]).own \in BOOLEAN
         /\ Only(found[c]).own => Key(c) \in DOMAIN rows
         /\ \A k \in Only(found[c]).key : k \in DOMAIN rows /\ k[1] = Key(c)[1]
                                          /\ (cmds[c].verb = "journal.write" => NotDeleted(c, k))
         /\ Undone(c) /\ Key(c)[1] = "journal_entries" /\ ~Only(found[c]).own => Key(c) \notin DOMAIN rows
<1>1. PICK r : r \in found[c]
  OBVIOUS
<1>2. found[c] = {r}
  BY <1>1 DEF RecordsInv, FoundMeant
<1>3. Only(found[c]) = r
  BY <1>2 DEF Only
<1> QED BY <1>1, <1>2, <1>3 DEF RecordsInv, FoundMeant

\* A pending delete is its command's, on its own row.
LEMMA DeleteIs ==
  ASSUME RecordsInv, NEW x \in overlay, x.op = "delete"
  PROVE  /\ x.cmd \in Ids /\ x.key = Key(x.cmd) /\ Written[cmds[x.cmd].verb].op = "delete"
         /\ status[x.cmd] \in {"pending", "applied"}
         /\ x.key[1] \notin {"user_settings", "diagram_layouts"}
<1>1. x.cmd \in Ids /\ status[x.cmd] \in {"pending", "applied"} /\ FromScript
  BY DEF RecordsInv, EffectsMeant
<1>2. x.key = Key(x.cmd)
  BY DEF RecordsInv, EffectsMeant
<1>3. Predicted[cmds[x.cmd].verb].op = "delete"
  BY <1>2 DEF RecordsInv, EffectsMeant
<1>4. cmds[x.cmd].verb \in Verbs
  BY <1>1, CmdFacts
<1>5. Written[cmds[x.cmd].verb].op = "delete"
  BY <1>3, <1>4, CataloguesFit
<1> QED BY <1>1, <1>2, <1>4, <1>5, RecordersFit DEF Key

\* Only a verb that deletes has a delete pending.
LEMMA DoesNotDelete ==
  ASSUME RecordsInv, NEW c \in Ids, Written[cmds[c].verb].op # "delete"
  PROVE  Dead(c)
BY DeleteIs DEF Dead, Undone

\* A live row under the command's natural key, found now, is no row its device has
\* a delete of pending, if it is a note.
LEMMA KeyIs ==
  ASSUME RecordsInv, NEW c \in Ids, found[c] # {} \/ \A b \in Earlier(c) : log[b] # "none",
         NEW k \in SameKey(c)
  PROVE  /\ k \in DOMAIN rows /\ k[1] = Key(c)[1]
         /\ cmds[c].verb = "journal.write" => NotDeleted(c, k)
<1>1. k \in DOMAIN rows /\ k[1] = Key(c)[1] /\ rows[k].live
  BY DEF SameKey, Key
<1>2. ASSUME cmds[c].verb = "journal.write"
      PROVE  NotDeleted(c, k)
  <2>1. SUFFICES ASSUME NEW x \in overlay, x.op = "delete", x.key = k, cmds[x.cmd].dev = cmds[c].dev, x.cmd < c
                 PROVE  FALSE
    BY DEF NotDeleted
  <2>2. x.cmd \in Earlier(c)
    BY <2>1 DEF Earlier, RecordsInv, EffectsMeant
  <2>3. log[x.cmd] # "none"
    BY <2>2 DEF RecordsInv, Sequenced
  <2>4. k[1] = "journal_entries"
    BY <1>1, <1>2, RecordersFit DEF Key
  <2> QED BY <1>1, <2>1, <2>3, <2>4 DEF RecordsInv, NotesDie
<1> QED BY <1>1, <1>2

\* A command's row is in its verb's table.
LEMMA KeyTable == \A c : Key(c)[1] = Written[cmds[c].verb].table
BY DEF Key

\* A handler's CASE, arm by arm.
LEMMA WriteDoes ==
  ASSUME RecordsInv, NEW c \in Ids, found[c] # {}, Written[cmds[c].verb].op \in {"update", "delete"},
         WriteRow(c), UNCHANGED <<cmds, overlay>>
  PROVE  Outcome(c) /\ RowsStep(c) /\ Dead(c)
<1> DEFINE w == Written[cmds[c].verb]
           seen == Only(found[c])
           new == Fields(w, cmds[c].pay)
<1>1. AllRows /\ FromScript
  BY DEF RecordsInv, RowsSound, AllRows
<1>2. seen.own \in BOOLEAN /\ (seen.own => Key(c) \in DOMAIN rows)
  BY FoundIs
<1>3. \A f \in DOMAIN new : Fills(Key(c)[1], f, new[f])
  BY <1>1, WrittenFill
<1>4. \/ /\ ~seen.own \/ w.op = "update"
         /\ Rejected(c)
      \/ /\ seen.own /\ w.op = "update"
         /\ \E its : /\ its = {} \/ its = {Key(c)}
                     /\ UpdateRow(Key(c), new, c, {}) /\ Applied(c, its)
      \/ /\ seen.own /\ w.op = "delete"
         /\ DeleteRow(Key(c), c) /\ Applied(c, {Key(c)})
  BY <1>2 DEF WriteRow
<1>5. CASE (~seen.own \/ w.op = "update") /\ Rejected(c)
  <2>1. Outcome(c) /\ rows' = rows
    BY <1>5, OutcomeRejected
  <2>2. Dead(c)
    <3>1. CASE ~seen.own
      BY <2>1, <3>1, FoundIs DEF Dead
    <3>2. CASE w.op = "update"
      BY <3>2, DoesNotDelete
    <3> QED BY <1>5, <3>1, <3>2
  <2> QED BY <1>1, <2>1, <2>2, SameRows
<1>6. ASSUME seen.own, w.op = "update", NEW its, its = {} \/ its = {Key(c)},
             UpdateRow(Key(c), new, c, {}), Applied(c, its)
      PROVE  Outcome(c) /\ RowsStep(c) /\ Dead(c)
  <2>1. Key(c) \in DOMAIN rows
    BY <1>2, <1>6
  <2>2. RowsStep(c)
    <3> HIDE DEF new
    <3> QED BY <1>1, <1>3, <1>6, <2>1, UpdateKeeps
  <2>3. MayName(c, its)
    BY <1>6, <2>1, <2>2 DEF MayName, RowsStep, RowsStay
  <2>4. Outcome(c)
    BY <1>6, <2>3, OutcomeApplied
  <2> QED BY <1>6, <2>2, <2>4, DoesNotDelete
<1>7. CASE seen.own /\ w.op = "delete" /\ DeleteRow(Key(c), c) /\ Applied(c, {Key(c)})
  <2>1. Key(c) \in DOMAIN rows
    BY <1>2, <1>7
  <2>2. RowsStep(c) /\ Key(c) \in DOMAIN rows' /\ ~rows'[Key(c)].live
    BY <1>1, <1>7, <2>1, DeleteKeeps
  <2>3. MayName(c, {Key(c)})
    BY <2>2 DEF MayName
  <2>4. Outcome(c)
    BY <1>7, <2>3, OutcomeApplied
  <2> QED BY <2>2, <2>4 DEF Dead
<1> QED BY <1>4, <1>5, <1>6, <1>7

\* A create logs a verdict, and does nothing else but add its row.
LEMMA CreateDoes ==
  ASSUME RecordsInv, NEW c \in Ids, found[c] # {}, Written[cmds[c].verb].op \in {"refuse", "skip", "look"},
         CreateRow(c), UNCHANGED <<cmds, overlay>>
  PROVE  Outcome(c) /\ RowsStep(c) /\ Dead(c)
<1> DEFINE w == Written[cmds[c].verb]
           seen == Only(found[c])
           new == Fields(w, cmds[c].pay)
<1>1. AllRows /\ FromScript
  BY DEF RecordsInv, RowsSound, AllRows
<1>2. seen.own \in BOOLEAN /\ (seen.own => Key(c) \in DOMAIN rows)
  BY FoundIs
<1>3. Dead(c)
  BY DoesNotDelete
<1>4. \/ /\ seen.own \/ w.op \in {"look", "skip"}
         /\ Nothing /\ Applied(c, {})
      \/ /\ Key(c) \notin DOMAIN rows
         /\ InsertRow(Key(c), new, c, {}) /\ Applied(c, {Key(c)})
      \/ Rejected(c)
  BY <1>2 DEF CreateRow
<1>5. CASE (seen.own \/ w.op \in {"look", "skip"}) /\ Nothing /\ Applied(c, {})
  <2>1. rows' = rows
    BY <1>5 DEF Nothing
  <2>2. cmds[c].verb \in Recorded => MayName(c, {})
    <3>1. cmds[c].verb \in Recorded => seen.own
      BY <1>5, RecordersFit
    <3> QED BY <1>2, <2>1, <3>1 DEF MayName
  <2>3. Outcome(c)
    BY <1>5, <2>2, OutcomeApplied
  <2> QED BY <1>1, <1>3, <2>1, <2>3, SameRows
<1>6. CASE Key(c) \notin DOMAIN rows /\ InsertRow(Key(c), new, c, {}) /\ Applied(c, {Key(c)})
  <2> DEFINE r == Row(new ++ Tables[Key(c)[1]], TRUE, c)
  <2>1. rows' = WithRow(Key(c), r)
    BY <1>6 DEF InsertRow
  <2>2. IsRow(Key(c)[1], r.cols)
    BY <1>1, WrittenFill DEF Row
  <2>3. RowsStep(c) /\ Key(c) \in DOMAIN rows'
    <3> HIDE DEF r
    <3> QED BY <1>1, <1>6, <2>1, <2>2, InsertKeeps
  <2>4. MayName(c, {Key(c)})
    BY <2>3 DEF MayName
  <2> QED BY <1>3, <1>6, <2>3, <2>4, OutcomeApplied
<1>7. CASE Rejected(c)
  BY <1>1, <1>3, <1>7, OutcomeRejected, SameRows
<1> QED BY <1>4, <1>5, <1>6, <1>7

\* A merge onto a row updates that row and names it.
LEMMA MergeDoes ==
  ASSUME RecordsInv, NEW c \in Ids, Written[cmds[c].verb].op = "merge",
         NEW k \in DOMAIN rows, k[1] = Key(c)[1], NEW prior,
         cmds[c].verb = "journal.write" => k = Key(c) \/ NotDeleted(c, k),
         Merge(c, k, prior), UNCHANGED <<cmds, overlay>>
  PROVE  Outcome(c) /\ RowsStep(c)
<1> DEFINE new == Fields(Written[cmds[c].verb], cmds[c].pay)
           its == [f \in DOMAIN new \cap Contended(cmds[c].verb) |-> new[f]]
<1>1. AllRows /\ FromScript
  BY DEF RecordsInv, RowsSound, AllRows
<1>2. UpdateRow(k, its, c, OverwrittenProse(k, c, prior)) /\ Applied(c, {k})
  BY DEF Merge
<1>3. \A f \in DOMAIN its : Fills(k[1], f, its[f])
  <2>1. \A f \in DOMAIN new : Fills(Key(c)[1], f, new[f])
    BY <1>1, WrittenFill
  <2> HIDE DEF new
  <2> QED BY <2>1
<1>4. RowsStep(c)
  <2> HIDE DEF its
  <2> QED BY <1>1, <1>2, <1>3, UpdateKeeps
<1>5. cmds[c].verb \in Recorded => MayName(c, {k})
  <2>1. k \in DOMAIN rows'
    BY <1>4 DEF RowsStep, RowsStay
  <2>2. cmds[c].verb \in Recorded => cmds[c].verb = "journal.write"
    BY RecordersFit
  <2> QED BY <2>1, <2>2 DEF MayName
<1> QED BY <1>2, <1>4, <1>5, OutcomeApplied

\* An upsert, in each of its cases.
LEMMA UpsertDoes ==
  ASSUME RecordsInv, NEW c \in Ids, found[c] # {}, Written[cmds[c].verb].op = "merge",
         UpsertRow(c), UNCHANGED <<cmds, overlay>>
  PROVE  Outcome(c) /\ RowsStep(c) /\ Dead(c)
<1> DEFINE seen == Only(found[c])
           new == Fields(Written[cmds[c].verb], cmds[c].pay)
           some == DOMAIN new \cap Contended(cmds[c].verb)
<1>1. AllRows /\ FromScript
  BY DEF RecordsInv, RowsSound, AllRows
<1>2. seen.own \in BOOLEAN /\ (seen.own => Key(c) \in DOMAIN rows)
  BY FoundIs
<1>3. Dead(c)
  BY DoesNotDelete
<1>4. \/ seen.own /\ Merge(c, Key(c), seen.prior)
      \/ seen.key # {} /\ Merge(c, Only(seen.key), seen.prior)
      \/ /\ Key(c) \notin DOMAIN rows
         /\ InsertRow(Key(c), new, c, some) /\ Applied(c, {Key(c)})
      \/ SameKey(c) # {} /\ Merge(c, Only(SameKey(c)), rows[Only(SameKey(c))].cols["content"])
      \/ Rejected(c)
  BY <1>2 DEF UpsertRow
<1>5. CASE seen.own /\ Merge(c, Key(c), seen.prior)
  <2> HIDE DEF seen
  <2> QED BY <1>2, <1>3, <1>5, MergeDoes
<1>6. CASE seen.key # {} /\ Merge(c, Only(seen.key), seen.prior)
  <2>1. Only(seen.key) \in seen.key
    BY <1>6 DEF Only
  <2>2. /\ Only(seen.key) \in DOMAIN rows /\ Only(seen.key)[1] = Key(c)[1]
        /\ cmds[c].verb = "journal.write" => NotDeleted(c, Only(seen.key))
    BY <2>1, FoundIs
  <2> DEFINE k == Only(seen.key)
  <2> HIDE DEF seen, k
  <2>3. Merge(c, k, seen.prior)
    BY <1>6 DEF k
  <2>4. k \in DOMAIN rows /\ k[1] = Key(c)[1] /\ (cmds[c].verb = "journal.write" => NotDeleted(c, k))
    BY <2>2 DEF k
  <2> QED BY <1>3, <2>3, <2>4, MergeDoes
<1>7. CASE Key(c) \notin DOMAIN rows /\ InsertRow(Key(c), new, c, some) /\ Applied(c, {Key(c)})
  <2> DEFINE r == Row(new ++ Tables[Key(c)[1]], TRUE, c)
  <2>1. rows' = WithRow(Key(c), r)
    BY <1>7 DEF InsertRow
  <2>2. IsRow(Key(c)[1], r.cols)
    BY <1>1, WrittenFill DEF Row
  <2>3. RowsStep(c) /\ Key(c) \in DOMAIN rows'
    <3> HIDE DEF r
    <3> QED BY <1>1, <1>7, <2>1, <2>2, InsertKeeps
  <2>4. MayName(c, {Key(c)})
    BY <2>3 DEF MayName
  <2> QED BY <1>3, <1>7, <2>3, <2>4, OutcomeApplied
<1>8. CASE SameKey(c) # {} /\ Merge(c, Only(SameKey(c)), rows[Only(SameKey(c))].cols["content"])
  <2> DEFINE k == Only(SameKey(c))
             prior == rows[Only(SameKey(c))].cols["content"]
  <2>1. k \in SameKey(c)
    BY <1>8 DEF Only
  <2>2. k \in DOMAIN rows /\ k[1] = Key(c)[1] /\ (cmds[c].verb = "journal.write" => NotDeleted(c, k))
    BY <2>1, KeyIs
  <2>3. Merge(c, k, prior)
    BY <1>8
  <2> HIDE DEF k, prior
  <2> QED BY <1>3, <2>2, <2>3, MergeDoes
<1>9. CASE Rejected(c)
  BY <1>1, <1>3, <1>9, OutcomeRejected, SameRows
<1> QED BY <1>4, <1>5, <1>6, <1>7, <1>8, <1>9

\* The settings, in both of theirs.
LEMMA SettingsDo ==
  ASSUME RecordsInv, NEW c \in Ids, cmds[c].verb = "settings.update",
         UpdateSettings(c), UNCHANGED <<cmds, overlay>>
  PROVE  Outcome(c) /\ RowsStep(c) /\ Dead(c)
<1> DEFINE new == Fields(Written["settings.update"], cmds[c].pay)
           k == Key(c)
           win == Winning(k, new, c)
           old == IF k \in DOMAIN rows THEN rows[k].cols ELSE Tables["user_settings"]
           r == Row([f \in win |-> new[f]] ++ old, TRUE, 0)
<1>1. AllRows /\ FromScript
  BY DEF RecordsInv, RowsSound, AllRows
<1>2. cmds[c].verb \in Verbs
  BY <1>1, CmdFacts
<1>3. /\ Key(c)[1] = "user_settings" /\ Written[cmds[c].verb].op = "merge"
      /\ cmds[c].verb \notin Recorded
  BY <1>2, RecordersFit, KeyTable
<1>4. Dead(c)
  BY <1>3, DoesNotDelete
<1>5. CASE Rejected(c)
  BY <1>1, <1>4, <1>5, OutcomeRejected, SameRows
<1>6. CASE rows' = WithRow(k, r) /\ Applied(c, {})
  <2>1. IsRow("user_settings", old)
    <3>1. CASE k \in DOMAIN rows
      BY <1>1, <1>3, <3>1 DEF AllRows
    <3>2. CASE k \notin DOMAIN rows
      <4>1. "user_settings" \in DOMAIN Tables
        BY <1>2, <1>3, CataloguesFit, KeyTable
      <4> QED BY <3>2, <4>1, MappersComplete, RecordersFit DEF IsRow
    <3> QED BY <3>1, <3>2
  <2>2. \A f \in DOMAIN new : Fills("user_settings", f, new[f])
    BY <1>1, <1>3, WrittenFill
  <2>3. win \subseteq DOMAIN new
    BY DEF Winning
  <2>4. IsRow("user_settings", [f \in win |-> new[f]] ++ old)
    <3> HIDE DEF win, old, new
    <3> QED BY <2>1, <2>2, <2>3, PartFills
  <2>5. r.cols = [f \in win |-> new[f]] ++ old
    BY DEF Row
  <2>6. RowsStep(c)
    <3>1. IsRow(k[1], r.cols) /\ k = Key(c) /\ k[1] = "user_settings"
      BY <1>3, <2>4, <2>5
    <3> HIDE DEF r, k
    <3> QED BY <1>1, <1>3, <1>6, <3>1, InsertKeeps
  <2>7. Outcome(c)
    BY <1>3, <1>6, OutcomeApplied
  <2> QED BY <1>4, <2>6, <2>7
<1> QED BY <1>5, <1>6 DEF UpdateSettings

\* Every handler, by the kind of its verb.
LEMMA HandleDoes ==
  ASSUME RecordsInv, NEW c \in Ids, Handle(c)
  PROVE  Outcome(c) /\ RowsStep(c) /\ Dead(c)
<1>1. /\ found[c] # {} /\ UNCHANGED <<cmds, overlay>>
      /\ \/ Written[cmds[c].verb].op \in {"update", "delete"} /\ WriteRow(c)
         \/ Written[cmds[c].verb].op \in {"refuse", "skip", "look"} /\ CreateRow(c)
         \/ Written[cmds[c].verb].op = "merge" /\ UpsertRow(c)
         \/ cmds[c].verb = "settings.update" /\ UpdateSettings(c)
  BY DEF Handle, client
<1> QED BY <1>1, WriteDoes, CreateDoes, UpsertDoes, SettingsDo

\* A step leaves the script alone.
SameCommands == cmds' = cmds

\* What follows from the script alone stays.
LEMMA Framed ==
  ASSUME SameCommands
  PROVE  /\ Ids' = Ids /\ \A c : Key(c)' = Key(c) /\ Earlier(c)' = Earlier(c) /\ (Minted(c) /\ RowsStay => Minted(c)')
         /\ (FromScript => FromScript')
<1> USE DEF SameCommands, Ids
<1>1. Ids' = Ids
  OBVIOUS
<1>2. ASSUME NEW c PROVE Key(c)' = Key(c) /\ Earlier(c)' = Earlier(c)
  BY DEF Key, Earlier
<1>3. ASSUME NEW c, Minted(c), RowsStay PROVE Minted(c)'
  BY <1>1, <1>2, <1>3 DEF Minted, RowsStay, Key
<1>4. FromScript => FromScript'
  BY DEF FromScript
<1> QED BY <1>1, <1>2, <1>3, <1>4

\* No command's delete comes to be pending but one just issued.
DeletesKept ==
  \A x \in overlay' : x.op = "delete" => x \in overlay \/ (x.cmd \in Ids /\ status[x.cmd] = "unissued")

\* A row no earlier delete is pending on stays one for a command issued already.
LEMMA StillNotDeleted ==
  ASSUME RecordsInv, SameCommands, DeletesKept, NEW c \in Ids, status[c] # "unissued", NEW k, NotDeleted(c, k)
  PROVE  NotDeleted(c, k)'
<1>1. SUFFICES ASSUME NEW x \in overlay', x.op = "delete", x.key = k, cmds[x.cmd].dev = cmds[c].dev, x.cmd < c
               PROVE  FALSE
  BY DEF NotDeleted, SameCommands
<1>2. CASE x \in overlay
  BY <1>1, <1>2 DEF NotDeleted
<1>3. CASE x.cmd \in Ids /\ status[x.cmd] = "unissued"
  <2>1. x.cmd \in Earlier(c)
    BY <1>1, <1>3 DEF Earlier
  <2> QED BY <1>3, <2>1 DEF RecordsInv, Sequenced
<1> QED BY <1>1, <1>2, <1>3 DEF DeletesKept

\* The rows an answer names stay named.
LEMMA StillNamed ==
  ASSUME RecordsInv, SameCommands, DeletesKept, RowsStay,
         NEW c \in Ids, status[c] # "unissued", NEW effects, Named(c, effects)
  PROVE  Named(c, effects)'
<1>1. Key(c)' = Key(c) /\ cmds' = cmds
  BY Framed DEF SameCommands
<1>2. CASE cmds[c].verb \notin Recorded
  BY <1>1, <1>2 DEF Named
<1>3. CASE effects = {} /\ cmds[c].verb \in Recorded /\ Key(c) \in DOMAIN rows /\ Written[cmds[c].verb].op # "delete"
  BY <1>1, <1>3 DEF Named, RowsStay
<1>4. CASE cmds[c].verb \in Recorded /\ \E k \in DOMAIN rows :
            /\ effects = {k} /\ k[1] = Key(c)[1]
            /\ Written[cmds[c].verb].op = "delete" => k = Key(c) /\ ~rows[k].live
            /\ k # Key(c) => cmds[c].verb = "journal.write" /\ NotDeleted(c, k)
  <2>1. PICK k \in DOMAIN rows :
            /\ effects = {k} /\ k[1] = Key(c)[1]
            /\ Written[cmds[c].verb].op = "delete" => k = Key(c) /\ ~rows[k].live
            /\ k # Key(c) => cmds[c].verb = "journal.write" /\ NotDeleted(c, k)
    BY <1>4
  <2>2. k \in DOMAIN rows'
    BY DEF RowsStay
  <2>3. Written[cmds[c].verb].op = "delete" => k = Key(c) /\ ~rows'[k].live
    <3>1. cmds[c].verb \in Verbs
      BY CmdFacts DEF RecordsInv
    <3>2. Written[cmds[c].verb].op = "delete" => Key(c)[1] # "user_settings"
      BY <3>1, RecordersFit, KeyTable
    <3> QED BY <2>1, <3>2 DEF RowsStay
  <2>4. k # Key(c) => NotDeleted(c, k)'
    BY <2>1, StillNotDeleted
  <2>5. cmds[c].verb \in Recorded
    BY <1>4
  <2> QED BY <1>1, <2>1, <2>2, <2>3, <2>4, <2>5 DEF Named
<1> QED BY <1>2, <1>3, <1>4 DEF Named

\* An answer that is under way stays true.
LEMMA StillMeant ==
  ASSUME RecordsInv, SameCommands, DeletesKept, RowsStay, lost' \in {lost, lost + 1}, NEW c \in Ids, answer'[c] = answer[c]
  PROVE  \A r \in answer'[c] :
           /\ answer'[c] = {r}
           /\ lost' = 0 => r.result # "noop"
           /\ r.result \in {"applied", "rejected", "noop"}
           /\ r.result = "applied" => Named(c, r.effects)'
           /\ r.result # "applied" => r.effects = {}
<1>1. SUFFICES ASSUME NEW r \in answer[c]
               PROVE  /\ answer[c] = {r}
                      /\ lost' = 0 => r.result # "noop"
                      /\ r.result \in {"applied", "rejected", "noop"}
                      /\ r.result = "applied" => Named(c, r.effects)'
                      /\ r.result # "applied" => r.effects = {}
  OBVIOUS
<1>2. /\ answer[c] = {r}
      /\ lost = 0 => r.result # "noop"
      /\ r.result \in {"applied", "rejected", "noop"}
      /\ r.result = "applied" => Named(c, r.effects)
      /\ r.result # "applied" => r.effects = {}
  BY DEF RecordsInv, AnswersMeant
<1>3. lost' = 0 => lost = 0
  BY DEF RecordsInv, Whole
<1>4. status[c] # "unissued"
  BY <1>1 DEF RecordsInv, Sequenced
<1> QED BY <1>2, <1>3, <1>4, StillNamed

\* What a handler read stays good while the rows stay.
LEMMA StillFound ==
  ASSUME RecordsInv, SameCommands, DeletesKept, rows' = rows, NEW c \in Ids, found'[c] = found[c]
  PROVE  \A r \in found'[c] :
    /\ found'[c] = {r}
    /\ r.own \in BOOLEAN
    /\ r.own => Key(c) \in DOMAIN rows'
    /\ \A k \in r.key : k \in DOMAIN rows' /\ k[1] = Key(c)[1] /\ (cmds[c].verb = "journal.write" => NotDeleted(c, k)')
    /\ Undone(c)' /\ Key(c)[1] = "journal_entries" /\ ~r.own => Key(c) \notin DOMAIN rows'
<1>1. SUFFICES ASSUME NEW r \in found[c]
               PROVE  /\ found[c] = {r}
                      /\ r.own \in BOOLEAN
                      /\ r.own => Key(c) \in DOMAIN rows
                      /\ \A k \in r.key : /\ k \in DOMAIN rows /\ k[1] = Key(c)[1]
                                          /\ (cmds[c].verb = "journal.write" => NotDeleted(c, k)')
                      /\ Undone(c)' /\ Key(c)[1] = "journal_entries" /\ ~r.own => Key(c) \notin DOMAIN rows
  OBVIOUS
<1>2. status[c] # "unissued"
  BY <1>1 DEF RecordsInv, Sequenced
<1>3. Undone(c)' => Undone(c)
  <2>1. ASSUME NEW x \in overlay', x.op = "delete", x.cmd = c PROVE x \in overlay
    BY <1>2, <2>1 DEF DeletesKept
  <2> QED BY <2>1 DEF Undone
<1>4. \A k : NotDeleted(c, k) => NotDeleted(c, k)'
  BY <1>2, StillNotDeleted
<1>5. /\ found[c] = {r}
      /\ r.own \in BOOLEAN
      /\ r.own => Key(c) \in DOMAIN rows
      /\ \A k \in r.key : /\ k \in DOMAIN rows /\ k[1] = Key(c)[1]
                          /\ (cmds[c].verb = "journal.write" => NotDeleted(c, k))
      /\ Undone(c) /\ Key(c)[1] = "journal_entries" /\ ~r.own => Key(c) \notin DOMAIN rows
  BY DEF RecordsInv, FoundMeant
<1> QED BY <1>3, <1>4, <1>5

\* A row a handler makes is not one a device has deleted, or is about to.
LEMMA FreshKey ==
  ASSUME RecordsInv, NEW c \in Ids, found[c] # {}, Key(c) \notin DOMAIN rows,
         NEW x \in overlay, x.op = "delete", x.cmd # c, x.key = Key(c),
         log[x.cmd] # "none" \/ found[x.cmd] # {}
  PROVE  FALSE
<1>1. /\ x.cmd \in Ids /\ x.key = Key(x.cmd) /\ status[x.cmd] # "unissued"
      /\ x.key[1] \notin {"user_settings", "diagram_layouts"}
  BY DeleteIs
<1>2. status[c] # "unissued" /\ log[c] = "none"
  BY DEF RecordsInv, Sequenced
<1>3. Ids \subseteq Nat
  BY CmdFacts DEF RecordsInv
<1>4. Minted(c) /\ Minted(x.cmd)
  BY <1>1, <1>2 DEF RecordsInv, OwnRows
<1>5. PICK i \in Ids : cmds[i].dev = cmds[c].dev /\ Key(i) = Key(c) /\ \A j \in Ids : j < i => Key(j) # Key(c)
  BY <1>1, <1>4 DEF Minted
<1>6. PICK h \in Ids : cmds[h].dev = cmds[x.cmd].dev /\ Key(h) = Key(c) /\ \A j \in Ids : j < h => Key(j) # Key(c)
  BY <1>1, <1>4 DEF Minted
<1>7. i = h
  <2>1. ~(i < h) /\ ~(h < i)
    BY <1>5, <1>6
  <2> QED BY <1>3, <2>1
<1>8. cmds[c].dev = cmds[x.cmd].dev
  BY <1>5, <1>6, <1>7
<1>9. CASE x.cmd < c
  BY <1>1, <1>2, <1>8, <1>9 DEF RecordsInv, DeletedAlone
<1>10. CASE c < x.cmd
  <2>1. c \in Earlier(x.cmd)
    BY <1>8, <1>10 DEF Earlier
  <2> QED BY <1>1, <1>2, <2>1 DEF RecordsInv, Sequenced
<1>11. c \in Nat /\ x.cmd \in Nat /\ x.cmd # c
  BY <1>1, <1>3
<1>12. x.cmd < c \/ c < x.cmd
  BY ONLY <1>11
<1> QED BY <1>9, <1>10, <1>12

\* A handler's end keeps the invariant.
LEMMA LogKeeps ==
  ASSUME RecordsInv, NEW c \in Ids, found[c] # {}, Outcome(c), RowsStep(c), Dead(c),
         found' = [found EXCEPT ![c] = {}], UNCHANGED <<cmds, lost, status, overlay, replica>>
  PROVE  RecordsInv'
<1>1. SameCommands /\ DeletesKept /\ RowsStay
  BY DEF SameCommands, DeletesKept, RowsStep
<1>2. /\ Ids' = Ids /\ \A b : Key(b)' = Key(b) /\ Earlier(b)' = Earlier(b) /\ (Minted(b) => Minted(b)')
      /\ FromScript'
  BY <1>1, Framed DEF RecordsInv
<1>3. PICK r : /\ answer' = [answer EXCEPT ![c] = {r}] /\ log' = [log EXCEPT ![c] = r.result]
               /\ \/ r.result = "rejected" /\ r.effects = {} /\ rows' = rows
                  \/ r.result = "applied" /\ Named(c, r.effects)'
  BY DEF Outcome
<1>4. r.result \in {"applied", "rejected"}
  BY <1>3
<1>5. /\ \A b \in Ids : log'[b] = IF b = c THEN r.result ELSE log[b]
      /\ \A b \in Ids : found'[b] = IF b = c THEN {} ELSE found[b]
      /\ \A b \in Ids : answer'[b] = IF b = c THEN {r} ELSE answer[b]
  BY <1>3 DEF RecordsInv, Whole
<1>6. Whole'
  <2>1. log' \in [Ids -> {"none", "applied", "rejected"}]
    BY <1>3, <1>4 DEF RecordsInv, Whole
  <2>2. found' = [b \in Ids |-> found'[b]] /\ answer' = [b \in Ids |-> answer'[b]]
    BY <1>3 DEF RecordsInv, Whole
  <2> QED BY <1>2, <2>1, <2>2 DEF RecordsInv, Whole
<1>7. status[c] = "pending" /\ log[c] = "none" /\ \A b \in Earlier(c) : log[b] # "none"
  BY DEF RecordsInv, Sequenced
<1>8. Sequenced'
  <2>1. SUFFICES ASSUME NEW b \in Ids
                 PROVE  /\ status[b] = "unissued" => log'[b] = "none" /\ found'[b] = {}
                        /\ found'[b] # {} => log'[b] = "none" /\ status[b] = "pending"
                        /\ log'[b] = "none" => answer'[b] = {} /\ status[b] \in {"unissued", "pending"}
                        /\ status[b] # "unissued" => \A a \in Earlier(b) : status[a] # "unissued"
                        /\ log'[b] # "none" \/ found'[b] # {} => \A a \in Earlier(b) : log'[a] # "none"
    BY <1>2 DEF Sequenced
  <2>2. \A a \in Earlier(b) : a \in Ids
    BY DEF Earlier
  <2>3. \A a \in Ids : log[a] # "none" => log'[a] # "none"
    BY <1>4, <1>5
  <2>4. log'[b] # "none" \/ found'[b] # {} => \A a \in Earlier(b) : log[a] # "none"
    BY <1>5, <1>7 DEF RecordsInv, Sequenced
  <2> QED BY <1>4, <1>5, <1>7, <2>2, <2>3, <2>4 DEF RecordsInv, Sequenced
<1>9. AnswersMeant'
  <2>1. ASSUME NEW b \in Ids, b # c
        PROVE  \A q \in answer'[b] :
                 /\ answer'[b] = {q}
                 /\ lost' = 0 => q.result # "noop"
                 /\ q.result \in {"applied", "rejected", "noop"}
                 /\ q.result = "applied" => Named(b, q.effects)'
                 /\ q.result # "applied" => q.effects = {}
    BY <1>1, <1>5, <2>1, StillMeant
  <2>2. \A q \in answer'[c] :
                 /\ answer'[c] = {q}
                 /\ lost' = 0 => q.result # "noop"
                 /\ q.result \in {"applied", "rejected", "noop"}
                 /\ q.result = "applied" => Named(c, q.effects)'
                 /\ q.result # "applied" => q.effects = {}
    BY <1>3, <1>4, <1>5
  <2> QED BY <1>2, <2>1, <2>2 DEF AnswersMeant
<1>10. NoneMissing'
  BY <1>2, <1>5 DEF RecordsInv, NoneMissing
<1>11. FoundMeant'
  <2>1. SUFFICES ASSUME NEW b \in Ids, b # c, NEW q \in found[b]
                 PROVE  /\ found[b] = {q}
                        /\ q.own \in BOOLEAN
                        /\ q.own => Key(b) \in DOMAIN rows'
                        /\ \A k \in q.key : k \in DOMAIN rows' /\ k[1] = Key(b)[1]
                                            /\ (cmds[b].verb = "journal.write" => NotDeleted(b, k))
                        /\ Undone(b) /\ Key(b)[1] = "journal_entries" /\ ~q.own => Key(b) \notin DOMAIN rows'
    BY <1>2, <1>5 DEF FoundMeant, NotDeleted, Undone
  <2>2. /\ found[b] = {q}
        /\ q.own \in BOOLEAN
        /\ q.own => Key(b) \in DOMAIN rows
        /\ \A k \in q.key : k \in DOMAIN rows /\ k[1] = Key(b)[1]
                            /\ (cmds[b].verb = "journal.write" => NotDeleted(b, k))
        /\ Undone(b) /\ Key(b)[1] = "journal_entries" /\ ~q.own => Key(b) \notin DOMAIN rows
    BY DEF RecordsInv, FoundMeant
  <2>3. ASSUME Undone(b), Key(b) \notin DOMAIN rows, Key(b) \in DOMAIN rows' PROVE FALSE
    <3>1. Key(b) = Key(c)
      BY <2>3 DEF RowsStep, RowsAdded
    <3>2. PICK x \in overlay : x.op = "delete" /\ x.cmd = b
      BY <2>3 DEF Undone
    <3>3. x.key = Key(b)
      BY <3>2, DeleteIs
    <3> QED BY <2>1, <2>3, <3>1, <3>2, <3>3, FreshKey
  <2> QED BY <1>1, <2>2, <2>3 DEF RowsStay
<1>12. EffectsMeant'
  <2>1. \A e \in overlay : e.cmd \in Ids /\ status[e.cmd] # "unissued"
    BY DEF RecordsInv, EffectsMeant
  <2>2. \A e \in overlay : NotDeleted(e.cmd, e.key) => NotDeleted(e.cmd, e.key)'
    BY DEF NotDeleted
  <2> QED BY <1>1, <1>2, <2>1, <2>2 DEF RecordsInv, EffectsMeant, RowsStay
<1>13. OneEach'
  BY DEF RecordsInv, OneEach
<1>14. EffectsSettle'
  <2>1. SUFFICES ASSUME NEW e \in overlay, lost = 0, status[e.cmd] = "applied", cmds[e.cmd].verb \in Recorded
                 PROVE  e.key \in DOMAIN rows' /\ (e.op = "delete" => ~rows'[e.key].live)
    BY DEF EffectsSettle
  <2>2. e.key \in DOMAIN rows /\ (e.op = "delete" => ~rows[e.key].live)
    BY <2>1 DEF RecordsInv, EffectsSettle
  <2>3. e.op = "delete" => e.key[1] # "user_settings"
    BY DeleteIs
  <2> QED BY <1>1, <2>2, <2>3 DEF RowsStay
<1>15. DeletedAlone'
  BY <1>2 DEF RecordsInv, DeletedAlone
<1>16. NotesDie'
  <2>1. SUFFICES ASSUME NEW x \in overlay, x.op = "delete", x.key[1] = "journal_entries", log'[x.cmd] # "none"
                 PROVE  x.key \notin DOMAIN rows' \/ ~rows'[x.key].live
    BY DEF NotesDie
  <2>2. x.cmd \in Ids /\ x.key = Key(x.cmd)
    BY <2>1, DeleteIs
  <2>3. CASE x.cmd = c
    BY <2>1, <2>2, <2>3 DEF Dead, Undone
  <2>4. CASE x.cmd # c
    <3>1. log[x.cmd] # "none"
      BY <1>5, <2>1, <2>2, <2>4
    <3>2. x.key \notin DOMAIN rows \/ ~rows[x.key].live
      BY <2>1, <3>1 DEF RecordsInv, NotesDie
    <3>3. CASE x.key \in DOMAIN rows
      BY <1>1, <2>1, <3>2, <3>3 DEF RowsStay
    <3>4. CASE x.key \notin DOMAIN rows
      <4>1. ASSUME x.key \in DOMAIN rows' PROVE FALSE
        <5>1. x.key = Key(c)
          BY <3>4, <4>1 DEF RowsStep, RowsAdded
        <5> QED BY <2>1, <2>4, <3>1, <3>4, <5>1, FreshKey
      <4> QED BY <4>1
    <3> QED BY <3>3, <3>4
  <2> QED BY <2>3, <2>4
<1>17. OwnRows'
  BY <1>2 DEF RecordsInv, OwnRows
<1>18. RowsSound'
  BY <1>1 DEF RecordsInv, RowsSound, RowsStep, RowsStay
<1> QED BY <1>2, <1>6, <1>8, <1>9, <1>10, <1>11, <1>12, <1>13, <1>14, <1>15, <1>16, <1>17, <1>18 DEF RecordsInv

\* So Handle does.
LEMMA HandleKeeps ==
  ASSUME RecordsInv, NEW c \in Ids, Handle(c)
  PROVE  RecordsInv'
BY HandleDoes, LogKeeps DEF Handle, client

\* And Refuse.
LEMMA RefuseKeeps ==
  ASSUME RecordsInv, NEW c \in Ids, Refuse(c)
  PROVE  RecordsInv'
<1>1. found[c] # {} /\ cmds[c].verb \in Gated /\ Rejected(c)
  BY DEF Refuse
<1>2. AllRows /\ FromScript
  BY DEF RecordsInv, RowsSound, AllRows
<1>3. Outcome(c) /\ RowsStep(c)
  BY <1>1, <1>2, OutcomeRejected, SameRows
<1>4. Dead(c)
  <2>1. cmds[c].verb \in Verbs
    BY <1>2, CmdFacts
  <2>2. Written[cmds[c].verb].op = "delete" => Key(c)[1] # "journal_entries"
    BY <1>1, <2>1, RecordersFit, KeyTable
  <2> QED BY <2>2, DoesNotDelete DEF Dead
<1> QED BY <1>1, <1>3, <1>4, LogKeeps DEF Refuse, client

\* The parts that look at nothing a step changes.
LEMMA LookKeeps ==
  ASSUME RecordsInv, NEW c \in Ids, Look(c)
  PROVE  RecordsInv'
<1>1. /\ status[c] = "pending" /\ log[c] = "none" /\ found[c] = {}
      /\ \A b \in Earlier(c) : log[b] # "none"
      /\ UNCHANGED <<cmds, rows, version, items, log, answer, lost, status, overlay, replica>>
  BY DEF Look, client
<1>2. PICK prior : found' = [found EXCEPT ![c] =
         {[own |-> Key(c) \in DOMAIN rows /\ Key(c)[1] # "diagram_layouts", key |-> SameKey(c), prior |-> prior]}]
  BY DEF Look
<1> DEFINE q == [own |-> Key(c) \in DOMAIN rows /\ Key(c)[1] # "diagram_layouts", key |-> SameKey(c), prior |-> prior]
<1>3. SameCommands /\ DeletesKept /\ RowsStay
  BY <1>1 DEF SameCommands, DeletesKept, RowsStay
<1>4. /\ Ids' = Ids /\ \A b : Key(b)' = Key(b) /\ Earlier(b)' = Earlier(b) /\ (Minted(b) => Minted(b)')
      /\ FromScript'
  BY <1>3, Framed DEF RecordsInv
<1>5. \A b \in Ids : found'[b] = IF b = c THEN {q} ELSE found[b]
  BY <1>2 DEF RecordsInv, Whole
<1>6. /\ q.own = (Key(c) \in DOMAIN rows /\ Key(c)[1] # "diagram_layouts")
      /\ q.key = SameKey(c)
  OBVIOUS
<1> HIDE DEF q
<1>7. Whole'
  <2>1. found' = [b \in Ids |-> found'[b]]
    BY <1>2 DEF RecordsInv, Whole
  <2> QED BY <1>1, <1>4, <2>1 DEF RecordsInv, Whole
<1>8. Sequenced'
  BY <1>1, <1>4, <1>5 DEF RecordsInv, Sequenced
<1>9. AnswersMeant'
  BY <1>1, <1>3, <1>4, StillMeant DEF AnswersMeant
<1>10. FoundMeant'
  <2>1. ASSUME NEW b \in Ids, b # c
        PROVE  \A r \in found'[b] :
    /\ found'[b] = {r}
    /\ r.own \in BOOLEAN
    /\ r.own => Key(b) \in DOMAIN rows'
    /\ \A k \in r.key : k \in DOMAIN rows' /\ k[1] = Key(b)[1] /\ (cmds[b].verb = "journal.write" => NotDeleted(b, k)')
    /\ Undone(b)' /\ Key(b)[1] = "journal_entries" /\ ~r.own => Key(b) \notin DOMAIN rows'
    BY <1>1, <1>3, <1>5, <2>1, StillFound
  <2>2. \A k \in SameKey(c) : k \in DOMAIN rows /\ k[1] = Key(c)[1]
                              /\ (cmds[c].verb = "journal.write" => NotDeleted(c, k))
    BY <1>1, KeyIs
  <2>3. \A k : NotDeleted(c, k) => NotDeleted(c, k)'
    BY <1>1, <1>3, StillNotDeleted
  <2>4. /\ q.own \in BOOLEAN
        /\ q.own => Key(c) \in DOMAIN rows
        /\ \A k \in q.key : k \in DOMAIN rows /\ k[1] = Key(c)[1] /\ (cmds[c].verb = "journal.write" => NotDeleted(c, k)')
        /\ Undone(c)' /\ Key(c)[1] = "journal_entries" /\ ~q.own => Key(c) \notin DOMAIN rows
    BY <1>6, <2>2, <2>3
  <2>5. ASSUME NEW b \in Ids, NEW r \in found'[b]
        PROVE  /\ found'[b] = {r}
               /\ r.own \in BOOLEAN
               /\ r.own => Key(b) \in DOMAIN rows'
               /\ \A k \in r.key : k \in DOMAIN rows' /\ k[1] = Key(b)[1] /\ (cmds[b].verb = "journal.write" => NotDeleted(b, k)')
               /\ Undone(b)' /\ Key(b)[1] = "journal_entries" /\ ~r.own => Key(b) \notin DOMAIN rows'
    <3>1. CASE b = c
      <4>1. r = q /\ found'[b] = {r}
        BY <1>5, <3>1
      <4> QED BY <1>1, <2>4, <3>1, <4>1
    <3>2. CASE b # c
      BY <2>1, <3>2
    <3> QED BY <3>1, <3>2
  <2> QED BY <1>1, <1>4, <2>5 DEF FoundMeant
<1>11. NoneMissing' /\ OneEach' /\ EffectsSettle' /\ DeletedAlone' /\ NotesDie' /\ RowsSound'
  BY <1>1, <1>4 DEF RecordsInv, NoneMissing, OneEach, EffectsSettle, DeletedAlone, NotesDie, RowsSound
<1>12. EffectsMeant'
  <2>1. \A e \in overlay : NotDeleted(e.cmd, e.key) => NotDeleted(e.cmd, e.key)'
    BY <1>1 DEF NotDeleted
  <2> QED BY <1>1, <1>4, <2>1 DEF RecordsInv, EffectsMeant
<1>13. OwnRows'
  BY <1>1, <1>4, <1>3 DEF RecordsInv, OwnRows
<1> QED BY <1>4, <1>7, <1>8, <1>9, <1>10, <1>11, <1>12, <1>13 DEF RecordsInv

\* A step of the answers alone.
LEMMA AnswerKeeps ==
  ASSUME RecordsInv, NEW c \in Ids, log[c] # "none", NEW a, answer' = [answer EXCEPT ![c] = a],
         a = {} \/ (a = {[result |-> "noop", effects |-> {}]} /\ lost' # 0),
         lost' \in {lost, lost + 1}, a = {} => lost' # 0,
         UNCHANGED <<cmds, rows, log, found, status, overlay, replica>>
  PROVE  RecordsInv'
<1>1. SameCommands /\ DeletesKept /\ RowsStay
  BY DEF SameCommands, DeletesKept, RowsStay
<1>2. /\ Ids' = Ids /\ \A b : Key(b)' = Key(b) /\ Earlier(b)' = Earlier(b) /\ (Minted(b) => Minted(b)')
      /\ FromScript'
  BY <1>1, Framed DEF RecordsInv
<1>3. \A b \in Ids : answer'[b] = IF b = c THEN a ELSE answer[b]
  BY DEF RecordsInv, Whole
<1>4. lost' \in Nat /\ (lost' = 0 => lost = 0)
  BY DEF RecordsInv, Whole
<1>5. Whole'
  <2>1. answer' = [b \in Ids |-> answer'[b]]
    BY DEF RecordsInv, Whole
  <2> QED BY <1>2, <1>4, <2>1 DEF RecordsInv, Whole
<1>6. Sequenced'
  BY <1>2, <1>3 DEF RecordsInv, Sequenced
<1>7. AnswersMeant'
  <2>1. ASSUME NEW b \in Ids, b # c
        PROVE  \A r \in answer'[b] :
           /\ answer'[b] = {r}
           /\ lost' = 0 => r.result # "noop"
           /\ r.result \in {"applied", "rejected", "noop"}
           /\ r.result = "applied" => Named(b, r.effects)'
           /\ r.result # "applied" => r.effects = {}
    BY <1>1, <1>3, <2>1, StillMeant
  <2>2. \A r \in answer'[c] :
           /\ answer'[c] = {r}
           /\ lost' = 0 => r.result # "noop"
           /\ r.result \in {"applied", "rejected", "noop"}
           /\ r.result = "applied" => Named(c, r.effects)'
           /\ r.result # "applied" => r.effects = {}
    <3>1. CASE a = {}
      BY <1>3, <3>1
    <3>2. CASE a # {}
      <4>1. PICK q : q = [result |-> "noop", effects |-> {}]
        OBVIOUS
      <4>2. q.result = "noop" /\ q.effects = {}
        BY ONLY <4>1
      <4>3. answer'[c] = {q} /\ lost' # 0
        BY <1>3, <3>2, <4>1
      <4> QED BY <4>2, <4>3
    <3> QED BY <3>1, <3>2
  <2> QED BY <1>2, <2>1, <2>2 DEF AnswersMeant
<1>8. NoneMissing'
  BY <1>2, <1>3, <1>4 DEF RecordsInv, NoneMissing
<1>9. FoundMeant'
  BY <1>1, <1>2, StillFound DEF FoundMeant, SameCommands
<1>10. OneEach' /\ EffectsSettle' /\ DeletedAlone' /\ NotesDie' /\ RowsSound'
  BY <1>2, <1>4 DEF RecordsInv, OneEach, EffectsSettle, DeletedAlone, NotesDie, RowsSound
<1>11. EffectsMeant'
  <2>1. \A e \in overlay : NotDeleted(e.cmd, e.key) => NotDeleted(e.cmd, e.key)'
    BY DEF NotDeleted
  <2> QED BY <1>2, <2>1 DEF RecordsInv, EffectsMeant
<1>12. OwnRows'
  BY <1>1, <1>2 DEF RecordsInv, OwnRows
<1> QED BY <1>2, <1>5, <1>6, <1>7, <1>8, <1>9, <1>10, <1>11, <1>12 DEF RecordsInv

\* LoseAnswer and SendAgain are such steps.
LEMMA LoseAnswerKeeps ==
  ASSUME RecordsInv, NEW c \in Ids, LoseAnswer(c)
  PROVE  RecordsInv'
<1>1. log[c] # "none"
  BY DEF LoseAnswer, RecordsInv, Sequenced
<1>2. lost' = lost + 1 /\ lost' # 0
  BY DEF LoseAnswer, RecordsInv, Whole
<1> QED BY <1>1, <1>2, AnswerKeeps DEF LoseAnswer, server, client

\* The second of them.
LEMMA SendAgainKeeps ==
  ASSUME RecordsInv, NEW c \in Ids, SendAgain(c)
  PROVE  RecordsInv'
<1>1. log[c] # "none" /\ lost # 0
  BY DEF SendAgain, RecordsInv, NoneMissing
<1> QED BY <1>1, AnswerKeeps DEF SendAgain, server, client

\* A checkpoint is sound rows.
LEMMA SyncDownKeeps ==
  ASSUME RecordsInv, NEW d \in Devices, SyncDown(d)
  PROVE  RecordsInv'
<1>1. /\ UNCHANGED <<cmds, rows, version, items, log, found, answer, lost, status, overlay>>
      /\ replica' = [replica EXCEPT ![d] = Streamed]
  BY DEF SyncDown, server
<1>2. SameCommands /\ DeletesKept /\ RowsStay
  BY <1>1 DEF SameCommands, DeletesKept, RowsStay
<1>3. /\ Ids' = Ids /\ \A b : Key(b)' = Key(b) /\ Earlier(b)' = Earlier(b) /\ (Minted(b) => Minted(b)')
      /\ FromScript'
  BY <1>2, Framed DEF RecordsInv
<1>4. Whole'
  BY <1>1, <1>3 DEF RecordsInv, Whole
<1>5. Sequenced' /\ NoneMissing' /\ OneEach' /\ EffectsSettle' /\ DeletedAlone' /\ NotesDie'
  BY <1>1, <1>3 DEF RecordsInv, Sequenced, NoneMissing, OneEach, EffectsSettle, DeletedAlone, NotesDie
<1>6. AnswersMeant'
  BY <1>1, <1>2, <1>3, StillMeant DEF AnswersMeant
<1>7. FoundMeant'
  BY <1>1, <1>2, <1>3, StillFound DEF FoundMeant, SameCommands
<1>8. EffectsMeant'
  <2>1. \A e \in overlay : NotDeleted(e.cmd, e.key) => NotDeleted(e.cmd, e.key)'
    BY <1>1 DEF NotDeleted
  <2> QED BY <1>1, <1>3, <2>1 DEF RecordsInv, EffectsMeant
<1>9. OwnRows'
  BY <1>1, <1>2, <1>3 DEF RecordsInv, OwnRows
<1>10. RowsSound'
  <2>1. \A k \in DOMAIN Streamed : k \in DOMAIN rows /\ IsRow(k[1], Streamed[k].cols)
    BY StreamedRows DEF RecordsInv
  <2>2. \A x \in Devices : replica'[x] = IF x = d THEN Streamed ELSE replica[x]
    BY <1>1 DEF RecordsInv, Whole
  <2> QED BY <1>1, <2>1, <2>2 DEF RecordsInv, RowsSound
<1> QED BY <1>3, <1>4, <1>5, <1>6, <1>7, <1>8, <1>9, <1>10 DEF RecordsInv

\* Reconciliation drops effects, and only of one device that has settled them.
LEMMA ReconcileKeeps ==
  ASSUME RecordsInv, NEW c \in Ids, Reconcile(c)
  PROVE  RecordsInv'
<1>1. /\ status[c] = "applied" /\ status' = [status EXCEPT ![c] = "cleared"]
      /\ \A e \in overlay' : e \in overlay /\ e.cmd # c
      /\ UNCHANGED <<cmds, rows, version, items, log, found, answer, lost, replica>>
  BY DEF Reconcile, server
<1>2. overlay' \subseteq overlay
  BY <1>1
<1>3. SameCommands /\ DeletesKept /\ RowsStay
  BY <1>1 DEF SameCommands, DeletesKept, RowsStay
<1>4. /\ Ids' = Ids /\ \A b : Key(b)' = Key(b) /\ Earlier(b)' = Earlier(b) /\ (Minted(b) => Minted(b)')
      /\ FromScript'
  BY <1>3, Framed DEF RecordsInv
<1>5. \A b \in Ids : status'[b] = IF b = c THEN "cleared" ELSE status[b]
  BY <1>1 DEF RecordsInv, Whole
<1>6. Whole'
  <2>1. IsFiniteSet(overlay')
    BY <1>2, FS_Subset DEF RecordsInv, Whole
  <2>2. status' \in [Ids -> {"unissued", "pending", "applied", "cleared", "rejected"}]
    BY <1>1 DEF RecordsInv, Whole
  <2> QED BY <1>1, <1>4, <2>1, <2>2 DEF RecordsInv, Whole
<1>7. Sequenced'
  <2>1. \A b : \A a \in Earlier(b) : a \in Ids
    BY DEF Earlier
  <2> QED BY <1>1, <1>4, <1>5, <2>1 DEF RecordsInv, Sequenced
<1>8. AnswersMeant'
  BY <1>1, <1>3, <1>4, StillMeant DEF AnswersMeant
<1>9. NoneMissing'
  BY <1>1, <1>4, <1>5 DEF RecordsInv, NoneMissing
<1>10. FoundMeant'
  BY <1>1, <1>3, <1>4, StillFound DEF FoundMeant, SameCommands
<1>11. EffectsMeant'
  <2>1. \A e \in overlay : e.cmd \in Ids /\ status[e.cmd] # "unissued"
    BY DEF RecordsInv, EffectsMeant
  <2>2. \A e \in overlay : NotDeleted(e.cmd, e.key) => NotDeleted(e.cmd, e.key)'
    BY <1>3, <2>1, StillNotDeleted
  <2> QED BY <1>1, <1>4, <1>5, <2>2 DEF RecordsInv, EffectsMeant
<1>12. OneEach' /\ EffectsSettle' /\ NotesDie' /\ RowsSound'
  <2>1. \A e \in overlay : e.cmd \in Ids
    BY DEF RecordsInv, EffectsMeant
  <2> QED BY <1>1, <1>4, <1>5, <2>1 DEF RecordsInv, OneEach, EffectsSettle, NotesDie, RowsSound
<1>13. DeletedAlone'
  BY <1>1, <1>2, <1>4, <1>5 DEF RecordsInv, DeletedAlone
<1>14. OwnRows'
  BY <1>1, <1>3, <1>4, <1>5 DEF RecordsInv, OwnRows
<1> QED BY <1>4, <1>6, <1>7, <1>8, <1>9, <1>10, <1>11, <1>12, <1>13, <1>14 DEF RecordsInv

\* A device has no effect on a row it deleted that is later than the delete.
LEMMA NothingAfterDelete ==
  ASSUME RecordsInv, NEW e \in overlay, NEW x \in overlay, x.op = "delete", x.key = e.key,
         cmds[x.cmd].dev = cmds[e.cmd].dev, e.cmd > x.cmd
  PROVE  FALSE
<1>1. e.cmd \in Ids /\ status[e.cmd] # "unissued"
  BY DEF RecordsInv, EffectsMeant
<1>2. x.cmd < e.cmd
  <2>1. x.cmd \in Ids
    BY DeleteIs
  <2>2. e.cmd \in Nat /\ x.cmd \in Nat
    BY <1>1, <2>1, CmdFacts DEF RecordsInv
  <2> QED BY <2>2
<1>3. CASE e.key = Key(e.cmd)
  BY <1>1, <1>2, <1>3 DEF RecordsInv, DeletedAlone
<1>4. CASE e.key # Key(e.cmd)
  BY <1>2, <1>4 DEF RecordsInv, EffectsMeant, NotDeleted
<1> QED BY <1>3, <1>4

\* A device names no row again that it has deleted, and mints the ones it names first.
LEMMA Offers ==
  ASSUME RecordsInv, NEW c \in Ids, Offered(c)
  PROVE  /\ \A x \in overlay : x.op = "delete" /\ cmds[x.cmd].dev = cmds[c].dev /\ x.cmd < c => x.key # Key(c)
         /\ Minted(c)
<1> DEFINE k == Key(c)
           d == cmds[c].dev
<1>1. CASE k[1] \in {"user_settings", "diagram_layouts"}
  BY <1>1, DeleteIs DEF Minted
<1>2. CASE \A b \in Ids : b < c => Key(b) # k
  BY <1>2, DeleteIs DEF Minted
<1>3. CASE Merged(d, k).here
  <2>1. \/ (k \in DOMAIN replica[d] /\ \A x \in Pending(d, k) : x.op # "delete")
        \/ \E e \in Pending(d, k) : \A x \in Pending(d, k) : x.op = "delete" => e.cmd > x.cmd
    BY <1>3 DEF Merged, Canonical, NoRow
  <2>2. CASE k \in DOMAIN replica[d] /\ \A x \in Pending(d, k) : x.op # "delete"
    <3>1. d \in Devices
      BY CmdFacts DEF RecordsInv
    <3> QED BY <2>2, <3>1 DEF RecordsInv, RowsSound, Minted, Pending
  <2>3. CASE \E e \in Pending(d, k) : \A x \in Pending(d, k) : x.op = "delete" => e.cmd > x.cmd
    <3>1. PICK e \in overlay : /\ cmds[e.cmd].dev = d /\ e.key = k
                               /\ \A x \in Pending(d, k) : x.op = "delete" => e.cmd > x.cmd
      BY <2>3 DEF Pending
    <3>2. e.cmd \in Ids /\ status[e.cmd] # "unissued"
      BY DEF RecordsInv, EffectsMeant
    <3>3. ASSUME NEW x \in overlay, x.op = "delete", cmds[x.cmd].dev = d, x.key = k
          PROVE  FALSE
      <4>1. e.cmd > x.cmd
        BY <3>1, <3>3 DEF Pending
      <4> QED BY <3>1, <3>3, <4>1, NothingAfterDelete
    <3>4. Minted(c)
      <4>1. CASE e.key = Key(e.cmd)
        <5>1. Minted(e.cmd)
          BY <3>2 DEF RecordsInv, OwnRows
        <5> QED BY <3>1, <4>1, <5>1 DEF Minted
      <4>2. CASE e.key # Key(e.cmd)
        BY <3>1, <4>2 DEF RecordsInv, EffectsMeant, Minted
      <4> QED BY <4>1, <4>2
    <3> QED BY <3>3, <3>4
  <2> QED BY <2>1, <2>2, <2>3
<1> QED BY <1>1, <1>2, <1>3 DEF Offered

\* The effect a command puts in the overlay, if it has one.
LEMMA EffectIs ==
  ASSUME RecordsInv, NEW c \in Ids, NEW e \in OptimisticEffects(c)
  PROVE  /\ OptimisticEffects(c) = {e}
         /\ e = [cmd |-> e.cmd, op |-> e.op, key |-> e.key, fields |-> e.fields]
         /\ e.cmd = c /\ e.op = Predicted[cmds[c].verb].op /\ e.key = Key(c)
         /\ e.fields = Fields(Predicted[cmds[c].verb], cmds[c].pay)
<1>1. PICK f : f = [cmd |-> c, op |-> Predicted[cmds[c].verb].op, key |-> Key(c),
                    fields |-> Fields(Predicted[cmds[c].verb], cmds[c].pay)]
  OBVIOUS
<1>2. OptimisticEffects(c) = {f} /\ e = f
  BY <1>1 DEF OptimisticEffects
<1>3. /\ f.cmd = c /\ f.op = Predicted[cmds[c].verb].op /\ f.key = Key(c)
      /\ f.fields = Fields(Predicted[cmds[c].verb], cmds[c].pay)
      /\ f = [cmd |-> f.cmd, op |-> f.op, key |-> f.key, fields |-> f.fields]
  BY ONLY <1>1
<1> QED BY <1>2, <1>3

\* A command is issued: its effect is the one it predicts, on a row that is not deleted.
LEMMA ExecuteKeeps ==
  ASSUME RecordsInv, NEW c \in Ids, Execute(c)
  PROVE  RecordsInv'
<1>1. /\ status[c] = "unissued" /\ Offered(c)
      /\ \A b \in Earlier(c) : status[b] # "unissued"
      /\ status' = [status EXCEPT ![c] = "pending"]
      /\ overlay' = overlay \cup OptimisticEffects(c)
      /\ UNCHANGED <<cmds, rows, log, found, answer, lost, replica>>
  BY DEF Execute, server
<1>2. \A e \in overlay' : e \in overlay \/ e \in OptimisticEffects(c)
  BY <1>1
<1>3. SameCommands /\ DeletesKept /\ RowsStay
  BY <1>1, <1>2, EffectIs DEF SameCommands, DeletesKept, RowsStay
<1>4. /\ Ids' = Ids /\ \A b : Key(b)' = Key(b) /\ Earlier(b)' = Earlier(b) /\ (Minted(b) => Minted(b)')
      /\ FromScript'
  BY <1>3, Framed DEF RecordsInv
<1>5. \A b \in Ids : status'[b] = IF b = c THEN "pending" ELSE status[b]
  BY <1>1 DEF RecordsInv, Whole
<1>6. log[c] = "none" /\ found[c] = {} /\ answer[c] = {}
  BY <1>1 DEF RecordsInv, Sequenced
<1>7. \A e \in overlay : e.cmd \in Ids /\ e.cmd # c /\ status[e.cmd] # "unissued"
  BY <1>1 DEF RecordsInv, EffectsMeant
<1>8. Whole'
  <2>1. IsFiniteSet(OptimisticEffects(c))
    <3>1. CASE OptimisticEffects(c) = {}
      BY <3>1, FS_EmptySet
    <3>2. ASSUME NEW e \in OptimisticEffects(c) PROVE IsFiniteSet(OptimisticEffects(c))
      <4>1. OptimisticEffects(c) = {e}
        BY EffectIs
      <4> QED BY <4>1, FS_Singleton
    <3> QED BY <3>1, <3>2
  <2>2. IsFiniteSet(overlay')
    BY <1>1, <2>1, FS_Union DEF RecordsInv, Whole
  <2>3. status' \in [Ids -> {"unissued", "pending", "applied", "cleared", "rejected"}]
    BY <1>1 DEF RecordsInv, Whole
  <2> QED BY <1>1, <1>4, <2>2, <2>3 DEF RecordsInv, Whole
<1>9. Sequenced'
  <2>1. \A b : \A a \in Earlier(b) : a \in Ids
    BY DEF Earlier
  <2> QED BY <1>1, <1>4, <1>5, <1>6, <2>1 DEF RecordsInv, Sequenced
<1>10. AnswersMeant'
  BY <1>1, <1>3, <1>4, StillMeant DEF AnswersMeant
<1>11. NoneMissing'
  BY <1>1, <1>4, <1>5, <1>6 DEF RecordsInv, NoneMissing
<1>12. FoundMeant'
  BY <1>1, <1>3, <1>4, StillFound DEF FoundMeant, SameCommands
<1>13. EffectsMeant'
  <2>1. SUFFICES ASSUME NEW e \in overlay'
                 PROVE  /\ e = [cmd |-> e.cmd, op |-> e.op, key |-> e.key, fields |-> e.fields]
                        /\ e.cmd \in Ids
                        /\ status'[e.cmd] \in {"pending", "applied"}
                        /\ e.fields = Fields(Predicted[cmds[e.cmd].verb], cmds[e.cmd].pay)
                        /\ e.key[1] = Written[cmds[e.cmd].verb].table
                        /\ e.key = Key(e.cmd) => e.op = Predicted[cmds[e.cmd].verb].op
                        /\ e.key # Key(e.cmd) => /\ e.op = "update" /\ cmds[e.cmd].verb = "journal.write"
                                                 /\ e.key \in DOMAIN rows /\ status'[e.cmd] = "applied"
                                                 /\ NotDeleted(e.cmd, e.key)'
    BY <1>1, <1>4 DEF EffectsMeant
  <2>2. CASE e \in overlay
    BY <1>3, <1>5, <1>7, <2>2, StillNotDeleted DEF RecordsInv, EffectsMeant
  <2>3. CASE e \in OptimisticEffects(c)
    BY <1>5, <2>3, EffectIs, KeyTable
  <2> QED BY <1>2, <2>2, <2>3
<1>14. OneEach'
  BY <1>2, <1>7, EffectIs DEF RecordsInv, OneEach
<1>15. EffectsSettle' /\ NotesDie'
  BY <1>1, <1>2, <1>5, <1>6, <1>7, EffectIs DEF RecordsInv, EffectsSettle, NotesDie
<1>16. DeletedAlone'
  <2>1. SUFFICES ASSUME NEW x \in overlay', NEW a \in Ids, x.op = "delete",
                        cmds[a].dev = cmds[x.cmd].dev, x.cmd < a, status'[a] # "unissued"
                 PROVE  Key(a) # x.key
    BY <1>1, <1>4 DEF DeletedAlone
  <2>2. CASE x \in overlay /\ a # c
    BY <1>5, <2>1, <2>2 DEF RecordsInv, DeletedAlone
  <2>3. CASE x \in overlay /\ a = c
    BY <1>1, <2>1, <2>3, Offers
  <2>4. CASE x \in OptimisticEffects(c)
    <3>1. x.cmd = c
      BY <2>4, EffectIs
    <3>2. a # c
      BY <2>1, <3>1, CmdFacts DEF RecordsInv
    <3>3. c \in Earlier(a)
      BY <2>1, <3>1 DEF Earlier
    <3> QED BY <1>1, <1>5, <2>1, <3>2, <3>3 DEF RecordsInv, Sequenced
  <2> QED BY <1>2, <2>2, <2>3, <2>4
<1>17. OwnRows'
  <2>1. Minted(c)
    BY <1>1, Offers
  <2> QED BY <1>4, <1>5, <2>1 DEF RecordsInv, OwnRows
<1>18. RowsSound'
  BY <1>1 DEF RecordsInv, RowsSound
<1> QED BY <1>4, <1>8, <1>9, <1>10, <1>11, <1>12, <1>13, <1>14, <1>15, <1>16, <1>17, <1>18 DEF RecordsInv

\* An effect turned to another row.
LEMMA Turned ==
  ASSUME NEW e, e = [cmd |-> e.cmd, op |-> e.op, key |-> e.key, fields |-> e.fields], NEW k
  PROVE  [e EXCEPT !.op = "update", !.key = k] = [cmd |-> e.cmd, op |-> "update", key |-> k, fields |-> e.fields]
<1>1. PICK cm, o, ke, fi : cm = e.cmd /\ o = e.op /\ ke = e.key /\ fi = e.fields
  OBVIOUS
<1>2. e = [cmd |-> cm, op |-> o, key |-> ke, fields |-> fi]
  BY <1>1
<1>3. PICK f : f = [e EXCEPT !.op = "update"]
  OBVIOUS
<1>4. f = [cmd |-> cm, op |-> "update", key |-> ke, fields |-> fi]
  BY ONLY <1>2, <1>3
<1>5. [f EXCEPT !.key = k] = [cmd |-> cm, op |-> "update", key |-> k, fields |-> fi]
  BY ONLY <1>4
<1>6. [e EXCEPT !.op = "update", !.key = k] = [f EXCEPT !.key = k]
  BY <1>3
<1> QED BY <1>1, <1>5, <1>6

\* The effects that wait after a command's answer.
LEMMA RewrittenIs ==
  ASSUME RecordsInv, NEW c \in Ids, status[c] = "pending", NEW named,
         named = {} \/ Named(c, named)
  PROVE  /\ EffectsOf(c) = {} => Rewritten(c, named) = {}
         /\ EffectsOf(c) # {} =>
              \E e \in overlay : \E y :
                /\ e.cmd = c /\ e.key = Key(c) /\ e.op = Predicted[cmds[c].verb].op
                /\ EffectsOf(c) = {e} /\ Rewritten(c, named) = {y}
                /\ \/ y = e /\ (named = {} \/ named = {Key(c)})
                   \/ \E k \in DOMAIN rows :
                        /\ y = [cmd |-> c, op |-> "update", key |-> k, fields |-> e.fields]
                        /\ k # Key(c) /\ k[1] = Key(c)[1] /\ cmds[c].verb = "journal.write" /\ NotDeleted(c, k)
<1>1. EffectsOf(c) = {} => Rewritten(c, named) = {}
  BY DEF Rewritten
<1>2. SUFFICES ASSUME NEW e \in EffectsOf(c)
               PROVE  \E y :
                /\ e \in overlay /\ e.cmd = c /\ e.key = Key(c) /\ e.op = Predicted[cmds[c].verb].op
                /\ EffectsOf(c) = {e} /\ Rewritten(c, named) = {y}
                /\ \/ y = e /\ (named = {} \/ named = {Key(c)})
                   \/ \E k \in DOMAIN rows :
                        /\ y = [cmd |-> c, op |-> "update", key |-> k, fields |-> e.fields]
                        /\ k # Key(c) /\ k[1] = Key(c)[1] /\ cmds[c].verb = "journal.write" /\ NotDeleted(c, k)
  BY <1>1
<1>3. e \in overlay /\ e.cmd = c
  BY DEF EffectsOf
<1>4. e.key = Key(c) /\ e.op = Predicted[cmds[c].verb].op
      /\ e = [cmd |-> e.cmd, op |-> e.op, key |-> e.key, fields |-> e.fields]
  <2>1. status[e.cmd] # "applied"
    BY <1>3
  <2>2. e.key = Key(e.cmd)
    BY <1>3, <2>1 DEF RecordsInv, EffectsMeant
  <2> QED BY <1>3, <2>2 DEF RecordsInv, EffectsMeant
<1>5. EffectsOf(c) = {e}
  BY <1>3 DEF EffectsOf, RecordsInv, OneEach
<1>6. Cardinality(EffectsOf(c)) = 1
  BY <1>5, FS_Singleton
<1> DEFINE rowOf == {y \in named : y[1] = e.key[1]}
           turned == [e EXCEPT !.op = "update", !.key = Only(rowOf)]
<1>7. Rewritten(c, named) = {IF rowOf # {} /\ Only(rowOf) # e.key THEN turned ELSE e}
  BY <1>5, <1>6 DEF Rewritten
<1>8. CASE named = {}
  BY <1>3, <1>4, <1>5, <1>7, <1>8
<1>9. ASSUME NEW k \in DOMAIN rows, named = {k}, k[1] = Key(c)[1],
             k # Key(c) => cmds[c].verb = "journal.write" /\ NotDeleted(c, k)
      PROVE  \E y :
                /\ e \in overlay /\ e.cmd = c /\ e.key = Key(c) /\ e.op = Predicted[cmds[c].verb].op
                /\ EffectsOf(c) = {e} /\ Rewritten(c, named) = {y}
                /\ \/ y = e /\ (named = {} \/ named = {Key(c)})
                   \/ \E z \in DOMAIN rows :
                        /\ y = [cmd |-> c, op |-> "update", key |-> z, fields |-> e.fields]
                        /\ z # Key(c) /\ z[1] = Key(c)[1] /\ cmds[c].verb = "journal.write" /\ NotDeleted(c, z)
  <2>1. rowOf = {k}
    BY <1>4, <1>9
  <2>2. Only(rowOf) = k
    BY <2>1 DEF Only
  <2>3. CASE k = Key(c)
    <3>1. Rewritten(c, named) = {e}
      BY <1>4, <1>7, <2>2, <2>3
    <3> QED BY <1>3, <1>4, <1>5, <1>9, <2>3, <3>1
  <2>4. CASE k # Key(c)
    <3>1. Rewritten(c, named) = {turned}
      BY <1>4, <1>7, <2>1, <2>2, <2>4
    <3>2. turned = [cmd |-> c, op |-> "update", key |-> k, fields |-> e.fields]
      <4> HIDE DEF rowOf
      <4>1. e = [cmd |-> e.cmd, op |-> e.op, key |-> e.key, fields |-> e.fields]
        BY <1>4
      <4>2. [e EXCEPT !.op = "update", !.key = k] = [cmd |-> e.cmd, op |-> "update", key |-> k, fields |-> e.fields]
        BY ONLY <4>1, Turned
      <4>3. turned = [e EXCEPT !.op = "update", !.key = k]
        BY <2>2
      <4> QED BY <1>3, <4>2, <4>3
    <3> HIDE DEF turned
    <3> QED BY <1>3, <1>4, <1>5, <1>9, <2>4, <3>1, <3>2
  <2> QED BY <2>3, <2>4
<1> QED BY <1>8, <1>9 DEF Named

\* The overlay after an answer: it loses effects, or has one turned.
LEMMA AcknowledgeKeeps ==
  ASSUME RecordsInv, NEW c \in Ids, Acknowledge(c)
  PROVE  RecordsInv'
<1> DEFINE r == Only(answer[c])
<1>1. /\ status[c] = "pending" /\ answer[c] # {}
      /\ answer' = [answer EXCEPT ![c] = {}]
      /\ UNCHANGED <<cmds, rows, log, found, lost, replica>>
  BY DEF Acknowledge, server
<1>2. answer[c] = {r}
  <2>1. PICK q : q \in answer[c]
    BY <1>1
  <2>2. answer[c] = {q}
    BY <2>1 DEF RecordsInv, AnswersMeant
  <2> QED BY <2>2 DEF Only
<1>3. /\ lost = 0 => r.result # "noop"
      /\ r.result \in {"applied", "rejected", "noop"}
      /\ r.result = "applied" => Named(c, r.effects)
      /\ r.result # "applied" => r.effects = {}
  BY <1>2 DEF RecordsInv, AnswersMeant
<1>4. log[c] # "none" /\ found[c] = {}
  BY <1>1 DEF RecordsInv, Sequenced
<1>5. PICK s \in {"applied", "rejected"} :
        /\ status' = [status EXCEPT ![c] = s]
        /\ s = "applied" <=> r.result # "rejected"
        /\ s = "rejected" => overlay' = overlay \ EffectsOf(c)
        /\ s = "applied" => overlay' = (overlay \ EffectsOf(c)) \cup Rewritten(c, r.effects)
  BY DEF Acknowledge
<1> HIDE DEF r
<1>6. r.effects = {} \/ Named(c, r.effects)
  BY <1>3
<1>7. \A e \in overlay : e.cmd = c <=> e \in EffectsOf(c)
  BY DEF EffectsOf
<1>8. \A y \in overlay' :
        \/ y \in overlay /\ y.cmd # c
        \/ /\ s = "applied" /\ y.cmd = c
           /\ \/ y \in overlay /\ y.key = Key(c) /\ y.op = Predicted[cmds[c].verb].op
                 /\ (r.effects = {} \/ r.effects = {Key(c)})
              \/ /\ y = [cmd |-> y.cmd, op |-> y.op, key |-> y.key, fields |-> y.fields]
                 /\ y.op = "update" /\ y.key \in DOMAIN rows /\ y.key # Key(c) /\ y.key[1] = Key(c)[1]
                 /\ cmds[c].verb = "journal.write" /\ NotDeleted(c, y.key)
                 /\ y.fields = Fields(Predicted[cmds[c].verb], cmds[c].pay)
  <2>1. SUFFICES ASSUME NEW y \in overlay', ~(y \in overlay /\ y.cmd # c)
                 PROVE  /\ s = "applied" /\ y.cmd = c
                        /\ \/ y \in overlay /\ y.key = Key(c) /\ y.op = Predicted[cmds[c].verb].op
                              /\ (r.effects = {} \/ r.effects = {Key(c)})
                           \/ /\ y = [cmd |-> y.cmd, op |-> y.op, key |-> y.key, fields |-> y.fields]
                              /\ y.op = "update" /\ y.key \in DOMAIN rows /\ y.key # Key(c) /\ y.key[1] = Key(c)[1]
                              /\ cmds[c].verb = "journal.write" /\ NotDeleted(c, y.key)
                              /\ y.fields = Fields(Predicted[cmds[c].verb], cmds[c].pay)
    OBVIOUS
  <2>2. s = "applied" /\ y \in Rewritten(c, r.effects)
    BY <1>5, <1>7, <2>1
  <2>3. EffectsOf(c) # {}
    BY <1>1, <1>6, <2>2, RewrittenIs
  <2>4. PICK e \in overlay :
                /\ e.cmd = c /\ e.key = Key(c) /\ e.op = Predicted[cmds[c].verb].op
                /\ EffectsOf(c) = {e}
                /\ \/ y = e /\ (r.effects = {} \/ r.effects = {Key(c)})
                   \/ \E k \in DOMAIN rows :
                        /\ y = [cmd |-> c, op |-> "update", key |-> k, fields |-> e.fields]
                        /\ k # Key(c) /\ k[1] = Key(c)[1] /\ cmds[c].verb = "journal.write" /\ NotDeleted(c, k)
    <3>1. PICK z : /\ Rewritten(c, r.effects) = {z}
                   /\ \E e \in overlay :
                        /\ e.cmd = c /\ e.key = Key(c) /\ e.op = Predicted[cmds[c].verb].op
                        /\ EffectsOf(c) = {e}
                        /\ \/ z = e /\ (r.effects = {} \/ r.effects = {Key(c)})
                           \/ \E k \in DOMAIN rows :
                                /\ z = [cmd |-> c, op |-> "update", key |-> k, fields |-> e.fields]
                                /\ k # Key(c) /\ k[1] = Key(c)[1] /\ cmds[c].verb = "journal.write"
                                /\ NotDeleted(c, k)
      BY <1>1, <1>6, <2>3, RewrittenIs
    <3>2. z = y
      BY <2>2, <3>1
    <3> QED BY <3>1, <3>2
  <2>5. \/ y = e /\ (r.effects = {} \/ r.effects = {Key(c)})
        \/ \E k \in DOMAIN rows :
             /\ y = [cmd |-> c, op |-> "update", key |-> k, fields |-> e.fields]
             /\ k # Key(c) /\ k[1] = Key(c)[1] /\ cmds[c].verb = "journal.write" /\ NotDeleted(c, k)
    BY <2>4
  <2>6. CASE y = e /\ (r.effects = {} \/ r.effects = {Key(c)})
    BY <2>2, <2>4, <2>6
  <2>7. ASSUME NEW k \in DOMAIN rows,
               y = [cmd |-> c, op |-> "update", key |-> k, fields |-> e.fields],
               k # Key(c) /\ k[1] = Key(c)[1] /\ cmds[c].verb = "journal.write" /\ NotDeleted(c, k)
        PROVE  /\ s = "applied" /\ y.cmd = c
               /\ y = [cmd |-> y.cmd, op |-> y.op, key |-> y.key, fields |-> y.fields]
               /\ y.op = "update" /\ y.key \in DOMAIN rows /\ y.key # Key(c) /\ y.key[1] = Key(c)[1]
               /\ cmds[c].verb = "journal.write" /\ NotDeleted(c, y.key)
               /\ y.fields = Fields(Predicted[cmds[c].verb], cmds[c].pay)
    <3>1. /\ y.cmd = c /\ y.op = "update" /\ y.key = k /\ y.fields = e.fields
          /\ y = [cmd |-> y.cmd, op |-> y.op, key |-> y.key, fields |-> y.fields]
      BY ONLY <2>7
    <3>2. e.fields = Fields(Predicted[cmds[c].verb], cmds[c].pay)
      BY <2>4 DEF RecordsInv, EffectsMeant
    <3> QED BY <2>2, <2>7, <3>1, <3>2
  <2> QED BY <2>5, <2>6, <2>7
<1>9. \A y \in overlay' : y.op = "delete" => y \in overlay
  BY <1>8
<1>10. SameCommands /\ DeletesKept /\ RowsStay
  BY <1>1, <1>9 DEF SameCommands, DeletesKept, RowsStay
<1>11. /\ Ids' = Ids /\ \A b : Key(b)' = Key(b) /\ Earlier(b)' = Earlier(b) /\ (Minted(b) => Minted(b)')
      /\ FromScript'
  BY <1>10, Framed DEF RecordsInv
<1>12. \A b \in Ids : status'[b] = IF b = c THEN s ELSE status[b]
  BY <1>5 DEF RecordsInv, Whole
<1>13. \A b \in Ids : answer'[b] = IF b = c THEN {} ELSE answer[b]
  BY <1>1 DEF RecordsInv, Whole
<1>14. Whole'
  <2>1. IsFiniteSet(overlay \ EffectsOf(c))
    BY FS_Subset DEF RecordsInv, Whole
  <2>2. s = "applied" => IsFiniteSet(Rewritten(c, r.effects))
    <3>1. CASE EffectsOf(c) = {}
      BY <1>1, <1>6, <3>1, RewrittenIs, FS_EmptySet
    <3>2. CASE EffectsOf(c) # {}
      <4>1. PICK z : Rewritten(c, r.effects) = {z}
        BY <1>1, <1>6, <3>2, RewrittenIs
      <4> QED BY <4>1, FS_Singleton
    <3> QED BY <3>1, <3>2
  <2>3. IsFiniteSet(overlay')
    BY <1>5, <2>1, <2>2, FS_Union
  <2>4. status' \in [Ids -> {"unissued", "pending", "applied", "cleared", "rejected"}]
    BY <1>5 DEF RecordsInv, Whole
  <2>5. answer' = [b \in Ids |-> answer'[b]]
    BY <1>1 DEF RecordsInv, Whole
  <2> QED BY <1>1, <1>11, <2>3, <2>4, <2>5 DEF RecordsInv, Whole
<1>15. Sequenced'
  <2>1. \A b : \A a \in Earlier(b) : a \in Ids
    BY DEF Earlier
  <2> QED BY <1>1, <1>4, <1>11, <1>12, <1>13, <2>1 DEF RecordsInv, Sequenced
<1>16. AnswersMeant'
  <2>1. ASSUME NEW b \in Ids, b # c
        PROVE  \A q \in answer'[b] :
                 /\ answer'[b] = {q}
                 /\ lost' = 0 => q.result # "noop"
                 /\ q.result \in {"applied", "rejected", "noop"}
                 /\ q.result = "applied" => Named(b, q.effects)'
                 /\ q.result # "applied" => q.effects = {}
    BY <1>1, <1>10, <1>13, <2>1, StillMeant
  <2>2. answer'[c] = {}
    BY <1>13
  <2> QED BY <1>11, <2>1, <2>2 DEF AnswersMeant
<1>17. NoneMissing'
  BY <1>1, <1>11, <1>12, <1>13 DEF RecordsInv, NoneMissing
<1>18. FoundMeant'
  BY <1>1, <1>10, <1>11, StillFound DEF FoundMeant, SameCommands
<1>19. EffectsMeant'
  <2>1. SUFFICES ASSUME NEW e \in overlay'
                 PROVE  /\ e = [cmd |-> e.cmd, op |-> e.op, key |-> e.key, fields |-> e.fields]
                        /\ e.cmd \in Ids
                        /\ status'[e.cmd] \in {"pending", "applied"}
                        /\ e.fields = Fields(Predicted[cmds[e.cmd].verb], cmds[e.cmd].pay)
                        /\ e.key[1] = Written[cmds[e.cmd].verb].table
                        /\ e.key = Key(e.cmd) => e.op = Predicted[cmds[e.cmd].verb].op
                        /\ e.key # Key(e.cmd) => /\ e.op = "update" /\ cmds[e.cmd].verb = "journal.write"
                                                 /\ e.key \in DOMAIN rows /\ status'[e.cmd] = "applied"
                                                 /\ NotDeleted(e.cmd, e.key)'
    BY <1>1, <1>11 DEF EffectsMeant
  <2>2. \A x \in overlay : x.cmd \in Ids /\ status[x.cmd] # "unissued"
    BY DEF RecordsInv, EffectsMeant
  <2>3. CASE e \in overlay /\ e.cmd # c
    BY <1>10, <1>12, <2>2, <2>3, StillNotDeleted DEF RecordsInv, EffectsMeant
  <2>4. CASE e \in overlay /\ e.cmd = c /\ s = "applied" /\ e.key = Key(c)
    BY <1>12, <2>4 DEF RecordsInv, EffectsMeant
  <2>5. CASE /\ s = "applied" /\ e.cmd = c
             /\ e = [cmd |-> e.cmd, op |-> e.op, key |-> e.key, fields |-> e.fields]
             /\ e.op = "update" /\ e.key \in DOMAIN rows /\ e.key # Key(c) /\ e.key[1] = Key(c)[1]
             /\ cmds[c].verb = "journal.write" /\ NotDeleted(c, e.key)
             /\ e.fields = Fields(Predicted[cmds[c].verb], cmds[c].pay)
    <3>1. NotDeleted(c, e.key)'
      BY <1>1, <1>10, <2>5, StillNotDeleted
    <3> QED BY <1>12, <2>5, <3>1, KeyTable
  <2> QED BY <1>8, <2>3, <2>4, <2>5
<1>20. OneEach'
  <2>1. ASSUME NEW e \in overlay', NEW f \in overlay', e.cmd = c, f.cmd = c
        PROVE  e = f
    <3>1. s = "applied"
      BY <1>8, <2>1
    <3>2. e \in Rewritten(c, r.effects) /\ f \in Rewritten(c, r.effects)
      BY <1>5, <1>7, <2>1, <3>1
    <3>3. EffectsOf(c) # {}
      BY <1>1, <1>6, <3>2, RewrittenIs
    <3>4. PICK z : Rewritten(c, r.effects) = {z}
      BY <1>1, <1>6, <3>3, RewrittenIs
    <3> QED BY <3>2, <3>4
  <2> QED BY <1>8, <2>1 DEF RecordsInv, OneEach
<1>21. EffectsSettle'
  <2>1. SUFFICES ASSUME NEW e \in overlay', lost = 0, status'[e.cmd] = "applied", cmds[e.cmd].verb \in Recorded
                 PROVE  e.key \in DOMAIN rows /\ (e.op = "delete" => ~rows[e.key].live)
    BY <1>1 DEF EffectsSettle
  <2>2. CASE e \in overlay /\ e.cmd # c
    <3>1. e.cmd \in Ids
      BY <2>2 DEF RecordsInv, EffectsMeant
    <3> QED BY <1>12, <2>1, <2>2, <3>1 DEF RecordsInv, EffectsSettle
  <2>3. CASE /\ s = "applied" /\ e.cmd = c /\ e.key = Key(c) /\ e.op = Predicted[cmds[c].verb].op
             /\ (r.effects = {} \/ r.effects = {Key(c)})
    <3>1. Named(c, r.effects)
      BY <1>3, <1>5, <2>1, <2>3
    <3>2. Predicted[cmds[c].verb].op = "delete" <=> Written[cmds[c].verb].op = "delete"
      BY CmdFacts, CataloguesFit DEF RecordsInv
    <3> QED BY <2>1, <2>3, <3>1, <3>2 DEF Named
  <2>4. CASE e.op = "update" /\ e.key \in DOMAIN rows
    BY <2>4
  <2> QED BY <1>8, <2>2, <2>3, <2>4
<1>22. DeletedAlone'
  <2>1. \A a \in Ids : status'[a] # "unissued" => status[a] # "unissued"
    BY <1>1, <1>12
  <2> QED BY <1>1, <1>9, <1>11, <2>1 DEF RecordsInv, DeletedAlone
<1>23. NotesDie'
  BY <1>1, <1>9 DEF RecordsInv, NotesDie
<1>24. OwnRows'
  <2>1. \A a \in Ids : status'[a] # "unissued" => status[a] # "unissued"
    BY <1>1, <1>12
  <2> QED BY <1>10, <1>11, <2>1 DEF RecordsInv, OwnRows
<1>25. RowsSound'
  BY <1>1 DEF RecordsInv, RowsSound
<1> QED BY <1>11, <1>14, <1>15, <1>16, <1>17, <1>18, <1>19, <1>20, <1>21, <1>22, <1>23, <1>24, <1>25 DEF RecordsInv

\* A step that changes nothing.
LEMMA StutterKeeps ==
  ASSUME RecordsInv, UNCHANGED vars
  PROVE  RecordsInv'
<1>1. /\ UNCHANGED <<cmds, rows, log, found, answer, lost, status, overlay, replica>>
      /\ SameCommands /\ DeletesKept /\ RowsStay
  BY DEF vars, server, client, SameCommands, DeletesKept, RowsStay
<1>2. /\ Ids' = Ids /\ \A b : Key(b)' = Key(b) /\ Earlier(b)' = Earlier(b) /\ (Minted(b) => Minted(b)')
      /\ FromScript'
  BY <1>1, Framed DEF RecordsInv
<1>3. Whole' /\ Sequenced' /\ NoneMissing' /\ OneEach' /\ EffectsSettle' /\ DeletedAlone' /\ NotesDie'
  BY <1>1, <1>2 DEF RecordsInv, Whole, Sequenced, NoneMissing, OneEach, EffectsSettle, DeletedAlone, NotesDie
<1>4. AnswersMeant'
  BY <1>1, <1>2, StillMeant DEF AnswersMeant
<1>5. FoundMeant'
  BY <1>1, <1>2, StillFound DEF FoundMeant, SameCommands
<1>6. EffectsMeant'
  <2>1. \A e \in overlay : NotDeleted(e.cmd, e.key) => NotDeleted(e.cmd, e.key)'
    BY <1>1 DEF NotDeleted
  <2> QED BY <1>1, <1>2, <2>1 DEF RecordsInv, EffectsMeant
<1>7. OwnRows' /\ RowsSound'
  BY <1>1, <1>2 DEF RecordsInv, OwnRows, RowsSound
<1> QED BY <1>2, <1>3, <1>4, <1>5, <1>6, <1>7 DEF RecordsInv

\* Every step keeps the invariant.
LEMMA InvStep == RecordsInv /\ [Next]_vars => RecordsInv'
<1> SUFFICES ASSUME RecordsInv, [Next]_vars PROVE RecordsInv'
  OBVIOUS
<1>1. CASE UNCHANGED vars
  BY <1>1, StutterKeeps
<1>2. ASSUME NEW c \in Ids,
             \/ Execute(c) \/ Look(c) \/ Handle(c) \/ Refuse(c) \/ LoseAnswer(c)
             \/ SendAgain(c) \/ Acknowledge(c) \/ Reconcile(c)
      PROVE  RecordsInv'
  BY <1>2, ExecuteKeeps, LookKeeps, HandleKeeps, RefuseKeeps, LoseAnswerKeeps, SendAgainKeeps,
     AcknowledgeKeeps, ReconcileKeeps
<1>3. ASSUME NEW d \in Devices, SyncDown(d) PROVE RecordsInv'
  BY <1>3, SyncDownKeeps
<1> QED BY <1>1, <1>2, <1>3 DEF Next

\* The effect of an applied command is about a live row, which the last checkpoint
\* brought, or about a dead one.
LEMMA Settles == RecordsInv => RecordedSettle
<1> SUFFICES ASSUME RecordsInv, Settled, lost = 0, NEW c \in Ids, NEW e \in EffectsOf(c),
                    cmds[c].verb \in Recorded, e.key[1] \notin Stamped,
                    ~(e.key \in DOMAIN rows /\ ~rows[e.key].live)
             PROVE  Arrived(cmds[c].dev, e)
  BY DEF RecordedSettle
<1>1. e \in overlay /\ e.cmd = c
  BY DEF EffectsOf
<1>2. status[c] = "applied"
  BY <1>1 DEF Settled, RecordsInv, EffectsMeant
<1>3. e.key \in DOMAIN rows /\ (e.op = "delete" => ~rows[e.key].live)
  BY <1>1, <1>2 DEF RecordsInv, EffectsSettle
<1>4. rows[e.key].live # FALSE
  BY <1>3
<1>5. e.key \in DOMAIN Streamed /\ Streamed[e.key].live = rows[e.key].live /\ Streamed[e.key].by = 0
  <2>1. RowsSound
    BY DEF RecordsInv
  <2>2. e.key \in DOMAIN Streamed
    BY <1>3, <1>4, <2>1 DEF Streamed
  <2> QED BY <2>1, <2>2, StreamedRows
<1>6. replica[cmds[c].dev] = Streamed
  BY CmdFacts DEF RecordsInv, Settled
<1> QED BY <1>3, <1>4, <1>5, <1>6 DEF Arrived

-----------------------------------------------------------------------------
\* Of some effects there is one of the last command.
LEMMA LastOne ==
  ASSUME RecordsInv, NEW S, S \subseteq overlay, S # {}
  PROVE  \E e \in S : \A x \in S : x.cmd <= e.cmd
<1> DEFINE After(e) == {x \in S : x.cmd > e.cmd}
           C == {After(e) : e \in S}
<1>1. C \subseteq FiniteSubsetsOf(S)
  <2>1. IsFiniteSet(S)
    BY FS_Subset DEF RecordsInv, Whole
  <2>2. ASSUME NEW e \in S PROVE After(e) \in FiniteSubsetsOf(S)
    <3>1. After(e) \subseteq S
      OBVIOUS
    <3>2. IsFiniteSet(After(e))
      BY <2>1, <3>1, FS_Subset
    <3> QED BY <3>1, <3>2 DEF FiniteSubsetsOf
  <2> QED BY <2>2
<1>2. C # {}
  OBVIOUS
<1>3. PICK T \in C : \A U \in C : <<U, T>> \notin StrictSubsetOrdering(S)
  <2> HIDE DEF C
  <2> QED BY <1>1, <1>2, FS_StrictSubsetOrderingWellFounded, WFMin
<1>4. PICK e \in S : T = After(e)
  BY <1>3
<1>5. \A x \in S : x.cmd \in Nat
  BY CmdFacts DEF RecordsInv, EffectsMeant
<1>6. ASSUME NEW x \in S, x.cmd > e.cmd PROVE FALSE
  <2>1. After(x) \subseteq After(e) /\ x \in After(e) /\ x \notin After(x)
    BY <1>5, <1>6
  <2>2. <<After(x), After(e)>> \in StrictSubsetOrdering(S)
    <3>1. After(x) \subseteq S /\ After(e) \subseteq S
      OBVIOUS
    <3> HIDE DEF After
    <3> QED BY <2>1, <3>1 DEF StrictSubsetOrdering
  <2> QED BY <1>3, <1>4, <2>2
<1> QED BY <1>5, <1>6

\* A mapped row whose columns can be read, and which has those that must be, fits.
LEMMA MappedFits ==
  ASSUME NEW t \in DOMAIN Tables, NEW cols, \A c \in DOMAIN cols : Fills(t, c, cols[c]),
         \A c \in Schemas[t].filled : c \in DOMAIN cols \/ HasFallback(t, c)
  PROVE  Fits(t, Mapped(t, cols))
<1> DEFINE row == Mapped(t, cols)
<1>1. /\ Columns(t) = DOMAIN Tables[t]
      /\ \A c \in DOMAIN Schemas[t].oneOf : c \in DOMAIN Tables[t]
  BY EntitiesMirrorTables
<1>2. /\ DOMAIN row = DOMAIN Tables[t]
      /\ \A c \in DOMAIN Tables[t] :
           \/ c \in DOMAIN cols /\ cols[c] # Null /\ row[c] = cols[c]
           \/ (c \notin DOMAIN cols \/ cols[c] = Null) /\ HasFallback(t, c) /\ row[c] = Fallbacks[t][c]
           \/ (c \notin DOMAIN cols \/ cols[c] = Null) /\ ~HasFallback(t, c) /\ row[c] = Null
  BY DEF Mapped, HasFallback
<1>3. \A c \in DOMAIN Tables[t] : HasFallback(t, c) => Fills(t, c, Fallbacks[t][c]) /\ Fallbacks[t][c] # Null
  BY MappersComplete
<1> HIDE DEF row
<1>4. ASSUME NEW c \in Schemas[t].filled PROVE row[c] # Null /\ row[c] # Required
  <2>1. c \in DOMAIN Tables[t]
    BY <1>1 DEF Columns
  <2>2. c \in DOMAIN cols /\ cols[c] = Null => HasFallback(t, c)
    BY <1>4 DEF Fills
  <2> QED BY <1>2, <1>3, <2>1, <2>2 DEF Fills
<1>5. ASSUME NEW c \in DOMAIN Schemas[t].oneOf, Literal(row[c])
      PROVE  row[c] \in Schemas[t].oneOf[c] \cup {Null}
  BY <1>1, <1>2, <1>3, <1>5 DEF Fills
<1> QED BY <1>1, <1>2, <1>4, <1>5 DEF Fits, row

\* An effect names columns with values that can be read; a create names all that must be.
LEMMA EffectFills ==
  ASSUME RecordsInv, NEW e \in overlay
  PROVE  /\ e.key[1] \in DOMAIN Tables
         /\ \A f \in DOMAIN e.fields : Fills(e.key[1], f, e.fields[f])
         /\ e.op = "insert" \/ Key(e.cmd) # e.key =>
              \A c \in Schemas[e.key[1]].filled : c \in DOMAIN e.fields \/ HasFallback(e.key[1], c)
<1> DEFINE v == cmds[e.cmd].verb
           pay == cmds[e.cmd].pay
           ch == Predicted[v]
<1>1. e.cmd \in Ids /\ e.fields = Fields(ch, pay) /\ e.key[1] = Written[v].table
  BY DEF RecordsInv, EffectsMeant
<1>2. v \in Verbs /\ Accepts(v, pay)
  BY <1>1, CmdFacts DEF RecordsInv
<1>3. /\ Written[v].table \in DOMAIN Tables /\ ch.table = Written[v].table /\ Suits(v, ch)
      /\ ch.op = "insert" => \A c \in Schemas[ch.table].filled : Names(v, ch, c) \/ HasFallback(ch.table, c)
  BY <1>2, CataloguesFit
<1> HIDE DEF v, ch, pay
<1>4. \A f \in DOMAIN e.fields : Fills(e.key[1], f, e.fields[f])
  BY <1>1, <1>2, <1>3, FieldsFill
<1>5. e.op = "insert" \/ Key(e.cmd) # e.key => ch.op = "insert"
  BY RecordersFit DEF RecordsInv, EffectsMeant, ch, v
<1>6. ASSUME ch.op = "insert", NEW c \in Schemas[e.key[1]].filled
      PROVE  c \in DOMAIN e.fields \/ HasFallback(e.key[1], c)
  BY <1>1, <1>2, <1>3, <1>6, NamesNamed
<1> QED BY <1>1, <1>3, <1>4, <1>5, <1>6

\* Of a device's effects on a row those that count, and what they lie on.
Deletes(d, k) == {e \in Pending(d, k) : e.op = "delete"}
\* The effects later than every one of them.
Counted(d, k) == {e \in Pending(d, k) : \A x \in Deletes(d, k) : e.cmd > x.cmd}
\* The row they lie on.
Base(d, k) == IF Deletes(d, k) = {} THEN Canonical(d, k) ELSE NoRow

\* A row has the columns of both, each with the value of one.
LEMMA MergedIs ==
  ASSUME RecordsInv, NEW d \in Devices, NEW k
  PROVE  /\ Merged(d, k).here <=> Base(d, k).here \/ Counted(d, k) # {}
         /\ DOMAIN Merged(d, k).cols = DOMAIN Base(d, k).cols \cup UNION {DOMAIN e.fields : e \in Counted(d, k)}
         /\ \A f \in DOMAIN Merged(d, k).cols :
              \/ f \in DOMAIN Base(d, k).cols /\ Merged(d, k).cols[f] = Base(d, k).cols[f]
              \/ \E e \in Counted(d, k) : f \in DOMAIN e.fields /\ Merged(d, k).cols[f] = e.fields[f]
<1> DEFINE counted == Counted(d, k)
           base == Base(d, k)
           by(f) == {e \in counted : f \in DOMAIN e.fields}
           last(S) == CHOOSE e \in S : \A x \in S : x.cmd <= e.cmd
           names == DOMAIN base.cols \cup UNION {DOMAIN e.fields : e \in counted}
           cols == [f \in names |-> IF by(f) = {} THEN base.cols[f] ELSE last(by(f)).fields[f]]
<1>1. Merged(d, k) = [here |-> base.here \/ counted # {}, live |-> base.live, cols |-> cols]
  BY DEF Merged, Counted, Base, Deletes
<1>2. Merged(d, k).cols = cols /\ (Merged(d, k).here <=> base.here \/ counted # {})
  <2> HIDE DEF cols, names, by, last
  <2>1. PICK h \in BOOLEAN : h <=> base.here \/ counted # {}
    OBVIOUS
  <2>2. Merged(d, k) = [here |-> h, live |-> base.live, cols |-> cols]
    BY <1>1, <2>1
  <2>3. Merged(d, k).cols = cols /\ Merged(d, k).here = h
    BY ONLY <2>2
  <2> QED BY <2>1, <2>3
<1>3. counted \subseteq overlay
  BY DEF Pending, Counted
<1>4. ASSUME NEW f \in names
      PROVE  \/ f \in DOMAIN base.cols /\ cols[f] = base.cols[f]
             \/ \E e \in counted : f \in DOMAIN e.fields /\ cols[f] = e.fields[f]
  <2>1. CASE by(f) = {}
    BY <1>4, <2>1
  <2>2. CASE by(f) # {}
    <3>1. by(f) \subseteq overlay
      BY <1>3
    <3>2. \E e \in by(f) : \A x \in by(f) : x.cmd <= e.cmd
      <4> HIDE DEF by
      <4> QED BY <2>2, <3>1, LastOne
    <3>3. last(by(f)) \in by(f)
      <4> HIDE DEF by
      <4> QED BY <3>2
    <3>4. cols[f] = last(by(f)).fields[f]
      BY <1>4, <2>2
    <3> HIDE DEF last, cols
    <3> QED BY <3>3, <3>4
  <2> QED BY <2>1, <2>2
<1>5. DOMAIN cols = names
  OBVIOUS
<1> HIDE DEF cols
<1> QED BY <1>2, <1>4, <1>5

\* A row on the screen has the columns of the replica's or of a whole create, each with a
\* value that can be read, and the mappers add the rest.
LEMMA Shapes == RecordsInv => RowsFit
<1> SUFFICES ASSUME RecordsInv, NEW d \in Devices, NEW k, Merged(d, k).here, Known(d, k)
             PROVE  Fits(k[1], Mapped(k[1], Merged(d, k).cols))
  BY DEF RowsFit
<1> DEFINE deletes == Deletes(d, k)
           counted == Counted(d, k)
           base == Base(d, k)
           cols == Merged(d, k).cols
<1>1. /\ Merged(d, k).here <=> base.here \/ counted # {}
      /\ DOMAIN cols = DOMAIN base.cols \cup UNION {DOMAIN e.fields : e \in counted}
      /\ \A f \in DOMAIN cols :
           \/ f \in DOMAIN base.cols /\ cols[f] = base.cols[f]
           \/ \E e \in counted : f \in DOMAIN e.fields /\ cols[f] = e.fields[f]
  BY MergedIs
<1>2. deletes = {}
  <2>1. SUFFICES ASSUME NEW x \in deletes PROVE FALSE
    OBVIOUS
  <2>2. counted # {}
    BY <1>1, <2>1 DEF Base, NoRow
  <2>3. PICK e \in counted : TRUE
    BY <2>2
  <2> QED BY <2>1, <2>3, NothingAfterDelete DEF Pending, Counted, Deletes
<1>3. counted = Pending(d, k) /\ base = Canonical(d, k)
  BY <1>2 DEF Counted, Base
<1> HIDE DEF deletes, counted, base, cols
<1>4. \A e \in counted : e \in overlay /\ e.key = k
  BY <1>3 DEF Pending
<1>5. k \in DOMAIN replica[d] => k[1] \in DOMAIN Tables /\ base.cols = replica[d][k].cols /\ IsRow(k[1], base.cols)
  BY <1>3 DEF RecordsInv, RowsSound, IsRow, Canonical
<1>6. k \notin DOMAIN replica[d] => DOMAIN base.cols = {}
  BY <1>3 DEF Canonical, NoRow
<1>7. \A f \in DOMAIN cols : Fills(k[1], f, cols[f])
  <2>1. \A f \in DOMAIN base.cols : Fills(k[1], f, base.cols[f])
    BY <1>5, <1>6 DEF IsRow
  <2>2. \A e \in counted : \A f \in DOMAIN e.fields : Fills(k[1], f, e.fields[f])
    BY <1>4, EffectFills
  <2> QED BY <1>1, <2>1, <2>2
<1>8. k[1] \in DOMAIN Tables /\ \A c \in Schemas[k[1]].filled : c \in DOMAIN cols \/ HasFallback(k[1], c)
  <2>1. CASE k \in DOMAIN replica[d]
    <3>1. k[1] \in DOMAIN Tables /\ DeviceTables[k[1]] \subseteq DOMAIN base.cols
      BY <1>5, <2>1 DEF IsRow
    <3> QED BY <1>1, <3>1, MappersComplete
  <2>2. CASE \E e \in Pending(d, k) : e.op = "insert" \/ Key(e.cmd) # k
    <3>1. PICK e \in counted : e.op = "insert" \/ Key(e.cmd) # k
      BY <1>3, <2>2
    <3>2. /\ k[1] \in DOMAIN Tables
          /\ \A c \in Schemas[k[1]].filled : c \in DOMAIN e.fields \/ HasFallback(k[1], c)
      BY <1>4, <3>1, EffectFills
    <3>3. DOMAIN e.fields \subseteq DOMAIN cols
      BY <1>1
    <3> QED BY <3>2, <3>3
  <2> QED BY <2>1, <2>2 DEF Known
<1>9. Fits(k[1], Mapped(k[1], cols))
  BY <1>7, <1>8, MappedFits
<1> QED BY <1>9 DEF cols

\* The invariant holds of every script: the overlay of each device says of each of its
\* commands what the command does to its row, the answers name rows the server has, and
\* what devices have deleted is not named again.
THEOREM RecordsInvHolds == Spec => []RecordsInv
<1>1. Init => RecordsInv
  BY InvInit
<1>2. RecordsInv /\ [Next]_vars => RecordsInv'
  BY InvStep
<1> QED BY <1>1, <1>2, PTL DEF Spec

\* An applied command whose handler names its row leaves no effect waiting when all is
\* said, for any commands of any devices, in any order of arrival: the row has come, or
\* is deleted.
THEOREM AppliedSettle == Spec => []RecordedSettle
BY RecordsInvHolds, Settles, PTL

\* Every row the screens hand to the selectors has the shape these are written for, at
\* every moment and for any commands their schemas accept.
THEOREM RowsReadable == Spec => []RowsFit
BY RecordsInvHolds, Shapes, PTL

-----------------------------------------------------------------------------
(* Planning: the plan, and the verb that predicts several rows.               *)

\* Every row of B is a row of schedule_blocks.
RowsOK(B) == \A b \in DOMAIN B : BlockRow(B[b])

\* The plan holds rows of schedule_blocks, of which none that is committed keeps
\* anything of the suggestion it was.
PlanOK == RowsOK(blocks)

\* A block a user makes is a row.
LEMMA BlockIs ==
  ASSUME NEW t, NEW s, NEW e, NEW a \in BOOLEAN
  PROVE  BlockRow(Block(t, s, e, a))
BY DEF Block, BlockRow

\* So is a block a job suggests.
LEMMA SuggestionIs ==
  ASSUME NEW t, NEW s, NEW e, NEW b, NEW r,
         NEW why \in {"nightly_optimization", "past_due_reschedule"}
  PROVE  BlockRow(Suggestion(t, s, e, why, b, r))
BY DEF Suggestion, Block, BlockRow

\* A row with a flag changed is a row.
LEMMA FlagIs ==
  ASSUME NEW r, BlockRow(r)
  PROVE  /\ BlockRow([r EXCEPT !.live = FALSE]) /\ ~[r EXCEPT !.live = FALSE].live
         /\ BlockRow([r EXCEPT !.anchored = ~r.anchored])
<1>1. BlockRow([r EXCEPT !.live = FALSE])
  BY Z3 DEF BlockRow
<1>2. [r EXCEPT !.live = FALSE].live = FALSE
  BY DEF BlockRow
<1>3. CASE r.anchored
  BY <1>1, <1>2, <1>3 DEF BlockRow
<1>4. CASE ~r.anchored
  BY <1>1, <1>2, <1>4 DEF BlockRow
<1>. QED BY <1>3, <1>4 DEF BlockRow

\* A suggestion that is not superseded is a row when it is committed, and loses
\* nothing by being called not superseded.
LEMMA SettledIs ==
  ASSUME NEW r, BlockRow(r), ~r.superseded
  PROVE  BlockRow(AsCommitted(r)) /\ [AsCommitted(r) EXCEPT !.superseded = FALSE] = AsCommitted(r)
<1>. DEFINE s == AsCommitted(r)
<1>1. /\ DOMAIN s = DOMAIN r
      /\ s.status = "committed" /\ s.reason = "none" /\ s.batch = None /\ s.replaces = None
      /\ s.anchored = r.anchored /\ s.superseded = r.superseded /\ s.live = r.live
  BY DEF BlockRow, AsCommitted
<1>2. s = [c \in DOMAIN s |-> s[c]]
  BY DEF AsCommitted
<1>3. s.superseded = FALSE
  BY <1>1 DEF BlockRow
<1>. HIDE DEF s
<1>4. BlockRow(s)
  BY <1>1 DEF BlockRow
<1>5. [s EXCEPT !.superseded = FALSE] = s
  BY <1>2, <1>3
<1>. QED BY <1>4, <1>5 DEF s

\* New rows beside old ones.
LEMMA MoreRows ==
  ASSUME NEW A, NEW B, RowsOK(A), RowsOK(B)
  PROVE  RowsOK(Added(A, B))
BY DEF RowsOK, Added

\* The accept transaction makes rows of rows.
LEMMA AcceptedRows ==
  ASSUME NEW B, RowsOK(B), NEW b \in Suggestions(B)
  PROVE  RowsOK(Accepted(B, b))
<1>1. ASSUME NEW x \in DOMAIN B PROVE BlockRow(Accepted(B, b)[x])
  <2>1. BlockRow(B[x])
    BY DEF RowsOK
  <2>2. CASE x = B[b].replaces
    <3>1. Accepted(B, b)[x] = [B[x] EXCEPT !.live = FALSE]
      BY <2>2 DEF Accepted
    <3>. QED BY <2>1, <3>1, FlagIs
  <2>3. CASE x # B[b].replaces /\ x = b
    <3>1. ~B[b].superseded
      BY DEF Suggestions
    <3>2. Accepted(B, b)[x] = AsCommitted(B[x])
      BY <2>3 DEF Accepted, Rivals
    <3>. QED BY <2>1, <2>3, <3>1, <3>2, SettledIs
  <2>4. CASE x # B[b].replaces /\ x # b /\ x \in Rivals(B, b)
    <3>1. B[x].status = "suggested"
      BY <2>4 DEF Rivals, Suggestions
    <3>. QED BY <2>1, <2>4, <3>1 DEF Accepted, BlockRow
  <2>5. CASE x # B[b].replaces /\ x # b /\ x \notin Rivals(B, b)
    BY <2>1, <2>5 DEF Accepted, Rivals
  <2>. QED BY <2>2, <2>3, <2>4, <2>5
<1>. QED BY <1>1 DEF RowsOK, Accepted

\* Every step keeps the rows.
LEMMA PlanStep ==
  ASSUME PlanOK, [PlanNext]_planVars
  PROVE  PlanOK'
<1>1. ASSUME NEW t \in DOMAIN Tasks, NEW s \in Spans, CreateBlock(t, s) PROVE PlanOK'
  <2>. DEFINE new == [b \in {lastId'} |-> Block(t, s.start, s.end, FALSE)]
  <2>1. RowsOK(new)
    BY BlockIs DEF RowsOK
  <2>2. blocks' = Added(new, blocks)
    BY <1>1 DEF CreateBlock
  <2>. HIDE DEF new
  <2>. QED BY <2>1, <2>2, MoreRows DEF PlanOK
<1>2. ASSUME NEW b \in DOMAIN blocks, NEW s \in Spans, MoveBlock(b, s) PROVE PlanOK'
  BY <1>2 DEF PlanOK, RowsOK, MoveBlock, BlockRow
<1>3. ASSUME NEW b \in DOMAIN blocks, SetAnchor(b) PROVE PlanOK'
  <2>1. blocks' = [blocks EXCEPT ![b] = [blocks[b] EXCEPT !.anchored = ~blocks[b].anchored]]
    BY <1>3 DEF SetAnchor
  <2>2. BlockRow([blocks[b] EXCEPT !.anchored = ~blocks[b].anchored])
    BY FlagIs DEF PlanOK, RowsOK
  <2>. QED BY <2>1, <2>2 DEF PlanOK, RowsOK
<1>4. ASSUME NEW b \in DOMAIN blocks, DeleteBlock(b) PROVE PlanOK'
  <2>1. blocks' = [blocks EXCEPT ![b] = [blocks[b] EXCEPT !.live = FALSE]]
    BY <1>4 DEF DeleteBlock
  <2>2. BlockRow([blocks[b] EXCEPT !.live = FALSE])
    BY FlagIs DEF PlanOK, RowsOK
  <2>. QED BY <2>1, <2>2 DEF PlanOK, RowsOK
<1>5. ASSUME NEW b \in DOMAIN blocks, AcceptSuggestion(b) PROVE PlanOK'
  BY <1>5, AcceptedRows DEF PlanOK, AcceptSuggestion, CanAccept
<1>6. CASE OptimizeWrite
  <2>1. PICK input \in optimize : \E plan \in OptimizedPlans(input) :
          LET new  == SetToSeq(Proposals(plan, input))
              kept == [b \in DOMAIN blocks \ Outdated(blocks) |-> blocks[b]]
              batch == IF new = << >> THEN lastBatch ELSE lastBatch + 1
              made == [b \in lastId + 1 .. lastId + Len(new) |->
                         LET p == new[b - lastId] IN
                         Suggestion(p.task, p.start, p.end, "nightly_optimization", batch,
                                    Replaceable(input, p.task))]
          IN  blocks' = Added(made, kept)
    BY <1>6 DEF OptimizeWrite
  <2>5. PICK plan \in OptimizedPlans(input) :
          LET new  == SetToSeq(Proposals(plan, input))
              kept == [b \in DOMAIN blocks \ Outdated(blocks) |-> blocks[b]]
              batch == IF new = << >> THEN lastBatch ELSE lastBatch + 1
              made == [b \in lastId + 1 .. lastId + Len(new) |->
                         LET p == new[b - lastId] IN
                         Suggestion(p.task, p.start, p.end, "nightly_optimization", batch,
                                    Replaceable(input, p.task))]
          IN  blocks' = Added(made, kept)
    BY <2>1
  <2>. DEFINE new  == SetToSeq(Proposals(plan, input))
              kept == [b \in DOMAIN blocks \ Outdated(blocks) |-> blocks[b]]
              batch == IF new = << >> THEN lastBatch ELSE lastBatch + 1
              made == [b \in lastId + 1 .. lastId + Len(new) |->
                         Suggestion(new[b - lastId].task, new[b - lastId].start, new[b - lastId].end,
                                    "nightly_optimization", batch, Replaceable(input, new[b - lastId].task))]
  <2>2. RowsOK(kept)
    BY DEF PlanOK, RowsOK
  <2>3. RowsOK(made)
    <3>. HIDE DEF new, batch
    <3>. QED BY SuggestionIs DEF RowsOK
  <2>4. blocks' = Added(made, kept)
    BY <2>5
  <2>. HIDE DEF made, kept
  <2>. QED BY <2>2, <2>3, <2>4, MoreRows DEF PlanOK
<1>7. CASE ScanWrite
  <2>1. PICK s \in scan : \E input \in s.input :
          LET from(t) == [input EXCEPT !.tasks = {IF x.id = t THEN [x EXCEPT !.notBefore = s.now] ELSE x : x \in @}]
              place(t) == RescheduleTask(t, from(t)).placed
              new == SetToSeq({t \in s.late : t \in DOMAIN place(t)})
              made == [b \in lastId + 1 .. lastId + Len(new) |->
                         LET t == new[b - lastId] IN
                         Suggestion(t, place(t)[t].start, place(t)[t].end, "past_due_reschedule", None, None)]
          IN  blocks' = Added(made, blocks)
    BY <1>7 DEF ScanWrite
  <2>4. PICK input \in s.input :
          LET from(t) == [input EXCEPT !.tasks = {IF x.id = t THEN [x EXCEPT !.notBefore = s.now] ELSE x : x \in @}]
              place(t) == RescheduleTask(t, from(t)).placed
              new == SetToSeq({t \in s.late : t \in DOMAIN place(t)})
              made == [b \in lastId + 1 .. lastId + Len(new) |->
                         LET t == new[b - lastId] IN
                         Suggestion(t, place(t)[t].start, place(t)[t].end, "past_due_reschedule", None, None)]
          IN  blocks' = Added(made, blocks)
    BY <2>1
  <2>. DEFINE from(t) == [input EXCEPT !.tasks = {IF x.id = t THEN [x EXCEPT !.notBefore = s.now] ELSE x : x \in @}]
              place(t) == RescheduleTask(t, from(t)).placed
              new == SetToSeq({t \in s.late : t \in DOMAIN place(t)})
              made == [b \in lastId + 1 .. lastId + Len(new) |->
                         Suggestion(new[b - lastId], place(new[b - lastId])[new[b - lastId]].start,
                                    place(new[b - lastId])[new[b - lastId]].end,
                                    "past_due_reschedule", None, None)]
  <2>2. blocks' = Added(made, blocks)
    BY <2>4
  <2>3. RowsOK(made)
    <3>. HIDE DEF new, place
    <3>. QED BY SuggestionIs DEF RowsOK
  <2>. HIDE DEF made
  <2>. QED BY <2>2, <2>3, MoreRows DEF PlanOK
<1>8. CASE UNCHANGED blocks
  BY <1>8 DEF PlanOK
<1>9. ASSUME NEW t \in DOMAIN Tasks, CheckOff(t) PROVE UNCHANGED blocks
  BY <1>9 DEF CheckOff
<1>10. OptimizeRead \/ ScanLook \/ ScanLoad \/ Tick \/ UNCHANGED planVars => UNCHANGED blocks
  BY DEF OptimizeRead, ScanLook, ScanLoad, Tick, planVars
<1>. QED BY <1>1, <1>2, <1>3, <1>4, <1>5, <1>6, <1>7, <1>8, <1>9, <1>10 DEF PlanNext, RejectSuggestion

\* What a suggestion carries goes when it is committed, in every plan.
THEOREM RowsKept == PlanSpec => []PlanOK
<1>1. PlanInit => PlanOK
  BY PlanningAssumption DEF PlanInit, PlanOK, RowsOK
<1>. QED BY <1>1, PlanStep, PTL DEF PlanSpec

\* The live blocks after the server's accept transaction and after the device's
\* own are the same, column for column.
LEMMA SameAccept ==
  ASSUME NEW B, RowsOK(B), NEW b \in Suggestions(B)
  PROVE  /\ Live(Accepted(B, b)) = Live(ShownAccepted(B, b))
         /\ \A x \in Live(Accepted(B, b)) : Accepted(B, b)[x] = ShownAccepted(B, b)[x]
<1>. DEFINE S == Accepted(B, b)
            D == ShownAccepted(B, b)
            clashes == {o \in DOMAIN B \ {b} : /\ B[o].task = B[b].task /\ B[o].status = "suggested"
                                               /\ B[o].live /\ ~B[o].superseded
                                               /\ B[o].start < B[b].end /\ B[b].start < B[o].end}
<1>1. DOMAIN S = DOMAIN B /\ DOMAIN D = DOMAIN B \ {B[b].replaces}
  BY DEF Accepted, ShownAccepted
<1>2. Rivals(B, b) = clashes
  BY DEF Rivals, Suggestions, Live, Overlap
<1>3. ASSUME NEW x \in DOMAIN B, x = B[b].replaces PROVE ~S[x].live
  <2>1. BlockRow(B[x])
    BY DEF RowsOK
  <2>2. S[x] = [B[x] EXCEPT !.live = FALSE]
    BY <1>3 DEF Accepted
  <2>. QED BY <2>1, <2>2, FlagIs
<1>4. ASSUME NEW x \in DOMAIN B, x # B[b].replaces PROVE S[x] = D[x]
  <2>1. BlockRow(B[x])
    BY DEF RowsOK
  <2>2. CASE x = b
    <3>1. B[b].superseded = FALSE
      BY <2>1, <2>2 DEF Suggestions, BlockRow
    <3>2. S[x] = AsCommitted(B[b])
      BY <1>4, <2>2 DEF Accepted, Rivals
    <3>3. D[x] = [AsCommitted(B[b]) EXCEPT !.superseded = FALSE]
      BY <1>4, <2>2 DEF ShownAccepted
    <3>. QED BY <2>1, <2>2, <3>1, <3>2, <3>3, SettledIs
  <2>3. CASE x # b /\ x \in clashes
    <3>1. S[x] = [B[x] EXCEPT !.superseded = TRUE]
      BY <1>2, <1>4, <2>3 DEF Accepted
    <3>2. D[x] = [B[x] EXCEPT !.superseded = TRUE]
      BY <1>4, <2>3 DEF ShownAccepted
    <3>. QED BY <3>1, <3>2
  <2>4. CASE x # b /\ x \notin clashes
    <3>1. S[x] = B[x]
      BY <1>2, <1>4, <2>4 DEF Accepted
    <3>2. D[x] = B[x]
      BY <1>4, <2>4 DEF ShownAccepted
    <3>. QED BY <3>1, <3>2
  <2>. QED BY <2>2, <2>3, <2>4
<1>. HIDE DEF S, D
<1>5. Live(S) = Live(D)
  BY <1>1, <1>3, <1>4 DEF Live
<1>6. \A x \in Live(S) : S[x] = D[x]
  BY <1>1, <1>3, <1>4 DEF Live
<1>. QED BY <1>5, <1>6 DEF S, D

\* Accepting a suggestion shows at once what the server will answer.
THEOREM AcceptMirrored == PlanSpec => []AcceptMirrors
<1>1. PlanOK => AcceptMirrors
  BY SameAccept DEF PlanOK, AcceptMirrors
<1>. QED BY <1>1, RowsKept, PTL
=============================================================================
