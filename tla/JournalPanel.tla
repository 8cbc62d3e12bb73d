---------------------------- MODULE JournalPanel ----------------------------
(***************************************************************************)
(* The day panel of the journal: an editor that saves behind a debounce, a    *)
(* lock that is shown before it is stored, reads that lag the local database,  *)
(* and the counted subscription that brings the day's month to the device.    *)
(*                                                                          *)
(* Between the panel and the account lie the commands dispatched, the queue     *)
(* with its overlay effects and the server; an upload and its answer are one     *)
(* step here (CommandSync and Records take them apart), and so are a download   *)
(* and the reconciliation of the overlay with it.  Every day stands for its      *)
(* month, so a month is held by the panel, by the agenda, or by both.            *)
(***************************************************************************)
EXTENDS Naturals, Sequences, SequencesExt, FiniteSets

CONSTANTS
  Texts,     \* what a note may say
  Blank,     \* a text isJournalContentEmpty holds of
  Visits     \* what happens to the panel: [notes |-> the notes before, may |-> budgets]

Note(id, content, locked) == [id |-> id, content |-> content, locked |-> locked]

\* A note that is stored says something.
Notes == [id : Nat, content : Texts \ {Blank}, locked : BOOLEAN]

ASSUME JournalPanelAssumption ==
  /\ Blank \in Texts
  /\ \A v \in Visits :
       /\ IsFiniteSet(DOMAIN v.notes) /\ \A b \in DOMAIN v.may : v.may[b] \in Nat
       /\ \A d \in DOMAIN v.notes :
            v.notes[d] \subseteq Notes /\ \A m, n \in v.notes[d] : m = n

Budgets == {"open", "focus", "type", "toggle", "remove", "other", "fail", "agenda", "reload"}

VARIABLES
  server,     \* the live note of each day: {} or {[id, content, locked]}
  buried,     \* the ids of the deleted notes of each day
  replica,    \* the notes the device has
  overlay,    \* the queue and its effects, a set of commands, see Command
  dispatched, \* commands on their way into the queue
  sent,       \* how many commands there are, and so the last HLC
  minted,     \* how many ids there are
  cache,      \* ROWS_CACHE: what a day was last read as, {} or {a note or none}
  lockCache,  \* prisms.journal.locked: {} or {a lock}
  panel,      \* the panel, see Opened
  held,       \* the manager's map: {} or {[count, sub]}
  subs,       \* its subscriptions, in the order they were asked: [day, state]
  agenda,     \* the days whose months the agenda holds
  left,       \* bound: how often each of Budgets may still happen
  typed,      \* history: the last text typed, {} or {[day, content]}
  disturbed,  \* history: days the panel's own text is not promised to
  guarded     \* history: days whose note was locked, and not opened since

account == <<server, buried>>
queue == <<replica, overlay, dispatched, sent, minted>>
streams == <<held, subs, agenda>>
history == <<typed, disturbed, guarded>>
vars == <<account, queue, cache, lockCache, panel, streams, left, history>>

Days == DOMAIN server

Only(S) == CHOOSE x \in S : TRUE

\* A command of the panel; its place in the order of HLCs is known when it is sent.
Command(verb, id, content, locked) ==
  [verb |-> verb, id |-> id, day |-> panel.day, content |-> content, locked |-> locked,
   visit |-> panel.visit, acked |-> FALSE, hlc |-> 0]

On(d, ops) == {op \in ops : op.day = d}

Of(verb, ops) == {op \in ops : op.verb = verb}

Named(id, ops) == {op \in ops : op.id = id}

Latest(ops) == CHOOSE op \in ops : \A x \in ops : x.hlc <= op.hlc
Oldest(ops) == CHOOSE op \in ops : \A x \in ops : x.hlc >= op.hlc

Ids(row) == {r.id : r \in row}

-----------------------------------------------------------------------------
(* What the panel reads.                                                      *)

\* The effects on a row since it was deleted last.
Since(ops) == {op \in ops : \A gone \in Of("delete", ops) : gone.hlc < op.hlc}

\* A row under its effects, each column as the last one left it.  A row that no
\* write has given a month is not shown.
Under(id, row, ops) ==
  LET mine   == Named(id, ops)
      base   == {r \in row : r.id = id /\ Of("delete", mine) = {}}
      writes == Of("write", Since(mine))
      locks  == Of("lock", Since(mine))
  IN  IF base \cup writes = {} THEN {}
      ELSE {Note(id, IF writes = {} THEN Only(base).content ELSE Latest(writes).content,
                     IF locks = {} THEN \E r \in base : r.locked ELSE Latest(locks).locked)}

\* A day's rows and its effects give one row for each id: the replica's first.
Merged(row, ops) ==
  LET Shown(ids) == {id \in ids : Under(id, row, ops) # {}}
      made       == {op \in ops : op.id \in Shown(Ids(ops))}
  IN  IF Shown(Ids(row)) # {} THEN Under(Only(Shown(Ids(row))), row, ops)
      ELSE IF made # {} THEN Under(Oldest(made).id, row, ops) ELSE {}

\* useJournalDay: the rows of this mount, else those of an earlier one.
Entry(p) ==
  IF p.rows = {} THEN UNION cache[p.day]
  ELSE Merged(Only(p.rows), On(p.day, UNION p.ops))

IsLoading(p) == p.rows = {} /\ cache[p.day] = {}

ExistingId(p) == {e.id : e \in Entry(p)}

SyncedLocked(p) == \E e \in Entry(p) : e.locked
SettledLocked(p) == \E e \in Entry(p) : e.content # Blank /\ e.locked

\* The lock shown: what was asked for, else what is remembered of a day not read
\* yet, else what the row says.
Preview(p) ==
  IF p.intent # {} THEN Only(p.intent)
  ELSE IF Entry(p) = {} /\ p.hint /\ p.remembered # {} THEN Only(p.remembered)
  ELSE SettledLocked(p)

HasNote(p) == ExistingId(p) # {} /\ p.draft # Blank

Draft(E) == IF E = {} THEN Blank ELSE Only(E).content

\* The effects of a render: the text that came in, unless the user has edited;
\* the intent its row agrees with; the editor's text, unless it has the focus.
Rendered(p, was) ==
  LET now   == Entry(p)
      draft == IF ~p.dirty /\ {e.content : e \in now} # {e.content : e \in was}
               THEN Draft(now) ELSE p.draft
  IN  [p EXCEPT !.draft = draft,
                !.intent = IF p.intent = {SyncedLocked(p)} THEN {} ELSE @,
                !.editor = IF p.focused \/ draft = panel.draft THEN @ ELSE draft]

\* The render p: what it leaves in ROWS_CACHE and remembers of the lock.
Render(p) ==
  LET now == Rendered(p, IF panel.open THEN Entry(panel) ELSE Entry(p)) IN
  /\ panel' = now
  /\ cache' = IF p.rows = {} THEN cache ELSE [cache EXCEPT ![p.day] = {Entry(p)}]
  /\ lockCache' =
       LET known == IF p.intent # {} THEN p.intent
                    ELSE IF Entry(p) # {} THEN {SettledLocked(p)} ELSE lockCache[p.day]
       IN  [lockCache EXCEPT ![p.day] = known]

-----------------------------------------------------------------------------
(* What the panel writes.                                                     *)

\* Mutant: the lock is not asked again when the save runs.
WriteAnyway(p, row, content) ==
  IF content = Blank
  THEN IF row = {} THEN << >> ELSE <<Command("delete", Only(row), Blank, FALSE)>>
  ELSE <<Command("write", IF row = {} THEN minted + 1 ELSE Only(row), content, FALSE)>>

\* write: nothing of a locked note; a blank text takes the row away, if any.
Write(p, row, content) ==
  IF Preview(p) THEN << >>
  ELSE IF content = Blank
       THEN IF row = {} THEN << >> ELSE <<Command("delete", Only(row), Blank, FALSE)>>
       ELSE <<Command("write", IF row = {} THEN minted + 1 ELSE Only(row), content, FALSE)>>

\* Mutant: the debounce is only cleared.
FlushedNothing(p) == << >>

\* flushPending: the debounce, armed or fired, counts until it is cleared.
Flushed(p) == IF p.timer = "none" THEN << >> ELSE Write(p, ExistingId(p), p.draft)

Dispatch(cmds) ==
  /\ dispatched' = dispatched \cup {[cmds[i] EXCEPT !.hlc = sent + i] : i \in DOMAIN cmds}
  /\ sent' = sent + Len(cmds)
  /\ minted' = IF \E i \in DOMAIN cmds : cmds[i].id > minted THEN minted + 1 ELSE minted

Closed == [open |-> FALSE, day |-> 0, visit |-> 0, rows |-> {},
           ops |-> {}, draft |-> Blank, editor |-> Blank, dirty |-> FALSE, timer |-> "none",
           save |-> [content |-> Blank, row |-> {}], focused |-> FALSE, intent |-> {},
           busy |-> FALSE, hint |-> FALSE, remembered |-> {}]

Opened(d) ==
  [Closed EXCEPT !.open = TRUE, !.day = d, !.visit = left["open"], !.draft = Draft(UNION cache[d]),
                 !.editor = Draft(UNION cache[d]), !.hint = lockCache[d] # {}, !.remembered = lockCache[d]]

Init ==
  \E v \in Visits :
    /\ server = v.notes
    /\ buried = [d \in DOMAIN v.notes |-> {}]
    /\ replica = [d \in DOMAIN v.notes |-> {}]
    /\ overlay = {}
    /\ dispatched = {}
    /\ sent = 0
    /\ minted = Cardinality(UNION Range(v.notes))
    /\ cache = [d \in DOMAIN v.notes |-> {}]
    /\ lockCache = [d \in DOMAIN v.notes |-> {}]
    /\ panel = Closed
    /\ held = [d \in DOMAIN v.notes |-> {}]
    /\ subs = << >>
    /\ agenda = {}
    /\ left = [b \in Budgets |-> IF b \in DOMAIN v.may THEN v.may[b] ELSE 0]
    /\ typed = {}
    /\ disturbed = {}
    /\ guarded = {}

Spend(b) == left[b] > 0 /\ left' = [left EXCEPT ![b] = @ - 1]

-----------------------------------------------------------------------------
(* The subscriptions of the months.                                           *)

\* hold: one subscription for all who hold the month.
Hold(d) ==
  IF held[d] # {}
  THEN /\ held' = [held EXCEPT ![d] = {[h EXCEPT !.count = @ + 1] : h \in @}]
       /\ UNCHANGED subs
  ELSE /\ subs' = Append(subs, [day |-> d, state |-> "asked"])
       /\ held' = [held EXCEPT ![d] = {[count |-> 1, sub |-> Len(subs) + 1]}]

\* Mutant: one still asked for is forgotten.
UnsubscribedIfLive(state) == IF state = "live" THEN "gone" ELSE state

\* A subscription let go: at once, or when its promise resolves.
Unsubscribed(state) == CASE state = "live"  -> "gone"
                         [] state = "asked" -> "unwanted"
                         [] OTHER           -> state

\* The release of a hold: the last one forgets the month and lets go.
Release(d) ==
  LET h == Only(held[d]) IN
  IF h.count > 1
  THEN /\ held' = [held EXCEPT ![d] = {[h EXCEPT !.count = @ - 1]}]
       /\ UNCHANGED subs
  ELSE /\ held' = [held EXCEPT ![d] = {}]
       /\ subs' = [subs EXCEPT ![h.sub].state = Unsubscribed(@)]

Subscribed(i) ==
  /\ subs[i].state \in {"asked", "unwanted"}
  /\ subs' = [subs EXCEPT ![i].state = IF @ = "asked" THEN "live" ELSE "gone"]
  /\ UNCHANGED <<account, queue, cache, lockCache, panel, held, agenda, left, history>>

\* The promise rejects: the map keeps it and nobody asks again.
SubscribeFails(i) ==
  /\ subs[i].state \in {"asked", "unwanted"}
  /\ Spend("fail")
  /\ subs' = [subs EXCEPT ![i].state = "failed"]
  /\ UNCHANGED <<account, queue, cache, lockCache, panel, held, agenda, history>>

Live(d) == \E i \in DOMAIN subs : subs[i] = [day |-> d, state |-> "live"]

AgendaShows(d) ==
  /\ d \notin agenda
  /\ Spend("agenda")
  /\ agenda' = agenda \cup {d}
  /\ Hold(d)
  /\ UNCHANGED <<account, queue, cache, lockCache, panel, history>>

AgendaLeaves(d) ==
  /\ d \in agenda
  /\ agenda' = agenda \ {d}
  /\ Release(d)
  /\ UNCHANGED <<account, queue, cache, lockCache, panel, left, history>>

-----------------------------------------------------------------------------
(* The panel.                                                                 *)

Open(d) ==
  /\ ~panel.open
  /\ Spend("open")
  /\ Render(Opened(d))
  /\ Hold(d)
  /\ guarded' = guarded \ {d}
  /\ UNCHANGED <<account, queue, agenda, typed, disturbed>>

\* What a blur reports: the editor's text, or nothing when the editor is torn down.
Reported(tornDown) == {panel.editor} \cup (IF tornDown THEN {Blank} ELSE {})

\* Unmounting flushes the debounce; unless the editor, torn down before the effects
\* are, has the focus and reports a blur, which clears it.
Close ==
  /\ panel.open
  /\ \/ Dispatch(Flushed(panel)) /\ UNCHANGED disturbed
     \/ \E text \in Reported(TRUE) :
          /\ panel.focused
          /\ Dispatch(Write(panel, ExistingId(panel), text))
          /\ disturbed' = disturbed \cup {d \in {panel.day} : text = Blank /\ ~Preview(panel)}
  /\ panel' = Closed
  /\ Release(panel.day)
  /\ UNCHANGED <<account, replica, overlay, cache, lockCache, agenda, left, typed, guarded>>

\* A query of the panel answers.  A change of the overlay wakes its query after the
\* replica's, which the same download woke.
ReadRows ==
  /\ panel.open
  /\ panel.rows # {replica[panel.day]}
  /\ Render([panel EXCEPT !.rows = {replica[panel.day]}])
  /\ UNCHANGED <<account, queue, streams, left, history>>

ReadOverlay ==
  /\ panel.open
  /\ panel.ops # {overlay}
  /\ Render([panel EXCEPT !.ops = {overlay},
                          !.rows = IF @ = {} THEN @ ELSE {replica[panel.day]}])
  /\ UNCHANGED <<account, queue, streams, left, history>>

\* What has not been served yet of a day, and what becomes of its text.
Pending(d) == {op \in On(d, overlay \cup dispatched) : ~op.acked}

ComingText(d) ==
  LET writes == Of("write", Pending(d))
  IN  IF writes = {} THEN Draft(server[d]) ELSE Latest(writes).content

\* A lock that stays: the last one asked for, or the note's own.
LockComing(d) ==
  LET locks == Of("lock", On(d, overlay \cup dispatched)) IN
  \/ \E op \in locks : op.locked /\ \A x \in Named(op.id, locks) : x.hlc <= op.hlc
  \/ \E n \in server[d] : n.locked /\ Named(n.id, locks) \cap Pending(d) = {}

\* The editor takes the focus, and no text that arrives from now on.
Focus ==
  /\ panel.open /\ ~IsLoading(panel) /\ ~Preview(panel) /\ ~panel.focused
  /\ Spend("focus")
  /\ panel' = [panel EXCEPT !.focused = TRUE]
  /\ disturbed' = disturbed \cup {d \in {panel.day} : panel.editor # ComingText(d)}
  /\ UNCHANGED <<account, queue, cache, lockCache, streams, typed, guarded>>

\* The panel shows what the local database holds, and no lock is on its way there.
CaughtUp ==
  /\ panel.rows = {replica[panel.day]} /\ panel.ops = {overlay}
  /\ panel.intent = {} /\ Of("lock", On(panel.day, dispatched)) = {}

\* It does not, and there has been a lock it may not know of, or show too late.
LocksUnread ==
  \/ /\ ~CaughtUp
     /\ \/ panel.intent # {}
        \/ Of("lock", On(panel.day, overlay \cup dispatched \cup UNION panel.ops)) # {}
  \/ panel.hint /\ TRUE \in panel.remembered

\* The note shown is the day's only one, and it will not be gone.
OnlyNote(d) ==
  LET ops == On(d, overlay \cup dispatched) IN
  /\ Ids(server[d]) \cup Ids(ops) \subseteq ExistingId(panel)
  /\ Of("delete", ops) = {} /\ ExistingId(panel) \cap buried[d] = {}
  /\ server[d] # {} \/ Of("write", Pending(d)) # {}

\* change: the draft, and the debounce with the row this render knows.
Type(t) ==
  /\ panel.open /\ panel.focused /\ ~Preview(panel)
  /\ t # panel.editor
  /\ Spend("type")
  /\ panel' = [panel EXCEPT !.dirty = TRUE, !.draft = t, !.editor = t, !.timer = "armed",
                            !.save = [content |-> t, row |-> ExistingId(panel)]]
  /\ typed' = {[day |-> panel.day, content |-> t]}
  /\ disturbed' = disturbed \cup {d \in {panel.day} : t = Blank \/ LocksUnread \/ LockComing(d)}
  /\ UNCHANGED <<account, queue, cache, lockCache, streams, guarded>>

\* The debounce runs out.  timer.current is left as it was.
Fire ==
  /\ panel.timer = "armed"
  /\ Dispatch(Write(panel, panel.save.row, panel.save.content))
  /\ panel' = [panel EXCEPT !.timer = "fired"]
  /\ UNCHANGED <<account, replica, overlay, cache, lockCache, streams, left, history>>

\* flush: a blur saves what the editor reports, edited or not.  A lock that is shown
\* takes the editor away.
Blur ==
  /\ panel.open /\ panel.focused
  /\ \E text \in Reported(Preview(panel)) : Dispatch(Write(panel, ExistingId(panel), text))
  /\ panel' = [panel EXCEPT !.focused = FALSE, !.timer = "none"]
  /\ UNCHANGED <<account, replica, overlay, cache, lockCache, streams, left, history>>

\* toggleLock: what is in the debounce goes first, while it still may.
ToggleLock ==
  /\ panel.open /\ HasNote(panel) /\ ~panel.busy
  /\ Spend("toggle")
  /\ LET next == ~Preview(panel) IN
     /\ Dispatch((IF next THEN Flushed(panel) ELSE << >>)
                 \o <<Command("lock", Only(ExistingId(panel)), Blank, next)>>)
     /\ Render([panel EXCEPT !.timer = IF next THEN "none" ELSE @, !.busy = TRUE, !.intent = {next}])
     /\ guarded' = IF next /\ CaughtUp /\ OnlyNote(panel.day) THEN guarded \cup {panel.day} ELSE guarded \ {panel.day}
  /\ UNCHANGED <<account, replica, overlay, streams, typed, disturbed>>

LockTimer ==
  /\ panel.busy
  /\ panel' = [panel EXCEPT !.busy = FALSE]
  /\ UNCHANGED <<account, queue, cache, lockCache, streams, left, history>>

HintExpires ==
  /\ panel.hint
  /\ panel' = [panel EXCEPT !.hint = FALSE]
  /\ UNCHANGED <<account, queue, cache, lockCache, streams, left, history>>

\* remove: also of a note that is locked.
RemoveNote ==
  /\ panel.open /\ ExistingId(panel) # {}
  /\ Spend("remove")
  /\ Dispatch(<<Command("delete", Only(ExistingId(panel)), Blank, FALSE)>>)
  /\ panel' = [panel EXCEPT !.timer = "none", !.dirty = FALSE, !.draft = Blank,
                            !.editor = IF panel.focused THEN @ ELSE Blank]
  /\ disturbed' = disturbed \cup {panel.day}
  /\ guarded' = guarded \ {panel.day}
  /\ UNCHANGED <<account, replica, overlay, cache, lockCache, streams, typed>>

-----------------------------------------------------------------------------
(* The device's queue, the server, the other device.                         *)

Enqueue ==
  /\ dispatched # {}
  /\ overlay' = overlay \cup {Oldest(dispatched)}
  /\ dispatched' = dispatched \ {Oldest(dispatched)}
  /\ UNCHANGED <<account, replica, sent, minted, cache, lockCache, panel, streams, left, history>>

\* A command that is not stored takes its intent back, while its panel is there.
EnqueueFails ==
  /\ dispatched # {}
  /\ Spend("fail")
  /\ dispatched' = dispatched \ {Oldest(dispatched)}
  /\ LET c == Oldest(dispatched) IN
     /\ IF c.verb = "lock" /\ panel.open /\ c.visit = panel.visit
        THEN Render([panel EXCEPT !.intent = {}]) ELSE UNCHANGED <<panel, cache, lockCache>>
     /\ disturbed' = disturbed \cup {c.day}
     /\ guarded' = guarded \ {c.day}
  /\ UNCHANGED <<account, replica, overlay, sent, minted, streams, typed>>

\* journal.write, journal.set_locked and journal.delete on a day [note, buried].
Stored(s, op) ==
  CASE op.verb = "write" ->
         IF op.id \in s.buried THEN s   \* the content of a deleted row
         ELSE IF s.note # {} THEN [s EXCEPT !.note = {[n EXCEPT !.content = op.content] : n \in @}]
         ELSE [s EXCEPT !.note = {Note(op.id, op.content, FALSE)}]
    [] op.verb = "lock" ->
         [s EXCEPT !.note = {IF n.id = op.id THEN [n EXCEPT !.locked = op.locked] ELSE n : n \in @}]
    [] op.verb = "delete" ->
         [note |-> {n \in s.note : n.id # op.id}, buried |-> s.buried \cup (Ids(s.note) \cap {op.id})]

\* A lock or a delete of a row that never was is refused.
Refused(s, op) == op.verb # "write" /\ op.id \notin Ids(s.note) \cup s.buried

\* The upload of the oldest command.  An answer that names another row moves the
\* effect; a refusal takes it back.
Deliver ==
  /\ \E op \in overlay : ~op.acked
  /\ LET op   == Oldest({x \in overlay : ~x.acked})
         now  == [note |-> server[op.day], buried |-> buried[op.day]]
         then == Stored(now, op)
         row  == IF op.verb = "write" /\ op.id \notin now.buried THEN Only(then.note).id ELSE op.id
     IN  /\ server' = [server EXCEPT ![op.day] = then.note]
         /\ buried' = [buried EXCEPT ![op.day] = then.buried]
         /\ overlay' = (overlay \ {op}) \cup
                        (IF Refused(now, op) THEN {} ELSE {[op EXCEPT !.acked = TRUE, !.id = row]})
  /\ UNCHANGED <<replica, dispatched, sent, minted, cache, lockCache, panel, streams, left, history>>

\* A download of the months subscribed, and the effects it settles.
Download ==
  /\ LET fresh == [d \in Days |-> IF Live(d) THEN server[d] ELSE replica[d]]
         rest  == {op \in overlay : ~(op.acked /\ Live(op.day))}
     IN  /\ fresh # replica \/ rest # overlay
         /\ replica' = fresh
         /\ overlay' = rest
  /\ UNCHANGED <<account, dispatched, sent, minted, cache, lockCache, panel, streams, left, history>>

\* The hour after a month was let go.
Evict(d) ==
  /\ ~Live(d) /\ held[d] = {} /\ replica[d] # {}
  /\ replica' = [replica EXCEPT ![d] = {}]
  /\ UNCHANGED <<account, overlay, dispatched, sent, minted, cache, lockCache, panel, streams, left, history>>

\* Another device writes, locks or deletes a note.
OtherDevice(d) ==
  /\ Spend("other")
  /\ \/ \E t \in Texts \ {Blank}, l \in BOOLEAN :
          /\ server' = [server EXCEPT ![d] = IF @ = {} THEN {Note(minted + 1, t, l)}
                                             ELSE {Note(Only(@).id, t, l)}]
          /\ minted' = IF server[d] = {} THEN minted + 1 ELSE minted
          /\ UNCHANGED buried
     \/ /\ server[d] # {}
        /\ server' = [server EXCEPT ![d] = {}]
        /\ buried' = [buried EXCEPT ![d] = @ \cup Ids(server[d])]
        /\ UNCHANGED minted
  /\ disturbed' = disturbed \cup {d}
  /\ guarded' = guarded \ {d}
  /\ UNCHANGED <<replica, overlay, dispatched, sent, cache, lockCache, panel, streams, typed>>

\* A reload: what was not in the local database or in local storage is gone.
Reload ==
  /\ Spend("reload")
  /\ disturbed' = disturbed \cup {op.day : op \in dispatched}
                            \cup (IF panel.timer = "armed" THEN {panel.day} ELSE {})
  /\ dispatched' = {}
  /\ cache' = [d \in Days |-> {}]
  /\ panel' = Closed
  /\ held' = [d \in Days |-> {}]
  /\ subs' = [i \in DOMAIN subs |-> [subs[i] EXCEPT !.state = "gone"]]
  /\ agenda' = {}
  /\ guarded' = guarded \ {op.day : op \in dispatched}
  /\ UNCHANGED <<account, replica, overlay, sent, minted, lockCache, typed>>

Next ==
  \/ \E d \in Days : Open(d) \/ AgendaShows(d) \/ AgendaLeaves(d) \/ Evict(d) \/ OtherDevice(d)
  \/ \E t \in Texts : Type(t)
  \/ \E i \in DOMAIN subs : Subscribed(i) \/ SubscribeFails(i)
  \/ Close \/ ReadRows \/ ReadOverlay \/ Focus \/ Fire \/ Blur \/ ToggleLock
  \/ LockTimer \/ HintExpires \/ RemoveNote
  \/ Enqueue \/ EnqueueFails \/ Deliver \/ Download \/ Reload

Spec == Init /\ [][Next]_vars

-----------------------------------------------------------------------------

\* What was typed last on a day that nothing else has touched is on its way: in the
\* debounce, or the text the day will have once what is under way has arrived; also
\* when locking takes the editor away, whose blur reports an empty text.
TypedTextIsKept ==
  \A t \in typed :
    \/ t.day \in disturbed
    \/ panel.open /\ panel.day = t.day /\ panel.timer = "armed" /\ panel.save.content = t.content
    \/ ComingText(t.day) = t.content

\* Once the panel has locked a note, it sends nothing that would change its text
\* until the day is opened again, whatever blur, timer or unmount still comes and
\* whatever text the editor that goes reports.
LockedNoteIsLeftAlone ==
  \A d \in guarded :
    Pending(d) # {} => Latest(Pending(d)).verb = "lock"

\* A month that is held has one subscription, asked for, live or failed, and its count
\* is that of its holders; a month nobody holds has none that is live.
SubscriptionsBalanced ==
  \A d \in Days :
    LET holders == Cardinality({x \in {"panel", "agenda"} :
                     IF x = "panel" THEN panel.open /\ panel.day = d ELSE d \in agenda})
        live    == {i \in DOMAIN subs : subs[i] = [day |-> d, state |-> "live"]}
    IN  /\ \A h \in held[d] :
             /\ h.count = holders
             /\ h.sub \in DOMAIN subs /\ subs[h.sub].day = d
             /\ subs[h.sub].state \in {"asked", "live", "failed"}
        /\ held[d] = {} <=> holders = 0
        /\ \A i \in live : \E h \in held[d] : h.sub = i

-----------------------------------------------------------------------------
(* What the comments of the code say and the code does not do; each is        *)
(* refuted by an instance that the README names.                              *)

\* "Saves debounce ... + flush on blur (and on unmount) via `journal.write`; an explicit
\* Delete soft-deletes": leaving a day deletes no note.
ClosingKeepsTheNote ==
  [][panel.open /\ ~panel'.open => Of("delete", dispatched') \subseteq dispatched]_vars

\* "taking its title and lock with it. Typing again re-creates it": a cleared note
\* is deleted and typing again re-creates it.
TypingRecreates ==
  \A t \in typed : t.content # Blank /\ panel.timer = "fired" /\ Pending(t.day) = {} =>
    \E n \in server[t.day] : n.content = t.content
=============================================================================
