------------------------- MODULE JournalPanelProofs -------------------------
(***************************************************************************)
(* Proofs about JournalPanel, for every set of visits: a month is subscribed  *)
(* for as long as somebody looks at it; what the queue, the notes and the      *)
(* panel are; what was typed stays on its way; and a note that the panel has    *)
(* locked is left alone.                                                      *)
(***************************************************************************)
EXTENDS JournalPanel, FiniteSetTheorems, SequenceTheorems, TLAPS

\* What becomes of a subscription.
States == {"asked", "live", "unwanted", "gone", "failed"}

\* How many look at d.
Lookers(d) == (IF panel.open /\ panel.day = d THEN 1 ELSE 0) + (IF d \in agenda THEN 1 ELSE 0)

\* The map's entry of a month: its count, and a subscription that is still wanted.
Entered(d) ==
  /\ held[d] = {} <=> Lookers(d) = 0
  /\ \A h \in held[d] :
       /\ held[d] = {[count |-> h.count, sub |-> h.sub]}
       /\ h.count = Lookers(d)
       /\ h.sub \in DOMAIN subs /\ subs[h.sub].day = d
       /\ subs[h.sub].state \in {"asked", "live", "failed"}

\* Every other one has been let go, or will be when its promise resolves.
LetGo(d) ==
  \A i \in DOMAIN subs :
    subs[i].day = d /\ (\A h \in held[d] : h.sub # i) => subs[i].state \in {"unwanted", "gone", "failed"}

\* The panel, the map, the agenda and the subscriptions are what they are for.
StreamsType ==
  /\ DOMAIN panel = DOMAIN Closed /\ panel.open \in BOOLEAN
  /\ panel.open => panel.day \in Days
  /\ DOMAIN held = Days /\ agenda \subseteq Days
  /\ subs \in Seq([day : Days, state : States])

\* Every month is entered for those who look at it, and let go else.
StreamsInv == StreamsType /\ \A d \in Days : Entered(d) /\ LetGo(d)

\* A render leaves the panel on its day.
LEMMA RenderStays ==
  ASSUME NEW p, DOMAIN p = DOMAIN Closed, Render(p)
  PROVE  DOMAIN panel' = DOMAIN Closed /\ panel'.open = p.open /\ panel'.day = p.day
<1>1. panel' = Rendered(p, IF panel.open THEN Entry(panel) ELSE Entry(p))
  BY DEF Render
<1>2. {"open", "day"} \subseteq DOMAIN p
  BY DEF Closed
<1> QED BY <1>1, <1>2 DEF Rendered

\* Nobody looks at anything yet.
LEMMA InvInit == Init => StreamsInv
<1> SUFFICES ASSUME Init PROVE StreamsInv
  OBVIOUS
<1>1. /\ panel = Closed /\ subs = << >> /\ agenda = {} /\ held = [d \in Days |-> {}]
  BY DEF Init, Days
<1> QED BY <1>1 DEF StreamsInv, StreamsType, Entered, LetGo, Lookers, Closed

-----------------------------------------------------------------------------
(* The map and its subscriptions.                                            *)

\* What subs holds.
Entries == [day : Days, state : States]

\* A step that leaves the map as it should be.
StreamsKept ==
  /\ DOMAIN held' = Days /\ subs' \in Seq(Entries)
  /\ \A e \in Days : Entered(e)' /\ LetGo(e)'

\* Nobody comes or goes.
LEMMA NobodyMoves ==
  ASSUME StreamsInv, UNCHANGED <<held, subs>>, Days' = Days,
         \A e \in Days : Lookers(e)' = Lookers(e)
  PROVE  StreamsKept
  BY DEF StreamsInv, StreamsType, StreamsKept, Entered, LetGo, Entries

\* A month that is held by n.
LEMMA EnteredBy ==
  ASSUME NEW d, NEW n \in Nat \ {0}, NEW i \in DOMAIN subs',
         held'[d] = {[count |-> n, sub |-> i]}, Lookers(d)' = n,
         subs'[i].day = d, subs'[i].state \in {"asked", "live", "failed"}
  PROVE  Entered(d)'
<1>1. ASSUME NEW h \in held'[d] PROVE h = [count |-> n, sub |-> i]
  BY <1>1
<1>2. held'[d] # {} /\ Lookers(d)' # 0
  OBVIOUS
<1>3. ASSUME NEW h \in held'[d]
      PROVE  /\ held'[d] = {[count |-> h.count, sub |-> h.sub]}
             /\ h.count = Lookers(d)'
             /\ h.sub \in DOMAIN subs' /\ subs'[h.sub].day = d
             /\ subs'[h.sub].state \in {"asked", "live", "failed"}
  BY <1>1
<1> QED BY <1>2, <1>3 DEF Entered

\* One looker more: the first asks for the subscription.
LEMMA HoldKeeps ==
  ASSUME StreamsInv, NEW d \in Days, Hold(d), Days' = Days,
         Lookers(d)' = Lookers(d) + 1,
         \A e \in Days \ {d} : Lookers(e)' = Lookers(e)
  PROVE  StreamsKept
<1>1. Lookers(d) \in Nat /\ Entered(d) /\ LetGo(d)
  BY DEF Lookers, StreamsInv
<1>2. subs \in Seq(Entries) /\ DOMAIN held = Days
  BY DEF StreamsInv, StreamsType, Entries
<1>3. CASE held[d] # {}
  <2>1. PICK h \in held[d] : held[d] = {[count |-> h.count, sub |-> h.sub]} /\ h.count = Lookers(d)
    BY <1>1, <1>3 DEF Entered
  <2>2. held' = [held EXCEPT ![d] = {[g EXCEPT !.count = @ + 1] : g \in @}] /\ subs' = subs
    BY <1>3 DEF Hold
  <2>3. held'[d] = {[count |-> h.count + 1, sub |-> h.sub]} /\ \A e \in Days \ {d} : held'[e] = held[e]
    BY <1>2, <2>1, <2>2
  <2>4. Entered(d)' /\ LetGo(d)'
    <3>1. h.count + 1 \in Nat \ {0} /\ h.count + 1 = Lookers(d)'
      BY <1>1, <2>1
    <3>2. h.sub \in DOMAIN subs' /\ subs'[h.sub].day = d /\ subs'[h.sub].state \in {"asked", "live", "failed"}
      BY <1>1, <2>1, <2>2 DEF Entered
    <3>3. Entered(d)'
      BY <2>3, <3>1, <3>2, EnteredBy
    <3>4. ASSUME NEW i \in DOMAIN subs', subs'[i].day = d, i # h.sub
          PROVE  subs'[i].state \in {"unwanted", "gone", "failed"}
      BY <1>1, <2>1, <2>2, <3>4 DEF LetGo
    <3> QED BY <2>3, <3>3, <3>4 DEF LetGo
  <2>5. ASSUME NEW e \in Days \ {d} PROVE Entered(e)' /\ LetGo(e)'
    BY <2>2, <2>3 DEF StreamsInv, Entered, LetGo
  <2> QED BY <1>2, <2>2, <2>4, <2>5 DEF StreamsKept, Entries
<1>4. CASE held[d] = {}
  <2>1. /\ subs' = Append(subs, [day |-> d, state |-> "asked"])
        /\ held' = [held EXCEPT ![d] = {[count |-> 1, sub |-> Len(subs) + 1]}]
    BY <1>4 DEF Hold
  <2>2. /\ subs' \in Seq(Entries) /\ DOMAIN subs' = DOMAIN subs \cup {Len(subs) + 1}
        /\ Len(subs) + 1 \notin DOMAIN subs
        /\ subs'[Len(subs) + 1] = [day |-> d, state |-> "asked"]
        /\ \A i \in DOMAIN subs : subs'[i] = subs[i]
    <3>1. [day |-> d, state |-> "asked"] \in Entries
      BY DEF Entries, States
    <3> QED BY <1>2, <2>1, <3>1, AppendProperties, LenProperties
  <2>3. /\ held'[d] = {[count |-> 1, sub |-> Len(subs) + 1]}
        /\ \A e \in Days \ {d} : held'[e] = held[e]
    BY <1>2, <2>1
  <2>4. Lookers(d) = 0
    BY <1>1, <1>4 DEF Entered
  <2>5. Entered(d)'
    <3>1. /\ subs'[Len(subs) + 1].day = d
          /\ subs'[Len(subs) + 1].state \in {"asked", "live", "failed"}
          /\ Len(subs) + 1 \in DOMAIN subs' /\ Lookers(d)' = 1 /\ 1 \in Nat \ {0}
      BY <2>2, <2>4
    <3> QED BY <2>3, <3>1, EnteredBy
  <2>6. LetGo(d)'
    BY <1>1, <1>4, <2>2, <2>3 DEF LetGo
  <2>7. ASSUME NEW e \in Days \ {d} PROVE Entered(e)' /\ LetGo(e)'
    <3>1. Entered(e) /\ LetGo(e)
      BY DEF StreamsInv
    <3>2. Entered(e)'
      BY <2>2, <2>3, <3>1 DEF Entered
    <3>3. LetGo(e)'
      BY <2>2, <2>3, <3>1 DEF LetGo
    <3> QED BY <3>2, <3>3
  <2> QED BY <1>2, <2>1, <2>2, <2>5, <2>6, <2>7 DEF StreamsKept
<1> QED BY <1>3, <1>4

\* One looker less: the last lets the subscription go.
LEMMA ReleaseKeeps ==
  ASSUME StreamsInv, NEW d \in Days, Release(d), Days' = Days,
         Lookers(d) > 0, Lookers(d)' = Lookers(d) - 1,
         \A e \in Days \ {d} : Lookers(e)' = Lookers(e)
  PROVE  StreamsKept
<1>1. Lookers(d) \in Nat /\ Entered(d) /\ LetGo(d)
  BY DEF Lookers, StreamsInv
<1>2. subs \in Seq(Entries) /\ DOMAIN held = Days
  BY DEF StreamsInv, StreamsType, Entries
<1> DEFINE h == Only(held[d])
<1>3. /\ h \in held[d] /\ held[d] = {[count |-> h.count, sub |-> h.sub]} /\ h.count = Lookers(d)
      /\ h.sub \in DOMAIN subs /\ subs[h.sub].day = d
      /\ subs[h.sub].state \in {"asked", "live", "failed"}
  <2>1. held[d] # {}
    BY <1>1 DEF Entered
  <2>2. h \in held[d]
    BY <2>1 DEF Only
  <2> HIDE DEF h
  <2> QED BY <1>1, <2>2 DEF Entered
<1>4. CASE h.count > 1
  <2>1. held' = [held EXCEPT ![d] = {[h EXCEPT !.count = @ - 1]}] /\ subs' = subs
    BY <1>4 DEF Release
  <2> HIDE DEF h
  <2>2. h = [count |-> h.count, sub |-> h.sub]
    BY <1>3
  <2>3. held'[d] = {[count |-> h.count - 1, sub |-> h.sub]} /\ \A e \in Days \ {d} : held'[e] = held[e]
    BY <1>2, <2>1, <2>2
  <2>4. Entered(d)' /\ LetGo(d)'
    <3>1. h.count - 1 \in Nat \ {0} /\ h.count - 1 = Lookers(d)'
      BY <1>1, <1>3, <1>4
    <3>2. Entered(d)'
      BY <1>3, <2>1, <2>3, <3>1, EnteredBy
    <3>3. ASSUME NEW i \in DOMAIN subs', subs'[i].day = d, i # h.sub
          PROVE  subs'[i].state \in {"unwanted", "gone", "failed"}
      BY <1>1, <1>3, <2>1, <3>3 DEF LetGo
    <3> QED BY <2>3, <3>2, <3>3 DEF LetGo
  <2>5. ASSUME NEW e \in Days \ {d} PROVE Entered(e)' /\ LetGo(e)'
    BY <2>1, <2>3 DEF StreamsInv, Entered, LetGo
  <2> QED BY <1>2, <2>1, <2>4, <2>5 DEF StreamsKept, Entries
<1>5. CASE ~(h.count > 1)
  <2>1. /\ held' = [held EXCEPT ![d] = {}]
        /\ subs' = [subs EXCEPT ![h.sub].state = Unsubscribed(@)]
    BY <1>5 DEF Release
  <2> HIDE DEF h
  <2>2. subs[h.sub] \in Entries
    BY <1>2, <1>3, ElementOfSeq, LenProperties
  <2>3. Unsubscribed(subs[h.sub].state) \in {"unwanted", "gone", "failed"}
    BY <1>3 DEF Unsubscribed
  <2> DEFINE let == [subs[h.sub] EXCEPT !.state = Unsubscribed(@)]
  <2>4. let \in Entries /\ let.day = d /\ let.state \in {"unwanted", "gone", "failed"}
    BY <1>3, <2>2, <2>3 DEF Entries, States
  <2>5. subs' = [subs EXCEPT ![h.sub] = let]
    BY <2>1
  <2> HIDE DEF let
  <2>6. /\ subs' \in Seq(Entries) /\ DOMAIN subs' = DOMAIN subs /\ subs'[h.sub] = let
        /\ \A i \in DOMAIN subs \ {h.sub} : subs'[i] = subs[i]
    BY <1>2, <1>3, <2>4, <2>5, ExceptSeq, LenProperties
  <2>7. held'[d] = {} /\ \A e \in Days \ {d} : held'[e] = held[e]
    BY <1>2, <2>1
  <2>8. Lookers(d) = 1
    BY <1>1, <1>3, <1>5
  <2>9. Entered(d)'
    BY <2>7, <2>8 DEF Entered
  <2>10. LetGo(d)'
    <3>1. ASSUME NEW i \in DOMAIN subs', subs'[i].day = d
          PROVE  subs'[i].state \in {"unwanted", "gone", "failed"}
      <4>1. CASE i = h.sub
        BY <2>4, <2>6, <4>1
      <4>2. CASE i # h.sub
        BY <1>1, <1>3, <2>6, <3>1, <4>2 DEF LetGo
      <4> QED BY <4>1, <4>2
    <3> QED BY <3>1 DEF LetGo
  <2>11. ASSUME NEW e \in Days \ {d} PROVE Entered(e)' /\ LetGo(e)'
    <3>1. Entered(e) /\ LetGo(e)
      BY DEF StreamsInv
    <3>2. \A g \in held[e] : g.sub # h.sub
      BY <1>3, <3>1 DEF Entered
    <3>3. Entered(e)'
      BY <2>6, <2>7, <3>1, <3>2 DEF Entered
    <3>4. LetGo(e)'
      BY <1>3, <2>4, <2>6, <2>7, <3>1 DEF LetGo
    <3> QED BY <3>3, <3>4
  <2> QED BY <1>2, <2>1, <2>6, <2>9, <2>10, <2>11 DEF StreamsKept
<1> QED BY <1>4, <1>5

-----------------------------------------------------------------------------
(* The steps.                                                                *)

\* A step of the promise of one subscription.
LEMMA PromiseKeeps ==
  ASSUME StreamsInv, NEW i \in DOMAIN subs, Subscribed(i) \/ SubscribeFails(i)
  PROVE  StreamsInv'
<1>1. /\ subs[i].state \in {"asked", "unwanted"}
      /\ UNCHANGED <<server, panel, held, agenda>>
      /\ \/ subs' = [subs EXCEPT ![i].state = IF @ = "asked" THEN "live" ELSE "gone"]
         \/ subs' = [subs EXCEPT ![i].state = "failed"]
  BY DEF Subscribed, SubscribeFails, account, queue, history, Spend
<1>2. subs \in Seq(Entries) /\ subs[i] \in Entries
  BY ElementOfSeq, LenProperties DEF StreamsInv, StreamsType, Entries
<1>3. PICK s \in {"live", "gone", "failed"} :
        /\ subs' = [subs EXCEPT ![i].state = s]
        /\ subs[i].state = "asked" => s \in {"live", "failed"}
        /\ subs[i].state = "unwanted" => s \in {"gone", "failed"}
  BY <1>1, <1>2
<1> DEFINE now == [subs[i] EXCEPT !.state = s]
<1>4. now \in Entries /\ now.day = subs[i].day /\ now.state = s
  BY <1>2 DEF Entries, States
<1>5. subs' = [subs EXCEPT ![i] = now]
  BY <1>3
<1> HIDE DEF now
<1>6. /\ subs' \in Seq(Entries) /\ DOMAIN subs' = DOMAIN subs /\ subs'[i] = now
      /\ \A j \in DOMAIN subs \ {i} : subs'[j] = subs[j]
  BY <1>2, <1>4, <1>5, ExceptSeq, LenProperties
<1>7. ASSUME NEW d \in Days PROVE Entered(d)' /\ LetGo(d)'
  <2>1. Entered(d) /\ LetGo(d)
    BY DEF StreamsInv
  <2>2. held'[d] = held[d] /\ Lookers(d)' = Lookers(d)
    BY <1>1 DEF Lookers
  <2>3. ASSUME NEW h \in held[d] PROVE subs'[h.sub].day = d /\ subs'[h.sub].state \in {"asked", "live", "failed"}
    BY <1>1, <1>3, <1>4, <1>6, <2>1 DEF Entered
  <2>4. Entered(d)'
    BY <1>6, <2>1, <2>2, <2>3 DEF Entered
  <2>5. ASSUME NEW j \in DOMAIN subs', subs'[j].day = d, \A h \in held[d] : h.sub # j
        PROVE  subs'[j].state \in {"unwanted", "gone", "failed"}
    <3>1. CASE j = i
      BY <1>1, <1>3, <1>4, <1>6, <2>1, <2>5, <3>1 DEF LetGo
    <3>2. CASE j # i
      BY <1>6, <2>1, <2>5, <3>2 DEF LetGo
    <3> QED BY <3>1, <3>2
  <2> QED BY <2>2, <2>4, <2>5 DEF LetGo
<1> QED BY <1>1, <1>6, <1>7 DEF StreamsInv, StreamsType, Days, Entries

\* A step of the panel, the queue or the server by which nobody comes or goes.
LEMMA QuietKeeps ==
  ASSUME StreamsInv, UNCHANGED <<held, subs, agenda>>, Days' = Days,
         DOMAIN panel' = DOMAIN Closed, panel'.open = panel.open, panel'.day = panel.day
  PROVE  StreamsInv'
<1>1. \A e \in Days : Lookers(e)' = Lookers(e)
  BY DEF Lookers
<1>2. StreamsKept
  BY <1>1, NobodyMoves
<1> QED BY <1>2 DEF StreamsInv, StreamsType, StreamsKept, Entries

\* The panel keeps its day in whatever it does with its text.
LEMMA PanelStays ==
  ASSUME StreamsInv,
         \/ ReadRows \/ ReadOverlay \/ Focus \/ Fire \/ Blur \/ ToggleLock
         \/ LockTimer \/ HintExpires \/ RemoveNote \/ EnqueueFails \/ \E t \in Texts : Type(t)
  PROVE  /\ DOMAIN panel' = DOMAIN Closed /\ panel'.open = panel.open /\ panel'.day = panel.day
         /\ UNCHANGED <<server, held, subs, agenda>>
<1>1. DOMAIN panel = DOMAIN Closed /\ {"open", "day"} \subseteq DOMAIN panel
  BY DEF StreamsInv, StreamsType, Closed
<1> USE <1>1 DEF account, queue, streams, history
<1>2. CASE ReadRows
  <2>1. PICK p : /\ DOMAIN p = DOMAIN panel /\ p.open = panel.open /\ p.day = panel.day /\ Render(p)
    BY <1>2 DEF ReadRows
  <2> QED BY <1>2, <2>1, RenderStays DEF ReadRows
<1>3. CASE ReadOverlay
  <2>1. PICK p : /\ DOMAIN p = DOMAIN panel /\ p.open = panel.open /\ p.day = panel.day /\ Render(p)
    BY <1>3 DEF ReadOverlay
  <2> QED BY <1>3, <2>1, RenderStays DEF ReadOverlay
<1>4. CASE Focus \/ Fire \/ Blur
  BY <1>4 DEF Focus, Fire, Blur
<1>7. CASE LockTimer \/ HintExpires
  BY <1>7 DEF LockTimer, HintExpires
<1>8. CASE RemoveNote
  BY <1>8 DEF RemoveNote, Dispatch
<1>9. ASSUME NEW t \in Texts, Type(t)
      PROVE  /\ DOMAIN panel' = DOMAIN Closed /\ panel'.open = panel.open /\ panel'.day = panel.day
             /\ UNCHANGED <<server, held, subs, agenda>>
  BY <1>9 DEF Type
<1>5. CASE ToggleLock
  <2>1. PICK p : /\ DOMAIN p = DOMAIN panel /\ p.open = panel.open /\ p.day = panel.day /\ Render(p)
    BY <1>5 DEF ToggleLock
  <2> QED BY <1>5, <2>1, RenderStays DEF ToggleLock
<1>6. CASE EnqueueFails
  <2>1. \/ Render([panel EXCEPT !.intent = {}])
        \/ UNCHANGED panel
    BY <1>6 DEF EnqueueFails
  <2> QED BY <1>6, <2>1, RenderStays DEF EnqueueFails
<1> QED BY <1>2, <1>3, <1>4, <1>5, <1>6, <1>7, <1>8, <1>9

\* Every step keeps the map in step with who looks.
LEMMA InvStep ==
  ASSUME StreamsInv, [Next]_vars
  PROVE  StreamsInv'
<1>1. CASE \/ ReadRows \/ ReadOverlay \/ Focus \/ Fire \/ Blur \/ ToggleLock
           \/ LockTimer \/ HintExpires \/ RemoveNote \/ EnqueueFails \/ \E t \in Texts : Type(t)
  <2>1. /\ DOMAIN panel' = DOMAIN Closed /\ panel'.open = panel.open /\ panel'.day = panel.day
        /\ UNCHANGED <<server, held, subs, agenda>>
    BY <1>1, PanelStays
  <2> QED BY <2>1, QuietKeeps DEF Days
<1>2. CASE Enqueue \/ Deliver \/ Download \/ \E d \in Days : Evict(d) \/ OtherDevice(d)
  <2>1. UNCHANGED <<panel, held, subs, agenda>>
    BY <1>2 DEF Enqueue, Deliver, Download, Evict, OtherDevice, streams
  <2>2. Days' = Days
    BY <1>2 DEF Enqueue, Deliver, Download, Evict, OtherDevice, Days, account
  <2> QED BY <2>1, <2>2, QuietKeeps DEF StreamsInv, StreamsType
<1>3. ASSUME NEW i \in DOMAIN subs, Subscribed(i) \/ SubscribeFails(i) PROVE StreamsInv'
  BY <1>3, PromiseKeeps
<1>4. ASSUME NEW d \in Days, Open(d) PROVE StreamsInv'
  <2>1. /\ ~panel.open /\ Hold(d) /\ UNCHANGED <<server, agenda>>
    BY <1>4 DEF Open, account
  <2>2. DOMAIN panel' = DOMAIN Closed /\ panel'.open = TRUE /\ panel'.day = d
    <3>1. /\ DOMAIN Opened(d) = DOMAIN Closed /\ Opened(d).open = TRUE /\ Opened(d).day = d
      BY DEF Opened, Closed
    <3> QED BY <1>4, <3>1, RenderStays DEF Open
  <2>3. Lookers(d)' = Lookers(d) + 1 /\ \A e \in Days \ {d} : Lookers(e)' = Lookers(e)
    BY <2>1, <2>2 DEF Lookers
  <2>4. StreamsKept
    BY <2>1, <2>3, HoldKeeps DEF Days
  <2> QED BY <2>1, <2>2, <2>4 DEF StreamsInv, StreamsType, StreamsKept, Days, Entries
<1>5. CASE Close
  <2>2. PICK d \in Days : d = panel.day
    BY <1>5 DEF Close, StreamsInv, StreamsType
  <2>1. /\ panel.open /\ panel' = Closed /\ Release(d) /\ UNCHANGED <<server, agenda>>
    BY <1>5, <2>2 DEF Close, account
  <2>3. DOMAIN panel' = DOMAIN Closed /\ panel'.open = FALSE
    BY <2>1 DEF Closed
  <2>4. /\ Lookers(d) > 0 /\ Lookers(d)' = Lookers(d) - 1
        /\ \A e \in Days \ {d} : Lookers(e)' = Lookers(e)
    BY <2>1, <2>2, <2>3 DEF Lookers
  <2>5. StreamsKept
    BY <2>1, <2>2, <2>4, ReleaseKeeps DEF Days
  <2> QED BY <2>1, <2>3, <2>5 DEF StreamsInv, StreamsType, StreamsKept, Days, Entries
<1>6. ASSUME NEW d \in Days, AgendaShows(d) PROVE StreamsInv'
  <2>1. d \notin agenda /\ agenda' = agenda \cup {d} /\ Hold(d) /\ UNCHANGED <<server, panel>>
    BY <1>6 DEF AgendaShows, account
  <2>2. Lookers(d)' = Lookers(d) + 1 /\ \A e \in Days \ {d} : Lookers(e)' = Lookers(e)
    BY <2>1 DEF Lookers
  <2>3. StreamsKept
    BY <2>1, <2>2, HoldKeeps DEF Days
  <2> QED BY <2>1, <2>3 DEF StreamsInv, StreamsType, StreamsKept, Days, Entries
<1>7. ASSUME NEW d \in Days, AgendaLeaves(d) PROVE StreamsInv'
  <2>1. d \in agenda /\ agenda' = agenda \ {d} /\ Release(d) /\ UNCHANGED <<server, panel>>
    BY <1>7 DEF AgendaLeaves, account
  <2>2. /\ Lookers(d) > 0 /\ Lookers(d)' = Lookers(d) - 1
        /\ \A e \in Days \ {d} : Lookers(e)' = Lookers(e)
    BY <2>1 DEF Lookers
  <2>3. StreamsKept
    BY <2>1, <2>2, ReleaseKeeps DEF Days
  <2> QED BY <2>1, <2>3 DEF StreamsInv, StreamsType, StreamsKept, Days, Entries
<1>8. CASE Reload
  <2>1. /\ panel' = Closed /\ held' = [d \in Days |-> {}] /\ agenda' = {}
        /\ subs' = [i \in DOMAIN subs |-> [subs[i] EXCEPT !.state = "gone"]]
        /\ UNCHANGED server
    BY <1>8 DEF Reload, account
  <2>2. subs \in Seq(Entries)
    BY DEF StreamsInv, StreamsType, Entries
  <2>3. \A i \in DOMAIN subs : subs'[i] \in Entries /\ subs'[i].state = "gone"
    <3>1. \A i \in DOMAIN subs : subs[i] \in Entries
      BY <2>2, ElementOfSeq, LenProperties
    <3>2. \A s \in Entries : [s EXCEPT !.state = "gone"] \in Entries /\ [s EXCEPT !.state = "gone"].state = "gone"
      BY DEF Entries, States
    <3> QED BY <2>1, <3>1, <3>2
  <2>4. subs' \in Seq(Entries) /\ DOMAIN subs' = DOMAIN subs
    <3>1. PICK n \in Nat : subs \in [1 .. n -> Entries]
      BY <2>2, SeqDef
    <3>2. subs' \in [1 .. n -> Entries]
      BY <2>1, <2>3, <3>1
    <3> QED BY <3>1, <3>2, SeqDef
  <2>5. /\ DOMAIN panel' = DOMAIN Closed /\ panel'.open = FALSE /\ Days' = Days
    BY <2>1 DEF Closed, Days
  <2>6. \A d \in Days : Lookers(d)' = 0
    BY <2>1, <2>5 DEF Lookers
  <2>7. \A d \in Days : Entered(d)' /\ LetGo(d)'
    BY <2>1, <2>3, <2>4, <2>6 DEF Entered, LetGo
  <2> QED BY <2>1, <2>4, <2>5, <2>7 DEF StreamsInv, StreamsType, Entries
<1>9. CASE UNCHANGED vars
  <2>1. UNCHANGED <<server, panel, held, subs, agenda>>
    BY <1>9 DEF vars, account, streams
  <2> QED BY <2>1, QuietKeeps DEF StreamsInv, StreamsType, Days
<1> QED BY <1>1, <1>2, <1>3, <1>4, <1>5, <1>6, <1>7, <1>8, <1>9 DEF Next

\* The invariant of the subscriptions.
LEMMA InvHolds == Spec => []StreamsInv
  BY InvInit, InvStep, PTL DEF Spec

\* A month that somebody looks at has a subscription, asked for, live or failed, and one
\* nobody looks at has none that is live (hold and its release), in whatever order
\* panels come and go and promises resolve or fail.
THEOREM SubscriptionsStayBalanced == Spec => []SubscriptionsBalanced
<1>1. ASSUME StreamsInv, NEW d \in Days
      PROVE  LET who == {x \in {"panel", "agenda"} :
                          IF x = "panel" THEN panel.open /\ panel.day = d ELSE d \in agenda}
             IN Cardinality(who) = Lookers(d)
  <2> DEFINE who == {x \in {"panel", "agenda"} :
                      IF x = "panel" THEN panel.open /\ panel.day = d ELSE d \in agenda}
  <2>1. \/ who = {} /\ Lookers(d) = 0
        \/ who = {"panel"} /\ Lookers(d) = 1
        \/ who = {"agenda"} /\ Lookers(d) = 1
        \/ who = {"panel"} \cup {"agenda"} /\ Lookers(d) = 2
    BY DEF Lookers
  <2>2. Cardinality({"panel"} \cup {"agenda"}) = 2
    <3>1. IsFiniteSet({"panel"}) /\ Cardinality({"panel"}) = 1 /\ "agenda" \notin {"panel"}
      BY FS_Singleton
    <3>2. Cardinality({"panel"} \cup {"agenda"}) = Cardinality({"panel"}) + 1
      BY <3>1, FS_AddElement
    <3> QED BY <3>1, <3>2
  <2>3. Cardinality({}) = 0 /\ Cardinality({"panel"}) = 1 /\ Cardinality({"agenda"}) = 1
    BY FS_EmptySet, FS_Singleton
  <2>4. Cardinality(who) = Lookers(d)
    <3> HIDE DEF who
    <3> QED BY <2>1, <2>2, <2>3
  <2> QED BY <2>4
<1>2. StreamsInv => SubscriptionsBalanced
  <2> SUFFICES ASSUME StreamsInv, NEW d \in Days
               PROVE  /\ \A h \in held[d] :
                           /\ h.count = Lookers(d)
                           /\ h.sub \in DOMAIN subs /\ subs[h.sub].day = d
                           /\ subs[h.sub].state \in {"asked", "live", "failed"}
                      /\ held[d] = {} <=> Lookers(d) = 0
                      /\ \A i \in {j \in DOMAIN subs : subs[j] = [day |-> d, state |-> "live"]} :
                           \E h \in held[d] : h.sub = i
    BY <1>1 DEF SubscriptionsBalanced
  <2>1. Entered(d) /\ LetGo(d)
    BY DEF StreamsInv
  <2>2. \A i \in DOMAIN subs : subs[i] = [day |-> d, state |-> "live"] => \E h \in held[d] : h.sub = i
    BY <2>1 DEF LetGo
  <2> QED BY <2>1, <2>2 DEF Entered
<1> QED BY <1>2, InvHolds, PTL

-----------------------------------------------------------------------------
(* Sets of commands, and a day's note under them.                            *)

\* Among finite sets there is one that none of the others is strictly inside.
LEMMA MinimalSet ==
  ASSUME NEW S, NEW C, C # {}, \A T \in C : T \subseteq S /\ IsFiniteSet(T)
  PROVE  \E T \in C : \A U \in C : U \subseteq T => U = T
<1>1. C \subseteq FiniteSubsetsOf(S)
  BY DEF FiniteSubsetsOf
<1>2. \E T \in C : \A U \in C : <<U, T>> \notin StrictSubsetOrdering(S)
  BY <1>1, FS_StrictSubsetOrderingWellFounded, WFMin
<1>3. PICK T \in C : \A U \in C : <<U, T>> \notin StrictSubsetOrdering(S)
  BY <1>2
<1>4. ASSUME NEW U \in C, U \subseteq T PROVE U = T
  BY <1>3, <1>4 DEF StrictSubsetOrdering
<1> QED BY <1>3, <1>4

\* A nonempty set of numbers has a least one.
LEMMA LeastNat ==
  ASSUME NEW T \in SUBSET Nat, T # {}
  PROVE  \E n \in T : \A m \in T : n <= m
<1> DEFINE C == {1 .. n : n \in T}
<1>1. \A U \in C : U \subseteq Nat /\ IsFiniteSet(U)
  <2>1. TAKE U \in C
  <2>2. PICK n \in T : U = 1 .. n
    BY <2>1
  <2>3. n \in Int /\ 1 \in Int
    BY <2>2
  <2>4. IsFiniteSet(1 .. n)
    BY <2>3, FS_Interval
  <2>5. 1 .. n \subseteq Nat
    BY <2>2
  <2> QED BY <2>2, <2>4, <2>5
<1>2. C # {}
  OBVIOUS
<1>3. PICK U \in C : \A V \in C : V \subseteq U => V = U
  <2> HIDE DEF C
  <2> QED BY <1>1, <1>2, MinimalSet
<1>4. PICK n \in T : U = 1 .. n
  BY <1>3
<1>5. ASSUME NEW m \in T, m < n PROVE FALSE
  <2>1. (1 .. m) \in C /\ 1 .. m \subseteq 1 .. n
    BY <1>5
  <2>2. n \in 1 .. n /\ n \notin 1 .. m
    BY <1>5
  <2> QED BY <1>3, <1>4, <2>1, <2>2
<1> QED BY <1>5

\* Commands in the order of their HLCs, each of which says what its verb asks for.
Orderly(ops) ==
  /\ \A op \in ops :
       /\ op.verb \in {"write", "lock", "delete"} /\ op.id \in Nat /\ op.hlc \in Nat
       /\ op.content \in Texts /\ op.locked \in BOOLEAN
       /\ op.verb = "write" => op.content # Blank
  /\ \A x, y \in ops : x.hlc = y.hlc => x = y
  /\ \E n \in Nat : \A op \in ops : op.hlc <= n

\* A set of at most one element.
AtMostOne(S) == \A x, y \in S : x = y

\* What a day may hold: one note, if any.
Single(row) == row \subseteq Notes /\ AtMostOne(row)

\* What the CHOOSEs of JournalPanel choose.
LEMMA OnlyIs == ASSUME NEW S, S # {} PROVE Only(S) \in S
  BY DEF Only

\* The only element is the one chosen.
LEMMA OnlyOne == ASSUME NEW S, AtMostOne(S), NEW x \in S PROVE Only(S) = x /\ S = {x}
  BY DEF Only, AtMostOne

\* A part of orderly commands is orderly.
LEMMA OrderlyPart == ASSUME NEW ops, Orderly(ops), NEW part \in SUBSET ops PROVE Orderly(part)
  BY DEF Orderly

\* The oldest command is one of them, before all the others, and no other is.
LEMMA OldestIs ==
  ASSUME NEW ops, Orderly(ops), ops # {}
  PROVE  /\ Oldest(ops) \in ops /\ \A x \in ops : x.hlc >= Oldest(ops).hlc
         /\ \A y \in ops : (\A x \in ops : x.hlc >= y.hlc) => y = Oldest(ops)
<1>1. {op.hlc : op \in ops} \subseteq Nat /\ {op.hlc : op \in ops} # {}
  BY DEF Orderly
<1>2. PICK n \in {op.hlc : op \in ops} : \A m \in {op.hlc : op \in ops} : n <= m
  BY <1>1, LeastNat
<1>3. PICK y \in ops : y.hlc = n
  BY <1>2
<1>4. \A x \in ops : x.hlc \in Nat
  BY DEF Orderly
<1>5. \A x \in ops : x.hlc >= y.hlc
  BY <1>2, <1>3, <1>4
<1>6. Oldest(ops) \in ops /\ \A x \in ops : x.hlc >= Oldest(ops).hlc
  BY <1>5 DEF Oldest
<1>7. ASSUME NEW z \in ops, \A x \in ops : x.hlc >= z.hlc PROVE z = Oldest(ops)
  <2>1. z.hlc >= Oldest(ops).hlc /\ Oldest(ops).hlc >= z.hlc
    BY <1>6, <1>7
  <2> QED BY <1>4, <1>6, <2>1 DEF Orderly
<1> QED BY <1>6, <1>7

\* The latest command is one of them, after all the others, and no other is.
LEMMA LatestIs ==
  ASSUME NEW ops, Orderly(ops), ops # {}
  PROVE  /\ Latest(ops) \in ops /\ \A x \in ops : x.hlc <= Latest(ops).hlc
         /\ \A y \in ops : (\A x \in ops : x.hlc <= y.hlc) => y = Latest(ops)
<1>1. \A x \in ops : x.hlc \in Nat
  BY DEF Orderly
<1>2. PICK n \in Nat : \A op \in ops : op.hlc <= n
  BY DEF Orderly
<1> DEFINE gaps == {n - op.hlc : op \in ops}
<1>3. gaps \subseteq Nat /\ gaps # {}
  BY <1>1, <1>2
<1>4. PICK g \in gaps : \A m \in gaps : g <= m
  <2> HIDE DEF gaps
  <2> QED BY <1>3, LeastNat
<1>5. PICK y \in ops : g = n - y.hlc
  BY <1>4
<1>6. \A x \in ops : n - y.hlc <= n - x.hlc
  BY <1>4, <1>5
<1>7. \A x \in ops : x.hlc <= y.hlc
  BY <1>1, <1>2, <1>6
<1>8. Latest(ops) \in ops /\ \A x \in ops : x.hlc <= Latest(ops).hlc
  BY <1>7 DEF Latest
<1>9. ASSUME NEW z \in ops, \A x \in ops : x.hlc <= z.hlc PROVE z = Latest(ops)
  <2>1. z.hlc <= Latest(ops).hlc /\ Latest(ops).hlc <= z.hlc
    BY <1>8, <1>9
  <2> QED BY <1>1, <1>8, <2>1 DEF Orderly
<1> QED BY <1>8, <1>9

\* The locks asked for of a day.
Locks(d, ops) == Of("lock", On(d, ops))

\* The lock that a row and its effects leave on the note id.
LockUnder(id, row, ops) ==
  LET locks == Named(id, Of("lock", ops))
  IN  IF locks = {} THEN \E r \in row : r.id = id /\ r.locked ELSE Latest(locks).locked

\* A row under its effects is a note; and what it says when nothing was deleted.
LEMMA UnderIs ==
  ASSUME NEW row, Single(row), NEW ops, Orderly(ops), NEW id \in Nat
  PROVE  /\ Single(Under(id, row, ops)) /\ Ids(Under(id, row, ops)) \subseteq {id}
         /\ Of("delete", ops) = {} =>
              /\ Under(id, row, ops) # {} <=> id \in Ids(row) \cup Ids(Of("write", ops))
              /\ \A e \in Under(id, row, ops) :
                   e.locked = LockUnder(id, row, ops)
<1> DEFINE mine   == Named(id, ops)
           base   == {r \in row : r.id = id /\ Of("delete", mine) = {}}
           writes == Of("write", Since(mine))
           locks  == Of("lock", Since(mine))
           content == IF writes = {} THEN Only(base).content ELSE Latest(writes).content
           locked  == IF locks = {} THEN \E r \in base : r.locked ELSE Latest(locks).locked
<1>1. Under(id, row, ops) = IF base \cup writes = {} THEN {} ELSE {Note(id, content, locked)}
  BY DEF Under
<1>2. writes \subseteq ops /\ locks \subseteq ops /\ base \subseteq row
  BY DEF Of, Since, Named
<1>3. Orderly(writes) /\ Orderly(locks)
  <2> HIDE DEF writes, locks
  <2> QED BY <1>2, OrderlyPart
<1>4. base \cup writes # {} => content \in Texts \ {Blank}
  <2>1. CASE writes # {}
    <3>1. Latest(writes) \in writes
      <4> HIDE DEF writes
      <4> QED BY <1>3, <2>1, LatestIs
    <3>2. \A op \in writes : op.content \in Texts \ {Blank}
      BY <1>3 DEF Orderly, Of
    <3> QED BY <2>1, <3>1, <3>2
  <2>2. CASE writes = {} /\ base # {}
    <3>1. Only(base) \in base
      <4> HIDE DEF base
      <4> QED BY <2>2, OnlyIs
    <3> QED BY <2>2, <3>1 DEF Single, Notes
  <2> QED BY <2>1, <2>2
<1>5. locked \in BOOLEAN
  <2>1. CASE locks # {}
    <3>1. Latest(locks) \in locks
      <4> HIDE DEF locks
      <4> QED BY <1>3, <2>1, LatestIs
    <3>2. \A op \in locks : op.locked \in BOOLEAN
      BY <1>3 DEF Orderly
    <3> QED BY <2>1, <3>1, <3>2
  <2>2. CASE locks = {}
    <3>1. (\E r \in base : r.locked) \in BOOLEAN
      OBVIOUS
    <3> QED BY <2>2, <3>1
  <2> QED BY <2>1, <2>2
<1>6. Single(Under(id, row, ops)) /\ Ids(Under(id, row, ops)) \subseteq {id}
  <2> HIDE DEF content, locked, base, writes
  <2>1. CASE base \cup writes = {}
    BY <1>1, <2>1 DEF Single, AtMostOne, Ids
  <2>2. CASE base \cup writes # {}
    <3>1. Note(id, content, locked) \in Notes
      BY <1>4, <1>5, <2>2 DEF Note, Notes
    <3>2. Under(id, row, ops) = {Note(id, content, locked)} /\ Note(id, content, locked).id = id
      BY <1>1, <2>2 DEF Note
    <3> QED BY <3>1, <3>2 DEF Single, AtMostOne, Ids
  <2> QED BY <2>1, <2>2
<1>7. ASSUME Of("delete", ops) = {}
      PROVE  /\ Under(id, row, ops) # {} <=> id \in Ids(row) \cup Ids(Of("write", ops))
             /\ \A e \in Under(id, row, ops) :
                  e.locked = LockUnder(id, row, ops)
  <2>1. Since(mine) = mine /\ Of("delete", mine) = {}
    BY <1>7 DEF Since, Of, Named
  <2>2. base = {r \in row : r.id = id} /\ writes = {op \in ops : op.verb = "write" /\ op.id = id}
        /\ locks = Named(id, Of("lock", ops))
    BY <2>1 DEF Of, Named
  <2>3. base \cup writes # {} <=> id \in Ids(row) \cup Ids(Of("write", ops))
    BY <2>2 DEF Ids, Of
  <2>4. (\E r \in base : r.locked) <=> \E r \in row : r.id = id /\ r.locked
    BY <2>2
  <2>5. locked = LockUnder(id, row, ops)
    <3>1. CASE locks = {}
      <4>1. locked = (\E r \in base : r.locked)
        BY <3>1
      <4>2. LockUnder(id, row, ops) = (\E r \in row : r.id = id /\ r.locked)
        BY <2>2, <3>1 DEF LockUnder
      <4> QED BY <2>4, <4>1, <4>2
    <3>2. CASE locks # {}
      <4>1. locked = Latest(locks).locked
        BY <3>2
      <4>2. LockUnder(id, row, ops) = Latest(locks).locked
        BY <2>2, <3>2 DEF LockUnder
      <4> QED BY <4>1, <4>2
    <3> QED BY <3>1, <3>2
  <2> HIDE DEF content, locked, base, writes
  <2>6. Under(id, row, ops) # {} <=> id \in Ids(row) \cup Ids(Of("write", ops))
    BY <1>1, <2>3
  <2>7. \A e \in Under(id, row, ops) : e.locked = locked
    BY <1>1 DEF Note
  <2> QED BY <2>5, <2>6, <2>7
<1> QED BY <1>6, <1>7

\* A day's rows under its effects are one note, if any; and which, when nothing was deleted.
LEMMA MergedIs ==
  ASSUME NEW row, Single(row), NEW ops, Orderly(ops)
  PROVE  /\ Single(Merged(row, ops)) /\ Ids(Merged(row, ops)) \subseteq Ids(row) \cup Ids(ops)
         /\ Of("delete", ops) = {} =>
              /\ Merged(row, ops) # {} <=> row # {} \/ Of("write", ops) # {}
              /\ Ids(Merged(row, ops)) \subseteq IF row = {} THEN Ids(Of("write", ops)) ELSE Ids(row)
              /\ \A e \in Merged(row, ops) :
                   e.locked = LockUnder(e.id, row, ops)
<1> DEFINE Shown(ids) == {id \in ids : Under(id, row, ops) # {}}
           made == {op \in ops : op.id \in Shown(Ids(ops))}
<1>1. Ids(row) \subseteq Nat /\ Ids(ops) \subseteq Nat
  BY DEF Single, Notes, Orderly, Ids
<1>2. Merged(row, ops) = IF Shown(Ids(row)) # {} THEN Under(Only(Shown(Ids(row))), row, ops)
                         ELSE IF made # {} THEN Under(Oldest(made).id, row, ops) ELSE {}
  BY DEF Merged
<1>3. made # {} => Oldest(made).id \in Shown(Ids(ops))
  <2> SUFFICES ASSUME made # {} PROVE Oldest(made).id \in Shown(Ids(ops))
    OBVIOUS
  <2>1. made \in SUBSET ops
    OBVIOUS
  <2>2. Orderly(made)
    BY <2>1, OrderlyPart
  <2>3. Oldest(made) \in made
    <3> HIDE DEF made
    <3> QED BY <2>2, OldestIs
  <2> QED BY <2>3
<1>4. Shown(Ids(row)) # {} => Only(Shown(Ids(row))) \in Shown(Ids(row))
  <2> HIDE DEF Shown
  <2> QED BY OnlyIs
<1> DEFINE none == Shown(Ids(row)) = {} /\ made = {}
           id   == IF Shown(Ids(row)) # {} THEN Only(Shown(Ids(row))) ELSE Oldest(made).id
<1>5. /\ none => Merged(row, ops) = {}
      /\ ~none => /\ Merged(row, ops) = Under(id, row, ops) /\ Under(id, row, ops) # {} /\ id \in Nat
                  /\ id \in Ids(row) \/ (Shown(Ids(row)) = {} /\ id \in Ids(ops))
  BY <1>1, <1>2, <1>3, <1>4
<1>6. ~none => /\ Single(Under(id, row, ops)) /\ Ids(Under(id, row, ops)) \subseteq {id}
               /\ \A e \in Under(id, row, ops) : e.id = id
  <2> HIDE DEF none, id
  <2> SUFFICES ASSUME ~none PROVE Single(Under(id, row, ops)) /\ Ids(Under(id, row, ops)) \subseteq {id}
    BY DEF Ids
  <2> QED BY <1>5, UnderIs
<1>7. Single(Merged(row, ops)) /\ Ids(Merged(row, ops)) \subseteq Ids(row) \cup Ids(ops)
  <2> HIDE DEF none, id
  <2>1. Single({}) /\ Ids({}) = {}
    BY DEF Single, AtMostOne, Ids
  <2> QED BY <1>5, <1>6, <2>1
<1>8. ASSUME Of("delete", ops) = {}
      PROVE  /\ Merged(row, ops) # {} <=> row # {} \/ Of("write", ops) # {}
             /\ Ids(Merged(row, ops)) \subseteq IF row = {} THEN Ids(Of("write", ops)) ELSE Ids(row)
             /\ \A e \in Merged(row, ops) :
                  e.locked = LockUnder(e.id, row, ops)
  <2>1. ASSUME NEW i \in Nat
        PROVE  Under(i, row, ops) # {} <=> i \in Ids(row) \cup Ids(Of("write", ops))
    BY <1>8, <2>1, UnderIs
  <2>2. Shown(Ids(row)) = Ids(row) /\ Shown(Ids(ops)) = Ids(ops) \cap (Ids(row) \cup Ids(Of("write", ops)))
    BY <1>1, <2>1
  <2>3. Ids(Of("write", ops)) \subseteq Ids(ops) /\ (Of("write", ops) # {} <=> Ids(Of("write", ops)) # {})
    BY DEF Ids, Of
  <2>4. row # {} <=> Ids(row) # {}
    BY DEF Ids
  <2>5. Of("write", ops) # {} => made # {}
    <3> SUFFICES ASSUME NEW op \in Of("write", ops) PROVE op \in made
      OBVIOUS
    <3>1. op \in ops /\ op.id \in Ids(Of("write", ops))
      BY DEF Of, Ids
    <3> QED BY <2>2, <2>3, <3>1
  <2>6. ~none => id \in IF row = {} THEN Ids(Of("write", ops)) ELSE Ids(row)
    <3> HIDE DEF Shown, made, id
    <3> QED BY <1>5, <2>1, <2>2, <2>4
  <2>7. none <=> row = {} /\ Of("write", ops) = {}
    <3> HIDE DEF Shown, made, id
    <3> QED BY <1>5, <2>2, <2>3, <2>4, <2>5, <2>6
  <2>8. ~none => \A e \in Under(id, row, ops) :
                   e.locked = LockUnder(id, row, ops)
    <3> HIDE DEF none, id
    <3> QED BY <1>5, <1>8, UnderIs
  <2> HIDE DEF none, id
  <2>9. ASSUME NEW e \in Merged(row, ops)
        PROVE  e.locked = LockUnder(e.id, row, ops)
    <3>1. ~none /\ e \in Under(id, row, ops)
      BY <1>5
    <3>2. e.id = id
      BY <1>6, <3>1
    <3>3. e.locked = LockUnder(id, row, ops)
      BY <2>8, <3>1
    <3> QED BY <3>2, <3>3
  <2>10. Merged(row, ops) # {} <=> row # {} \/ Of("write", ops) # {}
    BY <1>5, <2>7
  <2>11. Ids(Merged(row, ops)) \subseteq IF row = {} THEN Ids(Of("write", ops)) ELSE Ids(row)
    <3>1. Ids({}) = {}
      BY DEF Ids
    <3> QED BY <1>5, <1>6, <2>6, <3>1
  <2> QED BY <2>9, <2>10, <2>11
<1> QED BY <1>7, <1>8

\* After every lock of a note there is an unlock of it.
EndsUnlocked(locks) == \A op \in locks : op.locked => \E x \in Named(op.id, locks) : op.hlc < x.hlc

\* Under locks that end unlocked, and are there where the row is locked, the note shown is unlocked.
LEMMA ReadsUnlocked ==
  ASSUME NEW row, Single(row), NEW ops, Orderly(ops), Of("delete", ops) = {},
         EndsUnlocked(Of("lock", ops)),
         \A r \in row : r.locked => Named(r.id, Of("lock", ops)) # {}
  PROVE  \A e \in Merged(row, ops) : ~e.locked
<1> SUFFICES ASSUME NEW e \in Merged(row, ops) PROVE ~e.locked
  OBVIOUS
<1> DEFINE locks == Named(e.id, Of("lock", ops))
<1>1. e.locked = LockUnder(e.id, row, ops)
  BY MergedIs
<1>2. CASE locks = {}
  <2>1. ~(\E r \in row : r.id = e.id /\ r.locked)
    BY <1>2
  <2>2. LockUnder(e.id, row, ops) = (\E r \in row : r.id = e.id /\ r.locked)
    BY <1>2 DEF LockUnder
  <2> QED BY <1>1, <2>1, <2>2
<1>3. CASE locks # {}
  <2>1. locks \in SUBSET ops
    BY DEF Named, Of
  <2>2. Orderly(locks)
    BY <2>1, OrderlyPart
  <2>3. Latest(locks) \in locks /\ \A x \in locks : x.hlc <= Latest(locks).hlc
    <3> HIDE DEF locks
    <3> QED BY <1>3, <2>2, LatestIs
  <2>4. \A x \in locks : x.hlc \in Nat
    BY <2>2 DEF Orderly
  <2>5. ~Latest(locks).locked
    <3> SUFFICES ASSUME Latest(locks).locked PROVE FALSE
      OBVIOUS
    <3>1. Latest(locks) \in Of("lock", ops) /\ Latest(locks).id = e.id
      BY <2>3 DEF Named
    <3>2. PICK x \in Named(Latest(locks).id, Of("lock", ops)) : Latest(locks).hlc < x.hlc
      BY <3>1 DEF EndsUnlocked
    <3>3. x \in locks
      BY <3>1, <3>2
    <3> HIDE DEF locks
    <3> QED BY <2>3, <2>4, <3>2, <3>3
  <2>6. LockUnder(e.id, row, ops) = Latest(locks).locked
    BY <1>3 DEF LockUnder
  <2> QED BY <1>1, <2>5, <2>6
<1> QED BY <1>2, <1>3

\* A lock after which nothing was asked for is shown.
LEMMA ReadsLocked ==
  ASSUME NEW row, Single(row), NEW ops, Orderly(ops), Of("delete", ops) = {},
         AtMostOne(Ids(row) \cup Ids(ops)), NEW op \in Of("lock", ops), op.locked,
         \A x \in ops : x.hlc <= op.hlc
  PROVE  \A e \in Merged(row, ops) : e.locked
<1> SUFFICES ASSUME NEW e \in Merged(row, ops) PROVE e.locked
  OBVIOUS
<1> DEFINE locks == Named(e.id, Of("lock", ops))
<1>1. e.locked = LockUnder(e.id, row, ops)
  BY MergedIs
<1>2. e.id = op.id
  <2>1. e.id \in Ids(Merged(row, ops)) /\ op.id \in Ids(ops)
    BY DEF Ids, Of
  <2>2. Ids(Merged(row, ops)) \subseteq Ids(row) \cup Ids(ops)
    BY MergedIs
  <2> QED BY <2>1, <2>2 DEF AtMostOne
<1>3. op \in locks /\ locks \in SUBSET ops
  BY <1>2 DEF Named, Of
<1>4. Orderly(locks)
  BY <1>3, OrderlyPart
<1>5. op = Latest(locks)
  <2>1. \A x \in locks : x.hlc <= op.hlc
    BY <1>3
  <2> HIDE DEF locks
  <2> QED BY <1>3, <1>4, <2>1, LatestIs
<1>6. LockUnder(e.id, row, ops) = Latest(locks).locked
  BY <1>3 DEF LockUnder
<1> QED BY <1>1, <1>5, <1>6

\* With no locks asked for the row's own is shown.
LEMMA ReadsRow ==
  ASSUME NEW row, Single(row), NEW ops, Orderly(ops), Of("delete", ops) = {}, Of("lock", ops) = {}
  PROVE  (\E e \in Merged(row, ops) : e.locked) <=> \E r \in row : r.locked
<1>1. ASSUME NEW e \in Merged(row, ops) PROVE e.locked <=> \E r \in row : r.id = e.id /\ r.locked
  <2>1. e.locked = LockUnder(e.id, row, ops)
    BY MergedIs
  <2>2. LockUnder(e.id, row, ops) = (\E r \in row : r.id = e.id /\ r.locked)
    BY DEF LockUnder, Named
  <2> QED BY <2>1, <2>2
<1>2. ASSUME NEW r \in row, r.locked PROVE \E e \in Merged(row, ops) : e.locked
  <2>1. Merged(row, ops) # {} /\ Ids(Merged(row, ops)) \subseteq Ids(row)
    BY MergedIs
  <2>2. PICK e \in Merged(row, ops) : e.id \in Ids(row)
    BY <2>1 DEF Ids
  <2>3. e.id = r.id
    BY <2>2 DEF Ids, Single, AtMostOne
  <2> QED BY <1>1, <1>2, <2>3
<1> QED BY <1>1, <1>2

-----------------------------------------------------------------------------
(* What holds of the queue, the notes and the panel whatever happens.         *)

\* What may be in the queue.
Commands == [verb : {"write", "lock", "delete"}, id : Nat, day : Days, content : Texts,
             locked : BOOLEAN, visit : Nat, acked : BOOLEAN, hlc : Nat]

\* What is acknowledged was sent before what is not, and that before what is not stored yet.
QueueInv ==
  /\ sent \in Nat /\ minted \in Nat
  /\ overlay \subseteq Commands /\ dispatched \subseteq Commands
  /\ Orderly(overlay \cup dispatched) /\ \A op \in overlay \cup dispatched : op.hlc <= sent
  /\ \A x \in overlay, y \in dispatched : x.hlc < y.hlc
  /\ \A y \in dispatched : ~y.acked
  /\ \A x, y \in overlay : x.acked /\ ~y.acked => x.hlc < y.hlc

\* A note the device has, and one a command reached, is or was the account's.
NotesInv ==
  /\ DOMAIN buried = Days /\ DOMAIN replica = Days /\ DOMAIN cache = Days /\ DOMAIN lockCache = Days
  /\ \A d \in Days : Single(server[d]) /\ Single(replica[d])
  /\ \A d \in Days : Ids(replica[d]) \subseteq Ids(server[d]) \cup buried[d]
  /\ \A op \in overlay : op.acked => op.id \in Ids(server[op.day]) \cup buried[op.day]
  /\ \A d \in Days : AtMostOne(cache[d]) /\ \A row \in cache[d] : Single(row)
  /\ \A d \in Days : AtMostOne(lockCache[d]) /\ lockCache[d] \subseteq BOOLEAN

\* What the panel p holds: at most one reading of each query, orders that are orders,
\* and an editor that shows the draft while there is one to save.
PanelFine(p) ==
  /\ DOMAIN p = DOMAIN Closed /\ p.open \in BOOLEAN /\ p.hint \in BOOLEAN /\ p.visit \in Nat
  /\ AtMostOne(p.rows) /\ \A row \in p.rows : Single(row)
  /\ AtMostOne(p.ops) /\ \A ops \in p.ops : Orderly(ops)
  /\ AtMostOne(p.intent) /\ p.intent \subseteq BOOLEAN
  /\ AtMostOne(p.remembered) /\ p.remembered \subseteq BOOLEAN
  /\ p.draft \in Texts /\ p.editor \in Texts /\ p.save.content \in Texts /\ p.save.row \subseteq Nat
  /\ p.timer \in {"none", "armed", "fired"}
  /\ p.timer # "none" => p.focused /\ p.dirty /\ p.editor = p.draft
  /\ p.timer = "armed" => p.save.content = p.draft

\* No command on its way is another visit's with this one's number.
PanelInv ==
  /\ PanelFine(panel)
  /\ panel.open => panel.day \in Days
  /\ ~panel.open => panel = Closed
  /\ DOMAIN left = Budgets /\ \A b \in Budgets : left[b] \in Nat
  /\ panel.open => panel.visit > left["open"]
  /\ \A op \in dispatched : /\ op.visit > left["open"]
                            /\ panel.open /\ op.visit = panel.visit => op.day = panel.day

\* What holds in every state.
Sound == QueueInv /\ NotesInv /\ PanelInv

-----------------------------------------------------------------------------
(* The panel's reading.                                                       *)

\* The day's note as the panel p reads it.
LEMMA EntryIs ==
  ASSUME NotesInv, NEW p, PanelFine(p), p.day \in Days
  PROVE  /\ Single(Entry(p)) /\ ExistingId(p) \subseteq Nat /\ AtMostOne(ExistingId(p))
         /\ Draft(Entry(p)) \in Texts
         /\ Orderly(On(p.day, UNION p.ops)) /\ (p.rows # {} => Single(Only(p.rows)))
<1>1. p.rows = {} => Single(Entry(p))
  <2>1. p.rows = {} => Entry(p) = UNION cache[p.day]
    BY DEF Entry
  <2>2. Single(UNION cache[p.day])
    <3>1. AtMostOne(cache[p.day]) /\ \A row \in cache[p.day] : Single(row)
      BY DEF NotesInv
    <3>2. cache[p.day] = {} \/ \E row \in cache[p.day] : cache[p.day] = {row}
      BY <3>1 DEF AtMostOne
    <3>3. UNION cache[p.day] = {} \/ \E row \in cache[p.day] : UNION cache[p.day] = row
      BY <3>2
    <3> QED BY <3>1, <3>3 DEF Single, AtMostOne
  <2> QED BY <2>1, <2>2
<1>2. Orderly(On(p.day, UNION p.ops))
  <2>1. Orderly(UNION p.ops)
    <3>1. p.ops = {} \/ \E ops \in p.ops : p.ops = {ops}
      BY DEF PanelFine, AtMostOne
    <3>2. UNION p.ops = {} \/ \E ops \in p.ops : UNION p.ops = ops
      BY <3>1
    <3>3. Orderly({})
      BY DEF Orderly
    <3> QED BY <3>2, <3>3 DEF PanelFine
  <2> QED BY <2>1, OrderlyPart DEF On
<1>3. p.rows # {} => Single(Only(p.rows))
  BY OnlyIs DEF PanelFine
<1>4. Single(Entry(p))
  <2>1. p.rows # {} => Entry(p) = Merged(Only(p.rows), On(p.day, UNION p.ops))
    BY DEF Entry
  <2> QED BY <1>1, <1>2, <1>3, <2>1, MergedIs
<1>5. ExistingId(p) \subseteq Nat /\ AtMostOne(ExistingId(p))
  BY <1>4 DEF ExistingId, Single, AtMostOne, Notes
<1>6. Draft(Entry(p)) \in Texts
  <2>1. CASE Entry(p) = {}
    BY <2>1, JournalPanelAssumption DEF Draft
  <2>2. CASE Entry(p) # {}
    <3>1. Only(Entry(p)) \in Notes
      BY <1>4, <2>2, OnlyIs DEF Single
    <3> QED BY <2>2, <3>1 DEF Draft, Notes
  <2> QED BY <2>1, <2>2
<1> QED BY <1>2, <1>3, <1>4, <1>5, <1>6

\* A note that is read says something: its lock is the one that is shown.
LEMMA LockShown ==
  ASSUME NotesInv, NEW p, PanelFine(p), p.day \in Days
  PROVE  /\ SettledLocked(p) <=> SyncedLocked(p)
         /\ p.intent = {TRUE} => Preview(p)
         /\ p.intent = {} /\ SyncedLocked(p) => Preview(p)
         /\ p.intent = {} /\ ~SyncedLocked(p) /\ ~(p.hint /\ TRUE \in p.remembered) => ~Preview(p)
         /\ ~Preview(p) /\ p.intent = {} => ~SyncedLocked(p)
         /\ Preview(p) \in BOOLEAN
<1>1. \A e \in Entry(p) : e.content # Blank
  <2>1. Single(Entry(p))
    BY EntryIs
  <2> QED BY <2>1 DEF Single, Notes
<1>2. SettledLocked(p) <=> SyncedLocked(p)
  BY <1>1 DEF SettledLocked, SyncedLocked
<1>3. p.intent = {} \/ p.intent = {TRUE} \/ p.intent = {FALSE}
  BY DEF PanelFine, AtMostOne
<1>4. p.remembered = {} \/ p.remembered = {TRUE} \/ p.remembered = {FALSE}
  BY DEF PanelFine, AtMostOne
<1>5. Only({TRUE}) = TRUE /\ Only({FALSE}) = FALSE
  BY DEF Only
<1>6. SyncedLocked(p) => Entry(p) # {}
  BY DEF SyncedLocked
<1>7. SyncedLocked(p) \in BOOLEAN /\ SettledLocked(p) \in BOOLEAN
  BY DEF SyncedLocked, SettledLocked
<1>8. Preview(p) = IF p.intent # {} THEN Only(p.intent)
                   ELSE IF Entry(p) = {} /\ p.hint /\ p.remembered # {} THEN Only(p.remembered)
                   ELSE SettledLocked(p)
  BY DEF Preview
<1> HIDE DEF Preview
<1>9. CASE p.intent = {TRUE}
  <2>1. Preview(p) = TRUE
    BY <1>5, <1>8, <1>9
  <2> QED BY <1>2, <1>9, <2>1
<1>10. CASE p.intent = {FALSE}
  <2>1. Preview(p) = FALSE
    BY <1>5, <1>8, <1>10
  <2> QED BY <1>2, <1>10, <2>1
<1>11. CASE p.intent = {}
  <2>1. CASE Entry(p) = {} /\ p.hint /\ p.remembered # {}
    <3>1. Preview(p) = Only(p.remembered) /\ ~SyncedLocked(p)
      BY <1>6, <1>8, <1>11, <2>1
    <3>2. Only(p.remembered) \in BOOLEAN /\ (Only(p.remembered) => TRUE \in p.remembered)
      BY <1>4, <1>5, <2>1
    <3> QED BY <1>2, <1>11, <2>1, <3>1, <3>2
  <2>2. CASE ~(Entry(p) = {} /\ p.hint /\ p.remembered # {})
    <3>1. Preview(p) = SettledLocked(p)
      BY <1>8, <1>11, <2>2
    <3> QED BY <1>2, <1>7, <1>11, <3>1
  <2> QED BY <2>1, <2>2
<1> QED BY <1>3, <1>9, <1>10, <1>11

\* A render shows what was read, and changes of the panel only the draft, the editor and
\* the intent; not a draft that is edited, and not an editor that has the focus.
LEMMA RenderIs ==
  ASSUME NotesInv, Days' = Days, NEW p, PanelFine(p), p.day \in Days, Render(p)
  PROVE  /\ PanelFine(panel)'
         /\ panel'.open = p.open /\ panel'.day = p.day /\ panel'.visit = p.visit
         /\ panel'.rows = p.rows /\ panel'.ops = p.ops /\ panel'.dirty = p.dirty
         /\ panel'.timer = p.timer /\ panel'.save = p.save /\ panel'.focused = p.focused
         /\ panel'.busy = p.busy /\ panel'.hint = p.hint /\ panel'.remembered = p.remembered
         /\ p.dirty => panel'.draft = p.draft
         /\ p.focused => panel'.editor = p.editor
         /\ panel'.intent = IF p.intent = {SyncedLocked(p)} THEN {} ELSE p.intent
         /\ Entry(panel)' = Entry(p)
         /\ DOMAIN cache' = Days /\ DOMAIN lockCache' = Days
         /\ \A d \in Days : AtMostOne(cache'[d]) /\ \A row \in cache'[d] : Single(row)
         /\ \A d \in Days : AtMostOne(lockCache'[d]) /\ lockCache'[d] \subseteq BOOLEAN
<1> DEFINE was == IF panel.open THEN Entry(panel) ELSE Entry(p)
           draft == IF ~p.dirty /\ {e.content : e \in Entry(p)} # {e.content : e \in was}
                    THEN Draft(Entry(p)) ELSE p.draft
           intent == IF p.intent = {SyncedLocked(p)} THEN {} ELSE p.intent
           editor == IF p.focused \/ draft = panel.draft THEN p.editor ELSE draft
           known == IF p.intent # {} THEN p.intent
                    ELSE IF Entry(p) # {} THEN {SettledLocked(p)} ELSE lockCache[p.day]
<1>1. DOMAIN p = DOMAIN Closed
  BY DEF PanelFine
<1>2. /\ panel' = [p EXCEPT !.draft = draft, !.intent = intent, !.editor = editor]
      /\ cache' = IF p.rows = {} THEN cache ELSE [cache EXCEPT ![p.day] = {Entry(p)}]
      /\ lockCache' = [lockCache EXCEPT ![p.day] = known]
  <2> HIDE DEF was
  <2>1. panel' = Rendered(p, was)
    BY DEF Render, was
  <2>2. [p EXCEPT !.intent = IF p.intent = {SyncedLocked(p)} THEN {} ELSE @] = [p EXCEPT !.intent = intent]
    BY <1>1 DEF Closed
  <2>3. panel' = [p EXCEPT !.draft = draft, !.intent = intent, !.editor = editor]
    BY <1>1, <2>1 DEF Rendered, Closed
  <2> QED BY <2>3 DEF Render
<1> HIDE DEF was
<1>3. Single(Entry(p)) /\ Draft(Entry(p)) \in Texts
  BY EntryIs
<1>4. draft \in Texts /\ editor \in Texts /\ (p.dirty => draft = p.draft) /\ (p.focused => editor = p.editor)
  BY <1>3 DEF PanelFine
<1>5. AtMostOne(intent) /\ intent \subseteq BOOLEAN
  BY DEF PanelFine, AtMostOne
<1> HIDE DEF draft, editor, intent
<1>6. /\ panel'.open = p.open /\ panel'.day = p.day /\ panel'.visit = p.visit
      /\ panel'.rows = p.rows /\ panel'.ops = p.ops /\ panel'.dirty = p.dirty
      /\ panel'.timer = p.timer /\ panel'.save = p.save /\ panel'.focused = p.focused
      /\ panel'.busy = p.busy /\ panel'.hint = p.hint /\ panel'.remembered = p.remembered
      /\ panel'.draft = draft /\ panel'.editor = editor /\ panel'.intent = intent
      /\ DOMAIN panel' = DOMAIN p
  BY <1>1, <1>2 DEF Closed
<1>7. PanelFine(panel)'
  BY <1>4, <1>5, <1>6 DEF PanelFine
<1>8. Entry(panel)' = Entry(p)
  <2>1. CASE p.rows = {}
    <3>1. Entry(panel)' = UNION cache'[panel'.day] /\ Entry(p) = UNION cache[p.day]
      BY <1>6, <2>1 DEF Entry
    <3> QED BY <1>2, <1>6, <2>1, <3>1
  <2>2. CASE p.rows # {}
    <3>1. Entry(panel)' = Merged(Only(panel'.rows), On(panel'.day, UNION panel'.ops))
      BY <1>6, <2>2 DEF Entry
    <3>2. Entry(p) = Merged(Only(p.rows), On(p.day, UNION p.ops))
      BY <2>2 DEF Entry
    <3> QED BY <1>6, <3>1, <3>2
  <2> QED BY <2>1, <2>2
<1>9. DOMAIN cache' = Days /\ \A d \in Days : AtMostOne(cache'[d]) /\ \A row \in cache'[d] : Single(row)
  <2>1. DOMAIN cache = Days /\ \A d \in Days : AtMostOne(cache[d]) /\ \A row \in cache[d] : Single(row)
    BY DEF NotesInv
  <2>2. AtMostOne({Entry(p)}) /\ \A row \in {Entry(p)} : Single(row)
    BY <1>3 DEF AtMostOne
  <2>3. DOMAIN cache' = Days /\ \A d \in Days : cache'[d] = cache[d] \/ cache'[d] = {Entry(p)}
    BY <1>2, <2>1
  <2> QED BY <2>1, <2>2, <2>3
<1>10. DOMAIN lockCache' = Days /\ \A d \in Days : AtMostOne(lockCache'[d]) /\ lockCache'[d] \subseteq BOOLEAN
  <2>1. DOMAIN lockCache = Days /\ \A d \in Days : AtMostOne(lockCache[d]) /\ lockCache[d] \subseteq BOOLEAN
    BY DEF NotesInv
  <2>2. SettledLocked(p) \in BOOLEAN
    BY DEF SettledLocked
  <2>3. AtMostOne(known) /\ known \subseteq BOOLEAN
    <3>1. AtMostOne(p.intent) /\ p.intent \subseteq BOOLEAN
      BY DEF PanelFine
    <3>2. AtMostOne({SettledLocked(p)})
      BY DEF AtMostOne
    <3> QED BY <2>1, <2>2, <3>1, <3>2
  <2> HIDE DEF known
  <2>4. DOMAIN lockCache' = Days /\ \A d \in Days : lockCache'[d] = lockCache[d] \/ lockCache'[d] = known
    BY <1>2, <2>1
  <2> QED BY <2>1, <2>3, <2>4
<1> QED BY <1>4, <1>6, <1>7, <1>8, <1>9, <1>10 DEF intent

-----------------------------------------------------------------------------
(* What the panel sends.                                                      *)

\* A command of this panel, its place in the order of HLCs not known yet.
Orders ==
  {c \in [verb : {"write", "lock", "delete"}, id : Nat, day : {panel.day}, content : Texts,
          locked : BOOLEAN, visit : {panel.visit}, acked : {FALSE}, hlc : {0}] :
     c.verb = "write" => c.content # Blank}

\* f is the command c sent.
Sent(c, f) ==
  /\ f.verb = c.verb /\ f.id = c.id /\ f.content = c.content /\ f.locked = c.locked
  /\ f.day = panel.day /\ f.visit = panel.visit /\ ~f.acked

\* What a step sends.
News == dispatched' \ dispatched

\* The commands cmds are on their way, after all the others.
Dispatched(cmds) ==
  /\ sent' \in Nat /\ sent <= sent' /\ minted' \in Nat
  /\ dispatched \subseteq dispatched'
  /\ \A f \in News : f \in Commands /\ sent < f.hlc /\ f.hlc <= sent'
  /\ \A f \in News : \E c \in Range(cmds) : Sent(c, f)
  /\ \A c \in Range(cmds) : \E f \in News : Sent(c, f)
  /\ \A x, y \in News : x.hlc = y.hlc => x = y

\* What write makes of a content, of the row it is told of, in the panel p.
Suited(w, p, row, content) ==
  /\ w \in Seq(Orders)
  /\ \A c \in Range(w) : /\ c.verb # "lock"
                         /\ c.verb = "write" => c.content = content /\ content # Blank
                         /\ c.verb = "delete" => content = Blank /\ row # {}
  /\ Preview(p) => w = << >>
  /\ ~Preview(p) /\ content # Blank => \E c \in Range(w) : c.verb = "write"

\* write gives one command at most, and none of a note that is shown locked; it deletes
\* the row it is told of, when the text is blank.
LEMMA WriteIs ==
  ASSUME minted \in Nat, NEW p, Preview(p) \in BOOLEAN,
         NEW row \in SUBSET Nat, NEW content \in Texts
  PROVE  Suited(Write(p, row, content), p, row, content)
<1> DEFINE w == Write(p, row, content)
           gone == Command("delete", Only(row), Blank, FALSE)
           text == Command("write", IF row = {} THEN minted + 1 ELSE Only(row), content, FALSE)
<1>1. row # {} => Only(row) \in Nat
  BY OnlyIs
<1>2. row # {} => gone \in Orders /\ gone.verb = "delete"
  BY <1>1, JournalPanelAssumption DEF Orders, Command
<1>3. content # Blank => text \in Orders /\ text.verb = "write" /\ text.content = content
  BY <1>1 DEF Orders, Command
<1>4. \/ w = << >> /\ (Preview(p) \/ content = Blank)
      \/ w = <<gone>> /\ ~Preview(p) /\ content = Blank /\ row # {}
      \/ w = <<text>> /\ ~Preview(p) /\ content # Blank
  BY DEF Write
<1> HIDE DEF w, gone, text
<1>5. CASE w = << >> /\ (Preview(p) \/ content = Blank)
  <2>1. w \in Seq(Orders) /\ Range(w) = {}
    BY <1>5 DEF Range
  <2> QED BY <1>5, <2>1 DEF Suited, w
<1>6. CASE w = <<gone>> /\ ~Preview(p) /\ content = Blank /\ row # {}
  <2>1. w \in Seq(Orders) /\ Range(w) = {gone}
    BY <1>2, <1>6 DEF Range
  <2> QED BY <1>2, <1>6, <2>1 DEF Suited, w
<1>7. CASE w = <<text>> /\ ~Preview(p) /\ content # Blank
  <2>1. w \in Seq(Orders) /\ Range(w) = {text}
    BY <1>3, <1>7 DEF Range
  <2> QED BY <1>3, <1>7, <2>1 DEF Suited, w
<1> QED BY <1>4, <1>5, <1>6, <1>7

\* What is dispatched comes after all that was sent before.
LEMMA DispatchIs ==
  ASSUME QueueInv, PanelInv, panel.open, NEW cmds \in Seq(Orders), Dispatch(cmds)
  PROVE  /\ Dispatched(cmds)
         /\ \A i \in DOMAIN cmds :
              \E f \in News : Sent(cmds[i], f) /\ (i = Len(cmds) => f.hlc = sent')
         /\ \A f \in News : \E i \in DOMAIN cmds : Sent(cmds[i], f) /\ f.hlc = sent + i
<1> DEFINE out(i) == [cmds[i] EXCEPT !.hlc = sent + i]
<1>1. DOMAIN cmds = 1 .. Len(cmds) /\ Len(cmds) \in Nat /\ \A i \in DOMAIN cmds : cmds[i] \in Orders
  BY LenProperties, ElementOfSeq
<1>2. panel.day \in Days /\ panel.visit \in Nat /\ sent \in Nat /\ minted \in Nat
  BY DEF PanelInv, PanelFine, QueueInv
<1>3. /\ dispatched' = dispatched \cup {out(i) : i \in DOMAIN cmds} /\ sent' = sent + Len(cmds)
      /\ minted' = minted + 1 \/ minted' = minted
  BY DEF Dispatch
<1>4. ASSUME NEW i \in DOMAIN cmds
      PROVE  /\ out(i) \in Commands /\ out(i).hlc = sent + i /\ Sent(cmds[i], out(i))
             /\ sent < out(i).hlc /\ out(i).hlc <= sent' /\ cmds[i].day = panel.day
             /\ i = Len(cmds) => out(i).hlc = sent'
  <2>1. cmds[i] \in Orders
    BY <1>1
  <2>2. out(i) \in Commands /\ out(i).hlc = sent + i /\ Sent(cmds[i], out(i)) /\ cmds[i].day = panel.day
    <3>1. ASSUME NEW c \in Orders, NEW n \in Nat
          PROVE  LET f == [c EXCEPT !.hlc = n]
                 IN  /\ f.verb = c.verb /\ f.id = c.id /\ f.content = c.content /\ f.locked = c.locked
                     /\ f.day = c.day /\ f.visit = c.visit /\ f.acked = c.acked /\ f.hlc = n
                     /\ c.day = panel.day /\ c.visit = panel.visit /\ c.acked = FALSE
                     /\ f \in Commands
      BY <1>2 DEF Orders, Commands
    <3>2. sent + i \in Nat
      BY <1>1, <1>2
    <3> QED BY <2>1, <3>1, <3>2 DEF Sent
  <2> QED BY <1>1, <1>2, <1>3, <2>2
<1> HIDE DEF out
<1>5. \A op \in dispatched : op.hlc <= sent /\ op.hlc \in Nat
  BY DEF QueueInv, Orderly
<1>6. \A i \in DOMAIN cmds : out(i) \in News
  <2> SUFFICES ASSUME NEW i \in DOMAIN cmds PROVE out(i) \notin dispatched
    BY <1>3 DEF News
  <2>1. sent < out(i).hlc
    BY <1>4
  <2> QED BY <1>2, <1>5, <2>1
<1>7. \A f \in News : \E i \in DOMAIN cmds : f = out(i)
  BY <1>3 DEF News
<1>8. \A c \in Range(cmds) : \E i \in DOMAIN cmds : c = cmds[i]
  BY DEF Range
<1>9. \A i \in DOMAIN cmds : cmds[i] \in Range(cmds)
  BY DEF Range
<1>10. ASSUME NEW x \in News, NEW y \in News, x.hlc = y.hlc PROVE x = y
  <2>1. PICK i \in DOMAIN cmds : x = out(i)
    BY <1>7
  <2>2. PICK j \in DOMAIN cmds : y = out(j)
    BY <1>7
  <2>3. sent + i = sent + j
    BY <1>4, <1>10, <2>1, <2>2
  <2>4. i = j
    BY <1>1, <1>2, <2>3
  <2> QED BY <2>1, <2>2, <2>4
<1>11. sent' \in Nat /\ sent <= sent' /\ minted' \in Nat /\ dispatched \subseteq dispatched'
  BY <1>1, <1>2, <1>3
<1>12. \A f \in News : f \in Commands /\ sent < f.hlc /\ f.hlc <= sent' /\ \E c \in Range(cmds) : Sent(c, f)
  BY <1>4, <1>7, <1>9
<1>13. \A c \in Range(cmds) : \E f \in News : Sent(c, f)
  BY <1>4, <1>6, <1>8
<1>14. Dispatched(cmds)
  BY <1>10, <1>11, <1>12, <1>13 DEF Dispatched
<1> QED BY <1>4, <1>6, <1>7, <1>14

\* A command sent says what it was told to.
LEMMA SentOrder ==
  ASSUME NEW c \in Orders, NEW f, Sent(c, f), f.hlc \in Nat
  PROVE  /\ f.verb \in {"write", "lock", "delete"} /\ f.id \in Nat /\ f.content \in Texts
         /\ f.locked \in BOOLEAN /\ (f.verb = "write" => f.content # Blank)
  BY DEF Orders, Sent

\* The queue stays in order.
LEMMA DispatchKeepsQueue ==
  ASSUME QueueInv, Days' = Days, overlay' = overlay, NEW cmds \in Seq(Orders), Dispatched(cmds)
  PROVE  QueueInv'
<1>1. sent \in Nat /\ sent' \in Nat /\ sent <= sent' /\ minted' \in Nat
  BY DEF Dispatched, QueueInv
<1>2. Commands' = Commands /\ dispatched' = dispatched \cup News
  BY DEF Commands, Dispatched, News
<1>3. \A f \in News : f \in Commands /\ sent < f.hlc /\ f.hlc <= sent' /\ ~f.acked
  BY DEF Dispatched, Sent
<1>4. Range(cmds) \subseteq Orders
  BY RangeOfSeq
<1>5. \A f \in News : f.verb = "write" => f.content # Blank
  BY <1>4 DEF Dispatched, Sent, Orders
<1>6. \A op \in overlay \cup dispatched : op \in Commands /\ op.hlc \in Nat /\ op.hlc <= sent
  BY DEF QueueInv, Orderly
<1>7. \A f \in Commands : f.hlc \in Nat
  BY DEF Commands
<1> DEFINE all == overlay \cup dispatched \cup News
<1>8. all \subseteq Commands /\ \A op \in all : op.hlc <= sent'
  BY <1>1, <1>3, <1>6
<1>9. \A x, y \in all : x.hlc = y.hlc => x = y
  <2>1. \A x, y \in overlay \cup dispatched : x.hlc = y.hlc => x = y
    BY DEF QueueInv, Orderly
  <2>2. \A x, y \in News : x.hlc = y.hlc => x = y
    BY DEF Dispatched
  <2>3. \A x \in overlay \cup dispatched, y \in News : x.hlc # y.hlc
    BY <1>1, <1>3, <1>6, <1>7
  <2> QED BY <2>1, <2>2, <2>3
<1>10. Orderly(all)
  <2>1. \A op \in overlay \cup dispatched : op.verb = "write" => op.content # Blank
    BY DEF QueueInv, Orderly
  <2>2. \A op \in all : op.verb = "write" => op.content # Blank
    BY <1>5, <2>1
  <2>3. \A op \in all : /\ op.verb \in {"write", "lock", "delete"} /\ op.id \in Nat /\ op.hlc \in Nat
                        /\ op.content \in Texts /\ op.locked \in BOOLEAN
    BY <1>8 DEF Commands
  <2> HIDE DEF all
  <2> QED BY <1>1, <1>8, <1>9, <2>2, <2>3 DEF Orderly
<1>11. overlay' \cup dispatched' = all
  BY <1>2
<1> HIDE DEF all
<1>12. overlay' \subseteq Commands' /\ dispatched' \subseteq Commands'
  BY <1>2, <1>8, <1>11
<1>13. \A x \in overlay', y \in dispatched' : x.hlc < y.hlc
  BY <1>1, <1>2, <1>3, <1>6, <1>7 DEF QueueInv
<1>14. \A y \in dispatched' : ~y.acked
  BY <1>2, <1>3 DEF QueueInv
<1>15. \A x, y \in overlay' : x.acked /\ ~y.acked => x.hlc < y.hlc
  BY DEF QueueInv
<1> QED BY <1>1, <1>8, <1>10, <1>11, <1>12, <1>13, <1>14, <1>15 DEF QueueInv

-----------------------------------------------------------------------------
(* Sound is invariant.                                                        *)

\* A closed panel holds nothing.
LEMMA ClosedFine == PanelFine(Closed)
<1>1. Blank \in Texts
  BY JournalPanelAssumption
<1> QED BY <1>1 DEF PanelFine, Closed, AtMostOne

\* All of it holds before the first visit.
LEMMA SoundInit == Init => Sound
<1> SUFFICES ASSUME Init PROVE Sound
  OBVIOUS
<1>1. PICK v \in Visits :
        /\ server = v.notes
        /\ buried = [d \in DOMAIN v.notes |-> {}]
        /\ replica = [d \in DOMAIN v.notes |-> {}]
        /\ overlay = {} /\ dispatched = {} /\ sent = 0
        /\ minted = Cardinality(UNION Range(v.notes))
        /\ cache = [d \in DOMAIN v.notes |-> {}]
        /\ lockCache = [d \in DOMAIN v.notes |-> {}]
        /\ panel = Closed
        /\ left = [b \in Budgets |-> IF b \in DOMAIN v.may THEN v.may[b] ELSE 0]
  BY DEF Init
<1>2. /\ IsFiniteSet(DOMAIN v.notes) /\ \A b \in DOMAIN v.may : v.may[b] \in Nat
      /\ \A d \in DOMAIN v.notes : v.notes[d] \subseteq Notes /\ \A m, n \in v.notes[d] : m = n
  BY JournalPanelAssumption
<1>3. Days = DOMAIN v.notes /\ \A d \in Days : Single(server[d])
  BY <1>1, <1>2 DEF Days, Single, AtMostOne
<1>4. minted \in Nat
  <2>1. \A d \in DOMAIN v.notes : IsFiniteSet(v.notes[d])
    <3> SUFFICES ASSUME NEW d \in DOMAIN v.notes PROVE IsFiniteSet(v.notes[d])
      OBVIOUS
    <3>1. v.notes[d] = {} \/ \E n \in v.notes[d] : v.notes[d] = {n}
      BY <1>2
    <3>2. CASE v.notes[d] = {}
      BY <3>2, FS_EmptySet
    <3>3. ASSUME NEW n, v.notes[d] = {n} PROVE IsFiniteSet(v.notes[d])
      BY <3>3, FS_Singleton
    <3> QED BY <3>1, <3>2, <3>3
  <2>2. IsFiniteSet(Range(v.notes))
    <3> DEFINE S == DOMAIN v.notes
               f == [d \in S |-> v.notes[d]]
    <3>1. f \in Surjection(S, Range(v.notes))
      BY DEF Surjection, Range
    <3>2. IsFiniteSet(S)
      BY <1>2
    <3> HIDE DEF S, f
    <3> QED BY <3>1, <3>2, FS_Surjection
  <2>3. \A row \in Range(v.notes) : IsFiniteSet(row)
    BY <2>1 DEF Range
  <2>4. IsFiniteSet(UNION Range(v.notes))
    BY <2>2, <2>3, FS_UNION
  <2> QED BY <1>1, <2>4, FS_CardinalityType
<1>5. Orderly({})
  BY DEF Orderly
<1>6. QueueInv
  BY <1>1, <1>4, <1>5 DEF QueueInv
<1>7. NotesInv
  BY <1>1, <1>3 DEF NotesInv, Single, AtMostOne, Ids
<1>8. DOMAIN left = Budgets /\ \A b \in Budgets : left[b] \in Nat
  BY <1>1, <1>2
<1>9. PanelInv
  BY <1>1, <1>8, ClosedFine DEF PanelInv, Closed
<1> QED BY <1>6, <1>7, <1>9 DEF Sound

\* A budget only shrinks.
LEMMA Spending ==
  ASSUME PanelInv, NEW b \in Budgets, Spend(b)
  PROVE  DOMAIN left' = Budgets /\ \A x \in Budgets : left'[x] \in Nat /\ left'[x] <= left[x]
  BY DEF PanelInv, Spend

\* What is not spent stays.
LEMMA LeftKept ==
  ASSUME PanelInv, left' = left
  PROVE  DOMAIN left' = Budgets /\ \A x \in Budgets : left'[x] \in Nat /\ left'[x] <= left[x]
  BY DEF PanelInv

\* A panel that stays on its day, and sends commands of its own.
LEMMA PanelKept ==
  ASSUME QueueInv, PanelInv, Days' = Days, PanelFine(panel)',
         panel'.open = panel.open, panel'.day = panel.day, panel'.visit = panel.visit,
         ~panel.open => panel' = panel,
         DOMAIN left' = Budgets, \A x \in Budgets : left'[x] \in Nat /\ left'[x] <= left[x],
         \A op \in dispatched' :
           op \in dispatched \/ (panel.open /\ op.visit = panel.visit /\ op.day = panel.day)
  PROVE  PanelInv'
<1>1. "open" \in Budgets /\ left["open"] \in Nat /\ left'["open"] \in Nat /\ left'["open"] <= left["open"]
  BY DEF Budgets, PanelInv
<1>2. panel.open => panel.visit \in Nat /\ panel.visit > left["open"]
  BY DEF PanelInv, PanelFine
<1>3. panel'.open => panel'.visit > left'["open"]
  BY <1>1, <1>2
<1>4. \A op \in dispatched' : op.visit > left'["open"]
  <2>1. \A op \in dispatched : op.visit \in Nat /\ op.visit > left["open"]
    BY DEF QueueInv, Commands, PanelInv
  <2> QED BY <1>1, <1>2, <2>1
<1>5. \A op \in dispatched' : panel'.open /\ op.visit = panel'.visit => op.day = panel'.day
  BY DEF PanelInv
<1>6. (panel'.open => panel'.day \in Days') /\ (~panel'.open => panel' = Closed)
  BY DEF PanelInv
<1> QED BY <1>3, <1>4, <1>5, <1>6 DEF PanelInv

\* The panel closes: what it sent is an older visit's.
LEMMA PanelCloses ==
  ASSUME QueueInv, PanelInv, panel' = Closed,
         DOMAIN left' = Budgets, \A x \in Budgets : left'[x] \in Nat /\ left'[x] <= left[x],
         \A op \in dispatched' : op \in dispatched \/ (panel.open /\ op.visit = panel.visit)
  PROVE  PanelInv'
<1>1. "open" \in Budgets /\ left["open"] \in Nat /\ left'["open"] \in Nat /\ left'["open"] <= left["open"]
  BY DEF Budgets, PanelInv
<1>2. panel.open => panel.visit \in Nat /\ panel.visit > left["open"]
  BY DEF PanelInv, PanelFine
<1>3. \A op \in dispatched : op.visit \in Nat /\ op.visit > left["open"]
  BY DEF QueueInv, Commands, PanelInv
<1>4. \A op \in dispatched' : op.visit > left'["open"]
  BY <1>1, <1>2, <1>3
<1>5. PanelFine(panel)'
  BY ClosedFine DEF PanelFine
<1>6. ~panel'.open
  BY DEF Closed
<1> QED BY <1>4, <1>5, <1>6 DEF PanelInv

\* The notes stay what they are when the account, the replica and the overlay do.
LEMMA NotesKept ==
  ASSUME NotesInv, UNCHANGED <<account, replica, overlay>>,
         DOMAIN cache' = Days /\ DOMAIN lockCache' = Days,
         \A d \in Days : AtMostOne(cache'[d]) /\ \A row \in cache'[d] : Single(row),
         \A d \in Days : AtMostOne(lockCache'[d]) /\ lockCache'[d] \subseteq BOOLEAN
  PROVE  NotesInv'
<1>1. UNCHANGED <<server, buried, replica, overlay>> /\ Days' = Days
  BY DEF account, Days
<1> QED BY <1>1 DEF NotesInv

\* A step that sends and stores nothing.
LEMMA QueueKept ==
  ASSUME QueueInv, Days' = Days, UNCHANGED <<sent, minted, overlay, dispatched>>
  PROVE  QueueInv'
<1>1. Commands' = Commands
  BY DEF Commands
<1> QED BY <1>1 DEF QueueInv

\* Two panels differ in the fields of but at most.
Fields(p, q, but) == \A f \in DOMAIN Closed \ but : p[f] = q[f]

\* The panel that a reading renders.
LEMMA ReadRowsIs ==
  ASSUME Sound, ReadRows
  PROVE  \E p : /\ PanelFine(p) /\ Render(p) /\ p.rows = {replica[panel.day]}
                /\ DOMAIN p = DOMAIN panel /\ Fields(p, panel, {"rows"})
<1> DEFINE p == [panel EXCEPT !.rows = {replica[panel.day]}]
<1>1. panel.open /\ Render(p)
  BY DEF ReadRows
<1>2. PanelFine(panel) /\ panel.day \in Days /\ Single(replica[panel.day])
  BY <1>1 DEF Sound, PanelInv, NotesInv
<1>3. DOMAIN panel = DOMAIN Closed /\ "rows" \in DOMAIN Closed
  BY <1>2 DEF PanelFine, Closed
<1>4. p.rows = {replica[panel.day]} /\ DOMAIN p = DOMAIN panel /\ Fields(p, panel, {"rows"})
  BY <1>3 DEF Fields
<1>5. PanelFine(p)
  <2>1. AtMostOne({replica[panel.day]}) /\ \A row \in {replica[panel.day]} : Single(row)
    BY <1>2 DEF AtMostOne
  <2> HIDE DEF p
  <2> QED BY <1>2, <1>3, <1>4, <2>1 DEF PanelFine, Fields, Closed
<1> QED BY <1>1, <1>4, <1>5

\* The panel that a reading of the effects renders.
LEMMA ReadOverlayIs ==
  ASSUME Sound, ReadOverlay
  PROVE  \E p : /\ PanelFine(p) /\ Render(p) /\ p.ops = {overlay}
                /\ p.rows = (IF panel.rows = {} THEN {} ELSE {replica[panel.day]})
                /\ DOMAIN p = DOMAIN panel /\ Fields(p, panel, {"rows", "ops"})
<1> DEFINE rows == IF panel.rows = {} THEN {} ELSE {replica[panel.day]}
           p == [panel EXCEPT !.ops = {overlay}, !.rows = rows]
<1>2. panel.open /\ PanelFine(panel) /\ panel.day \in Days /\ Single(replica[panel.day]) /\ Orderly(overlay)
  <2>1. panel.open
    BY DEF ReadOverlay
  <2>2. Orderly(overlay)
    BY OrderlyPart DEF Sound, QueueInv
  <2> QED BY <2>1, <2>2 DEF Sound, PanelInv, NotesInv
<1>3. DOMAIN panel = DOMAIN Closed /\ {"rows", "ops"} \subseteq DOMAIN Closed
  BY <1>2 DEF PanelFine, Closed
<1>1. Render(p)
  <2>1. Render([panel EXCEPT !.ops = {overlay}, !.rows = IF @ = {} THEN @ ELSE {replica[panel.day]}])
    BY DEF ReadOverlay
  <2>2. p = [panel EXCEPT !.ops = {overlay}, !.rows = IF @ = {} THEN @ ELSE {replica[panel.day]}]
    BY <1>3
  <2> QED BY <2>1, <2>2
<1>4. p.rows = rows /\ p.ops = {overlay} /\ DOMAIN p = DOMAIN panel /\ Fields(p, panel, {"rows", "ops"})
  BY <1>3 DEF Fields
<1>5. PanelFine(p)
  <2>1. AtMostOne(rows) /\ \A row \in rows : Single(row)
    BY <1>2 DEF AtMostOne
  <2>2. AtMostOne({overlay}) /\ \A ops \in {overlay} : Orderly(ops)
    BY <1>2 DEF AtMostOne
  <2> HIDE DEF p, rows
  <2> QED BY <1>2, <1>3, <1>4, <2>1, <2>2 DEF PanelFine, Fields, Closed
<1> HIDE DEF p
<1> QED BY <1>1, <1>4, <1>5

\* The panel that opening renders.
LEMMA OpenIs ==
  ASSUME Sound, NEW d \in Days, Open(d)
  PROVE  /\ ~panel.open /\ panel = Closed /\ PanelFine(Opened(d)) /\ Render(Opened(d))
         /\ Opened(d).open = TRUE /\ Opened(d).day = d /\ Opened(d).visit = left["open"]
         /\ Opened(d).rows = {} /\ Opened(d).ops = {} /\ Opened(d).timer = "none"
         /\ Opened(d).focused = FALSE /\ Opened(d).intent = {}
<1>1. ~panel.open /\ Render(Opened(d)) /\ panel = Closed /\ left["open"] \in Nat
  BY DEF Open, Sound, PanelInv, Budgets
<1>2. /\ Opened(d).open = TRUE /\ Opened(d).day = d /\ Opened(d).visit = left["open"]
      /\ Opened(d).rows = {} /\ Opened(d).ops = {} /\ Opened(d).timer = "none"
      /\ Opened(d).focused = FALSE /\ Opened(d).intent = {}
      /\ Opened(d).draft = Draft(UNION cache[d]) /\ Opened(d).editor = Draft(UNION cache[d])
      /\ Opened(d).hint = (lockCache[d] # {}) /\ Opened(d).remembered = lockCache[d]
      /\ Opened(d).save = Closed.save /\ DOMAIN Opened(d) = DOMAIN Closed
  BY DEF Opened, Closed
<1>3. Draft(UNION cache[d]) \in Texts
  <2> DEFINE p == [Closed EXCEPT !.day = d]
  <2>1. PanelFine(p) /\ p.day = d /\ p.rows = {}
    <3>1. DOMAIN p = DOMAIN Closed /\ p.day = d /\ Fields(p, Closed, {"day"})
      BY DEF Closed, Fields
    <3> HIDE DEF p
    <3> QED BY <3>1, ClosedFine DEF PanelFine, Fields, Closed
  <2>2. Draft(Entry(p)) \in Texts
    <3> HIDE DEF p
    <3> QED BY <2>1, EntryIs DEF Sound
  <2>3. Entry(p) = UNION cache[d]
    BY <2>1 DEF Entry
  <2> QED BY <2>2, <2>3
<1>4. AtMostOne(lockCache[d]) /\ lockCache[d] \subseteq BOOLEAN
  BY DEF Sound, NotesInv
<1>5. PanelFine(Opened(d))
  <2>1. AtMostOne({}) /\ Closed.save.content \in Texts /\ Closed.save.row \subseteq Nat
    BY ClosedFine DEF PanelFine, AtMostOne
  <2> QED BY <1>1, <1>2, <1>3, <1>4, <2>1 DEF PanelFine
<1> QED BY <1>1, <1>2, <1>5

\* The panel that a toggle renders.
LEMMA ToggleIs ==
  ASSUME Sound, ToggleLock
  PROVE  \E p : /\ PanelFine(p) /\ Render(p) /\ p.intent = {~Preview(panel)}
                /\ p.timer = (IF ~Preview(panel) THEN "none" ELSE panel.timer)
                /\ DOMAIN p = DOMAIN panel /\ Fields(p, panel, {"timer", "busy", "intent"})
<1> DEFINE timer == IF ~Preview(panel) THEN "none" ELSE panel.timer
           p == [panel EXCEPT !.timer = timer, !.busy = TRUE, !.intent = {~Preview(panel)}]
<1>1. panel.open /\ PanelFine(panel) /\ panel.day \in Days
  BY DEF ToggleLock, Sound, PanelInv
<1>2. DOMAIN panel = DOMAIN Closed /\ {"timer", "busy", "intent"} \subseteq DOMAIN Closed
  BY <1>1 DEF PanelFine, Closed
<1>3. Render(p)
  <2>1. p = [panel EXCEPT !.timer = IF ~Preview(panel) THEN "none" ELSE @, !.busy = TRUE, !.intent = {~Preview(panel)}]
    BY <1>2
  <2> QED BY <2>1 DEF ToggleLock
<1>4. /\ p.timer = timer /\ p.intent = {~Preview(panel)} /\ DOMAIN p = DOMAIN panel
      /\ Fields(p, panel, {"timer", "busy", "intent"})
  BY <1>2 DEF Fields
<1>5. PanelFine(p)
  <2>1. AtMostOne({~Preview(panel)}) /\ {~Preview(panel)} \subseteq BOOLEAN
    BY DEF AtMostOne
  <2>2. timer = panel.timer \/ timer = "none"
    OBVIOUS
  <2> HIDE DEF p, timer
  <2> QED BY <1>1, <1>2, <1>4, <2>1, <2>2 DEF PanelFine, Fields, Closed
<1> HIDE DEF p
<1> QED BY <1>3, <1>4, <1>5

\* The panel that loses its intent.
LEMMA IntentLost ==
  ASSUME PanelFine(panel)
  PROVE  LET p == [panel EXCEPT !.intent = {}]
         IN  PanelFine(p) /\ p.intent = {} /\ DOMAIN p = DOMAIN panel /\ Fields(p, panel, {"intent"})
<1> DEFINE p == [panel EXCEPT !.intent = {}]
<1>1. DOMAIN panel = DOMAIN Closed /\ "intent" \in DOMAIN Closed
  BY DEF PanelFine, Closed
<1>2. p.intent = {} /\ DOMAIN p = DOMAIN panel /\ Fields(p, panel, {"intent"})
  BY <1>1 DEF Fields
<1>3. PanelFine(p)
  <2>1. AtMostOne({})
    BY DEF AtMostOne
  <2> HIDE DEF p
  <2> QED BY <1>1, <1>2, <2>1 DEF PanelFine, Fields, Closed
<1> QED BY <1>2, <1>3

\* What is sent is of the panel that is open.
OwnNews == \A op \in dispatched' :
  op \in dispatched \/ (panel.open /\ op.visit = panel.visit /\ op.day = panel.day)

\* A render of the panel that is open keeps the notes and the panel sound.
LEMMA RenderKeeps ==
  ASSUME Sound, UNCHANGED <<account, replica, overlay>>, OwnNews, panel.open,
         NEW p, PanelFine(p), Render(p),
         p.open = panel.open, p.day = panel.day, p.visit = panel.visit,
         DOMAIN left' = Budgets, \A x \in Budgets : left'[x] \in Nat /\ left'[x] <= left[x]
  PROVE  NotesInv' /\ PanelInv'
<1>1. Days' = Days /\ p.day \in Days
  BY DEF account, Days, Sound, PanelInv
<1>2. /\ PanelFine(panel)' /\ panel'.open = p.open /\ panel'.day = p.day /\ panel'.visit = p.visit
      /\ DOMAIN cache' = Days /\ DOMAIN lockCache' = Days
      /\ \A d \in Days : AtMostOne(cache'[d]) /\ \A row \in cache'[d] : Single(row)
      /\ \A d \in Days : AtMostOne(lockCache'[d]) /\ lockCache'[d] \subseteq BOOLEAN
  BY <1>1, RenderIs DEF Sound
<1>3. NotesInv'
  BY <1>2, NotesKept DEF Sound
<1>4. PanelInv'
  BY <1>1, <1>2, PanelKept DEF Sound, OwnNews
<1> QED BY <1>3, <1>4

\* A step that leaves the notes and the caches alone.
LEMMA NotesStill ==
  ASSUME NotesInv, UNCHANGED <<account, replica, overlay, cache, lockCache>>
  PROVE  NotesInv' /\ Days' = Days
<1>1. UNCHANGED <<server, buried, replica, overlay, cache, lockCache>> /\ Days' = Days
  BY DEF account, Days
<1> QED BY <1>1 DEF NotesInv

\* A reading changes what is shown and nothing else.
LEMMA ReadSound ==
  ASSUME Sound, ReadRows \/ ReadOverlay
  PROVE  Sound'
<1>1. PICK p : /\ PanelFine(p) /\ Render(p) /\ DOMAIN p = DOMAIN panel /\ Fields(p, panel, {"rows", "ops"})
  <2>1. CASE ReadRows
    BY <2>1, ReadRowsIs DEF Fields
  <2>2. CASE ReadOverlay
    BY <2>2, ReadOverlayIs
  <2> QED BY <2>1, <2>2
<1>2. panel.open /\ UNCHANGED <<account, queue, left>>
  BY DEF ReadRows, ReadOverlay
<1>3. UNCHANGED <<replica, overlay, dispatched, sent, minted>> /\ Days' = Days
  BY <1>2 DEF queue, account, Days
<1>4. p.open = panel.open /\ p.day = panel.day /\ p.visit = panel.visit
  BY <1>1 DEF Fields, Closed
<1>5. DOMAIN left' = Budgets /\ \A x \in Budgets : left'[x] \in Nat /\ left'[x] <= left[x]
  BY <1>2, LeftKept DEF Sound
<1>6. NotesInv' /\ PanelInv'
  BY <1>1, <1>2, <1>3, <1>4, <1>5, RenderKeeps DEF OwnNews
<1>7. QueueInv'
  BY <1>3, QueueKept DEF Sound
<1> QED BY <1>6, <1>7 DEF Sound

\* A panel opens with the number of its visit, which no command has yet.
LEMMA OpenSound ==
  ASSUME Sound, NEW d \in Days, Open(d)
  PROVE  Sound'
<1>1. UNCHANGED <<account, queue>> /\ Spend("open")
  BY DEF Open
<1>2. UNCHANGED <<replica, overlay, dispatched, sent, minted>> /\ Days' = Days
  BY <1>1 DEF queue, account, Days
<1>3. /\ ~panel.open /\ PanelFine(Opened(d)) /\ Render(Opened(d))
      /\ Opened(d).open = TRUE /\ Opened(d).day = d /\ Opened(d).visit = left["open"]
  BY OpenIs
<1>4. /\ PanelFine(panel)' /\ panel'.open = TRUE /\ panel'.day = d /\ panel'.visit = left["open"]
      /\ DOMAIN cache' = Days /\ DOMAIN lockCache' = Days
      /\ \A e \in Days : AtMostOne(cache'[e]) /\ \A row \in cache'[e] : Single(row)
      /\ \A e \in Days : AtMostOne(lockCache'[e]) /\ lockCache'[e] \subseteq BOOLEAN
  BY <1>2, <1>3, RenderIs DEF Sound
<1>5. NotesInv'
  BY <1>1, <1>2, <1>4, NotesKept DEF Sound
<1>6. QueueInv'
  BY <1>2, QueueKept DEF Sound
<1>7. PanelInv'
  <2>1. "open" \in Budgets /\ left["open"] \in Nat /\ DOMAIN left = Budgets
    BY DEF Budgets, Sound, PanelInv
  <2>2. DOMAIN left' = Budgets /\ \A x \in Budgets : left'[x] \in Nat
    BY <1>1, <2>1, Spending DEF Sound
  <2>3. left'["open"] = left["open"] - 1
    BY <1>1, <2>1 DEF Spend
  <2>4. \A op \in dispatched' : op.visit \in Nat /\ op.visit > left["open"]
    BY <1>2 DEF Sound, QueueInv, Commands, PanelInv
  <2> QED BY <1>2, <1>4, <2>1, <2>2, <2>3, <2>4 DEF PanelInv
<1> QED BY <1>5, <1>6, <1>7 DEF Sound

\* The panel's steps that send nothing and render nothing.
LEMMA StillSound ==
  ASSUME Sound, Focus \/ LockTimer \/ HintExpires \/ \E t \in Texts : Type(t)
  PROVE  Sound'
<1>1. UNCHANGED <<account, queue, cache, lockCache>>
  BY DEF Focus, LockTimer, HintExpires, Type
<1>2. UNCHANGED <<replica, overlay, dispatched, sent, minted>> /\ Days' = Days
  BY <1>1 DEF queue, account, Days
<1>3. DOMAIN left' = Budgets /\ \A x \in Budgets : left'[x] \in Nat /\ left'[x] <= left[x]
  <2>1. Spend("focus") \/ Spend("type") \/ left' = left
    BY DEF Focus, LockTimer, HintExpires, Type
  <2>2. {"focus", "type"} \subseteq Budgets
    BY DEF Budgets
  <2> QED BY <2>1, <2>2, Spending, LeftKept DEF Sound
<1>4. PanelFine(panel)
  BY DEF Sound, PanelInv
<1>5. DOMAIN panel = DOMAIN Closed
  BY <1>4 DEF PanelFine
<1>6. ~panel.open => ~panel.busy /\ ~panel.hint
  BY DEF Sound, PanelInv, Closed
<1>7. /\ PanelFine(panel)' /\ panel'.open = panel.open /\ panel'.day = panel.day
      /\ panel'.visit = panel.visit /\ panel.open
  <2>1. CASE Focus
    <3>1. panel' = [panel EXCEPT !.focused = TRUE] /\ panel.open
      BY <2>1 DEF Focus
    <3>2. panel'.focused = TRUE /\ DOMAIN panel' = DOMAIN panel /\ Fields(panel', panel, {"focused"})
      BY <1>5, <3>1 DEF Fields, Closed
    <3> QED BY <1>4, <1>5, <3>1, <3>2 DEF PanelFine, Fields, Closed
  <2>2. CASE LockTimer
    <3>1. panel' = [panel EXCEPT !.busy = FALSE] /\ panel.busy
      BY <2>2 DEF LockTimer
    <3>2. panel'.busy = FALSE /\ DOMAIN panel' = DOMAIN panel /\ Fields(panel', panel, {"busy"})
      BY <1>5, <3>1 DEF Fields, Closed
    <3> QED BY <1>4, <1>5, <1>6, <3>1, <3>2 DEF PanelFine, Fields, Closed
  <2>3. CASE HintExpires
    <3>1. panel' = [panel EXCEPT !.hint = FALSE] /\ panel.hint
      BY <2>3 DEF HintExpires
    <3>2. panel'.hint = FALSE /\ DOMAIN panel' = DOMAIN panel /\ Fields(panel', panel, {"hint"})
      BY <1>5, <3>1 DEF Fields, Closed
    <3> QED BY <1>4, <1>5, <1>6, <3>1, <3>2 DEF PanelFine, Fields, Closed
  <2>4. ASSUME NEW t \in Texts, Type(t)
        PROVE  /\ PanelFine(panel)' /\ panel'.open = panel.open /\ panel'.day = panel.day
               /\ panel'.visit = panel.visit /\ panel.open
    <3> DEFINE save == [content |-> t, row |-> ExistingId(panel)]
    <3>1. panel' = [panel EXCEPT !.dirty = TRUE, !.draft = t, !.editor = t, !.timer = "armed", !.save = save]
          /\ panel.open /\ panel.focused
      BY <2>4 DEF Type
    <3>2. ExistingId(panel) \subseteq Nat
      BY <1>4, <3>1, EntryIs DEF Sound, PanelInv
    <3>3. save.content = t /\ save.row \subseteq Nat
      BY <3>2
    <3> HIDE DEF save
    <3>4. /\ panel'.dirty = TRUE /\ panel'.draft = t /\ panel'.editor = t /\ panel'.timer = "armed"
          /\ panel'.save = save /\ DOMAIN panel' = DOMAIN panel
          /\ Fields(panel', panel, {"dirty", "draft", "editor", "timer", "save"})
      BY <1>5, <3>1 DEF Fields, Closed
    <3> QED BY <1>4, <1>5, <3>1, <3>3, <3>4 DEF PanelFine, Fields, Closed
  <2> QED BY <2>1, <2>2, <2>3, <2>4
<1>8. PanelInv'
  BY <1>2, <1>3, <1>7, PanelKept DEF Sound
<1>9. NotesInv' /\ QueueInv'
  BY <1>1, <1>2, NotesStill, QueueKept DEF Sound
<1> QED BY <1>8, <1>9 DEF Sound

\* What a save sends is the editor's text, or that it is gone; nothing of a note that is
\* shown locked.
Saves(cmds) ==
  /\ cmds \in Seq(Orders)
  /\ \A c \in Range(cmds) : c.verb # "lock" /\ (c.verb = "write" => c.content = panel.editor)
  /\ Preview(panel) => cmds = << >>

\* To send nothing is to save nothing wrong.
LEMMA NothingSaved == Saves(<< >>)
  BY DEF Saves, Range

\* write sends the editor's text, or a delete of the row when there is none to send,
\* unless the note is shown locked.
LEMMA WriteSaves ==
  ASSUME Sound, panel.open, NEW row \in SUBSET Nat, NEW content \in {panel.editor, Blank}
  PROVE  LET w == Write(panel, row, content)
         IN  /\ Saves(w)
             /\ ~Preview(panel) /\ content # Blank => \E c \in Range(w) : c.verb = "write"
             /\ \A c \in Range(w) : c.verb = "delete" => content = Blank /\ row # {}
<1>1. minted \in Nat /\ Preview(panel) \in BOOLEAN /\ content \in Texts
  BY LockShown, JournalPanelAssumption DEF Sound, QueueInv, PanelInv, PanelFine
<1> DEFINE w == Write(panel, row, content)
<1>0. Suited(w, panel, row, content)
  BY <1>1, WriteIs
<1> HIDE DEF w
<1>2. /\ w \in Seq(Orders)
      /\ \A c \in Range(w) : c.verb # "lock"
      /\ \A c \in Range(w) : c.verb = "write" => c.content = content /\ content # Blank
      /\ \A c \in Range(w) : c.verb = "delete" => content = Blank /\ row # {}
      /\ Preview(panel) => w = << >>
      /\ ~Preview(panel) /\ content # Blank => \E c \in Range(w) : c.verb = "write"
  BY <1>0 DEF Suited
<1>3. content # Blank => content = panel.editor
  OBVIOUS
<1>4. \A c \in Range(w) : c.verb = "write" => c.content = panel.editor
  BY <1>2, <1>3
<1>5. Saves(w)
  BY <1>2, <1>4 DEF Saves
<1>6. /\ Saves(w)
      /\ ~Preview(panel) /\ content # Blank => \E c \in Range(w) : c.verb = "write"
      /\ \A c \in Range(w) : c.verb = "delete" => content = Blank /\ row # {}
  BY <1>2, <1>5
<1> QED BY <1>6 DEF w

\* A flush sends what the debounce holds, unless the note is shown locked.
LEMMA FlushedSaves ==
  ASSUME Sound, panel.open
  PROVE  LET f == Flushed(panel)
         IN  /\ Saves(f)
             /\ panel.timer # "none" /\ ~Preview(panel) /\ panel.editor # Blank =>
                  \E c \in Range(f) : c.verb = "write"
             /\ \A c \in Range(f) : c.verb = "delete" => panel.editor = Blank /\ ExistingId(panel) # {}
<1>1. ExistingId(panel) \subseteq Nat /\ (panel.timer # "none" => panel.draft = panel.editor)
  BY EntryIs DEF Sound, PanelInv, PanelFine
<1>2. CASE panel.timer = "none"
  <2>1. Flushed(panel) = << >> /\ Range(<< >>) = {}
    BY <1>2 DEF Flushed, Range
  <2> QED BY <1>2, <2>1, NothingSaved
<1>3. CASE panel.timer # "none"
  <2>1. Flushed(panel) = Write(panel, ExistingId(panel), panel.draft)
    BY <1>3 DEF Flushed
  <2> QED BY <1>1, <1>3, <2>1, WriteSaves
<1> QED BY <1>2, <1>3

\* A delete goes out only of a day the step disturbs, or of a row whose text is gone from
\* the editor.
Deletes == \/ panel.day \in disturbed'
           \/ panel.editor = Blank /\ (panel.timer = "armed" \/ ExistingId(panel) # {})

\* The timer, a blur and the unmount send saves, and all of what the debounce holds; but
\* for the editor that goes, which disturbs its day when the text it reports takes it away.
LEMMA SavesIs ==
  ASSUME Sound, Fire \/ Blur \/ Close
  PROVE  \E cmds : /\ Saves(cmds) /\ Dispatch(cmds)
                   /\ panel.timer = "armed" /\ ~Preview(panel) /\ panel.editor # Blank =>
                        panel.day \in disturbed' \/ \E c \in Range(cmds) : c.verb = "write"
                   /\ \A c \in Range(cmds) : c.verb = "delete" => Deletes
                   /\ ~panel.focused => cmds = << >>
<1>1. panel.open
  <2>1. panel.open \/ panel.timer = "armed"
    BY DEF Fire, Blur, Close
  <2> QED BY <2>1 DEF Sound, PanelInv, Closed
<1>2. /\ panel.save.row \subseteq Nat /\ ExistingId(panel) \subseteq Nat
      /\ panel.timer = "armed" => panel.save.content = panel.editor
      /\ panel.timer # "none" => panel.focused
  BY <1>1, EntryIs DEF Sound, PanelInv, PanelFine
<1>3. CASE Fire
  <2> DEFINE w == Write(panel, panel.save.row, panel.save.content)
  <2>1. Dispatch(w) /\ panel.save.content = panel.editor /\ panel.timer = "armed" /\ panel.focused
    BY <1>2, <1>3 DEF Fire
  <2>2. /\ Saves(w)
        /\ ~Preview(panel) /\ panel.editor # Blank => \E c \in Range(w) : c.verb = "write"
        /\ \A c \in Range(w) : c.verb = "delete" => panel.editor = Blank
    BY <1>1, <1>2, <2>1, WriteSaves
  <2> HIDE DEF w
  <2> QED BY <2>1, <2>2 DEF Deletes
<1>4. ASSUME NEW text \in {panel.editor, Blank}, Dispatch(Write(panel, ExistingId(panel), text)), panel.focused,
             text = Blank => Preview(panel) \/ panel.day \in disturbed' \/ text = panel.editor
      PROVE  \E cmds : /\ Saves(cmds) /\ Dispatch(cmds)
                       /\ panel.timer = "armed" /\ ~Preview(panel) /\ panel.editor # Blank =>
                            panel.day \in disturbed' \/ \E c \in Range(cmds) : c.verb = "write"
                       /\ \A c \in Range(cmds) : c.verb = "delete" => Deletes
                       /\ ~panel.focused => cmds = << >>
  <2> DEFINE w == Write(panel, ExistingId(panel), text)
  <2>1. /\ Saves(w)
        /\ ~Preview(panel) /\ text # Blank => \E c \in Range(w) : c.verb = "write"
        /\ \A c \in Range(w) : c.verb = "delete" => text = Blank /\ ExistingId(panel) # {}
    BY <1>1, <1>2, WriteSaves
  <2>2. Dispatch(w)
    BY <1>4
  <2> HIDE DEF w
  <2>3. Preview(panel) => Range(w) = {}
    BY <2>1 DEF Saves, Range
  <2> QED BY <1>4, <2>1, <2>2, <2>3 DEF Deletes
<1>5. CASE Blur
  <2>1. PICK text \in Reported(Preview(panel)) : Dispatch(Write(panel, ExistingId(panel), text))
    BY <1>5 DEF Blur
  <2>2. text \in {panel.editor, Blank} /\ (text = panel.editor \/ Preview(panel)) /\ panel.focused
    BY <1>5, <2>1 DEF Blur, Reported
  <2> QED BY <1>4, <2>1, <2>2
<1>6. CASE Close
  <2>1. CASE Dispatch(Flushed(panel))
    <3>1. /\ Saves(Flushed(panel))
          /\ panel.timer # "none" /\ ~Preview(panel) /\ panel.editor # Blank =>
               \E c \in Range(Flushed(panel)) : c.verb = "write"
          /\ \A c \in Range(Flushed(panel)) :
               c.verb = "delete" => panel.editor = Blank /\ ExistingId(panel) # {}
      BY <1>1, FlushedSaves
    <3>2. ~panel.focused => Flushed(panel) = << >>
      BY <1>2 DEF Flushed
    <3> QED BY <2>1, <3>1, <3>2 DEF Deletes
  <2>2. CASE \E text \in Reported(TRUE) :
               /\ panel.focused
               /\ Dispatch(Write(panel, ExistingId(panel), text))
               /\ disturbed' = disturbed \cup {d \in {panel.day} : text = Blank /\ ~Preview(panel)}
    <3>1. PICK text \in Reported(TRUE) :
               /\ panel.focused
               /\ Dispatch(Write(panel, ExistingId(panel), text))
               /\ disturbed' = disturbed \cup {d \in {panel.day} : text = Blank /\ ~Preview(panel)}
      BY <2>2
    <3>2. text \in {panel.editor, Blank}
      BY <3>1 DEF Reported
    <3> QED BY <1>4, <3>1, <3>2
  <2> QED BY <1>6, <2>1, <2>2 DEF Close
<1> QED BY <1>3, <1>5, <1>6

\* A toggle sends the saves that may still be sent, then the lock.
LEMMA ToggleSends ==
  ASSUME Sound, ToggleLock
  PROVE  \E saves, lock :
           /\ Saves(saves) /\ lock \in Orders /\ Dispatch(saves \o <<lock>>)
           /\ lock.verb = "lock" /\ lock.locked = ~Preview(panel) /\ ExistingId(panel) = {lock.id}
           /\ panel.timer = "armed" /\ ~Preview(panel) /\ panel.editor # Blank =>
                \E c \in Range(saves) : c.verb = "write"
           /\ \A c \in Range(saves) : c.verb = "delete" => Deletes
           /\ ~panel.focused => saves = << >>
<1> DEFINE saves == IF ~Preview(panel) THEN Flushed(panel) ELSE << >>
           lock == Command("lock", Only(ExistingId(panel)), Blank, ~Preview(panel))
<1>1. panel.open /\ ExistingId(panel) # {} /\ Dispatch(saves \o <<lock>>)
  BY DEF ToggleLock, HasNote
<1>2. ExistingId(panel) \subseteq Nat /\ AtMostOne(ExistingId(panel)) /\ Preview(panel) \in BOOLEAN
  BY <1>1, EntryIs, LockShown DEF Sound, PanelInv
<1>3. Only(ExistingId(panel)) \in Nat /\ ExistingId(panel) = {Only(ExistingId(panel))}
  BY <1>1, <1>2, OnlyIs DEF AtMostOne
<1>4. lock \in Orders /\ lock.verb = "lock" /\ lock.locked = ~Preview(panel) /\ ExistingId(panel) = {lock.id}
  BY <1>2, <1>3, JournalPanelAssumption DEF Orders, Command
<1>5. /\ Saves(saves)
      /\ panel.timer = "armed" /\ ~Preview(panel) /\ panel.editor # Blank =>
           \E c \in Range(saves) : c.verb = "write"
      /\ \A c \in Range(saves) : c.verb = "delete" => Deletes
  <2>1. Range(<< >>) = {}
    BY DEF Range
  <2> QED BY <1>1, <2>1, FlushedSaves, NothingSaved DEF Deletes
<1>6. ~panel.focused => saves = << >>
  BY <1>1 DEF Flushed, Sound, PanelInv, PanelFine
<1> HIDE DEF saves, lock
<1> QED BY <1>1, <1>4, <1>5, <1>6

\* remove sends a delete of the note shown.
LEMMA RemoveSends ==
  ASSUME Sound, RemoveNote
  PROVE  \E gone \in Orders : Dispatch(<<gone>>) /\ gone.verb = "delete"
<1> DEFINE gone == Command("delete", Only(ExistingId(panel)), Blank, FALSE)
<1>1. panel.open /\ ExistingId(panel) # {} /\ Dispatch(<<gone>>)
  BY DEF RemoveNote
<1>2. Only(ExistingId(panel)) \in Nat
  BY <1>1, EntryIs, OnlyIs DEF Sound, PanelInv
<1>3. gone \in Orders /\ gone.verb = "delete"
  BY <1>2, JournalPanelAssumption DEF Orders, Command
<1> QED BY <1>1, <1>3

\* Whatever the panel sends is an order of its own.
LEMMA SendsOrders ==
  ASSUME Sound, Fire \/ Blur \/ Close \/ ToggleLock \/ RemoveNote
  PROVE  panel.open /\ \E cmds \in Seq(Orders) : Dispatch(cmds)
<1>1. panel.open
  <2>1. panel.open \/ panel.timer = "armed"
    BY DEF Fire, Blur, Close, ToggleLock, RemoveNote
  <2> QED BY <2>1 DEF Sound, PanelInv, Closed
<1>2. CASE Fire \/ Blur \/ Close
  BY <1>1, <1>2, SavesIs DEF Saves
<1>3. CASE ToggleLock
  <2>1. PICK saves, lock : Saves(saves) /\ lock \in Orders /\ Dispatch(saves \o <<lock>>)
    BY <1>3, ToggleSends
  <2>2. saves \in Seq(Orders) /\ <<lock>> \in Seq(Orders)
    BY <2>1 DEF Saves
  <2>3. saves \o <<lock>> \in Seq(Orders)
    BY <2>2, ConcatProperties
  <2> QED BY <1>1, <2>1, <2>3
<1>4. CASE RemoveNote
  <2>1. PICK gone \in Orders : Dispatch(<<gone>>)
    BY <1>4, RemoveSends
  <2>2. <<gone>> \in Seq(Orders)
    BY <2>1
  <2> QED BY <1>1, <2>1, <2>2
<1> QED BY <1>2, <1>3, <1>4

\* What the panel sends is put after all that was sent before.
LEMMA SendSound ==
  ASSUME Sound, Fire \/ Blur \/ Close \/ ToggleLock \/ RemoveNote
  PROVE  Sound'
<1>1. panel.open /\ PanelFine(panel) /\ panel.day \in Days
  BY SendsOrders DEF Sound, PanelInv
<1>2. PICK cmds \in Seq(Orders) : Dispatch(cmds)
  BY SendsOrders
<1>3. Dispatched(cmds)
  BY <1>1, <1>2, DispatchIs DEF Sound
<1>4. UNCHANGED <<account, replica, overlay>> /\ Days' = Days
  BY DEF Fire, Blur, Close, ToggleLock, RemoveNote, account, Days
<1>5. QueueInv'
  BY <1>2, <1>3, <1>4, DispatchKeepsQueue DEF Sound
<1>6. OwnNews
  BY <1>1, <1>3 DEF Dispatched, News, Sent, OwnNews
<1>7. DOMAIN left' = Budgets /\ \A x \in Budgets : left'[x] \in Nat /\ left'[x] <= left[x]
  <2>1. Spend("toggle") \/ Spend("remove") \/ left' = left
    BY DEF Fire, Blur, Close, ToggleLock, RemoveNote
  <2>2. {"toggle", "remove"} \subseteq Budgets
    BY DEF Budgets
  <2> QED BY <2>1, <2>2, Spending, LeftKept DEF Sound
<1>8. DOMAIN panel = DOMAIN Closed
  BY <1>1 DEF PanelFine
<1>9. CASE ToggleLock
  <2>1. PICK p : PanelFine(p) /\ Render(p) /\ DOMAIN p = DOMAIN panel /\ Fields(p, panel, {"timer", "busy", "intent"})
    BY <1>9, ToggleIs
  <2>2. p.open = panel.open /\ p.day = panel.day /\ p.visit = panel.visit
    BY <2>1 DEF Fields, Closed
  <2>3. NotesInv' /\ PanelInv'
    BY <1>1, <1>4, <1>6, <1>7, <2>1, <2>2, RenderKeeps
  <2> QED BY <1>5, <2>3 DEF Sound
<1>10. CASE Close
  <2>1. panel' = Closed /\ UNCHANGED <<cache, lockCache>>
    BY <1>10 DEF Close
  <2>2. PanelInv'
    BY <1>6, <1>7, <2>1, PanelCloses DEF Sound, OwnNews
  <2> QED BY <1>4, <1>5, <2>1, <2>2, NotesStill DEF Sound
<1>11. CASE Fire \/ Blur \/ RemoveNote
  <2>1. UNCHANGED <<cache, lockCache>>
    BY <1>11 DEF Fire, Blur, RemoveNote
  <2>2. PanelFine(panel)' /\ panel'.open = panel.open /\ panel'.day = panel.day /\ panel'.visit = panel.visit
    <3>1. CASE Fire
      <4>1. panel' = [panel EXCEPT !.timer = "fired"] /\ panel.timer = "armed"
        BY <3>1 DEF Fire
      <4>2. panel'.timer = "fired" /\ DOMAIN panel' = DOMAIN panel /\ Fields(panel', panel, {"timer"})
        BY <1>8, <4>1 DEF Fields, Closed
      <4> QED BY <1>1, <1>8, <4>1, <4>2 DEF PanelFine, Fields, Closed
    <3>2. CASE Blur
      <4>1. panel' = [panel EXCEPT !.focused = FALSE, !.timer = "none"]
        BY <3>2 DEF Blur
      <4>2. panel'.timer = "none" /\ DOMAIN panel' = DOMAIN panel /\ Fields(panel', panel, {"timer", "focused"})
        BY <1>8, <4>1 DEF Fields, Closed
      <4> QED BY <1>1, <1>8, <4>1, <4>2 DEF PanelFine, Fields, Closed
    <3>3. CASE RemoveNote
      <4> DEFINE editor == IF panel.focused THEN panel.editor ELSE Blank
      <4>1. panel' = [panel EXCEPT !.timer = "none", !.dirty = FALSE, !.draft = Blank, !.editor = editor]
        BY <1>8, <3>3 DEF RemoveNote, Closed
      <4>2. editor \in Texts /\ Blank \in Texts
        BY <1>1, JournalPanelAssumption DEF PanelFine
      <4> HIDE DEF editor
      <4>3. /\ panel'.timer = "none" /\ panel'.draft = Blank /\ panel'.editor = editor
            /\ DOMAIN panel' = DOMAIN panel /\ Fields(panel', panel, {"timer", "dirty", "draft", "editor"})
        BY <1>8, <4>1 DEF Fields, Closed
      <4> QED BY <1>1, <1>8, <4>2, <4>3 DEF PanelFine, Fields, Closed
    <3> QED BY <1>11, <3>1, <3>2, <3>3
  <2>3. PanelInv'
    BY <1>1, <1>4, <1>6, <1>7, <2>2, PanelKept DEF Sound, OwnNews
  <2> QED BY <1>4, <1>5, <2>1, <2>3, NotesStill DEF Sound
<1> QED BY <1>9, <1>10, <1>11

-----------------------------------------------------------------------------
(* What the server makes of a command.                                        *)

\* A note with another text or lock is a note.
LEMMA NoteWith ==
  ASSUME NEW n \in Notes
  PROVE  /\ \A t \in Texts \ {Blank} : LET m == [n EXCEPT !.content = t]
              IN m \in Notes /\ m.id = n.id /\ m.content = t /\ m.locked = n.locked
         /\ \A l \in BOOLEAN : LET m == [n EXCEPT !.locked = l]
              IN m \in Notes /\ m.id = n.id /\ m.content = n.content /\ m.locked = l
  BY DEF Notes

\* A write leaves the note with its text, unless its row is deleted.
LEMMA WriteStored ==
  ASSUME NEW s, DOMAIN s = {"note", "buried"}, Single(s.note), NEW op, op.verb = "write",
         op.id \in Nat, op.content \in Texts \ {Blank}
  PROVE  LET t == Stored(s, op)
         IN  /\ Single(t.note) /\ t.buried = s.buried
             /\ op.id \in s.buried => t.note = s.note
             /\ op.id \notin s.buried =>
                  \E n \in t.note :
                    /\ t.note = {n} /\ n.content = op.content
                    /\ s.note = {} => n.id = op.id /\ ~n.locked
                    /\ \A m \in s.note : n.id = m.id /\ n.locked = m.locked
<1> DEFINE t == Stored(s, op)
<1>1. t = IF op.id \in s.buried THEN s
          ELSE IF s.note # {} THEN [s EXCEPT !.note = {[n EXCEPT !.content = op.content] : n \in @}]
          ELSE [s EXCEPT !.note = {Note(op.id, op.content, FALSE)}]
  BY DEF Stored
<1> HIDE DEF t
<1>2. CASE op.id \in s.buried
  BY <1>1, <1>2 DEF t
<1>3. CASE op.id \notin s.buried /\ s.note # {}
  <2>1. PICK m \in s.note : s.note = {m}
    BY <1>3 DEF Single, AtMostOne
  <2> DEFINE n == [m EXCEPT !.content = op.content]
  <2>2. m \in Notes
    BY DEF Single
  <2>3. n \in Notes /\ n.id = m.id /\ n.content = op.content /\ n.locked = m.locked
    BY <2>2, NoteWith
  <2>4. {[k EXCEPT !.content = op.content] : k \in s.note} = {n}
    BY <2>1
  <2>5. t.note = {n} /\ t.buried = s.buried
    <3> HIDE DEF n
    <3> QED BY <1>1, <1>3, <2>4
  <2> HIDE DEF n
  <2> QED BY <1>3, <2>1, <2>3, <2>5 DEF t, Single, AtMostOne
<1>4. CASE op.id \notin s.buried /\ s.note = {}
  <2> DEFINE n == Note(op.id, op.content, FALSE)
  <2>1. n \in Notes /\ n.id = op.id /\ n.content = op.content /\ ~n.locked
    BY DEF Note, Notes
  <2>2. t.note = {n} /\ t.buried = s.buried
    BY <1>1, <1>4
  <2> HIDE DEF n
  <2> QED BY <1>4, <2>1, <2>2 DEF t, Single, AtMostOne
<1> QED BY <1>2, <1>3, <1>4

\* A lock leaves a note that it is for locked or unlocked, and the rest of it alone.
LEMMA LockStored ==
  ASSUME NEW s, DOMAIN s = {"note", "buried"}, Single(s.note), NEW op, op.verb = "lock",
         op.locked \in BOOLEAN
  PROVE  LET t == Stored(s, op)
         IN  /\ Single(t.note) /\ t.buried = s.buried
             /\ s.note = {} => t.note = {}
             /\ \A m \in s.note : \E n \in t.note :
                  /\ t.note = {n} /\ n.id = m.id /\ n.content = m.content
                  /\ n.locked = IF m.id = op.id THEN op.locked ELSE m.locked
<1> DEFINE t == Stored(s, op)
           done(m) == IF m.id = op.id THEN [m EXCEPT !.locked = op.locked] ELSE m
<1>1. t = [s EXCEPT !.note = {done(m) : m \in @}]
  BY DEF Stored
<1>2. t.note = {done(m) : m \in s.note} /\ t.buried = s.buried
  <2> HIDE DEF done, t
  <2> QED BY <1>1
<1> HIDE DEF t
<1>3. CASE s.note = {}
  BY <1>2, <1>3 DEF t, Single, AtMostOne
<1>4. CASE s.note # {}
  <2>1. PICK m \in s.note : s.note = {m}
    BY <1>4 DEF Single, AtMostOne
  <2>2. m \in Notes
    BY DEF Single
  <2>3. /\ done(m) \in Notes /\ done(m).id = m.id /\ done(m).content = m.content
        /\ done(m).locked = IF m.id = op.id THEN op.locked ELSE m.locked
    BY <2>2, NoteWith
  <2> HIDE DEF done
  <2>4. t.note = {done(m)}
    BY <1>2, <2>1
  <2> QED BY <1>2, <1>4, <2>1, <2>3, <2>4 DEF t, Single, AtMostOne
<1> QED BY <1>3, <1>4

\* A delete takes its note away, and remembers it.
LEMMA DeleteStored ==
  ASSUME NEW s, DOMAIN s = {"note", "buried"}, Single(s.note), NEW op, op.verb = "delete"
  PROVE  LET t == Stored(s, op)
         IN  /\ Single(t.note) /\ t.note \subseteq s.note
             /\ s.buried \subseteq t.buried
             /\ Ids(s.note) \cup s.buried = Ids(t.note) \cup t.buried
<1> DEFINE t == Stored(s, op)
<1>1. t = [note |-> {n \in s.note : n.id # op.id}, buried |-> s.buried \cup (Ids(s.note) \cap {op.id})]
  BY DEF Stored
<1>2. t.note = {n \in s.note : n.id # op.id} /\ t.buried = s.buried \cup (Ids(s.note) \cap {op.id})
  BY <1>1
<1> HIDE DEF t
<1>3. Ids(s.note) \cup s.buried = Ids(t.note) \cup t.buried
  BY <1>2 DEF Ids
<1> QED BY <1>2, <1>3 DEF t, Single, AtMostOne

-----------------------------------------------------------------------------
(* An upload and its answer.                                                  *)

\* e is the effect of the command op once it is served.
Served(op, e) ==
  /\ e \in Commands /\ e.acked /\ e.verb = op.verb /\ e.day = op.day /\ e.content = op.content
  /\ e.locked = op.locked /\ e.hlc = op.hlc /\ e.visit = op.visit
  /\ op.verb # "write" => e.id = op.id

\* The command op is delivered: done is its effect, if it was not refused.
Delivered(op, done) ==
  /\ op \in overlay /\ ~op.acked /\ \A x \in overlay : ~x.acked => op.hlc <= x.hlc
  /\ overlay' = (overlay \ {op}) \cup done /\ AtMostOne(done)
  /\ done = {} => op.verb # "write" /\ op.id \notin Ids(server[op.day]) \cup buried[op.day]
  /\ \A e \in done : Served(op, e) /\ e.id \in Ids(server'[op.day]) \cup buried'[op.day]
  /\ DOMAIN server' = Days /\ DOMAIN buried' = Days
  /\ \A d \in Days : Single(server'[d])
  /\ \A d \in Days \ {op.day} : server'[d] = server[d] /\ buried'[d] = buried[d]
  /\ Ids(server[op.day]) \cup buried[op.day] \subseteq Ids(server'[op.day]) \cup buried'[op.day]
  /\ op.verb # "delete" => buried'[op.day] = buried[op.day]
  /\ op.verb = "write" /\ op.id \notin buried[op.day] =>
       \E n \in server'[op.day] :
         /\ server'[op.day] = {n} /\ n.content = op.content /\ \A e \in done : e.id = n.id
         /\ server[op.day] = {} => n.id = op.id /\ ~n.locked
         /\ \A m \in server[op.day] : n.id = m.id /\ n.locked = m.locked
  /\ op.verb = "lock" =>
       /\ server[op.day] = {} => server'[op.day] = {}
       /\ \A m \in server[op.day] : \E n \in server'[op.day] :
            /\ server'[op.day] = {n} /\ n.id = m.id /\ n.content = m.content
            /\ n.locked = IF m.id = op.id THEN op.locked ELSE m.locked

\* A delivery serves one command, the oldest that is not acknowledged.
LEMMA DeliverIs ==
  ASSUME QueueInv, NotesInv, Deliver
  PROVE  \E op, done : Delivered(op, done)
<1> DEFINE op   == Oldest({x \in overlay : ~x.acked})
           now  == [note |-> server[op.day], buried |-> buried[op.day]]
           then == Stored(now, op)
           row  == IF op.verb = "write" /\ op.id \notin now.buried THEN Only(then.note).id ELSE op.id
           e    == [op EXCEPT !.acked = TRUE, !.id = row]
           done == IF Refused(now, op) THEN {} ELSE {e}
<1>1. /\ {x \in overlay : ~x.acked} # {}
      /\ server' = [server EXCEPT ![op.day] = then.note]
      /\ buried' = [buried EXCEPT ![op.day] = then.buried]
      /\ overlay' = (overlay \ {op}) \cup done
  BY DEF Deliver
<1>2. op \in overlay /\ ~op.acked /\ \A x \in overlay : ~x.acked => op.hlc <= x.hlc
  <2> DEFINE unsent == {x \in overlay : ~x.acked}
  <2>1. unsent \subseteq overlay \cup dispatched
    OBVIOUS
  <2>2. Orderly(unsent)
    BY <2>1, OrderlyPart DEF QueueInv
  <2>3. op \in unsent /\ \A x \in unsent : x.hlc >= op.hlc
    <3> HIDE DEF unsent
    <3> QED BY <1>1, <2>2, OldestIs DEF unsent
  <2> HIDE DEF op
  <2>4. \A x \in overlay : x.hlc \in Nat
    BY DEF QueueInv, Commands
  <2> QED BY <2>3, <2>4
<1> HIDE DEF op
<1>3. op \in Commands /\ (op.verb = "write" => op.content # Blank)
  BY <1>2 DEF QueueInv, Orderly
<1>4. op.day \in Days /\ op.id \in Nat /\ op.content \in Texts /\ op.locked \in BOOLEAN
      /\ op.verb \in {"write", "lock", "delete"}
  BY <1>3 DEF Commands
<1>5. DOMAIN now = {"note", "buried"} /\ now.note = server[op.day] /\ now.buried = buried[op.day] /\ Single(now.note)
  BY <1>4 DEF NotesInv
<1> HIDE DEF now
<1>6. op.verb = "write" =>
        /\ Single(then.note) /\ then.buried = now.buried
        /\ op.id \in now.buried => then.note = now.note
        /\ op.id \notin now.buried =>
             \E n \in then.note :
               /\ then.note = {n} /\ n.content = op.content
               /\ now.note = {} => n.id = op.id /\ ~n.locked
               /\ \A m \in now.note : n.id = m.id /\ n.locked = m.locked
  BY <1>3, <1>4, <1>5, WriteStored
<1>7. op.verb = "lock" =>
        /\ Single(then.note) /\ then.buried = now.buried
        /\ now.note = {} => then.note = {}
        /\ \A m \in now.note : \E n \in then.note :
             /\ then.note = {n} /\ n.id = m.id /\ n.content = m.content
             /\ n.locked = IF m.id = op.id THEN op.locked ELSE m.locked
  BY <1>4, <1>5, LockStored
<1>8. op.verb = "delete" =>
        /\ Single(then.note) /\ now.buried \subseteq then.buried
        /\ Ids(now.note) \cup now.buried = Ids(then.note) \cup then.buried
  BY <1>5, DeleteStored
<1> HIDE DEF then
<1>9. Single(then.note) /\ Ids(now.note) \cup now.buried \subseteq Ids(then.note) \cup then.buried
  <2>1. op.verb = "write" => Ids(now.note) \subseteq Ids(then.note)
    BY <1>6 DEF Ids
  <2>2. op.verb = "lock" => Ids(now.note) \subseteq Ids(then.note)
    BY <1>7 DEF Ids
  <2> QED BY <1>4, <1>6, <1>7, <1>8, <2>1, <2>2
<1>10. /\ DOMAIN server' = Days /\ DOMAIN buried' = Days
       /\ server'[op.day] = then.note /\ buried'[op.day] = then.buried
       /\ \A d \in Days \ {op.day} : server'[d] = server[d] /\ buried'[d] = buried[d]
  BY <1>1, <1>4 DEF NotesInv, Days
<1>11. \A d \in Days : Single(server'[d])
  BY <1>9, <1>10 DEF NotesInv
<1>12. op.verb = "write" /\ op.id \notin now.buried => then.note = {Only(then.note)}
  <2> SUFFICES ASSUME op.verb = "write", op.id \notin now.buried PROVE then.note = {Only(then.note)}
    OBVIOUS
  <2>1. PICK n \in then.note : then.note = {n}
    BY <1>6
  <2> QED BY <2>1 DEF Only
<1>13. row \in Nat /\ (op.verb = "write" /\ op.id \notin now.buried => row \in Ids(then.note))
  <2>1. CASE op.verb = "write" /\ op.id \notin now.buried
    <3>1. Only(then.note) \in then.note
      BY <1>12, <2>1
    <3>2. then.note \subseteq Notes
      BY <1>9 DEF Single
    <3> QED BY <2>1, <3>1, <3>2 DEF Notes, Ids
  <2>2. CASE ~(op.verb = "write" /\ op.id \notin now.buried)
    BY <1>4, <2>2
  <2> QED BY <2>1, <2>2
<1>14. row = op.id \/ (op.verb = "write" /\ op.id \notin now.buried)
  OBVIOUS
<1>15. op.verb = "write" /\ op.id \notin now.buried => row = Only(then.note).id
  OBVIOUS
<1> HIDE DEF row
<1>16. Served(op, e) /\ e.id = row
  <2>1. /\ e.acked = TRUE /\ e.id = row /\ e.verb = op.verb /\ e.day = op.day /\ e.content = op.content
        /\ e.locked = op.locked /\ e.hlc = op.hlc /\ e.visit = op.visit /\ e \in Commands
    BY <1>3, <1>13 DEF Commands
  <2> QED BY <1>14, <2>1 DEF Served
<1> HIDE DEF e
<1>17. done # {} => done = {e} /\ row \in Ids(then.note) \cup then.buried
  <2> SUFFICES ASSUME ~Refused(now, op) PROVE row \in Ids(then.note) \cup then.buried
    OBVIOUS
  <2>1. CASE op.verb = "write" /\ op.id \notin now.buried
    BY <1>13, <2>1
  <2>2. CASE op.verb = "write" /\ op.id \in now.buried
    BY <1>6, <1>14, <2>2
  <2>3. CASE op.verb # "write"
    BY <1>9, <1>14, <2>3 DEF Refused
  <2> QED BY <2>1, <2>2, <2>3
<1>18. done = {} => op.verb # "write" /\ op.id \notin Ids(now.note) \cup now.buried
  BY DEF Refused
<1> HIDE DEF done
<1>19. AtMostOne(done) /\ \A d \in done : Served(op, d) /\ d.id = row /\ d.id \in Ids(then.note) \cup then.buried
  BY <1>16, <1>17 DEF AtMostOne
<1>20. op.verb # "delete" => then.buried = now.buried
  BY <1>4, <1>6, <1>7
<1>21. ASSUME op.verb = "write", op.id \notin now.buried
       PROVE  \E n \in then.note :
                /\ then.note = {n} /\ n.content = op.content /\ \A d \in done : d.id = n.id
                /\ now.note = {} => n.id = op.id /\ ~n.locked
                /\ \A m \in now.note : n.id = m.id /\ n.locked = m.locked
  <2>1. PICK n \in then.note :
          /\ then.note = {n} /\ n.content = op.content
          /\ now.note = {} => n.id = op.id /\ ~n.locked
          /\ \A m \in now.note : n.id = m.id /\ n.locked = m.locked
    BY <1>6, <1>21
  <2>2. row = n.id
    BY <1>12, <1>15, <1>21, <2>1
  <2> QED BY <1>19, <2>1, <2>2
<1>22. Delivered(op, done)
  BY <1>1, <1>2, <1>5, <1>7, <1>9, <1>10, <1>11, <1>18, <1>19, <1>20, <1>21 DEF Delivered
<1> QED BY <1>22

-----------------------------------------------------------------------------
(* The queue, the server and the other device.                                *)

\* The panel's part does not look at the queue, the server or the replica.
LEMMA PanelStill ==
  ASSUME QueueInv, PanelInv, Days' = Days, panel' = panel, dispatched' \subseteq dispatched,
         DOMAIN left' = Budgets, \A x \in Budgets : left'[x] \in Nat /\ left'[x] <= left[x]
  PROVE  PanelInv'
<1>1. PanelFine(panel)'
  BY DEF PanelInv, PanelFine
<1> QED BY <1>1, PanelKept

\* An upload settles the oldest command that is not settled.
LEMMA DeliverSound ==
  ASSUME Sound, Deliver
  PROVE  Sound'
<1>1. PICK op, done : Delivered(op, done)
  BY DeliverIs DEF Sound
<1>2. UNCHANGED <<replica, dispatched, sent, minted, cache, lockCache, panel, left>> /\ Days' = Days
  BY <1>1 DEF Deliver, Delivered, Days
<1>3. /\ op \in overlay /\ ~op.acked /\ overlay' = (overlay \ {op}) \cup done /\ AtMostOne(done)
      /\ \A x \in overlay : ~x.acked => op.hlc <= x.hlc
      /\ \A e \in done : Served(op, e) /\ e.id \in Ids(server'[op.day]) \cup buried'[op.day]
  BY <1>1 DEF Delivered
<1>4. op \in Commands /\ (op.verb = "write" => op.content # Blank) /\ op.day \in Days
  BY <1>3 DEF Sound, QueueInv, Orderly, Commands
<1>5. Commands' = Commands
  BY <1>2 DEF Commands
<1>6. \A x \in overlay \cup dispatched : x \in Commands /\ x.hlc \in Nat /\ x.hlc <= sent
  BY DEF Sound, QueueInv, Commands
<1>7. \A e \in done : e \in Commands /\ e.acked /\ e.hlc = op.hlc /\ e.verb = op.verb
                      /\ e.content = op.content /\ e.hlc \in Nat /\ e.day = op.day
  BY <1>3 DEF Served, Commands
<1>8. \A x, y \in overlay \cup dispatched : x.hlc = y.hlc => x = y
  BY DEF Sound, QueueInv, Orderly
<1>9. QueueInv'
  <2>1. \A x \in overlay' \cup dispatched' : x \in Commands /\ x.hlc \in Nat /\ x.hlc <= sent
    BY <1>2, <1>3, <1>6, <1>7
  <2>2. \A x \in overlay' \cup dispatched' :
          x \in done \/ (x \in overlay \cup dispatched /\ x # op)
    <3>1. op \notin dispatched
      BY <1>3, <1>6 DEF Sound, QueueInv
    <3> QED BY <1>2, <1>3, <3>1
  <2>3. \A x, y \in overlay' \cup dispatched' : x.hlc = y.hlc => x = y
    <3> SUFFICES ASSUME NEW x \in overlay' \cup dispatched', NEW y \in overlay' \cup dispatched', x.hlc = y.hlc
                 PROVE  x = y
      OBVIOUS
    <3>1. CASE x \in done /\ y \in done
      BY <1>3, <3>1 DEF AtMostOne
    <3>2. CASE x \in done /\ y \notin done
      BY <1>3, <1>7, <1>8, <2>2, <3>2
    <3>3. CASE x \notin done /\ y \in done
      BY <1>3, <1>7, <1>8, <2>2, <3>3
    <3>4. CASE x \notin done /\ y \notin done
      BY <1>8, <2>2, <3>4
    <3> QED BY <3>1, <3>2, <3>3, <3>4
  <2>4. \A x \in overlay' \cup dispatched' : x.verb = "write" => x.content # Blank
    BY <1>4, <1>7, <2>2 DEF Sound, QueueInv, Orderly
  <2>5. Orderly(overlay' \cup dispatched')
    <3>1. \A x \in overlay' \cup dispatched' :
            /\ x.verb \in {"write", "lock", "delete"} /\ x.id \in Nat
            /\ x.content \in Texts /\ x.locked \in BOOLEAN
      BY <2>1 DEF Commands
    <3>2. sent \in Nat
      BY DEF Sound, QueueInv
    <3> QED BY <2>1, <2>3, <2>4, <3>1, <3>2 DEF Orderly
  <2>6. \A x \in overlay', y \in dispatched' : x.hlc < y.hlc
    BY <1>2, <1>3, <1>7 DEF Sound, QueueInv
  <2>7. \A x, y \in overlay' : x.acked /\ ~y.acked => x.hlc < y.hlc
    <3> SUFFICES ASSUME NEW x \in overlay', NEW y \in overlay', x.acked, ~y.acked
                 PROVE  x.hlc < y.hlc
      OBVIOUS
    <3>1. y \in overlay /\ y # op
      BY <1>3, <1>7
    <3>2. CASE x \in overlay
      BY <3>1, <3>2 DEF Sound, QueueInv
    <3>3. CASE x \in done
      <4>1. op.hlc <= y.hlc /\ op.hlc # y.hlc /\ x.hlc = op.hlc
        BY <1>3, <1>7, <1>8, <3>1, <3>3
      <4> QED BY <1>3, <1>6, <3>1, <4>1
    <3> QED BY <1>3, <3>2, <3>3
  <2> QED BY <1>2, <1>5, <2>1, <2>5, <2>6, <2>7 DEF Sound, QueueInv
<1>10. NotesInv'
  <2>1. /\ DOMAIN buried' = Days /\ \A d \in Days : Single(server'[d])
        /\ \A d \in Days \ {op.day} : server'[d] = server[d] /\ buried'[d] = buried[d]
        /\ Ids(server[op.day]) \cup buried[op.day] \subseteq Ids(server'[op.day]) \cup buried'[op.day]
    BY <1>1 DEF Delivered
  <2>2. \A d \in Days : Ids(server[d]) \cup buried[d] \subseteq Ids(server'[d]) \cup buried'[d]
    BY <2>1
  <2>3. \A x \in overlay' : x.acked => x.id \in Ids(server'[x.day]) \cup buried'[x.day]
    <3> SUFFICES ASSUME NEW x \in overlay', x.acked PROVE x.id \in Ids(server'[x.day]) \cup buried'[x.day]
      OBVIOUS
    <3>1. CASE x \in done
      BY <1>3, <1>7, <3>1
    <3>2. CASE x \in overlay
      <4>1. x.day \in Days
        BY <1>6, <3>2 DEF Commands
      <4> QED BY <2>2, <3>2, <4>1 DEF Sound, NotesInv
    <3> QED BY <1>3, <3>1, <3>2
  <2> QED BY <1>2, <2>1, <2>2, <2>3 DEF Sound, NotesInv
<1>11. PanelInv'
  BY <1>2, LeftKept, PanelStill DEF Sound
<1> QED BY <1>9, <1>10, <1>11 DEF Sound

\* The oldest command on its way is stored, or lost.
LEMMA EnqueueSound ==
  ASSUME Sound, Enqueue \/ EnqueueFails
  PROVE  Sound'
<1> DEFINE c == Oldest(dispatched)
<1>1. dispatched # {} /\ dispatched' = dispatched \ {c} /\ UNCHANGED <<account, replica, sent, minted>>
  BY DEF Enqueue, EnqueueFails
<1>2. c \in dispatched /\ \A x \in dispatched : x.hlc >= c.hlc
  <2>1. Orderly(dispatched)
    BY OrderlyPart DEF Sound, QueueInv
  <2> QED BY <1>1, <2>1, OldestIs
<1> HIDE DEF c
<1>3. UNCHANGED <<server, buried, replica, sent, minted>> /\ Days' = Days /\ Commands' = Commands
  BY <1>1 DEF account, Days, Commands
<1>4. \A x \in overlay \cup dispatched : x \in Commands /\ x.hlc \in Nat
  BY DEF Sound, QueueInv, Commands
<1>5. \A x, y \in overlay \cup dispatched : x.hlc = y.hlc => x = y
  BY DEF Sound, QueueInv, Orderly
<1>6. CASE Enqueue
  <2>1. overlay' = overlay \cup {c} /\ UNCHANGED <<cache, lockCache, panel, left>>
    BY <1>6 DEF Enqueue, c
  <2>2. overlay' \cup dispatched' = overlay \cup dispatched
    BY <1>1, <1>2, <2>1
  <2>3. \A x \in overlay', y \in dispatched' : x.hlc < y.hlc
    <3> SUFFICES ASSUME NEW x \in overlay', NEW y \in dispatched' PROVE x.hlc < y.hlc
      OBVIOUS
    <3>1. CASE x \in overlay
      BY <1>1, <3>1 DEF Sound, QueueInv
    <3>2. CASE x = c
      <4>1. y.hlc >= c.hlc /\ y.hlc # c.hlc
        BY <1>1, <1>2, <1>5
      <4> QED BY <1>1, <1>2, <1>4, <3>2, <4>1
    <3> QED BY <2>1, <3>1, <3>2
  <2>4. \A x, y \in overlay' : x.acked /\ ~y.acked => x.hlc < y.hlc
    BY <1>2, <2>1 DEF Sound, QueueInv
  <2>5. QueueInv'
    BY <1>1, <1>3, <1>4, <2>1, <2>2, <2>3, <2>4 DEF Sound, QueueInv
  <2>6. NotesInv'
    BY <1>2, <1>3, <2>1 DEF Sound, QueueInv, NotesInv
  <2>7. PanelInv'
    BY <1>1, <1>3, <2>1, LeftKept, PanelStill DEF Sound
  <2> QED BY <2>5, <2>6, <2>7 DEF Sound
<1>7. CASE EnqueueFails
  <2>1. overlay' = overlay /\ Spend("fail")
    BY <1>7 DEF EnqueueFails
  <2>2. QueueInv'
    <3>1. overlay' \cup dispatched' \subseteq overlay \cup dispatched
      BY <1>1, <2>1
    <3>2. Orderly(overlay' \cup dispatched')
      BY <3>1, OrderlyPart DEF Sound, QueueInv
    <3> QED BY <1>1, <1>3, <2>1, <3>1, <3>2 DEF Sound, QueueInv
  <2>3. DOMAIN left' = Budgets /\ \A x \in Budgets : left'[x] \in Nat /\ left'[x] <= left[x]
    BY <2>1, Spending DEF Sound, Budgets
  <2>4. \/ panel.open /\ Render([panel EXCEPT !.intent = {}])
        \/ UNCHANGED <<panel, cache, lockCache>>
    BY <1>7 DEF EnqueueFails
  <2>5. CASE panel.open /\ Render([panel EXCEPT !.intent = {}])
    <3> DEFINE p == [panel EXCEPT !.intent = {}]
    <3>1. PanelFine(p) /\ Fields(p, panel, {"intent"})
      BY IntentLost DEF Sound, PanelInv
    <3>2. Render(p) /\ p.open = panel.open /\ p.day = panel.day /\ p.visit = panel.visit
      BY <2>5, <3>1 DEF Fields, Closed
    <3>3. OwnNews
      BY <1>1 DEF OwnNews
    <3> HIDE DEF p
    <3>4. NotesInv' /\ PanelInv'
      BY <1>1, <2>1, <2>3, <2>5, <3>1, <3>2, <3>3, RenderKeeps
    <3> QED BY <2>2, <3>4 DEF Sound
  <2>6. CASE UNCHANGED <<panel, cache, lockCache>>
    <3>1. NotesInv'
      BY <1>1, <2>1, <2>6, NotesStill DEF Sound
    <3>2. PanelInv'
      BY <1>1, <1>3, <2>3, <2>6, PanelStill DEF Sound
    <3> QED BY <2>2, <3>1, <3>2 DEF Sound
  <2> QED BY <2>4, <2>5, <2>6
<1> QED BY <1>6, <1>7

\* A download, an eviction and the other device.
LEMMA DownloadSound ==
  ASSUME Sound, Download
  PROVE  Sound'
<1>1. /\ \A d \in Days : replica'[d] = server[d] \/ replica'[d] = replica[d]
      /\ DOMAIN replica' = Days /\ overlay' \subseteq overlay
      /\ UNCHANGED <<account, dispatched, sent, minted, cache, lockCache, panel, left>>
  BY DEF Download
<1>2. UNCHANGED <<server, buried>> /\ Days' = Days /\ Commands' = Commands
  BY <1>1 DEF account, Days, Commands
<1>3. QueueInv'
  <2>1. overlay' \cup dispatched' \subseteq overlay \cup dispatched
    BY <1>1
  <2>2. Orderly(overlay' \cup dispatched')
    BY <2>1, OrderlyPart DEF Sound, QueueInv
  <2> QED BY <1>1, <1>2, <2>1, <2>2 DEF Sound, QueueInv
<1>4. NotesInv'
  <2>1. \A d \in Days : Single(replica'[d]) /\ Ids(replica'[d]) \subseteq Ids(server[d]) \cup buried[d]
    BY <1>1 DEF Sound, NotesInv
  <2> QED BY <1>1, <1>2, <2>1 DEF Sound, NotesInv
<1>5. PanelInv'
  BY <1>1, <1>2, LeftKept, PanelStill DEF Sound
<1> QED BY <1>3, <1>4, <1>5 DEF Sound

\* A copy the device drops is still a note of the account.
LEMMA EvictSound ==
  ASSUME Sound, NEW d \in Days, Evict(d)
  PROVE  Sound'
<1>1. /\ replica' = [replica EXCEPT ![d] = {}]
      /\ UNCHANGED <<account, overlay, dispatched, sent, minted, cache, lockCache, panel, left>>
  BY DEF Evict
<1>2. UNCHANGED <<server, buried>> /\ Days' = Days
  BY <1>1 DEF account, Days
<1>3. QueueInv'
  BY <1>1, <1>2, QueueKept DEF Sound
<1>4. NotesInv'
  <2>1. \A e \in Days : Single(replica'[e]) /\ Ids(replica'[e]) \subseteq Ids(server[e]) \cup buried[e]
    BY <1>1 DEF Sound, NotesInv, Single, AtMostOne, Ids
  <2> QED BY <1>1, <1>2, <2>1 DEF Sound, NotesInv
<1>5. PanelInv'
  BY <1>1, <1>2, LeftKept, PanelStill DEF Sound
<1> QED BY <1>3, <1>4, <1>5 DEF Sound

\* Another device leaves one note a day, and buries what it deletes.
LEMMA OtherSound ==
  ASSUME Sound, NEW d \in Days, OtherDevice(d)
  PROVE  Sound'
<1>1. Spend("other") /\ UNCHANGED <<replica, overlay, dispatched, sent, cache, lockCache, panel>>
  BY DEF OtherDevice
<1>2. minted \in Nat /\ Single(server[d]) /\ DOMAIN buried = Days
  BY DEF Sound, QueueInv, NotesInv
<1>3. \E row : /\ server' = [server EXCEPT ![d] = row] /\ Single(row) /\ minted' \in Nat
               /\ \/ Ids(server[d]) \subseteq Ids(row) /\ buried' = buried
                  \/ row = {} /\ buried' = [buried EXCEPT ![d] = @ \cup Ids(server[d])]
  <2>1. ASSUME NEW t \in Texts \ {Blank}, NEW l \in BOOLEAN,
               server' = [server EXCEPT ![d] = IF @ = {} THEN {Note(minted + 1, t, l)}
                                               ELSE {Note(Only(@).id, t, l)}],
               minted' = IF server[d] = {} THEN minted + 1 ELSE minted, buried' = buried
        PROVE  \E row : /\ server' = [server EXCEPT ![d] = row] /\ Single(row) /\ minted' \in Nat
                        /\ Ids(server[d]) \subseteq Ids(row) /\ buried' = buried
    <3> DEFINE id == IF server[d] = {} THEN minted + 1 ELSE Only(server[d]).id
               row == {Note(id, t, l)}
    <3>1. server[d] # {} => Only(server[d]) \in server[d] /\ server[d] = {Only(server[d])}
      BY <1>2, OnlyIs DEF Single, AtMostOne
    <3>2. id \in Nat
      BY <1>2, <3>1 DEF Single, Notes
    <3>3. Ids(server[d]) \subseteq {id}
      BY <3>1 DEF Ids
    <3>4. server' = [server EXCEPT ![d] = row]
      BY <2>1
    <3> HIDE DEF id
    <3>5. Note(id, t, l) \in Notes /\ Note(id, t, l).id = id
      BY <3>2 DEF Note, Notes
    <3>6. Single(row) /\ Ids(row) = {id}
      BY <3>5 DEF Single, AtMostOne, Ids
    <3>7. minted' \in Nat
      BY <1>2, <2>1
    <3> HIDE DEF row
    <3>8. /\ server' = [server EXCEPT ![d] = row] /\ Single(row) /\ minted' \in Nat
          /\ Ids(server[d]) \subseteq Ids(row) /\ buried' = buried
      BY <2>1, <3>3, <3>4, <3>6, <3>7
    <3> QED BY <3>8
  <2>2. ASSUME server' = [server EXCEPT ![d] = {}], buried' = [buried EXCEPT ![d] = @ \cup Ids(server[d])],
               minted' = minted
        PROVE  \E row : /\ server' = [server EXCEPT ![d] = row] /\ Single(row) /\ minted' \in Nat
                        /\ row = {} /\ buried' = [buried EXCEPT ![d] = @ \cup Ids(server[d])]
    <3>1. Single({})
      BY DEF Single, AtMostOne
    <3> QED BY <1>2, <2>2, <3>1
  <2> QED BY <2>1, <2>2 DEF OtherDevice
<1>4. PICK row : /\ server' = [server EXCEPT ![d] = row] /\ Single(row) /\ minted' \in Nat
                 /\ \/ Ids(server[d]) \subseteq Ids(row) /\ buried' = buried
                    \/ row = {} /\ buried' = [buried EXCEPT ![d] = @ \cup Ids(server[d])]
  BY <1>3
<1>5. /\ Days' = Days /\ Commands' = Commands /\ DOMAIN buried' = Days
      /\ server'[d] = row /\ \A e \in Days \ {d} : server'[e] = server[e] /\ buried'[e] = buried[e]
  BY <1>2, <1>4 DEF Days, Commands
<1>6. Ids(server[d]) \cup buried[d] \subseteq Ids(server'[d]) \cup buried'[d]
  <2>1. CASE Ids(server[d]) \subseteq Ids(row) /\ buried' = buried
    BY <1>5, <2>1
  <2>2. CASE buried' = [buried EXCEPT ![d] = @ \cup Ids(server[d])]
    BY <1>2, <2>2
  <2> QED BY <1>4, <2>1, <2>2
<1>7. NotesInv'
  <2>1. \A e \in Days : Ids(server[e]) \cup buried[e] \subseteq Ids(server'[e]) \cup buried'[e]
    BY <1>5, <1>6
  <2>2. \A e \in Days : Single(server'[e])
    BY <1>4, <1>5 DEF Sound, NotesInv
  <2>3. \A op \in overlay : op.day \in Days
    BY DEF Sound, QueueInv, Commands
  <2> QED BY <1>1, <1>5, <2>1, <2>2, <2>3 DEF Sound, NotesInv
<1>8. QueueInv'
  BY <1>1, <1>4, <1>5 DEF Sound, QueueInv
<1>9. PanelInv'
  BY <1>1, <1>5, Spending, PanelStill DEF Sound, Budgets
<1> QED BY <1>7, <1>8, <1>9 DEF Sound

\* A reload closes the panel and drops what is not stored.
LEMMA ReloadSound ==
  ASSUME Sound, Reload
  PROVE  Sound'
<1>1. /\ dispatched' = {} /\ cache' = [d \in Days |-> {}] /\ panel' = Closed /\ Spend("reload")
      /\ UNCHANGED <<account, replica, overlay, sent, minted, lockCache>>
  BY DEF Reload
<1>2. UNCHANGED <<server, buried>> /\ Days' = Days /\ Commands' = Commands
  BY <1>1 DEF account, Days, Commands
<1>3. QueueInv'
  <2>1. overlay' \cup dispatched' \subseteq overlay \cup dispatched
    BY <1>1
  <2>2. Orderly(overlay' \cup dispatched')
    BY <2>1, OrderlyPart DEF Sound, QueueInv
  <2> QED BY <1>1, <1>2, <2>1, <2>2 DEF Sound, QueueInv
<1>4. NotesInv'
  BY <1>1, <1>2 DEF Sound, NotesInv, AtMostOne
<1>5. PanelInv'
  BY <1>1, Spending, PanelCloses DEF Sound, Budgets
<1> QED BY <1>3, <1>4, <1>5 DEF Sound

\* Subscriptions are not the panel's.
LEMMA StreamsSound ==
  ASSUME Sound, UNCHANGED <<account, queue, cache, lockCache, panel>>,
         left' = left \/ \E b \in Budgets : Spend(b)
  PROVE  Sound'
<1>1. UNCHANGED <<replica, overlay, dispatched, sent, minted>> /\ Days' = Days
  BY DEF queue, account, Days
<1>2. DOMAIN left' = Budgets /\ \A x \in Budgets : left'[x] \in Nat /\ left'[x] <= left[x]
  BY LeftKept, Spending DEF Sound
<1>3. QueueInv' /\ NotesInv'
  BY <1>1, QueueKept, NotesStill DEF Sound
<1>4. PanelInv'
  BY <1>1, <1>2, PanelStill DEF Sound
<1> QED BY <1>3, <1>4 DEF Sound

\* Every step keeps the queue, the notes and the panel sound.
LEMMA SoundStep == Sound /\ [Next]_vars => Sound'
<1> SUFFICES ASSUME Sound, [Next]_vars PROVE Sound'
  OBVIOUS
<1>1. CASE UNCHANGED vars
  BY <1>1, StreamsSound DEF vars
<1>2. ASSUME NEW d \in Days, Open(d) \/ AgendaShows(d) \/ AgendaLeaves(d) \/ Evict(d) \/ OtherDevice(d)
      PROVE  Sound'
  <2>1. CASE Open(d)
    BY <2>1, OpenSound
  <2>2. CASE AgendaShows(d)
    BY <2>2, StreamsSound DEF AgendaShows, Budgets
  <2>3. CASE AgendaLeaves(d)
    BY <2>3, StreamsSound DEF AgendaLeaves
  <2>4. CASE Evict(d)
    BY <2>4, EvictSound
  <2>5. CASE OtherDevice(d)
    BY <2>5, OtherSound
  <2> QED BY <1>2, <2>1, <2>2, <2>3, <2>4, <2>5
<1>3. ASSUME NEW i \in DOMAIN subs, Subscribed(i) \/ SubscribeFails(i) PROVE Sound'
  <2>1. CASE Subscribed(i)
    BY <2>1, StreamsSound DEF Subscribed
  <2>2. CASE SubscribeFails(i)
    BY <2>2, StreamsSound DEF SubscribeFails, Budgets
  <2> QED BY <1>3, <2>1, <2>2
<1>4. CASE Focus \/ LockTimer \/ HintExpires \/ \E t \in Texts : Type(t)
  BY <1>4, StillSound
<1>5. CASE ReadRows \/ ReadOverlay
  BY <1>5, ReadSound
<1>6. CASE Fire \/ Blur \/ Close \/ ToggleLock \/ RemoveNote
  BY <1>6, SendSound
<1>7. CASE Enqueue \/ EnqueueFails
  BY <1>7, EnqueueSound
<1>8. CASE Deliver \/ Download \/ Reload
  BY <1>8, DeliverSound, DownloadSound, ReloadSound
<1> QED BY <1>1, <1>2, <1>3, <1>4, <1>5, <1>6, <1>7, <1>8 DEF Next

\* What the queue, the notes and the panel are, after any number of steps.
THEOREM PanelSound == Spec => []Sound
<1>1. Init => Sound
  BY SoundInit
<1>2. Sound /\ [Next]_vars => Sound'
  BY SoundStep
<1> QED BY <1>1, <1>2, PTL DEF Spec

-----------------------------------------------------------------------------
(* The text that is on its way.                                               *)

\* What the panel's overlay query gave last.
Read == UNION panel.ops

\* What becomes of a day with this note and these commands pending.
Coming(note, pending) ==
  LET writes == Of("write", pending) IN IF writes = {} THEN Draft(note) ELSE Latest(writes).content

\* It is the text of the last write.
LEMMA ComingIs ==
  ASSUME NEW note, NEW pending, Orderly(pending)
  PROVE  /\ Of("write", pending) = {} => Coming(note, pending) = Draft(note)
         /\ \A op \in Of("write", pending) :
              (\A x \in Of("write", pending) : x.hlc <= op.hlc) => Coming(note, pending) = op.content
         /\ Of("write", pending) # {} =>
              \E op \in Of("write", pending) : \A x \in Of("write", pending) : x.hlc <= op.hlc
<1> DEFINE writes == Of("write", pending)
<1>1. Coming(note, pending) = IF writes = {} THEN Draft(note) ELSE Latest(writes).content
  BY DEF Coming
<1>2. writes \in SUBSET pending
  BY DEF Of
<1>3. Orderly(writes)
  BY <1>2, OrderlyPart
<1> HIDE DEF writes
<1>4. writes # {} => /\ Latest(writes) \in writes /\ \A x \in writes : x.hlc <= Latest(writes).hlc
                     /\ \A y \in writes : (\A x \in writes : x.hlc <= y.hlc) => y = Latest(writes)
  BY <1>3, LatestIs
<1> QED BY <1>1, <1>4 DEF writes

\* Later writes decide what a day will say.
LEMMA LaterComes ==
  ASSUME NEW note, NEW pending, NEW more, Orderly(pending \cup more),
         \A x \in pending, y \in more : x.hlc < y.hlc
  PROVE  /\ Of("write", more) # {} =>
              \E y \in Of("write", more) : Coming(note, pending \cup more) = y.content
         /\ Of("write", more) = {} => Coming(note, pending \cup more) = Coming(note, pending)
<1>1. Of("write", pending \cup more) = Of("write", pending) \cup Of("write", more)
  BY DEF Of
<1>2. CASE Of("write", more) = {}
  BY <1>1, <1>2 DEF Coming
<1>3. CASE Of("write", more) # {}
  <2>1. PICK op \in Of("write", pending \cup more) : \A x \in Of("write", pending \cup more) : x.hlc <= op.hlc
    BY <1>1, <1>3, ComingIs
  <2>2. Coming(note, pending \cup more) = op.content
    BY <2>1, ComingIs
  <2>3. op \in Of("write", more)
    <3>1. PICK y \in Of("write", more) : TRUE
      BY <1>3
    <3>2. y \in more /\ y.hlc <= op.hlc /\ y.hlc \in Nat
      BY <1>1, <2>1, <3>1 DEF Of, Orderly
    <3>3. op \notin pending
      <4> SUFFICES ASSUME op \in pending PROVE FALSE
        OBVIOUS
      <4>1. op.hlc < y.hlc /\ op.hlc \in Nat
        BY <3>2 DEF Orderly
      <4> QED BY <3>2, <4>1
    <3> QED BY <1>1, <2>1, <3>3 DEF Of
  <2> QED BY <1>3, <2>2, <2>3
<1> QED BY <1>2, <1>3

\* A write that was the first to come, once it is stored, is no more to come.
LEMMA StoredComes ==
  ASSUME NEW note, NEW then, NEW pending, Orderly(pending), NEW op \in pending,
         \A x \in pending : op.hlc <= x.hlc,
         op.verb = "write" => Draft(then) = op.content, op.verb # "write" => Draft(then) = Draft(note)
  PROVE  Coming(then, pending \ {op}) = Coming(note, pending)
<1>1. Of("write", pending \ {op}) = Of("write", pending) \ {op}
  BY DEF Of
<1>2. CASE op.verb # "write"
  <2>1. Of("write", pending \ {op}) = Of("write", pending)
    BY <1>1, <1>2 DEF Of
  <2> QED BY <1>2, <2>1 DEF Coming
<1>3. CASE op.verb = "write" /\ Of("write", pending \ {op}) = {}
  <2>1. Coming(then, pending \ {op}) = op.content
    BY <1>3 DEF Coming
  <2>2. op \in Of("write", pending) /\ \A x \in Of("write", pending) : x.hlc <= op.hlc
    <3>1. op \in Of("write", pending) /\ \A x \in Of("write", pending) : x = op
      BY <1>1, <1>3 DEF Of
    <3>2. op.hlc \in Nat
      BY DEF Orderly
    <3> QED BY <3>1, <3>2
  <2>3. Coming(note, pending) = op.content
    BY <2>2, ComingIs
  <2> QED BY <2>1, <2>3
<1>4. CASE op.verb = "write" /\ Of("write", pending \ {op}) # {}
  <2>1. Orderly(pending \ {op})
    BY OrderlyPart
  <2>2. PICK y \in Of("write", pending \ {op}) : \A x \in Of("write", pending \ {op}) : x.hlc <= y.hlc
    BY <1>4, <2>1, ComingIs
  <2>3. Coming(then, pending \ {op}) = y.content
    BY <2>1, <2>2, ComingIs
  <2>4. y \in Of("write", pending) /\ \A x \in Of("write", pending) : x.hlc <= y.hlc
    BY <1>1, <2>2 DEF Of
  <2>5. Coming(note, pending) = y.content
    BY <2>4, ComingIs
  <2> QED BY <2>3, <2>5
<1> QED BY <1>2, <1>3, <1>4

\* ComingText, with the note and the commands named.
LEMMA ComingTextIs == \A d : ComingText(d) = Coming(server[d], Pending(d))
  BY DEF ComingText, Coming

\* What the panel sends changes the text of its day only, and to the editor's.
LEMMA TextSent ==
  ASSUME Sound, Sound', panel.open, NEW cmds \in Seq(Orders), Dispatched(cmds),
         UNCHANGED <<account, overlay>>, NEW d \in Days,
         \A c \in Range(cmds) : c.verb = "write" => c.content = panel.editor
  PROVE  /\ d = panel.day =>
              /\ (\E c \in Range(cmds) : c.verb = "write") => ComingText(d)' = panel.editor
              /\ ~(\E c \in Range(cmds) : c.verb = "write") => ComingText(d)' = ComingText(d)
         /\ d # panel.day => ComingText(d)' = ComingText(d) /\ On(d, dispatched') = On(d, dispatched)
<1>1. /\ dispatched \subseteq dispatched' /\ dispatched' = dispatched \cup News
      /\ \A f \in News : f.day = panel.day /\ ~f.acked /\ sent < f.hlc /\ f.hlc \in Nat
      /\ \A f \in News : \E c \in Range(cmds) : Sent(c, f)
      /\ \A c \in Range(cmds) : \E f \in News : Sent(c, f)
  BY DEF Dispatched, News, Sent, Commands
<1>2. server' = server
  BY DEF account
<1>3. d = panel.day => Pending(d)' = Pending(d) \cup News
  <2> SUFFICES ASSUME d = panel.day
               PROVE  {op \in On(d, overlay' \cup dispatched') : ~op.acked} = Pending(d) \cup News
    BY DEF Pending
  <2> QED BY <1>1 DEF Pending, On
<1>4. Orderly(Pending(d)')
  <2>1. Pending(d)' \subseteq overlay' \cup dispatched'
    BY DEF Pending, On
  <2>2. Orderly(overlay' \cup dispatched')
    BY DEF Sound, QueueInv, Orderly
  <2> QED BY <2>1, <2>2, OrderlyPart
<1>5. \A x \in Pending(d), y \in News : x.hlc < y.hlc
  <2>1. \A x \in Pending(d) : x.hlc \in Nat /\ x.hlc <= sent
    BY DEF Pending, On, Sound, QueueInv, Commands
  <2>2. sent \in Nat
    BY DEF Sound, QueueInv
  <2> QED BY <1>1, <2>1, <2>2
<1>6. \A y \in Of("write", News) : y.content = panel.editor
  BY <1>1 DEF Of, Sent
<1>7. Of("write", News) # {} <=> \E c \in Range(cmds) : c.verb = "write"
  BY <1>1 DEF Of, Sent
<1>8. d = panel.day => ComingText(d)' = Coming(server[d], Pending(d) \cup News)
  BY <1>2, <1>3 DEF ComingText, Coming
<1>9. ComingText(d) = Coming(server[d], Pending(d))
  BY ComingTextIs
<1>10. d = panel.day =>
       /\ Of("write", News) # {} => Coming(server[d], Pending(d) \cup News) = panel.editor
       /\ Of("write", News) = {} => Coming(server[d], Pending(d) \cup News) = Coming(server[d], Pending(d))
  <2> SUFFICES ASSUME d = panel.day
               PROVE  /\ Of("write", News) # {} => Coming(server[d], Pending(d) \cup News) = panel.editor
                      /\ Of("write", News) = {} =>
                           Coming(server[d], Pending(d) \cup News) = Coming(server[d], Pending(d))
    OBVIOUS
  <2>1. Orderly(Pending(d) \cup News)
    BY <1>3, <1>4
  <2>2. /\ Of("write", News) # {} =>
              \E y \in Of("write", News) : Coming(server[d], Pending(d) \cup News) = y.content
        /\ Of("write", News) = {} =>
              Coming(server[d], Pending(d) \cup News) = Coming(server[d], Pending(d))
    BY <1>5, <2>1, LaterComes
  <2> QED BY <1>6, <2>2
<1>11. ASSUME d # panel.day
       PROVE  ComingText(d)' = ComingText(d) /\ On(d, dispatched') = On(d, dispatched)
  <2>1. On(d, dispatched') = On(d, dispatched)
    BY <1>1, <1>11 DEF On
  <2>2. Pending(d)' = Pending(d)
    <3>1. {op \in On(d, overlay' \cup dispatched') : ~op.acked} = Pending(d)
      BY <1>1, <1>11 DEF Pending, On
    <3> QED BY <3>1 DEF Pending
  <2> QED BY <1>2, <2>1, <2>2 DEF ComingText
<1> QED BY <1>7, <1>8, <1>9, <1>10, <1>11

-----------------------------------------------------------------------------
(* What makes the typed text stay.                                            *)

\* Of a day that nobody else has touched nothing was deleted, and what the device has
\* is the account's note, with its lock or under one of its own.
Undisturbed(d) ==
  /\ buried[d] = {}
  /\ \A op \in overlay \cup dispatched \cup Read : op.day = d => op.verb # "delete"
  /\ \A r \in replica[d] : \E n \in server[d] :
       n.id = r.id /\ (n.locked = r.locked \/ Named(r.id, Locks(d, overlay)) # {})

\* No lock is shown, and none will be whatever is read, served or downloaded first.
Free(d) ==
  /\ panel.intent = {} /\ ~(panel.hint /\ TRUE \in panel.remembered) /\ ~SyncedLocked(panel)
  /\ Locks(d, dispatched) = {}
  /\ EndsUnlocked(Locks(d, overlay)) /\ EndsUnlocked(Locks(d, Read))
  /\ \A n \in server[d] : n.locked => \E x \in Locks(d, overlay) : x.id = n.id /\ ~x.acked
  /\ \A r \in replica[d] : r.locked => \E x \in Locks(d, overlay) : x.id = r.id
  /\ \A x \in Locks(d, overlay) : \E y \in Locks(d, Read) : y.id = x.id

\* An armed debounce holds what was typed, and may save it; else what the editor shows
\* while it has the focus is the text to come.
Edited(d) ==
  /\ panel.timer = "armed" => /\ typed = {[day |-> d, content |-> panel.save.content]}
                              /\ panel.save.content # Blank /\ Free(d)
  /\ panel.focused /\ panel.timer # "armed" => panel.editor = ComingText(d)

\* The text t is in the debounce, or it is the text to come.
OnItsWay(t) ==
  \/ panel.open /\ panel.day = t.day /\ panel.timer = "armed" /\ panel.save.content = t.content
  \/ ComingText(t.day) = t.content

\* The day d is undisturbed, and what the panel shows and what was typed agree with it.
Safe(d) ==
  /\ Undisturbed(d)
  /\ panel.open /\ panel.day = d => Edited(d)
  /\ \A t \in typed : t.day = d => OnItsWay(t)

\* The day has a note, or a text is on its way to it.
NoteComes(d) == server[d] # {} \/ Of("write", Pending(d)) # {}

\* A day with no note to come shows none, now or when it is opened again.
Noted(d) ==
  \/ NoteComes(d)
  \/ /\ UNION cache[d] = {}
     /\ panel.open /\ panel.day = d => UNION panel.rows = {} /\ Of("write", On(d, Read)) = {}

\* Every day that nothing else has touched is safe, and shows a note only if it has one.
TypedInv ==
  /\ \A t \in typed : t.day \in Days
  /\ \A d \in Days \ disturbed : Safe(d) /\ Noted(d)

\* Nothing of d arrives, and nothing is typed.
DayStill(d) ==
  /\ server'[d] = server[d] /\ buried'[d] = buried[d] /\ replica'[d] \subseteq replica[d]
  /\ On(d, overlay') = On(d, overlay) /\ On(d, dispatched') = On(d, dispatched)

\* The panel on d stays as it is, as far as its text goes.
PanelOn(d) ==
  /\ panel'.open /\ panel'.day = d =>
       /\ panel.open /\ panel.day = d /\ panel'.rows = panel.rows /\ panel'.ops = panel.ops
       /\ panel'.intent = panel.intent /\ panel'.remembered = panel.remembered
       /\ panel'.hint => panel.hint
       /\ panel'.timer = panel.timer /\ panel'.save = panel.save
       /\ panel'.focused = panel.focused /\ panel'.editor = panel.editor
       /\ cache'[d] = cache[d] /\ typed' = typed
  /\ panel.open /\ panel.day = d /\ panel.timer = "armed" => panel'.open /\ panel'.day = d
  /\ \A t \in typed' : t.day = d => t \in typed

\* The same reading shows the same note.
LEMMA EntryStill ==
  ASSUME panel'.day = panel.day, panel'.rows = panel.rows, panel'.ops = panel.ops,
         cache'[panel.day] = cache[panel.day]
  PROVE  Entry(panel)' = Entry(panel) /\ SyncedLocked(panel)' = SyncedLocked(panel)
<1>1. Entry(panel)' = Entry(panel)
  BY DEF Entry
<1> QED BY <1>1 DEF SyncedLocked

\* Such a day stays safe.
LEMMA SafeStill ==
  ASSUME NEW d \in Days, Safe(d), DayStill(d), PanelOn(d),
         \A op \in Read' : op.day = d => op.verb # "delete"
  PROVE  Safe(d)'
<1>1. /\ server'[d] = server[d] /\ buried'[d] = buried[d] /\ replica'[d] \subseteq replica[d]
      /\ On(d, overlay') = On(d, overlay) /\ On(d, dispatched') = On(d, dispatched)
  BY DEF DayStill
<1>2. ComingText(d)' = ComingText(d)
  <2>1. Pending(d)' = Pending(d)
    <3>1. On(d, overlay' \cup dispatched') = On(d, overlay \cup dispatched)
      BY <1>1 DEF On
    <3> QED BY <3>1 DEF Pending
  <2> QED BY <1>1, <2>1 DEF ComingText
<1>3. Locks(d, overlay)' = Locks(d, overlay) /\ Locks(d, dispatched)' = Locks(d, dispatched)
  BY <1>1 DEF Locks
<1>4. Undisturbed(d)'
  <2>1. \A op \in overlay' \cup dispatched' : op.day = d => op \in overlay \cup dispatched
    BY <1>1 DEF On
  <2>2. \A op \in overlay' \cup dispatched' \cup Read' : op.day = d => op.verb # "delete"
    BY <2>1 DEF Safe, Undisturbed
  <2> QED BY <1>1, <1>3, <2>2 DEF Safe, Undisturbed
<1>5. panel'.open /\ panel'.day = d => Edited(d)'
  <2> SUFFICES ASSUME panel'.open, panel'.day = d PROVE Edited(d)'
    OBVIOUS
  <2>1. /\ panel.open /\ panel.day = d /\ panel'.rows = panel.rows /\ panel'.ops = panel.ops
        /\ panel'.intent = panel.intent /\ panel'.remembered = panel.remembered
        /\ panel'.hint => panel.hint
        /\ panel'.timer = panel.timer /\ panel'.save = panel.save
        /\ panel'.focused = panel.focused /\ panel'.editor = panel.editor
        /\ cache'[d] = cache[d] /\ typed' = typed
    BY DEF PanelOn
  <2>2. Edited(d)
    BY <2>1 DEF Safe
  <2>3. SyncedLocked(panel)' = SyncedLocked(panel)
    BY <2>1, EntryStill
  <2>4. Locks(d, Read)' = Locks(d, Read)
    BY <2>1 DEF Read, Locks
  <2>5. Free(d) => Free(d)'
    BY <1>1, <1>3, <2>1, <2>3, <2>4 DEF Free
  <2> QED BY <1>2, <2>1, <2>2, <2>5 DEF Edited
<1>6. ASSUME NEW t \in typed', t.day = d PROVE OnItsWay(t)'
  <2>1. t \in typed
    BY <1>6 DEF PanelOn
  <2>2. OnItsWay(t)
    BY <1>6, <2>1 DEF Safe
  <2>3. CASE ComingText(d) = t.content
    BY <1>2, <1>6, <2>3 DEF OnItsWay
  <2>4. CASE panel.open /\ panel.day = d /\ panel.timer = "armed" /\ panel.save.content = t.content
    <3>1. panel'.open /\ panel'.day = d /\ panel'.timer = "armed" /\ panel'.save.content = t.content
      BY <2>4 DEF PanelOn
    <3> QED BY <1>6, <3>1 DEF OnItsWay
  <2> QED BY <1>6, <2>2, <2>3, <2>4 DEF OnItsWay
<1> QED BY <1>4, <1>5, <1>6 DEF Safe

\* The panel's fields stay, but for those that do not matter to its text.
LEMMA PanelOnStill ==
  ASSUME NEW d, Fields(panel', panel, {"busy", "hint", "dirty", "draft"}), panel'.hint => panel.hint,
         cache' = cache, typed' = typed
  PROVE  PanelOn(d) /\ Read' = Read
<1>1. /\ panel'.open = panel.open /\ panel'.day = panel.day /\ panel'.rows = panel.rows
      /\ panel'.ops = panel.ops /\ panel'.intent = panel.intent /\ panel'.remembered = panel.remembered
      /\ panel'.timer = panel.timer /\ panel'.save = panel.save
      /\ panel'.focused = panel.focused /\ panel'.editor = panel.editor
  BY DEF Fields, Closed
<1> QED BY <1>1 DEF PanelOn, Read

\* What is not the panel's, of a day it does not touch.
LEMMA StillSafe ==
  ASSUME Sound, NEW d \in Days, Safe(d), d \notin disturbed',
         \/ UNCHANGED <<account, queue, cache, panel, typed>> \/ LockTimer \/ HintExpires
         \/ \E e \in Days : Evict(e) \/ OtherDevice(e)
  PROVE  Safe(d)'
<1>1. DOMAIN panel = DOMAIN Closed /\ DOMAIN server = Days /\ DOMAIN buried = Days /\ DOMAIN replica = Days
  BY DEF Sound, PanelInv, PanelFine, NotesInv, Days
<1>2. cache' = cache /\ typed' = typed /\ dispatched' = dispatched /\ overlay' = overlay
  BY DEF LockTimer, HintExpires, Evict, OtherDevice, queue, history
<1>3. Fields(panel', panel, {"busy", "hint", "dirty", "draft"}) /\ (panel'.hint => panel.hint)
  BY <1>1 DEF LockTimer, HintExpires, Evict, OtherDevice, Fields, Closed
<1>4. PanelOn(d) /\ Read' = Read
  BY <1>2, <1>3, PanelOnStill
<1>5. server'[d] = server[d] /\ buried'[d] = buried[d] /\ replica'[d] \subseteq replica[d]
  <2>1. CASE UNCHANGED <<account, queue>>
    BY <2>1 DEF account, queue
  <2>2. CASE LockTimer \/ HintExpires
    BY <2>2 DEF LockTimer, HintExpires, account, queue
  <2>3. ASSUME NEW e \in Days, Evict(e)
        PROVE  server'[d] = server[d] /\ buried'[d] = buried[d] /\ replica'[d] \subseteq replica[d]
    BY <1>1, <2>3 DEF Evict, account
  <2>4. ASSUME NEW e \in Days, OtherDevice(e)
        PROVE  server'[d] = server[d] /\ buried'[d] = buried[d] /\ replica'[d] \subseteq replica[d]
    <3>1. e # d
      BY <2>4 DEF OtherDevice
    <3> QED BY <1>1, <2>4, <3>1 DEF OtherDevice
  <2> QED BY <2>1, <2>2, <2>3, <2>4
<1>6. DayStill(d)
  BY <1>2, <1>5 DEF DayStill
<1>7. \A op \in Read' : op.day = d => op.verb # "delete"
  BY <1>4 DEF Safe, Undisturbed
<1> QED BY <1>4, <1>6, <1>7, SafeStill

\* Another day than the panel's, while the panel reads, types and sends.
LEMMA ElsewhereSafe ==
  ASSUME Sound, NEW d \in Days, Safe(d), d \notin disturbed',
         panel.open, panel.day # d, panel'.open => panel'.day = panel.day,
         panel'.ops = {} \/ panel'.ops = panel.ops \/ panel'.ops = {overlay},
         UNCHANGED <<account, replica>>, On(d, overlay') = On(d, overlay), On(d, dispatched') = On(d, dispatched),
         \A t \in typed' : t.day = d => t \in typed
  PROVE  Safe(d)'
<1>1. PanelOn(d)
  BY DEF PanelOn
<1>2. DayStill(d)
  BY DEF DayStill, account
<1>3. \A op \in Read' : op \in Read \/ op \in overlay
  BY DEF Read
<1>4. \A op \in Read' : op.day = d => op.verb # "delete"
  BY <1>3 DEF Safe, Undisturbed
<1> QED BY <1>1, <1>2, <1>4, SafeStill

\* The panel opens with nothing in its editor's debounce.
LEMMA OpenSafe ==
  ASSUME Sound, NEW d \in Days, Safe(d), NEW e \in Days, Open(e)
  PROVE  Safe(d)'
<1>1. UNCHANGED <<account, queue, typed>> /\ ~panel.open /\ PanelFine(Opened(e)) /\ Render(Opened(e))
      /\ Opened(e).ops = {} /\ Opened(e).timer = "none" /\ Opened(e).focused = FALSE /\ Opened(e).day = e
  BY OpenIs DEF Open, history
<1>2. Days' = Days
  BY <1>1 DEF account, Days
<1>3. panel'.ops = {} /\ panel'.timer = "none" /\ panel'.focused = FALSE
  BY <1>1, <1>2, RenderIs DEF Sound
<1>4. UNCHANGED <<server, buried, replica, overlay, dispatched>> /\ Read' = {}
  BY <1>1, <1>3 DEF account, queue, Read
<1>5. Undisturbed(d)'
  BY <1>4 DEF Safe, Undisturbed, Locks
<1>6. Edited(d)'
  BY <1>3 DEF Edited
<1>7. ComingText(d)' = ComingText(d)
  BY <1>4 DEF ComingText, Pending
<1>8. \A t \in typed' : t.day = d => OnItsWay(t)'
  BY <1>1, <1>4, <1>7 DEF Safe, OnItsWay
<1> QED BY <1>5, <1>6, <1>8 DEF Safe

\* The focus is taken on the text to come.
LEMMA FocusSafe ==
  ASSUME Sound, NEW d \in Days, Safe(d), d \notin disturbed', Focus
  PROVE  Safe(d)'
<1>1. /\ UNCHANGED <<account, queue, cache, typed>> /\ panel.open /\ ~panel.focused
      /\ panel' = [panel EXCEPT !.focused = TRUE]
      /\ panel.day = d => panel.editor = ComingText(d)
  BY DEF Focus
<1>2. DOMAIN panel = DOMAIN Closed /\ panel.timer = "none"
  BY <1>1 DEF Sound, PanelInv, PanelFine
<1>3. /\ panel'.open = panel.open /\ panel'.day = panel.day /\ panel'.ops = panel.ops
      /\ panel'.timer = "none" /\ panel'.editor = panel.editor
  BY <1>1, <1>2 DEF Closed
<1>4. UNCHANGED <<server, buried, replica, overlay, dispatched>>
  BY <1>1 DEF account, queue
<1>5. CASE panel.day # d
  BY <1>1, <1>3, <1>4, <1>5, ElsewhereSafe
<1>6. CASE panel.day = d
  <2>1. Undisturbed(d)'
    BY <1>3, <1>4 DEF Safe, Undisturbed, Locks, Read
  <2>2. ComingText(d)' = ComingText(d)
    BY <1>4 DEF ComingText, Pending
  <2>3. Edited(d)'
    BY <1>1, <1>3, <1>6, <2>2 DEF Edited
  <2>4. \A t \in typed' : t.day = d => OnItsWay(t)'
    BY <1>1, <1>2, <2>2 DEF Safe, OnItsWay
  <2> QED BY <2>1, <2>3, <2>4 DEF Safe
<1> QED BY <1>5, <1>6

\* What is typed where no lock can come may be saved.
LEMMA TypeSafe ==
  ASSUME Sound, NEW d \in Days, Safe(d), d \notin disturbed', NEW t \in Texts, Type(t)
  PROVE  Safe(d)'
<1> DEFINE save == [content |-> t, row |-> ExistingId(panel)]
<1>1. /\ UNCHANGED <<account, queue, cache>> /\ panel.open /\ panel.focused /\ ~Preview(panel)
      /\ panel' = [panel EXCEPT !.dirty = TRUE, !.draft = t, !.editor = t, !.timer = "armed", !.save = save]
      /\ typed' = {[day |-> panel.day, content |-> t]}
      /\ panel.day = d => t # Blank /\ ~LocksUnread /\ ~LockComing(d)
  BY DEF Type
<1>2. DOMAIN panel = DOMAIN Closed /\ PanelFine(panel) /\ panel.day \in Days
  BY <1>1 DEF Sound, PanelInv, PanelFine
<1>3. save.content = t
  OBVIOUS
<1> HIDE DEF save
<1>4. /\ panel'.open = panel.open /\ panel'.day = panel.day /\ panel'.rows = panel.rows /\ panel'.ops = panel.ops
      /\ panel'.intent = panel.intent /\ panel'.remembered = panel.remembered /\ panel'.hint = panel.hint
      /\ panel'.timer = "armed" /\ panel'.editor = t /\ panel'.save.content = t
  BY <1>1, <1>2, <1>3 DEF Closed
<1>5. UNCHANGED <<server, buried, replica, overlay, dispatched>>
  BY <1>1 DEF account, queue
<1>6. CASE panel.day # d
  BY <1>1, <1>4, <1>5, <1>6, ElsewhereSafe
<1>7. CASE panel.day = d
  <2>1. Undisturbed(d)'
    BY <1>4, <1>5 DEF Safe, Undisturbed, Locks, Read
  <2>2. /\ panel.intent = {} /\ ~(panel.hint /\ TRUE \in panel.remembered) /\ Locks(d, dispatched) = {}
        /\ Locks(d, Read) = Locks(d, overlay)
    <3>1. ~(panel.hint /\ TRUE \in panel.remembered)
      BY <1>1, <1>7 DEF LocksUnread
    <3>2. CASE CaughtUp
      BY <1>7, <3>1, <3>2 DEF CaughtUp, Locks, Read
    <3>3. CASE ~CaughtUp
      <4>1. panel.intent = {} /\ Of("lock", On(d, overlay \cup dispatched \cup UNION panel.ops)) = {}
        BY <1>1, <1>7, <3>3 DEF LocksUnread
      <4>2. Locks(d, overlay) = {} /\ Locks(d, dispatched) = {} /\ Locks(d, Read) = {}
        BY <4>1 DEF Locks, Of, On, Read
      <4> QED BY <3>1, <4>1, <4>2
    <3> QED BY <3>2, <3>3
  <2>3. ~SyncedLocked(panel)
    BY <1>1, <1>2, <2>2, LockShown DEF Sound
  <2> DEFINE locks == Of("lock", On(d, overlay \cup dispatched))
  <2>4. locks = Locks(d, overlay)
    BY <2>2 DEF Locks, Of, On
  <2>5. /\ \A op \in locks : op.locked => ~(\A x \in Named(op.id, locks) : x.hlc <= op.hlc)
        /\ \A n \in server[d] : n.locked => Named(n.id, locks) \cap Pending(d) # {}
    BY <1>1, <1>7 DEF LockComing
  <2> HIDE DEF locks
  <2>6. \A x \in Locks(d, overlay) : x.hlc \in Nat
    BY DEF Locks, Of, On, Sound, QueueInv, Commands
  <2>7. EndsUnlocked(Locks(d, overlay))
    <3> SUFFICES ASSUME NEW op \in Locks(d, overlay), op.locked
                 PROVE  \E x \in Named(op.id, Locks(d, overlay)) : op.hlc < x.hlc
      BY DEF EndsUnlocked
    <3>1. PICK x \in Named(op.id, Locks(d, overlay)) : ~(x.hlc <= op.hlc)
      BY <2>4, <2>5
    <3>2. x \in Locks(d, overlay)
      BY <3>1 DEF Named
    <3> QED BY <2>6, <3>1, <3>2
  <2>8. \A n \in server[d] : n.locked => \E x \in Locks(d, overlay) : x.id = n.id /\ ~x.acked
    BY <2>4, <2>5 DEF Named, Pending
  <2>9. \A r \in replica[d] : r.locked => \E x \in Locks(d, overlay) : x.id = r.id
    <3> SUFFICES ASSUME NEW r \in replica[d], r.locked PROVE \E x \in Locks(d, overlay) : x.id = r.id
      OBVIOUS
    <3>1. PICK n \in server[d] : n.id = r.id /\ (n.locked = r.locked \/ Named(r.id, Locks(d, overlay)) # {})
      BY DEF Safe, Undisturbed
    <3> QED BY <2>8, <3>1 DEF Named
  <2>10. SyncedLocked(panel)' = SyncedLocked(panel)
    BY <1>1, <1>4, EntryStill
  <2>11. Free(d)'
    <3>1. /\ Locks(d, overlay)' = Locks(d, overlay) /\ Locks(d, dispatched)' = Locks(d, dispatched)
          /\ Locks(d, Read)' = Locks(d, Read)
      BY <1>4, <1>5 DEF Read
    <3> QED BY <1>4, <1>5, <2>2, <2>3, <2>7, <2>8, <2>9, <2>10, <3>1 DEF Free
  <2>12. Edited(d)'
    BY <1>1, <1>4, <1>7, <2>11 DEF Edited
  <2>13. \A x \in typed' : x.day = d => OnItsWay(x)'
    <3> SUFFICES ASSUME NEW x \in typed' PROVE OnItsWay(x)'
      OBVIOUS
    <3>1. x.day = panel.day /\ x.content = t
      BY <1>1
    <3> QED BY <1>1, <1>4, <3>1 DEF OnItsWay
  <2> QED BY <2>1, <2>12, <2>13 DEF Safe
<1> QED BY <1>6, <1>7

\* What a query gives does not show a lock that was not to come.
LEMMA ReadSafe ==
  ASSUME Sound, NEW d \in Days, Safe(d), d \notin disturbed', ReadRows \/ ReadOverlay
  PROVE  Safe(d)'
<1>1. PICK p :
        /\ PanelFine(p) /\ Render(p) /\ DOMAIN p = DOMAIN panel /\ Fields(p, panel, {"rows", "ops"})
        /\ p.rows = {} => panel.rows = {}
        /\ p.rows # {} => p.rows = {replica[panel.day]}
        /\ p.ops = panel.ops \/ p.ops = {overlay}
  <2>1. CASE ReadRows
    <3>1. PICK p : /\ PanelFine(p) /\ Render(p) /\ p.rows = {replica[panel.day]}
                   /\ DOMAIN p = DOMAIN panel /\ Fields(p, panel, {"rows"})
      BY <2>1, ReadRowsIs
    <3>2. p.ops = panel.ops /\ Fields(p, panel, {"rows", "ops"})
      BY <3>1 DEF Fields, Closed
    <3> QED BY <3>1, <3>2
  <2>2. CASE ReadOverlay
    <3>1. PICK p : /\ PanelFine(p) /\ Render(p) /\ p.ops = {overlay}
                   /\ p.rows = (IF panel.rows = {} THEN {} ELSE {replica[panel.day]})
                   /\ DOMAIN p = DOMAIN panel /\ Fields(p, panel, {"rows", "ops"})
      BY <2>2, ReadOverlayIs
    <3> QED BY <3>1
  <2> QED BY <2>1, <2>2
<1>2. panel.open /\ UNCHANGED <<account, queue, typed>>
  BY DEF ReadRows, ReadOverlay, history
<1>3. UNCHANGED <<server, buried, replica, overlay, dispatched>> /\ Days' = Days /\ panel.day \in Days
  BY <1>2 DEF account, queue, Days, Sound, PanelInv
<1>4. /\ p.open = panel.open /\ p.day = panel.day /\ p.timer = panel.timer /\ p.save = panel.save
      /\ p.focused = panel.focused /\ p.editor = panel.editor /\ p.intent = panel.intent
      /\ p.hint = panel.hint /\ p.remembered = panel.remembered
  BY <1>1 DEF Fields, Closed
<1>5. /\ panel'.open = panel.open /\ panel'.day = panel.day /\ panel'.timer = panel.timer
      /\ panel'.save = panel.save /\ panel'.focused = panel.focused
      /\ panel'.hint = panel.hint /\ panel'.remembered = panel.remembered
      /\ panel'.ops = p.ops /\ (panel.focused => panel'.editor = panel.editor)
      /\ (panel.intent = {} => panel'.intent = {}) /\ Entry(panel)' = Entry(p)
  BY <1>1, <1>3, <1>4, RenderIs DEF Sound
<1>6. CASE panel.day # d
  BY <1>1, <1>2, <1>3, <1>5, <1>6, ElsewhereSafe
<1>7. CASE panel.day = d
  <2>1. \A op \in UNION p.ops : op.day = d => op.verb # "delete"
    BY <1>1 DEF Safe, Undisturbed, Read
  <2>2. Undisturbed(d)'
    BY <1>3, <1>5, <2>1 DEF Safe, Undisturbed, Locks, Read
  <2>3. ComingText(d)' = ComingText(d)
    BY <1>3 DEF ComingText, Pending
  <2>4. Free(d) => Free(d)'
    <3> SUFFICES ASSUME Free(d) PROVE Free(d)'
      OBVIOUS
    <3>1. EndsUnlocked(Locks(d, UNION p.ops)) /\ \A x \in Locks(d, overlay) : \E y \in Locks(d, UNION p.ops) : y.id = x.id
      BY <1>1 DEF Free, Read
    <3>2. \A e \in Entry(p) : ~e.locked
      <4>1. CASE p.rows = {}
        <5>1. Entry(p) = Entry(panel)
          BY <1>1, <1>4, <4>1 DEF Entry
        <5> QED BY <5>1 DEF Free, SyncedLocked
      <4>2. CASE p.rows # {}
        <5> DEFINE row == replica[d]
                   ops == On(d, UNION p.ops)
        <5>1. Entry(p) = Merged(row, ops)
          <6>1. p.rows = {row}
            BY <1>1, <1>7, <4>2
          <6>2. Only(p.rows) = row
            BY <6>1 DEF Only
          <6> QED BY <1>4, <1>7, <4>2, <6>2 DEF Entry
        <5>2. Single(row) /\ Orderly(ops)
          BY <1>1, <1>4, <1>7, EntryIs DEF Sound, NotesInv
        <5>3. Of("delete", ops) = {}
          BY <2>1 DEF Of, On
        <5>4. Of("lock", ops) = Locks(d, UNION p.ops)
          BY DEF Locks
        <5>5. \A r \in row : r.locked => Named(r.id, Of("lock", ops)) # {}
          <6>1. \A r \in row : r.locked => \E y \in Locks(d, UNION p.ops) : y.id = r.id
            <7> SUFFICES ASSUME NEW r \in replica[d], r.locked PROVE \E y \in Locks(d, UNION p.ops) : y.id = r.id
              OBVIOUS
            <7>1. PICK x \in Locks(d, overlay) : x.id = r.id
              BY DEF Free
            <7> QED BY <3>1, <7>1
          <6> HIDE DEF row, ops
          <6> QED BY <5>4, <6>1 DEF Named
        <5> HIDE DEF row, ops
        <5> QED BY <3>1, <5>1, <5>2, <5>3, <5>4, <5>5, ReadsUnlocked
      <4> QED BY <4>1, <4>2
    <3>3. ~SyncedLocked(panel)'
      BY <1>5, <3>2 DEF SyncedLocked
    <3>4. Locks(d, overlay)' = Locks(d, overlay) /\ Locks(d, dispatched)' = Locks(d, dispatched)
          /\ Locks(d, Read)' = Locks(d, UNION p.ops)
      BY <1>3, <1>5 DEF Read
    <3> QED BY <1>3, <1>5, <3>1, <3>3, <3>4 DEF Free
  <2>5. Edited(d)'
    BY <1>2, <1>5, <1>7, <2>3, <2>4 DEF Safe, Edited
  <2>6. \A t \in typed' : t.day = d => OnItsWay(t)'
    BY <1>2, <1>5, <2>3 DEF Safe, OnItsWay
  <2> QED BY <2>2, <2>5, <2>6 DEF Safe
<1> QED BY <1>6, <1>7

\* What is saved is what was typed; and what is not typed changes nothing.
LEMMA SavedText ==
  ASSUME Sound, Sound', NEW d \in Days, panel.open, panel.day = d, Safe(d),
         UNCHANGED <<account, overlay, typed>>, NEW cmds \in Seq(Orders), Dispatched(cmds),
         \A c \in Range(cmds) : c.verb = "write" => c.content = panel.editor,
         panel.timer = "armed" /\ ~Preview(panel) /\ panel.editor # Blank => \E c \in Range(cmds) : c.verb = "write",
         ~panel.focused => \A c \in Range(cmds) : c.verb # "write"
  PROVE  /\ panel.focused => ComingText(d)' = panel.editor
         /\ \A t \in typed' : t.day = d => OnItsWay(t)'
         /\ panel.timer = "armed" => ~Preview(panel)
<1>1. /\ (\E c \in Range(cmds) : c.verb = "write") => ComingText(d)' = panel.editor
      /\ ~(\E c \in Range(cmds) : c.verb = "write") => ComingText(d)' = ComingText(d)
  BY TextSent
<1>2. Edited(d) /\ \A t \in typed : t.day = d => OnItsWay(t)
  BY DEF Safe
<1>3. PanelFine(panel) /\ panel.day \in Days
  BY DEF Sound, PanelInv
<1>4. panel.timer = "armed" => panel.focused /\ panel.editor = panel.save.content
  BY <1>3 DEF PanelFine
<1>5. panel.timer = "armed" => ~Preview(panel)
  BY <1>2, <1>3, LockShown DEF Edited, Free, Sound
<1>6. panel.timer = "armed" => ComingText(d)' = panel.editor
  BY <1>1, <1>2, <1>4, <1>5 DEF Edited
<1>7. panel.focused => ComingText(d)' = panel.editor
  BY <1>1, <1>2, <1>6 DEF Edited
<1>8. panel.timer # "armed" => ComingText(d)' = ComingText(d)
  BY <1>1, <1>2 DEF Edited
<1>9. ASSUME NEW t \in typed', t.day = d PROVE OnItsWay(t)'
  <2>1. t \in typed
    OBVIOUS
  <2>2. CASE panel.timer = "armed"
    <3>1. t.content = panel.save.content
      BY <1>2, <2>1, <2>2 DEF Edited
    <3> QED BY <1>4, <1>6, <1>9, <2>2, <3>1 DEF OnItsWay
  <2>3. CASE panel.timer # "armed"
    <3>1. ComingText(d) = t.content
      BY <1>2, <1>9, <2>1, <2>3 DEF OnItsWay
    <3> QED BY <1>8, <1>9, <2>3, <3>1 DEF OnItsWay
  <2> QED BY <2>2, <2>3
<1> QED BY <1>5, <1>7, <1>9

\* A panel that has read no note, and no write of one, shows none.
LEMMA NothingRead ==
  ASSUME NotesInv, NEW p, PanelFine(p), p.day \in Days,
         p.rows = {} => UNION cache[p.day] = {}, UNION p.rows = {},
         Of("write", On(p.day, UNION p.ops)) = {}, Of("delete", On(p.day, UNION p.ops)) = {}
  PROVE  Entry(p) = {}
<1>1. CASE p.rows = {}
  BY <1>1 DEF Entry
<1>2. CASE p.rows # {}
  <2>1. Entry(p) = Merged(Only(p.rows), On(p.day, UNION p.ops))
    BY <1>2 DEF Entry
  <2>2. Only(p.rows) = {}
    BY <1>2, OnlyIs
  <2>3. Single({}) /\ Orderly(On(p.day, UNION p.ops))
    BY EntryIs DEF Single, AtMostOne
  <2> DEFINE ops == On(p.day, UNION p.ops)
  <2>4. Orderly(ops) /\ Of("write", ops) = {} /\ Of("delete", ops) = {} /\ Entry(p) = Merged({}, ops)
    BY <2>1, <2>2, <2>3
  <2> HIDE DEF ops
  <2>5. Merged({}, ops) # {} <=> {} # {} \/ Of("write", ops) # {}
    BY <2>3, <2>4, MergedIs
  <2> QED BY <2>4, <2>5
<1> QED BY <1>1, <1>2

\* An undisturbed day that has a note to come has a text to come.
LEMMA TextComes ==
  ASSUME Sound, NEW d \in Days, NoteComes(d)
  PROVE  ComingText(d) # Blank
<1>1. Orderly(Pending(d))
  <2>1. Pending(d) \subseteq overlay \cup dispatched
    BY DEF Pending, On
  <2> QED BY <2>1, OrderlyPart DEF Sound, QueueInv
<1>2. CASE Of("write", Pending(d)) # {}
  <2>1. PICK op \in Of("write", Pending(d)) : \A x \in Of("write", Pending(d)) : x.hlc <= op.hlc
    BY <1>1, <1>2, ComingIs
  <2>2. ComingText(d) = op.content
    BY <1>1, <2>1, ComingIs, ComingTextIs
  <2>3. op \in Pending(d) /\ op.verb = "write"
    BY DEF Of
  <2> QED BY <1>1, <2>2, <2>3 DEF Orderly
<1>3. CASE Of("write", Pending(d)) = {}
  <2>1. server[d] # {} /\ server[d] \subseteq Notes
    BY <1>3 DEF NoteComes, Sound, NotesInv, Single
  <2>2. Only(server[d]) \in Notes
    BY <2>1, OnlyIs
  <2>3. ComingText(d) = Only(server[d]).content
    BY <1>3, <2>1 DEF ComingText, Draft
  <2> QED BY <2>2, <2>3 DEF Notes
<1> QED BY <1>2, <1>3

\* On an undisturbed day no delete goes out: an editor that shows no text while the day
\* has none to come knows no row.
LEMMA NoDelete ==
  ASSUME Sound, NEW d \in Days, panel.open, panel.day = d, Safe(d), Noted(d), panel.focused
  PROVE  panel.editor = Blank => panel.timer # "armed" /\ ExistingId(panel) = {}
<1> SUFFICES ASSUME panel.editor = Blank PROVE panel.timer # "armed" /\ ExistingId(panel) = {}
  OBVIOUS
<1>1. Edited(d) /\ PanelFine(panel)
  BY DEF Safe, Sound, PanelInv
<1>2. panel.timer # "armed"
  BY <1>1 DEF Edited, PanelFine
<1>3. ComingText(d) = Blank
  BY <1>1, <1>2 DEF Edited
<1>4. ~NoteComes(d)
  BY <1>3, TextComes
<1>5. UNION cache[d] = {} /\ UNION panel.rows = {} /\ Of("write", On(d, Read)) = {}
  BY <1>4 DEF Noted
<1>6. Of("delete", On(d, Read)) = {}
  BY DEF Of, On, Safe, Undisturbed
<1>7. Entry(panel) = {}
  BY <1>1, <1>5, <1>6, NothingRead DEF Read, Sound
<1> QED BY <1>2, <1>7 DEF ExistingId

\* What the panel sends of an undisturbed day deletes nothing.
LEMMA SendsUndisturbed ==
  ASSUME Sound, NEW d \in Days, Safe(d), Noted(d), d \notin disturbed', panel.open, panel.day = d,
         UNCHANGED <<account, replica, overlay>>, NEW cmds \in Seq(Orders), Dispatched(cmds),
         \A c \in Range(cmds) : c.verb = "delete" => Deletes,
         ~panel.focused => \A c \in Range(cmds) : c.verb # "delete",
         Read' \subseteq Read
  PROVE  Undisturbed(d)'
<1>1. \A c \in Range(cmds) : c.verb # "delete"
  BY NoDelete DEF Deletes
<1>2. \A f \in dispatched' : f \in dispatched \/ f.verb # "delete"
  BY <1>1 DEF Dispatched, News, Sent
<1>3. UNCHANGED <<server, buried, replica, overlay>>
  BY DEF account
<1>4. Locks(d, overlay)' = Locks(d, overlay)
  BY <1>3
<1> QED BY <1>2, <1>3, <1>4 DEF Safe, Undisturbed

\* The timer, a blur, the unmount: the debounce is sent, and is no more.
LEMMA SaveSafe ==
  ASSUME Sound, Sound', NEW d \in Days, Safe(d), Noted(d), d \notin disturbed', Fire \/ Blur \/ Close
  PROVE  Safe(d)'
<1>1. PICK cmds : /\ Saves(cmds) /\ Dispatch(cmds)
                  /\ panel.timer = "armed" /\ ~Preview(panel) /\ panel.editor # Blank =>
                       panel.day \in disturbed' \/ \E c \in Range(cmds) : c.verb = "write"
                  /\ \A c \in Range(cmds) : c.verb = "delete" => Deletes
                  /\ ~panel.focused => cmds = << >>
  BY SavesIs
<1>2. cmds \in Seq(Orders) /\ \A c \in Range(cmds) : c.verb = "write" => c.content = panel.editor
  BY <1>1 DEF Saves
<1>3. panel.open /\ PanelFine(panel)
  BY SendsOrders DEF Sound, PanelInv
<1>4. Dispatched(cmds)
  BY <1>1, <1>2, <1>3, DispatchIs DEF Sound
<1>5. UNCHANGED <<account, replica, overlay, typed>>
  BY DEF Fire, Blur, Close, history
<1>6. ~panel.focused => \A c \in Range(cmds) : c.verb # "write" /\ c.verb # "delete"
  BY <1>1 DEF Range
<1>7. DOMAIN panel = DOMAIN Closed
  BY <1>3 DEF PanelFine
<1>8. /\ panel'.open => panel'.day = panel.day
      /\ panel'.open /\ panel'.focused => panel'.editor = panel.editor /\ panel.focused
      /\ panel'.timer # "armed" /\ (panel'.ops = panel.ops \/ panel'.ops = {})
  <2>1. CASE Fire
    <3>1. panel' = [panel EXCEPT !.timer = "fired"]
      BY <2>1 DEF Fire
    <3> QED BY <1>7, <3>1 DEF Closed
  <2>2. CASE Blur
    <3>1. panel' = [panel EXCEPT !.focused = FALSE, !.timer = "none"]
      BY <2>2 DEF Blur
    <3> QED BY <1>7, <3>1 DEF Closed
  <2>3. CASE Close
    <3>1. panel' = Closed
      BY <2>3 DEF Close
    <3> QED BY <3>1 DEF Closed
  <2> QED BY <2>1, <2>2, <2>3
<1>9. CASE panel.day # d
  <2>1. On(d, dispatched') = On(d, dispatched)
    BY <1>2, <1>3, <1>4, <1>5, <1>9, TextSent
  <2>2. overlay' = overlay /\ UNCHANGED <<account, replica>> /\ typed' = typed
    BY <1>5
  <2> QED BY <1>3, <1>8, <1>9, <2>1, <2>2, ElsewhereSafe
<1>10. CASE panel.day = d
  <2>1. /\ panel.focused => ComingText(d)' = panel.editor
        /\ \A t \in typed' : t.day = d => OnItsWay(t)'
    BY <1>1, <1>2, <1>3, <1>4, <1>5, <1>6, <1>10, SavedText
  <2>2. Read' \subseteq Read
    BY <1>8 DEF Read
  <2>3. Undisturbed(d)'
    BY <1>1, <1>2, <1>3, <1>4, <1>5, <1>6, <1>10, <2>2, SendsUndisturbed
  <2>4. panel'.open => Edited(d)'
    BY <1>8, <2>1 DEF Edited
  <2> QED BY <2>1, <2>3, <2>4 DEF Safe
<1> QED BY <1>9, <1>10

\* A lock is asked for after the debounce is sent.
LEMMA ToggleSafe ==
  ASSUME Sound, Sound', NEW d \in Days, Safe(d), Noted(d), d \notin disturbed', ToggleLock
  PROVE  Safe(d)'
<1>1. PICK saves, lock :
        /\ Saves(saves) /\ lock \in Orders /\ Dispatch(saves \o <<lock>>) /\ lock.verb = "lock"
        /\ panel.timer = "armed" /\ ~Preview(panel) /\ panel.editor # Blank =>
             \E c \in Range(saves) : c.verb = "write"
        /\ \A c \in Range(saves) : c.verb = "delete" => Deletes
        /\ ~panel.focused => saves = << >>
  BY ToggleSends
<1> DEFINE cmds == saves \o <<lock>>
<1>2. cmds \in Seq(Orders) /\ Range(cmds) = Range(saves) \cup {lock}
  <2>1. saves \in Seq(Orders) /\ <<lock>> \in Seq(Orders) /\ Range(<<lock>>) = {lock}
    BY <1>1 DEF Saves, Range
  <2> DEFINE last == <<lock>>
  <2> HIDE DEF last
  <2>2. saves \o last \in Seq(Orders)
    BY <2>1, ConcatProperties DEF last
  <2>3. Range(saves \o last) = Range(saves) \cup Range(last)
    BY <2>1, RangeConcatenation DEF last
  <2> QED BY <2>1, <2>2, <2>3 DEF last
<1>3. panel.open /\ PanelFine(panel) /\ panel.day \in Days
  BY SendsOrders DEF Sound, PanelInv
<1>4. Dispatched(cmds)
  BY <1>1, <1>2, <1>3, DispatchIs DEF Sound
<1> HIDE DEF cmds
<1>5. \A c \in Range(cmds) : c.verb = "write" => c.content = panel.editor
  BY <1>1, <1>2 DEF Saves
<1>6. /\ ~panel.focused => \A c \in Range(cmds) : c.verb # "write" /\ c.verb # "delete"
      /\ \A c \in Range(cmds) : c.verb = "delete" => Deletes
  <2>1. saves = << >> => Range(saves) = {}
    BY DEF Range
  <2> QED BY <1>1, <1>2, <2>1
<1>7. panel.timer = "armed" /\ ~Preview(panel) /\ panel.editor # Blank => \E c \in Range(cmds) : c.verb = "write"
  BY <1>1, <1>2
<1>8. UNCHANGED <<account, replica, overlay, typed>> /\ Days' = Days
  BY DEF ToggleLock, account, Days
<1>9. PICK p : /\ PanelFine(p) /\ Render(p) /\ p.timer = (IF ~Preview(panel) THEN "none" ELSE panel.timer)
               /\ DOMAIN p = DOMAIN panel /\ Fields(p, panel, {"timer", "busy", "intent"})
  BY ToggleIs
<1>10. p.open = panel.open /\ p.day = panel.day /\ p.focused = panel.focused /\ p.editor = panel.editor /\ p.ops = panel.ops
  BY <1>9 DEF Fields, Closed
<1>11. /\ panel'.open = panel.open /\ panel'.day = panel.day /\ panel'.timer = p.timer /\ panel'.ops = panel.ops
       /\ panel'.focused = panel.focused /\ (panel.focused => panel'.editor = panel.editor)
  BY <1>3, <1>8, <1>9, <1>10, RenderIs DEF Sound
<1>12. CASE panel.day # d
  <2>1. On(d, dispatched') = On(d, dispatched)
    BY <1>2, <1>3, <1>4, <1>5, <1>8, <1>12, TextSent
  <2>2. overlay' = overlay /\ UNCHANGED <<account, replica>> /\ typed' = typed
    BY <1>8
  <2> QED BY <1>3, <1>11, <1>12, <2>1, <2>2, ElsewhereSafe
<1>13. CASE panel.day = d
  <2>1. /\ panel.focused => ComingText(d)' = panel.editor
        /\ \A t \in typed' : t.day = d => OnItsWay(t)'
        /\ panel.timer = "armed" => ~Preview(panel)
    BY <1>2, <1>3, <1>4, <1>5, <1>6, <1>7, <1>8, <1>13, SavedText
  <2>2. Read' \subseteq Read
    BY <1>11 DEF Read
  <2>3. Undisturbed(d)'
    BY <1>2, <1>3, <1>4, <1>6, <1>8, <1>13, <2>2, SendsUndisturbed
  <2>4. panel'.timer # "armed"
    BY <1>9, <1>11, <2>1
  <2>5. Edited(d)'
    BY <1>11, <2>1, <2>4 DEF Edited
  <2> QED BY <2>1, <2>3, <2>5 DEF Safe
<1> QED BY <1>12, <1>13

\* A day whose note is removed is disturbed.
LEMMA RemoveSafe ==
  ASSUME Sound, Sound', NEW d \in Days, Safe(d), d \notin disturbed', RemoveNote
  PROVE  Safe(d)'
<1>1. PICK gone \in Orders : Dispatch(<<gone>>) /\ gone.verb = "delete"
  BY RemoveSends
<1>2. <<gone>> \in Seq(Orders) /\ Range(<<gone>>) = {gone}
  BY DEF Range
<1>3. panel.open /\ PanelFine(panel)
  BY SendsOrders DEF Sound, PanelInv
<1>4. Dispatched(<<gone>>)
  BY <1>1, <1>2, <1>3, DispatchIs DEF Sound
<1>5. panel.day # d
  BY DEF RemoveNote
<1>6. UNCHANGED <<account, replica, overlay, typed>>
  BY DEF RemoveNote
<1>7. On(d, dispatched') = On(d, dispatched)
  BY <1>1, <1>2, <1>3, <1>4, <1>5, <1>6, TextSent
<1>8. panel'.day = panel.day /\ panel'.ops = panel.ops
  BY <1>3 DEF RemoveNote, PanelFine, Closed
<1>9. overlay' = overlay /\ UNCHANGED <<account, replica>> /\ typed' = typed
  BY <1>6
<1> QED BY <1>3, <1>5, <1>7, <1>8, <1>9, ElsewhereSafe

\* A command stored is on its way as it was before.
LEMMA EnqueueSafe ==
  ASSUME Sound, NEW d \in Days, Safe(d), Enqueue
  PROVE  Safe(d)'
<1> DEFINE c == Oldest(dispatched)
<1>1. dispatched # {} /\ overlay' = overlay \cup {c} /\ dispatched' = dispatched \ {c}
      /\ UNCHANGED <<account, replica, cache, panel, typed>>
  BY DEF Enqueue, history
<1>2. c \in dispatched
  <2>1. Orderly(dispatched)
    BY OrderlyPart DEF Sound, QueueInv
  <2> QED BY <1>1, <2>1, OldestIs
<1> HIDE DEF c
<1>3. UNCHANGED <<server, buried>> /\ overlay' \cup dispatched' = overlay \cup dispatched /\ Read' = Read
  BY <1>1, <1>2 DEF account, Read
<1>4. ComingText(d)' = ComingText(d)
  <2>1. Pending(d)' = Pending(d)
    BY <1>3 DEF Pending
  <2> QED BY <1>3, <2>1 DEF ComingText
<1>5. Locks(d, overlay) \subseteq Locks(d, overlay') /\ Locks(d, dispatched') \subseteq Locks(d, dispatched)
      /\ (Locks(d, dispatched) = {} => Locks(d, overlay') = Locks(d, overlay))
  <2>1. \A op : op \in Locks(d, overlay') <=> (op \in Locks(d, overlay) \/ (op = c /\ op \in Locks(d, dispatched)))
    BY <1>1, <1>2 DEF Locks, Of, On
  <2>2. Locks(d, dispatched') \subseteq Locks(d, dispatched)
    BY <1>1 DEF Locks, Of, On
  <2> QED BY <2>1, <2>2
<1>6. Undisturbed(d)'
  <2>1. \A r : Named(r, Locks(d, overlay)) # {} => Named(r, Locks(d, overlay)') # {}
    BY <1>5 DEF Named
  <2> QED BY <1>1, <1>3, <2>1 DEF Safe, Undisturbed
<1>7. Free(d) => Free(d)'
  <2>1. SyncedLocked(panel)' = SyncedLocked(panel)
    BY <1>1, EntryStill
  <2> QED BY <1>1, <1>3, <1>5, <2>1 DEF Free
<1>8. panel'.open /\ panel'.day = d => Edited(d)'
  BY <1>1, <1>4, <1>7 DEF Safe, Edited
<1>9. \A t \in typed' : t.day = d => OnItsWay(t)'
  BY <1>1, <1>4 DEF Safe, OnItsWay
<1> QED BY <1>6, <1>8, <1>9 DEF Safe

\* One that is lost disturbs its day, which is the panel's when its intent goes.
LEMMA EnqueueFailsSafe ==
  ASSUME Sound, NEW d \in Days, Safe(d), d \notin disturbed', EnqueueFails
  PROVE  Safe(d)'
<1> DEFINE c == Oldest(dispatched)
<1>1. /\ dispatched # {} /\ dispatched' = dispatched \ {c} /\ UNCHANGED <<account, replica, overlay, typed>>
      /\ disturbed' = disturbed \cup {c.day}
      /\ IF c.verb = "lock" /\ panel.open /\ c.visit = panel.visit
         THEN Render([panel EXCEPT !.intent = {}]) ELSE UNCHANGED <<panel, cache, lockCache>>
  BY DEF EnqueueFails
<1>2. c \in dispatched
  <2>1. Orderly(dispatched)
    BY OrderlyPart DEF Sound, QueueInv
  <2> QED BY <1>1, <2>1, OldestIs
<1> HIDE DEF c
<1>3. On(d, dispatched') = On(d, dispatched) /\ c.day # d
  BY <1>1 DEF On
<1>4. UNCHANGED <<server, buried, replica, overlay>> /\ Days' = Days
  BY <1>1 DEF account, Days
<1>5. CASE c.verb = "lock" /\ panel.open /\ c.visit = panel.visit
  <2> DEFINE p == [panel EXCEPT !.intent = {}]
  <2>1. PanelFine(p) /\ Fields(p, panel, {"intent"})
    BY IntentLost DEF Sound, PanelInv
  <2>2. Render(p) /\ p.open = panel.open /\ p.day = panel.day /\ p.ops = panel.ops
    BY <1>1, <1>5, <2>1 DEF Fields, Closed
  <2> HIDE DEF p
  <2>3. panel.day = c.day /\ panel.day \in Days
    BY <1>2, <1>5 DEF Sound, PanelInv
  <2>4. panel'.day = panel.day /\ panel'.ops = panel.ops
    BY <1>4, <2>1, <2>2, <2>3, RenderIs DEF Sound
  <2> QED BY <1>1, <1>3, <1>4, <1>5, <2>3, <2>4, ElsewhereSafe
<1>6. CASE UNCHANGED <<panel, cache, lockCache>>
  <2>1. PanelOn(d) /\ Read' = Read
    BY <1>1, <1>6, PanelOnStill DEF Fields
  <2>2. DayStill(d)
    BY <1>3, <1>4 DEF DayStill
  <2>3. \A op \in Read' : op.day = d => op.verb # "delete"
    BY <2>1 DEF Safe, Undisturbed
  <2> QED BY <2>1, <2>2, <2>3, SafeStill
<1> QED BY <1>1, <1>5, <1>6

\* A download brings the account's note, and settles what it shows.
LEMMA DownloadSafe ==
  ASSUME Sound, NEW d \in Days, Safe(d), Download
  PROVE  Safe(d)'
<1>1. UNCHANGED <<server, buried, dispatched, cache, panel, typed>> /\ Read' = Read
  BY DEF Download, account, history, Read
<1>2. \/ replica'[d] = server[d] /\ \A op \in overlay : op.day = d => (op \in overlay' <=> ~op.acked)
      \/ replica'[d] = replica[d] /\ \A op \in overlay : op.day = d => op \in overlay'
  BY DEF Download
<1>3. overlay' \subseteq overlay
  BY DEF Download
<1>4. Pending(d)' = Pending(d)
  <2>1. \A op \in overlay : op.day = d /\ ~op.acked => op \in overlay'
    BY <1>2
  <2> QED BY <1>1, <1>3, <2>1 DEF Pending, On
<1>5. ComingText(d)' = ComingText(d)
  BY <1>1, <1>4 DEF ComingText
<1> DEFINE locks == Locks(d, overlay)
           kept == Locks(d, overlay')
<1>6. /\ kept \subseteq locks /\ \A x \in locks : ~x.acked => x \in kept
      /\ replica'[d] = server[d] \/ (replica'[d] = replica[d] /\ kept = locks)
  BY <1>2, <1>3 DEF Locks, Of, On
<1>7. \A x \in locks : x.day = d /\ x \in overlay /\ x.hlc \in Nat
  BY DEF Locks, Of, On, Sound, QueueInv, Commands
<1>8. Locks(d, overlay)' = kept /\ Locks(d, dispatched)' = Locks(d, dispatched) /\ Locks(d, Read)' = Locks(d, Read)
  BY <1>1
<1> HIDE DEF locks, kept
<1>9. Undisturbed(d)'
  <2>1. \A r \in replica'[d] : \E n \in server[d] :
          n.id = r.id /\ (n.locked = r.locked \/ Named(r.id, kept) # {})
    BY <1>6 DEF Safe, Undisturbed, locks
  <2>2. \A op \in overlay' \cup dispatched' \cup Read' : op.day = d => op.verb # "delete"
    BY <1>1, <1>3 DEF Safe, Undisturbed
  <2> QED BY <1>1, <1>8, <2>1, <2>2 DEF Safe, Undisturbed
<1>10. Free(d) => Free(d)'
  <2> SUFFICES ASSUME Free(d) PROVE Free(d)'
    OBVIOUS
  <2>1. EndsUnlocked(kept)
    <3> SUFFICES ASSUME NEW op \in kept, op.locked PROVE \E x \in Named(op.id, kept) : op.hlc < x.hlc
      BY DEF EndsUnlocked
    <3>1. PICK x \in Named(op.id, locks) : op.hlc < x.hlc
      BY <1>6 DEF Free, EndsUnlocked, locks
    <3>2. x \in locks /\ x.id = op.id /\ op \in locks
      BY <1>6, <3>1 DEF Named
    <3>3. CASE kept = locks
      BY <3>1, <3>3
    <3>4. CASE kept # locks
      <4>1. ~op.acked
        <5>1. \A y \in overlay : y.day = d => (y \in overlay' <=> ~y.acked)
          <6>1. kept = locks \/ \A y \in overlay : y.day = d => (y \in overlay' <=> ~y.acked)
            BY <1>2, <1>3 DEF locks, kept, Locks, Of, On
          <6> QED BY <3>4, <6>1
        <5>2. op \in overlay' /\ op \in overlay /\ op.day = d
          BY <1>7, <3>2 DEF kept, Locks, Of, On
        <5> QED BY <5>1, <5>2
      <4>2. ~x.acked
        <5> SUFFICES ASSUME x.acked PROVE FALSE
          OBVIOUS
        <5>1. x.hlc < op.hlc /\ x.hlc \in Nat /\ op.hlc \in Nat
          BY <1>7, <3>2, <4>1 DEF Sound, QueueInv
        <5> QED BY <3>1, <5>1
      <4> QED BY <1>6, <3>1, <3>2, <4>2 DEF Named
    <3> QED BY <3>3, <3>4
  <2>2. \A n \in server[d] : n.locked => \E x \in kept : x.id = n.id /\ ~x.acked
    BY <1>6 DEF Free, locks
  <2>3. \A r \in replica'[d] : r.locked => \E x \in kept : x.id = r.id
    BY <1>6, <2>2 DEF Free, locks
  <2>4. \A x \in kept : \E y \in Locks(d, Read) : y.id = x.id
    BY <1>6 DEF Free, locks
  <2>5. SyncedLocked(panel)' = SyncedLocked(panel)
    BY <1>1, EntryStill
  <2> QED BY <1>1, <1>8, <2>1, <2>2, <2>3, <2>4, <2>5 DEF Free
<1>11. panel'.open /\ panel'.day = d => Edited(d)'
  BY <1>1, <1>5, <1>10 DEF Safe, Edited
<1>12. \A t \in typed' : t.day = d => OnItsWay(t)'
  BY <1>1, <1>5 DEF Safe, OnItsWay
<1> QED BY <1>9, <1>11, <1>12 DEF Safe

\* A reload loses only what disturbs its day.
LEMMA ReloadSafe ==
  ASSUME Sound, NEW d \in Days, Safe(d), d \notin disturbed', Reload
  PROVE  Safe(d)'
<1>1. /\ dispatched' = {} /\ panel' = Closed /\ UNCHANGED <<server, buried, replica, overlay, typed>>
      /\ disturbed' = disturbed \cup {op.day : op \in dispatched}
                                \cup (IF panel.timer = "armed" THEN {panel.day} ELSE {})
  BY DEF Reload, account
<1>2. Read' = {} /\ ~panel'.open
  BY <1>1 DEF Closed, Read
<1>3. ComingText(d)' = ComingText(d)
  <2>1. On(d, overlay' \cup dispatched') = On(d, overlay \cup dispatched)
    BY <1>1 DEF On
  <2>2. Pending(d)' = Pending(d)
    BY <2>1 DEF Pending
  <2> QED BY <1>1, <2>2 DEF ComingText
<1>4. Undisturbed(d)'
  BY <1>1, <1>2 DEF Safe, Undisturbed, Locks
<1>5. \A t \in typed' : t.day = d => OnItsWay(t)'
  BY <1>1, <1>3 DEF Safe, OnItsWay
<1> QED BY <1>2, <1>4, <1>5 DEF Safe

\* An upload of another day's command.
LEMMA DeliverElsewhereSafe ==
  ASSUME Sound, NEW d \in Days, Safe(d), Deliver, NEW op, NEW done, Delivered(op, done), op.day # d
  PROVE  Safe(d)'
<1>1. UNCHANGED <<replica, dispatched, cache, panel, typed>>
  BY DEF Deliver, history
<1>2. PanelOn(d) /\ Read' = Read
  BY <1>1, PanelOnStill DEF Fields
<1>3. On(d, overlay') = On(d, overlay) /\ server'[d] = server[d] /\ buried'[d] = buried[d]
  BY DEF Delivered, Served, On
<1>4. DayStill(d)
  BY <1>1, <1>3 DEF DayStill
<1>5. \A x \in Read' : x.day = d => x.verb # "delete"
  BY <1>2 DEF Safe, Undisturbed
<1> QED BY <1>2, <1>4, <1>5, SafeStill

\* What the device stored of a day is served in order: its text comes, a lock of its goes.
LEMMA DeliverHereSafe ==
  ASSUME Sound, NEW d \in Days, Safe(d), Deliver, NEW op, NEW done, Delivered(op, done), op.day = d
  PROVE  Safe(d)'
<1>1. UNCHANGED <<replica, dispatched, cache, panel, typed>> /\ Read' = Read
  BY DEF Deliver, history, Read
<1>2. /\ op \in overlay /\ ~op.acked /\ overlay' = (overlay \ {op}) \cup done /\ AtMostOne(done)
      /\ \A x \in overlay : ~x.acked => op.hlc <= x.hlc
      /\ \A e \in done : e.acked /\ e.verb = op.verb /\ e.day = d /\ e.locked = op.locked /\ e.hlc = op.hlc
                         /\ (op.verb # "write" => e.id = op.id)
      /\ done = {} => op.verb # "write" /\ op.id \notin Ids(server[d])
  BY DEF Delivered, Served
<1>3. op.verb # "delete" /\ buried[d] = {} /\ op.verb \in {"write", "lock", "delete"}
      /\ \A x \in overlay \cup dispatched \cup Read : x.day = d => x.verb # "delete"
  BY <1>2 DEF Safe, Undisturbed, Sound, QueueInv, Commands
<1>4. \A x \in overlay \cup dispatched : x.hlc \in Nat
  BY DEF Sound, QueueInv, Commands
<1>5. op.verb = "write" =>
        \E n \in server'[d] :
          /\ server'[d] = {n} /\ n.content = op.content
          /\ server[d] = {} => ~n.locked
          /\ \A m \in server[d] : n.id = m.id /\ n.locked = m.locked
  BY <1>3 DEF Delivered
<1>6. op.verb = "lock" =>
        /\ server[d] = {} => server'[d] = {}
        /\ \A m \in server[d] : \E n \in server'[d] :
             /\ server'[d] = {n} /\ n.id = m.id /\ n.content = m.content
             /\ n.locked = IF m.id = op.id THEN op.locked ELSE m.locked
  BY DEF Delivered
<1>7. buried'[d] = buried[d] /\ AtMostOne(server[d]) /\ AtMostOne(server'[d])
  BY <1>3 DEF Delivered, Sound, NotesInv, Single
<1>8. ComingText(d)' = ComingText(d)
  <2>1. op \in Pending(d) /\ \A x \in Pending(d) : op.hlc <= x.hlc
    <3>1. \A x \in dispatched : op.hlc <= x.hlc
      BY <1>2, <1>4 DEF Sound, QueueInv
    <3> QED BY <1>2, <3>1 DEF Pending, On
  <2>2. Pending(d)' = Pending(d) \ {op}
    <3>1. {x \in On(d, overlay' \cup dispatched') : ~x.acked} = Pending(d) \ {op}
      <4>1. op \notin dispatched
        BY <1>2, <1>4 DEF Sound, QueueInv
      <4> QED BY <1>1, <1>2, <4>1 DEF Pending, On
    <3> QED BY <3>1 DEF Pending
  <2>3. op.verb = "write" => Draft(server'[d]) = op.content
    BY <1>5 DEF Draft, Only
  <2>4. op.verb # "write" => Draft(server'[d]) = Draft(server[d])
    <3> SUFFICES ASSUME op.verb = "lock" PROVE Draft(server'[d]) = Draft(server[d])
      BY <1>3
    <3>1. CASE server[d] = {}
      BY <1>6, <3>1 DEF Draft
    <3>2. CASE server[d] # {}
      <4>1. PICK m \in server[d] : server[d] = {m}
        BY <1>7, <3>2 DEF AtMostOne
      <4>2. PICK n \in server'[d] : server'[d] = {n} /\ n.content = m.content
        BY <1>6, <4>1
      <4> QED BY <4>1, <4>2 DEF Draft, Only
    <3> QED BY <3>1, <3>2
  <2>5. Orderly(Pending(d))
    BY OrderlyPart DEF Pending, On, Sound, QueueInv
  <2>6. Coming(server'[d], Pending(d) \ {op}) = Coming(server[d], Pending(d))
    BY <2>1, <2>3, <2>4, <2>5, StoredComes
  <2> QED BY <2>2, <2>6 DEF ComingText, Coming
<1> DEFINE locks == Locks(d, overlay)
           kept == Locks(d, overlay')
<1>9. Locks(d, overlay)' = kept /\ Locks(d, dispatched)' = Locks(d, dispatched) /\ Locks(d, Read)' = Locks(d, Read)
  BY <1>1
<1>10. /\ op.verb = "write" => kept = locks /\ op \notin locks
       /\ op.verb = "lock" => kept = (locks \ {op}) \cup done /\ op \in locks
       /\ \A x \in locks : x \in overlay /\ x.day = d
  BY <1>2 DEF Locks, Of, On
<1> HIDE DEF locks, kept
<1>11. \A x \in locks : \/ x \in kept
                        \/ x = op /\ op.verb = "lock" /\ (op.id \in Ids(server[d]) => \E e \in kept : e.id = op.id)
  <2>1. done # {} \/ op.id \notin Ids(server[d])
    BY <1>2
  <2> QED BY <1>2, <1>3, <1>10, <2>1
<1>12. ASSUME NEW i \in Ids(server[d]), \E x \in locks : x.id = i PROVE \E x \in kept : x.id = i
  BY <1>11, <1>12
<1>13. Undisturbed(d)'
  <2>1. \A x \in overlay' \cup dispatched' \cup Read' : x.day = d => x.verb # "delete"
    BY <1>1, <1>2, <1>3
  <2>2. ASSUME NEW r \in replica[d]
        PROVE  \E n \in server'[d] : n.id = r.id /\ (n.locked = r.locked \/ Named(r.id, kept) # {})
    <3>1. PICK m \in server[d] : m.id = r.id /\ (m.locked = r.locked \/ Named(r.id, locks) # {})
      BY DEF Safe, Undisturbed, locks
    <3>2. Named(r.id, locks) # {} => Named(r.id, kept) # {}
      BY <1>12, <3>1 DEF Named, Ids
    <3>3. CASE op.verb = "write"
      BY <1>5, <3>1, <3>2, <3>3
    <3>4. CASE op.verb = "lock"
      <4>1. PICK n \in server'[d] : n.id = m.id /\ n.locked = IF m.id = op.id THEN op.locked ELSE m.locked
        BY <1>6, <3>1, <3>4
      <4>2. m.id = op.id => Named(r.id, locks) # {}
        BY <1>10, <3>1, <3>4 DEF Named
      <4> QED BY <3>1, <3>2, <4>1, <4>2
    <3> QED BY <1>3, <3>3, <3>4
  <2> QED BY <1>1, <1>3, <1>7, <1>9, <2>1, <2>2 DEF Undisturbed
<1>14. Free(d) => Free(d)'
  <2> SUFFICES ASSUME Free(d) PROVE Free(d)'
    OBVIOUS
  <2>1. ASSUME NEW x \in locks, x.locked PROVE \E y \in locks : y.id = x.id /\ x.hlc < y.hlc
    BY <2>1 DEF Free, EndsUnlocked, Named, locks
  <2>2. \A y \in locks : op.verb = "lock" /\ op.hlc < y.hlc => ~y.acked /\ y \in kept
    <3> SUFFICES ASSUME NEW y \in locks, op.verb = "lock", op.hlc < y.hlc PROVE ~y.acked /\ y \in kept
      OBVIOUS
    <3>1. y \in overlay /\ y.hlc \in Nat /\ op.hlc \in Nat
      BY <1>2, <1>4, <1>10
    <3>2. ~y.acked
      <4> SUFFICES ASSUME y.acked PROVE FALSE
        OBVIOUS
      <4>1. y.hlc < op.hlc
        BY <1>2, <3>1 DEF Sound, QueueInv
      <4> QED BY <3>1, <4>1
    <3>3. y # op
      BY <3>1
    <3> QED BY <1>10, <3>2, <3>3
  <2>3. EndsUnlocked(kept)
    <3> SUFFICES ASSUME NEW x \in kept, x.locked PROVE \E y \in kept : y.id = x.id /\ x.hlc < y.hlc
      BY DEF EndsUnlocked, Named
    <3>1. CASE op.verb = "write"
      BY <1>10, <2>1, <3>1
    <3>2. CASE op.verb = "lock" /\ x \in done
      <4>1. op.locked /\ op \in locks /\ x.id = op.id /\ x.hlc = op.hlc
        BY <1>2, <1>10, <3>2
      <4>2. PICK y \in locks : y.id = op.id /\ op.hlc < y.hlc
        BY <2>1, <4>1
      <4> QED BY <2>2, <3>2, <4>1, <4>2
    <3>3. CASE op.verb = "lock" /\ x \in locks /\ x # op
      <4>1. PICK y \in locks : y.id = x.id /\ x.hlc < y.hlc
        BY <2>1, <3>3
      <4>2. CASE y # op
        BY <1>10, <3>3, <4>1, <4>2
      <4>3. CASE y = op
        <5>1. x.acked
          <6> SUFFICES ASSUME ~x.acked PROVE FALSE
            OBVIOUS
          <6>1. x \in overlay /\ x.hlc \in Nat /\ op.hlc \in Nat /\ op.hlc <= x.hlc
            BY <1>2, <1>4, <1>10, <3>3
          <6> QED BY <4>1, <4>3, <6>1
        <5>2. op.id \in Ids(server[d])
          <6>1. x.id \in Ids(server[d]) \cup buried[d]
            BY <1>10, <3>3, <5>1 DEF Sound, NotesInv
          <6> QED BY <1>3, <4>1, <4>3, <6>1
        <5>3. PICK e \in done : e.id = op.id /\ e.hlc = op.hlc
          BY <1>2, <3>3, <5>2
        <5>4. e \in kept
          BY <1>10, <3>3, <5>3
        <5> QED BY <4>1, <4>3, <5>3, <5>4
      <4> QED BY <4>2, <4>3
    <3> QED BY <1>3, <1>10, <3>1, <3>2, <3>3
  <2>4. ASSUME NEW n \in server'[d], n.locked PROVE \E x \in kept : x.id = n.id /\ ~x.acked
    <3>1. \A m \in server[d] : m.locked => \E x \in locks : x.id = m.id /\ ~x.acked
      BY DEF Free, locks
    <3>2. CASE op.verb = "write"
      <4>1. PICK m \in server[d] : n.id = m.id /\ n.locked = m.locked
        BY <1>5, <1>7, <2>4, <3>2 DEF AtMostOne
      <4> QED BY <1>10, <2>4, <3>1, <3>2, <4>1
    <3>3. CASE op.verb = "lock"
      <4>1. PICK m \in server[d] : n.id = m.id /\ n.locked = IF m.id = op.id THEN op.locked ELSE m.locked
        BY <1>6, <1>7, <3>3 DEF AtMostOne
      <4>2. CASE m.id = op.id
        <5>1. PICK y \in locks : y.id = op.id /\ op.hlc < y.hlc
          BY <1>10, <2>1, <2>4, <3>3, <4>1, <4>2
        <5> QED BY <2>2, <3>3, <4>1, <4>2, <5>1
      <4>3. CASE m.id # op.id
        <5>1. PICK x \in locks : x.id = m.id /\ ~x.acked
          BY <2>4, <3>1, <4>1, <4>3
        <5> QED BY <1>10, <3>3, <4>1, <4>3, <5>1
      <4> QED BY <4>2, <4>3
    <3> QED BY <1>3, <3>2, <3>3
  <2>5. ASSUME NEW r \in replica[d], r.locked PROVE \E x \in kept : x.id = r.id
    <3>1. r.id \in Ids(server[d])
      BY DEF Safe, Undisturbed, Ids
    <3>2. \E x \in locks : x.id = r.id
      BY <2>5 DEF Free, locks
    <3> QED BY <1>12, <3>1, <3>2
  <2>6. \A x \in kept : \E y \in Locks(d, Read) : y.id = x.id
    <3>1. \A x \in kept : \E z \in locks : z.id = x.id
      BY <1>2, <1>3, <1>10
    <3> QED BY <3>1 DEF Free, locks
  <2>7. SyncedLocked(panel)' = SyncedLocked(panel)
    BY <1>1, EntryStill
  <2> QED BY <1>1, <1>9, <2>3, <2>4, <2>5, <2>6, <2>7 DEF Free
<1>15. panel'.open /\ panel'.day = d => Edited(d)'
  BY <1>1, <1>8, <1>14 DEF Safe, Edited
<1>16. \A t \in typed' : t.day = d => OnItsWay(t)'
  BY <1>1, <1>8 DEF Safe, OnItsWay
<1> QED BY <1>13, <1>15, <1>16 DEF Safe

\* A new visit is safe: nothing is typed yet, and what is there is the account's.
LEMMA TypedInit == Init => TypedInv
<1> SUFFICES ASSUME Init PROVE TypedInv
  OBVIOUS
<1>1. PICK v \in Visits :
         /\ server = v.notes /\ buried = [d \in DOMAIN v.notes |-> {}] /\ replica = [d \in DOMAIN v.notes |-> {}]
         /\ overlay = {} /\ dispatched = {} /\ panel = Closed /\ typed = {}
         /\ cache = [d \in DOMAIN v.notes |-> {}]
  BY DEF Init
<1>2. Read = {} /\ ~panel.open
  BY <1>1 DEF Read, Closed
<1>3. \A d \in Days : Undisturbed(d) /\ Noted(d)
  BY <1>1, <1>2 DEF Days, Undisturbed, Noted
<1> QED BY <1>1, <1>2, <1>3 DEF TypedInv, Safe

\* Days that are disturbed stay so, and the days are always the same.
LEMMA DaysStay ==
  ASSUME Sound, [Next]_vars
  PROVE  Days' = Days /\ disturbed \subseteq disturbed'
<1>1. CASE UNCHANGED vars
  BY <1>1 DEF vars, account, history, Days
<1>2. ASSUME NEW d \in Days, Open(d) \/ AgendaShows(d) \/ AgendaLeaves(d) \/ Evict(d)
      PROVE  Days' = Days /\ disturbed \subseteq disturbed'
  BY <1>2 DEF Open, AgendaShows, AgendaLeaves, Evict, account, history, Days
<1>3. ASSUME NEW d \in Days, OtherDevice(d)
      PROVE  Days' = Days /\ disturbed \subseteq disturbed'
  <2>1. disturbed' = disturbed \cup {d}
    BY <1>3 DEF OtherDevice
  <2>2. Days' = Days
    BY <1>3 DEF OtherDevice, Days
  <2> QED BY <2>1, <2>2
<1>4. ASSUME NEW i \in DOMAIN subs, Subscribed(i) \/ SubscribeFails(i)
      PROVE  Days' = Days /\ disturbed \subseteq disturbed'
  BY <1>4 DEF Subscribed, SubscribeFails, account, history, Days
<1>5. CASE Focus \/ LockTimer \/ HintExpires \/ (\E t \in Texts : Type(t)) \/ ReadRows \/ ReadOverlay
  BY <1>5 DEF Focus, LockTimer, HintExpires, Type, ReadRows, ReadOverlay, account, history, Days
<1>6. CASE Fire \/ Blur \/ Close \/ ToggleLock \/ RemoveNote
  <2>1. disturbed \subseteq disturbed'
    BY <1>6 DEF Fire, Blur, Close, ToggleLock, RemoveNote, history
  <2>2. server' = server
    BY <1>6 DEF Fire, Blur, Close, ToggleLock, RemoveNote, account
  <2> QED BY <2>1, <2>2 DEF Days
<1>7. CASE Enqueue \/ EnqueueFails \/ Download \/ Reload
  BY <1>7 DEF Enqueue, EnqueueFails, Download, Reload, account, history, Days
<1>8. CASE Deliver
  BY <1>8 DEF Deliver, history, Days
<1> QED BY <1>1, <1>2, <1>3, <1>4, <1>5, <1>6, <1>7, <1>8 DEF Next

\* A text is typed on the panel's day.
LEMMA TypedDays ==
  ASSUME Sound, [Next]_vars
  PROVE  typed' = typed \/ (\E t \in Texts : Type(t))
<1>1. CASE UNCHANGED vars
  BY <1>1 DEF vars, history
<1>2. ASSUME NEW d \in Days, Open(d) \/ AgendaShows(d) \/ AgendaLeaves(d) \/ Evict(d) \/ OtherDevice(d)
      PROVE  typed' = typed
  BY <1>2 DEF Open, AgendaShows, AgendaLeaves, Evict, OtherDevice, history
<1>3. ASSUME NEW i \in DOMAIN subs, Subscribed(i) \/ SubscribeFails(i)
      PROVE  typed' = typed
  BY <1>3 DEF Subscribed, SubscribeFails, history
<1>4. CASE Focus \/ LockTimer \/ HintExpires \/ ReadRows \/ ReadOverlay
  BY <1>4 DEF Focus, LockTimer, HintExpires, ReadRows, ReadOverlay, history
<1>5. CASE Fire \/ Blur \/ Close \/ ToggleLock \/ RemoveNote
  BY <1>5 DEF Fire, Blur, Close, ToggleLock, RemoveNote, history
<1>6. CASE Enqueue \/ EnqueueFails \/ Deliver \/ Download \/ Reload
  BY <1>6 DEF Enqueue, EnqueueFails, Deliver, Download, Reload, history
<1> QED BY <1>1, <1>2, <1>3, <1>4, <1>5, <1>6 DEF Next

\* Every step leaves a day safe that it does not disturb.
LEMMA SafeStep ==
  ASSUME Sound, Sound', [Next]_vars, NEW d \in Days, Safe(d), Noted(d), d \notin disturbed'
  PROVE  Safe(d)'
<1>1. CASE UNCHANGED vars
  BY <1>1, StillSafe DEF vars, history
<1>2. ASSUME NEW e \in Days, Open(e) \/ AgendaShows(e) \/ AgendaLeaves(e) \/ Evict(e) \/ OtherDevice(e)
      PROVE  Safe(d)'
  <2>1. CASE Open(e)
    BY <2>1, OpenSafe
  <2>2. CASE AgendaShows(e)
    <3>1. UNCHANGED <<account, queue, cache, panel, typed>>
      BY <2>2 DEF AgendaShows, history
    <3> QED BY <3>1, StillSafe
  <2>3. CASE AgendaLeaves(e)
    <3>1. UNCHANGED <<account, queue, cache, panel, typed>>
      BY <2>3 DEF AgendaLeaves, history
    <3> QED BY <3>1, StillSafe
  <2>4. CASE Evict(e) \/ OtherDevice(e)
    BY <2>4, StillSafe
  <2> QED BY <1>2, <2>1, <2>2, <2>3, <2>4
<1>3. ASSUME NEW i \in DOMAIN subs, Subscribed(i) \/ SubscribeFails(i)
      PROVE  Safe(d)'
  <2>1. UNCHANGED <<account, queue, cache, panel, typed>>
    BY <1>3 DEF Subscribed, SubscribeFails, history
  <2> QED BY <2>1, StillSafe
<1>4. CASE LockTimer \/ HintExpires
  BY <1>4, StillSafe
<1>5. CASE Focus
  BY <1>5, FocusSafe
<1>6. CASE \E t \in Texts : Type(t)
  BY <1>6, TypeSafe
<1>7. CASE ReadRows \/ ReadOverlay
  BY <1>7, ReadSafe
<1>8. CASE Fire \/ Blur \/ Close
  BY <1>8, SaveSafe
<1>9. CASE ToggleLock \/ RemoveNote
  BY <1>9, ToggleSafe, RemoveSafe
<1>10. CASE Enqueue \/ EnqueueFails
  BY <1>10, EnqueueSafe, EnqueueFailsSafe
<1>11. CASE Deliver
  <2>1. PICK op, done : Delivered(op, done)
    BY <1>11, DeliverIs DEF Sound
  <2> QED BY <1>11, <2>1, DeliverElsewhereSafe, DeliverHereSafe
<1>12. CASE Download \/ Reload
  BY <1>12, DownloadSafe, ReloadSafe
<1> QED BY <1>1, <1>2, <1>3, <1>4, <1>5, <1>6, <1>7, <1>8, <1>9, <1>10, <1>11, <1>12 DEF Next

\* A note to come is still to come while its write is pending.
LEMMA StillComes ==
  ASSUME NEW d, NoteComes(d), server'[d] = server[d],
         \A op \in overlay \cup dispatched : op.day = d /\ ~op.acked => op \in overlay' \cup dispatched'
  PROVE  NoteComes(d)'
<1>1. Pending(d) \subseteq Pending(d)'
  BY DEF Pending, On
<1> QED BY <1>1 DEF NoteComes, Of

\* On an undisturbed day the note that came, or was on its way, stays.
LEMMA NoteStays ==
  ASSUME Sound, [Next]_vars, NEW d \in Days, Safe(d), NoteComes(d), d \notin disturbed'
  PROVE  NoteComes(d)'
<1>1. CASE UNCHANGED <<account, queue>>
  BY <1>1, StillComes DEF account, queue
<1>2. ASSUME NEW e \in Days, Evict(e) \/ OtherDevice(e) PROVE NoteComes(d)'
  <2>1. overlay' = overlay /\ dispatched' = dispatched
    BY <1>2 DEF Evict, OtherDevice
  <2>2. server'[d] = server[d]
    <3>1. CASE Evict(e)
      BY <3>1 DEF Evict, account
    <3>2. CASE OtherDevice(e)
      <4>1. e # d
        BY <3>2 DEF OtherDevice
      <4> QED BY <3>2, <4>1 DEF OtherDevice, Days
    <3> QED BY <1>2, <3>1, <3>2
  <2> QED BY <2>1, <2>2, StillComes
<1>3. CASE Fire \/ Blur \/ Close \/ ToggleLock \/ RemoveNote
  <2>1. panel.open /\ \E cmds \in Seq(Orders) : Dispatch(cmds)
    BY <1>3, SendsOrders
  <2>2. dispatched \subseteq dispatched'
    BY <2>1, DispatchIs DEF Sound, Dispatched
  <2>3. overlay' = overlay /\ server' = server
    BY <1>3 DEF Fire, Blur, Close, ToggleLock, RemoveNote, account
  <2> QED BY <2>2, <2>3, StillComes
<1>4. CASE Enqueue
  BY <1>4, StillComes DEF Enqueue, account
<1>5. CASE EnqueueFails
  <2>1. /\ overlay' = overlay /\ server' = server /\ dispatched' = dispatched \ {Oldest(dispatched)}
        /\ disturbed' = disturbed \cup {Oldest(dispatched).day}
    BY <1>5 DEF EnqueueFails, account
  <2> QED BY <2>1, StillComes
<1>6. CASE Download
  BY <1>6, StillComes DEF Download, account
<1>7. CASE Reload
  <2>1. /\ overlay' = overlay /\ server' = server /\ \A op \in dispatched : op.day \in disturbed'
    BY <1>7 DEF Reload, account
  <2> QED BY <2>1, StillComes
<1>8. CASE Deliver
  <2>1. PICK op, done : Delivered(op, done)
    BY <1>8, DeliverIs DEF Sound
  <2>2. dispatched' = dispatched /\ op \in overlay /\ overlay' = (overlay \ {op}) \cup done
    BY <1>8, <2>1 DEF Deliver, Delivered
  <2>3. CASE op.day # d
    <3>1. server'[d] = server[d]
      BY <2>1, <2>3 DEF Delivered
    <3> QED BY <2>2, <2>3, <3>1, StillComes
  <2>4. CASE op.day = d /\ op.verb = "write"
    <3>1. op.id \notin buried[d]
      BY DEF Safe, Undisturbed
    <3> QED BY <2>1, <2>4, <3>1 DEF Delivered, NoteComes
  <2>5. CASE op.day = d /\ op.verb # "write"
    <3>1. op.verb = "lock"
      BY <2>2, <2>5 DEF Safe, Undisturbed, Sound, QueueInv, Commands
    <3>2. server[d] # {} => server'[d] # {}
      BY <2>1, <2>5, <3>1 DEF Delivered
    <3>3. Of("write", Pending(d)) \subseteq Of("write", Pending(d)')
      BY <2>2, <2>5 DEF Of, Pending, On
    <3> QED BY <3>2, <3>3 DEF NoteComes
  <2> QED BY <2>3, <2>4, <2>5
<1> QED
  <2>1. CASE UNCHANGED vars
    BY <1>1, <2>1 DEF vars
  <2>2. ASSUME NEW e \in Days, Open(e) \/ AgendaShows(e) \/ AgendaLeaves(e) PROVE NoteComes(d)'
    BY <1>1, <2>2 DEF Open, AgendaShows, AgendaLeaves
  <2>3. ASSUME NEW i \in DOMAIN subs, Subscribed(i) \/ SubscribeFails(i) PROVE NoteComes(d)'
    BY <1>1, <2>3 DEF Subscribed, SubscribeFails
  <2>4. CASE Focus \/ LockTimer \/ HintExpires \/ (\E t \in Texts : Type(t)) \/ ReadRows \/ ReadOverlay
    BY <1>1, <2>4 DEF Focus, LockTimer, HintExpires, Type, ReadRows, ReadOverlay
  <2> QED BY <1>2, <1>3, <1>4, <1>5, <1>6, <1>7, <1>8, <2>1, <2>2, <2>3, <2>4 DEF Next

\* Nothing of a day with no note to come is in the device's copy or its queue.
LEMMA NothingThere ==
  ASSUME Sound, NEW d \in Days, Safe(d), ~NoteComes(d)
  PROVE  replica[d] = {} /\ Of("write", On(d, overlay)) = {}
<1>1. server[d] = {} /\ Of("write", Pending(d)) = {} /\ buried[d] = {}
  BY DEF NoteComes, Safe, Undisturbed
<1>2. replica[d] = {}
  BY <1>1 DEF Ids, Sound, NotesInv
<1>3. ASSUME NEW op \in Of("write", On(d, overlay)) PROVE FALSE
  <2>1. op \in overlay /\ op.day = d /\ op.verb = "write"
    BY DEF Of, On
  <2>2. op.acked
    BY <1>1, <2>1 DEF Of, On, Pending
  <2> QED BY <1>1, <2>1, <2>2 DEF Ids, Sound, NotesInv
<1> QED BY <1>2, <1>3

\* A render of what was read before, or is there now, shows no note that is not to come.
LEMMA NotedRender ==
  ASSUME Sound, NEW d \in Days, Safe(d), Noted(d), ~NoteComes(d), Days' = Days,
         NEW p, PanelFine(p), p.day \in Days, Render(p),
         p.day = d => /\ p.rows = {} \/ p.rows = {replica[d]} \/ (panel.open /\ panel.day = d /\ p.rows = panel.rows)
                      /\ p.ops = {} \/ p.ops = {overlay} \/ (panel.open /\ panel.day = d /\ p.ops = panel.ops)
  PROVE  Noted(d)'
<1>1. /\ panel'.day = p.day /\ panel'.rows = p.rows /\ panel'.ops = p.ops
      /\ cache' = IF p.rows = {} THEN cache ELSE [cache EXCEPT ![p.day] = {Entry(p)}]
      /\ DOMAIN cache = Days
  BY RenderIs DEF Render, Sound, NotesInv
<1>2. UNION cache[d] = {} /\ (panel.open /\ panel.day = d => UNION panel.rows = {} /\ Of("write", On(d, Read)) = {})
  BY DEF Noted
<1>3. CASE p.day # d
  BY <1>1, <1>2, <1>3 DEF Noted
<1>4. CASE p.day = d
  <2>1. replica[d] = {} /\ Of("write", On(d, overlay)) = {}
    BY NothingThere
  <2>2. UNION p.rows = {}
    BY <1>2, <1>4, <2>1
  <2>3. Of("write", On(d, UNION p.ops)) = {} /\ Of("delete", On(d, UNION p.ops)) = {}
    <3>1. UNION p.ops = {} \/ UNION p.ops = overlay \/ (panel.open /\ panel.day = d /\ UNION p.ops = Read)
      BY <1>4 DEF Read
    <3>2. Of("delete", On(d, overlay)) = {} /\ Of("delete", On(d, Read)) = {}
      BY DEF Of, On, Safe, Undisturbed
    <3>3. On(d, {}) = {} /\ Of("write", {}) = {} /\ Of("delete", {}) = {}
      BY DEF Of, On
    <3> QED BY <1>2, <2>1, <3>1, <3>2, <3>3
  <2>4. Entry(p) = {}
    BY <1>2, <1>4, <2>2, <2>3, NothingRead DEF Sound
  <2>5. UNION cache'[d] = {}
    BY <1>1, <1>2, <1>4, <2>4
  <2> QED BY <1>1, <2>2, <2>3, <2>5 DEF Noted, Read
<1> QED BY <1>3, <1>4

\* No step shows a note on an undisturbed day that has none to come.
LEMMA NotedStep ==
  ASSUME Sound, [Next]_vars, NEW d \in Days, Safe(d), Noted(d), d \notin disturbed'
  PROVE  Noted(d)'
<1>1. CASE NoteComes(d)
  BY <1>1, NoteStays DEF Noted
<1> SUFFICES ASSUME ~NoteComes(d) PROVE Noted(d)'
  BY <1>1
<1>2. UNION cache[d] = {} /\ (panel.open /\ panel.day = d => UNION panel.rows = {} /\ Of("write", On(d, Read)) = {})
  BY DEF Noted
<1>3. Days' = Days
  BY DaysStay
<1>4. DOMAIN panel = DOMAIN Closed /\ PanelFine(panel)
  BY DEF Sound, PanelInv, PanelFine
<1>5. ASSUME cache'[d] = cache[d], \/ ~panel'.open
                                   \/ /\ panel'.open = panel.open /\ panel'.day = panel.day
                                      /\ panel'.rows = panel.rows /\ panel'.ops = panel.ops
      PROVE  Noted(d)'
  BY <1>2, <1>5 DEF Noted, Read
<1>6. CASE UNCHANGED <<cache, panel>>
  BY <1>5, <1>6
<1>7. CASE Focus \/ LockTimer \/ HintExpires \/ (\E t \in Texts : Type(t)) \/ Fire \/ Blur \/ RemoveNote
  <2>1. cache' = cache
    BY <1>7 DEF Focus, LockTimer, HintExpires, Type, Fire, Blur, RemoveNote
  <2>2. /\ panel'.open = panel.open /\ panel'.day = panel.day
        /\ panel'.rows = panel.rows /\ panel'.ops = panel.ops
    BY <1>4, <1>7 DEF Focus, LockTimer, HintExpires, Type, Fire, Blur, RemoveNote, Closed
  <2> QED BY <1>5, <2>1, <2>2
<1>8. CASE Close
  <2>1. cache' = cache /\ ~panel'.open
    BY <1>8 DEF Close, Closed
  <2> QED BY <1>5, <2>1
<1>9. CASE Reload
  <2>1. cache'[d] = {} /\ ~panel'.open
    BY <1>9 DEF Reload, Closed
  <2> QED BY <2>1 DEF Noted
<1>10. ASSUME NEW e \in Days, Open(e) PROVE Noted(d)'
  <2>1. /\ PanelFine(Opened(e)) /\ Render(Opened(e)) /\ Opened(e).day = e
        /\ Opened(e).rows = {} /\ Opened(e).ops = {}
    BY <1>10, OpenIs
  <2> QED BY <1>3, <2>1, NotedRender
<1>11. CASE ReadRows
  <2>1. PICK p : /\ PanelFine(p) /\ Render(p) /\ p.rows = {replica[panel.day]}
                 /\ DOMAIN p = DOMAIN panel /\ Fields(p, panel, {"rows"})
    BY <1>11, ReadRowsIs
  <2>2. p.day = panel.day /\ p.ops = panel.ops /\ panel.open /\ panel.day \in Days
    BY <1>11, <2>1 DEF ReadRows, Fields, Closed, Sound, PanelInv
  <2> QED BY <1>3, <2>1, <2>2, NotedRender
<1>12. CASE ReadOverlay
  <2>1. PICK p : /\ PanelFine(p) /\ Render(p) /\ p.ops = {overlay}
                 /\ p.rows = (IF panel.rows = {} THEN {} ELSE {replica[panel.day]})
                 /\ DOMAIN p = DOMAIN panel /\ Fields(p, panel, {"rows", "ops"})
    BY <1>12, ReadOverlayIs
  <2>2. p.day = panel.day /\ panel.open /\ panel.day \in Days
    BY <1>12, <2>1 DEF ReadOverlay, Fields, Closed, Sound, PanelInv
  <2> QED BY <1>3, <2>1, <2>2, NotedRender
<1>13. CASE ToggleLock
  <2>1. PICK p : PanelFine(p) /\ Render(p) /\ DOMAIN p = DOMAIN panel /\ Fields(p, panel, {"timer", "busy", "intent"})
    BY <1>13, ToggleIs
  <2>2. p.day = panel.day /\ p.rows = panel.rows /\ p.ops = panel.ops /\ panel.open /\ panel.day \in Days
    BY <1>13, <2>1 DEF ToggleLock, Fields, Closed, Sound, PanelInv
  <2> QED BY <1>3, <2>1, <2>2, NotedRender
<1>14. CASE EnqueueFails
  <2>1. CASE UNCHANGED <<panel, cache, lockCache>>
    BY <1>6, <2>1
  <2>2. CASE panel.open /\ Render([panel EXCEPT !.intent = {}])
    <3> DEFINE p == [panel EXCEPT !.intent = {}]
    <3>1. PanelFine(p) /\ Fields(p, panel, {"intent"})
      BY <1>4, IntentLost
    <3>2. Render(p) /\ p.day = panel.day /\ p.rows = panel.rows /\ p.ops = panel.ops /\ panel.day \in Days
      BY <2>2, <3>1 DEF Fields, Closed, Sound, PanelInv
    <3> HIDE DEF p
    <3> QED BY <1>3, <2>2, <3>1, <3>2, NotedRender
  <2> QED BY <1>14, <2>1, <2>2 DEF EnqueueFails
<1> QED
  <2>1. CASE UNCHANGED vars
    BY <1>6, <2>1 DEF vars
  <2>2. ASSUME NEW e \in Days, AgendaShows(e) \/ AgendaLeaves(e) \/ Evict(e) \/ OtherDevice(e) PROVE Noted(d)'
    BY <1>6, <2>2 DEF AgendaShows, AgendaLeaves, Evict, OtherDevice
  <2>3. ASSUME NEW i \in DOMAIN subs, Subscribed(i) \/ SubscribeFails(i) PROVE Noted(d)'
    BY <1>6, <2>3 DEF Subscribed, SubscribeFails
  <2>4. CASE Enqueue \/ Deliver \/ Download
    BY <1>6, <2>4 DEF Enqueue, Deliver, Download
  <2> QED BY <1>7, <1>8, <1>9, <1>10, <1>11, <1>12, <1>13, <1>14, <2>1, <2>2, <2>3, <2>4 DEF Next

\* The safe days are what carries a typed text from step to step.
LEMMA TypedStep ==
  ASSUME Sound, Sound', TypedInv, [Next]_vars
  PROVE  TypedInv'
<1>1. Days' = Days /\ disturbed \subseteq disturbed'
  BY DaysStay
<1>2. ASSUME NEW d \in Days \ disturbed' PROVE Safe(d)' /\ Noted(d)'
  BY <1>1, <1>2, SafeStep, NotedStep DEF TypedInv
<1>3. \A t \in typed' : t.day \in Days
  <2>1. CASE typed' = typed
    BY <2>1 DEF TypedInv
  <2>2. CASE \E t \in Texts : Type(t)
    <3>1. PICK t \in Texts : Type(t)
      BY <2>2
    <3>2. typed' = {[day |-> panel.day, content |-> t]} /\ panel.open
      BY <3>1 DEF Type
    <3>3. panel.day \in Days
      BY <3>2 DEF Sound, PanelInv
    <3> QED BY <3>2, <3>3
  <2> QED BY <2>1, <2>2, TypedDays
<1>4. \A d \in Days' \ disturbed' : Safe(d)' /\ Noted(d)'
  BY <1>1, <1>2
<1>5. \A t \in typed' : t.day \in Days'
  BY <1>1, <1>3
<1> QED BY <1>4, <1>5 DEF TypedInv

\* What was typed last on a day that nothing else has touched is in the debounce or is
\* the text the day will have, also when a lock takes the editor away and its blur reports
\* an empty text (DayJournal's change, flush and write).
THEOREM TypedTextStays == Spec => []TypedTextIsKept
<1>1. Init => Sound /\ TypedInv
  BY SoundInit, TypedInit
<1>2. Sound /\ TypedInv /\ [Next]_vars => (Sound /\ TypedInv)'
  BY SoundStep, TypedStep
<1>3. Sound /\ TypedInv => TypedTextIsKept
  BY DEF TypedInv, Safe, OnItsWay, TypedTextIsKept
<1> QED BY <1>1, <1>2, <1>3, PTL DEF Spec

-----------------------------------------------------------------------------
(* What keeps a note locked that this panel has locked.                       *)

\* A row that says it is locked.
Locked(row) == \E r \in row : r.locked

\* Whether the note is shown locked that the panel has read.
Shown(s) == \E e \in Merged(s.row, s.seen) : e.locked

\* What there is of the day d: the account's note, what was deleted, the device's copy,
\* the row and the effects the panel has read, and the commands queued and on their way.
At(d) == [own |-> server[d], gone |-> buried[d], copy |-> replica[d],
          row |-> UNION panel.rows, seen |-> On(d, Read), intent |-> panel.intent,
          queued |-> On(d, overlay), waiting |-> On(d, dispatched)]

\* The rows are notes and the commands in their order.
Well(s) ==
  /\ Single(s.own) /\ Single(s.copy) /\ Single(s.row)
  /\ Orderly(s.queued \cup s.waiting) /\ Orderly(s.seen)
  /\ \A x \in s.queued, y \in s.waiting : x.hlc < y.hlc
  /\ \A y \in s.waiting : ~y.acked
  /\ \A x, y \in s.queued : x.acked /\ ~y.acked => x.hlc < y.hlc
  /\ \A x \in s.queued : x.acked => x.id \in Ids(s.own) \cup s.gone
  /\ Ids(s.copy) \subseteq Ids(s.own) \cup s.gone

\* The day has one note, and whatever is read next, it is shown.
OneNote(id, s) ==
  /\ id \notin s.gone
  /\ \A r \in s.own \cup s.copy \cup s.row : r.id = id
  /\ \A op \in s.queued \cup s.waiting \cup s.seen : op.id = id /\ op.verb # "delete"
  /\ s.own # {} \/ \E op \in s.queued \cup s.waiting : op.verb = "write" /\ ~op.acked
  /\ s.copy # {} \/ (Of("write", s.queued) # {} /\ Of("write", s.seen) # {})
  /\ s.row # {} \/ Of("write", s.seen) # {}

\* The lock is the last thing asked for of the day: it is done, or queued, or on its way
\* after locks that all end unlocked.
LockLast(s) ==
  \/ s.queued \cup s.waiting = {} /\ Locked(s.own) /\ Locked(s.copy)
  \/ \E m \in Of("lock", s.queued) :
       /\ m.locked /\ \A x \in s.queued \cup s.waiting : x.hlc <= m.hlc
       /\ m.acked => Locked(s.own)
  \/ \E m \in s.waiting :
       /\ Of("lock", s.waiting) = {m} /\ m.locked
       /\ \A x \in s.queued \cup s.waiting : x.hlc <= m.hlc
       /\ EndsUnlocked(Of("lock", s.seen)) /\ EndsUnlocked(Of("lock", s.queued))

\* The lock is shown, and no reading of the rows before the effects, or of a row whose
\* locks were settled meanwhile, takes it back.
LockStays(s) ==
  /\ s.intent = {TRUE} \/ (s.intent = {} /\ Shown(s))
  /\ (\E x \in Of("lock", s.queued) : ~x.locked) => Of("lock", s.seen) # {}
  /\ Of("lock", s.queued) = {} => (Locked(s.copy) => Locked(s.own))
  /\ Of("lock", s.seen) = {} => (Locked(s.row) => Locked(s.copy)) /\ (Locked(s.copy) => Locked(s.own))

\* The one note id is locked, or will be, and is shown so until then.
StaysLocked(id, s) == OneNote(id, s) /\ LockLast(s) /\ LockStays(s)

\* The one note is shown locked as the last lock says, or as the row does.
LEMMA ShownIs ==
  ASSUME NEW s, NEW id, Single(s.row), Orderly(s.seen),
         \A r \in s.row : r.id = id, \A op \in s.seen : op.id = id /\ op.verb # "delete",
         s.row # {} \/ Of("write", s.seen) # {}
  PROVE  /\ Of("lock", s.seen) = {} => (Shown(s) <=> Locked(s.row))
         /\ Of("lock", s.seen) # {} => (Shown(s) <=> Latest(Of("lock", s.seen)).locked)
<1> DEFINE M == Merged(s.row, s.seen)
           locks == Of("lock", s.seen)
<1>1. Of("delete", s.seen) = {}
  BY DEF Of
<1>2. M # {} /\ Ids(M) \subseteq Ids(s.row) \cup Ids(s.seen) /\ \A e \in M : e.locked = LockUnder(e.id, s.row, s.seen)
  BY <1>1, MergedIs
<1>3. \A e \in M : e.id = id
  <2>1. Ids(s.row) \cup Ids(s.seen) \subseteq {id}
    BY DEF Ids
  <2> QED BY <1>2, <2>1 DEF Ids
<1>4. locks = {} => (Shown(s) <=> Locked(s.row))
  BY <1>1, ReadsRow DEF Shown, Locked
<1>5. ASSUME locks # {} PROVE Shown(s) <=> Latest(locks).locked
  <2>1. Named(id, locks) = locks
    BY DEF Named, Of
  <2>2. LockUnder(id, s.row, s.seen) = Latest(locks).locked
    BY <1>5, <2>1 DEF LockUnder
  <2> HIDE DEF M, locks
  <2>3. \A e \in M : e.locked = Latest(locks).locked
    BY <1>2, <1>3, <2>2
  <2>4. Shown(s) <=> \E e \in M : e.locked
    BY DEF Shown, M
  <2> QED BY <1>2, <2>3, <2>4
<1> QED BY <1>4, <1>5

\* Locks that end unlocked have an unlocked last.
LEMMA LastUnlocked ==
  ASSUME NEW locks, Orderly(locks), locks # {}, EndsUnlocked(locks)
  PROVE  Latest(locks) \in locks /\ ~Latest(locks).locked
<1>1. Latest(locks) \in locks /\ \A x \in locks : x.hlc <= Latest(locks).hlc
  BY LatestIs
<1>2. \A x \in locks : x.hlc \in Nat
  BY DEF Orderly
<1>3. ASSUME Latest(locks).locked PROVE FALSE
  <2>1. PICK x \in Named(Latest(locks).id, locks) : Latest(locks).hlc < x.hlc
    BY <1>1, <1>3 DEF EndsUnlocked
  <2>2. x \in locks
    BY <2>1 DEF Named
  <2> QED BY <1>1, <1>2, <2>1, <2>2
<1> QED BY <1>1, <1>3

\* What is read of the queue's locks while the intent stands down.
LEMMA LockedReading ==
  ASSUME NEW s, NEW id, Well(s), StaysLocked(id, s), s.intent = {}
  PROVE  /\ Shown(s)
         /\ Of("lock", s.seen) = {} => Locked(s.copy)
         /\ Of("lock", s.seen) # {} => Latest(Of("lock", s.seen)).locked
         /\ Of("lock", s.queued) = {} => Locked(s.copy)
         /\ Of("lock", s.queued) # {} => Latest(Of("lock", s.queued)).locked
<1> DEFINE seen == Of("lock", s.seen)
           queued == Of("lock", s.queued)
<1>1. Shown(s)
  BY DEF StaysLocked, LockStays
<1>2. /\ seen = {} => (Shown(s) <=> Locked(s.row))
      /\ seen # {} => (Shown(s) <=> Latest(seen).locked)
  BY ShownIs DEF Well, StaysLocked, OneNote
<1>3. Orderly(seen) /\ Orderly(queued)
  <2>1. seen \subseteq s.seen /\ queued \subseteq s.queued \cup s.waiting
    BY DEF Of
  <2> HIDE DEF seen, queued
  <2> QED BY <2>1, OrderlyPart DEF Well
<1>4. seen = {} => Locked(s.copy)
  BY <1>1, <1>2 DEF StaysLocked, LockStays
<1>5. seen # {} => Latest(seen).locked
  BY <1>1, <1>2
<1>6. (queued = {} => Locked(s.copy)) /\ (queued # {} => Latest(queued).locked)
  <2>1. CASE s.queued \cup s.waiting = {} /\ Locked(s.copy)
    <3>1. queued = {}
      BY <2>1 DEF Of
    <3> QED BY <2>1, <3>1
  <2>2. CASE \E m \in queued : m.locked /\ \A x \in s.queued \cup s.waiting : x.hlc <= m.hlc
    <3>1. PICK m \in queued : m.locked /\ \A x \in s.queued \cup s.waiting : x.hlc <= m.hlc
      BY <2>2
    <3>2. \A x \in queued : x.hlc <= m.hlc
      BY <3>1 DEF Of
    <3> HIDE DEF queued
    <3>3. m = Latest(queued)
      BY <1>3, <3>2, LatestIs
    <3> QED BY <3>1, <3>3
  <2>3. CASE EndsUnlocked(seen) /\ EndsUnlocked(queued)
    <3> HIDE DEF seen, queued
    <3>1. seen = {}
      BY <1>3, <1>5, <2>3, LastUnlocked
    <3>2. \A x \in queued : x.locked
      BY <3>1 DEF StaysLocked, LockStays, seen, queued
    <3>3. queued = {}
      BY <1>3, <2>3, <3>2, LastUnlocked
    <3> QED BY <1>4, <3>1, <3>3
  <2> QED BY <2>1, <2>2, <2>3 DEF StaysLocked, LockLast
<1> QED BY <1>1, <1>4, <1>5, <1>6

\* A reading of the row, alone or with the effects, shows the lock.
LEMMA ReadingKeeps ==
  ASSUME NEW s, NEW t, NEW id, Well(s), StaysLocked(id, s),
         t.own = s.own, t.gone = s.gone, t.copy = s.copy, t.queued = s.queued, t.waiting = s.waiting,
         t.row = s.copy, t.seen = s.seen \/ t.seen = s.queued,
         t.intent = IF s.intent = {Shown(t)} THEN {} ELSE s.intent
  PROVE  StaysLocked(id, t)
<1>1. OneNote(id, t)
  <2>1. t.seen \subseteq s.seen \cup s.queued
    OBVIOUS
  <2>2. \A op \in t.queued \cup t.waiting \cup t.seen : op.id = id /\ op.verb # "delete"
    BY <2>1 DEF StaysLocked, OneNote
  <2>3. s.copy # {} \/ (Of("write", s.queued) # {} /\ Of("write", t.seen) # {})
    BY DEF StaysLocked, OneNote
  <2> QED BY <2>2, <2>3 DEF StaysLocked, OneNote
<1>2. LockLast(t)
  <2>1. EndsUnlocked(Of("lock", s.seen)) /\ EndsUnlocked(Of("lock", s.queued)) => EndsUnlocked(Of("lock", t.seen))
    OBVIOUS
  <2> QED BY <2>1 DEF StaysLocked, LockLast
<1>3. /\ Of("lock", t.seen) = {} => (Shown(t) <=> Locked(t.row))
      /\ Of("lock", t.seen) # {} => (Shown(t) <=> Latest(Of("lock", t.seen)).locked)
  <2>1. Single(t.row)
    BY DEF Well
  <2>2. Orderly(t.seen)
    <3>1. s.queued \in SUBSET (s.queued \cup s.waiting)
      OBVIOUS
    <3>2. Orderly(s.queued)
      BY <3>1, OrderlyPart DEF Well
    <3> QED BY <3>2 DEF Well
  <2> QED BY <1>1, <2>1, <2>2, ShownIs DEF OneNote
<1>4. s.intent = {} => Shown(t)
  <2> SUFFICES ASSUME s.intent = {} PROVE Shown(t)
    OBVIOUS
  <2>1. CASE t.seen = s.seen
    BY <1>3, <2>1, LockedReading
  <2>2. CASE t.seen = s.queued
    BY <1>3, <2>2, LockedReading
  <2> QED BY <2>1, <2>2
<1>5. t.intent = {TRUE} \/ (t.intent = {} /\ Shown(t))
  <2>1. Shown(t) \in BOOLEAN
    BY DEF Shown
  <2>2. CASE s.intent = {TRUE}
    BY <2>1, <2>2
  <2>3. CASE s.intent = {}
    BY <1>4, <2>3
  <2> QED BY <2>2, <2>3 DEF StaysLocked, LockStays
<1>6. LockStays(t)
  <2>1. (\E x \in Of("lock", s.queued) : ~x.locked) => Of("lock", t.seen) # {}
    BY DEF StaysLocked, LockStays
  <2>2. Of("lock", t.seen) = {} => (Locked(t.copy) => Locked(t.own))
    BY DEF StaysLocked, LockStays
  <2> QED BY <1>5, <2>1, <2>2 DEF StaysLocked, LockStays
<1> QED BY <1>1, <1>2, <1>6 DEF StaysLocked

\* A command that is stored does not change what was asked for.
LEMMA StoringKeeps ==
  ASSUME NEW s, NEW t, NEW id, Well(s), StaysLocked(id, s), NEW c \in s.waiting,
         t.own = s.own, t.gone = s.gone, t.copy = s.copy, t.row = s.row, t.seen = s.seen,
         t.intent = s.intent, t.queued = s.queued \cup {c}, t.waiting = s.waiting \ {c}
  PROVE  StaysLocked(id, t)
<1>1. t.queued \cup t.waiting = s.queued \cup s.waiting /\ s.queued \subseteq t.queued
  OBVIOUS
<1>2. Of("write", s.queued) \subseteq Of("write", t.queued) /\ Of("lock", s.queued) \subseteq Of("lock", t.queued)
  BY <1>1 DEF Of
<1>3. OneNote(id, t)
  <2>1. t.own # {} \/ \E op \in t.queued \cup t.waiting : op.verb = "write" /\ ~op.acked
    BY <1>1 DEF StaysLocked, OneNote
  <2>2. t.copy # {} \/ (Of("write", t.queued) # {} /\ Of("write", t.seen) # {})
    BY <1>2 DEF StaysLocked, OneNote
  <2>3. \A op \in t.queued \cup t.waiting \cup t.seen : op.id = id /\ op.verb # "delete"
    BY <1>1 DEF StaysLocked, OneNote
  <2> QED BY <2>1, <2>2, <2>3 DEF StaysLocked, OneNote
<1>4. Shown(t) = Shown(s)
  BY DEF Shown
<1>5. CASE \E m \in Of("lock", s.queued) :
             /\ m.locked /\ \A x \in s.queued \cup s.waiting : x.hlc <= m.hlc
             /\ m.acked => Locked(s.own)
  <2>1. PICK m \in Of("lock", s.queued) :
             /\ m.locked /\ \A x \in s.queued \cup s.waiting : x.hlc <= m.hlc
             /\ m.acked => Locked(s.own)
    BY <1>5
  <2>2. m \in s.queued
    BY DEF Of
  <2>3. m.hlc < c.hlc /\ c.hlc <= m.hlc /\ m.hlc \in Nat /\ c.hlc \in Nat
    BY <2>1, <2>2 DEF Well, Orderly
  <2> QED BY <2>3
<1>6. CASE \E m \in s.waiting :
             /\ Of("lock", s.waiting) = {m} /\ m.locked
             /\ \A x \in s.queued \cup s.waiting : x.hlc <= m.hlc
             /\ EndsUnlocked(Of("lock", s.seen)) /\ EndsUnlocked(Of("lock", s.queued))
  <2>1. PICK m \in s.waiting :
             /\ Of("lock", s.waiting) = {m} /\ m.locked
             /\ \A x \in s.queued \cup s.waiting : x.hlc <= m.hlc
             /\ EndsUnlocked(Of("lock", s.seen)) /\ EndsUnlocked(Of("lock", s.queued))
    BY <1>6
  <2>2. m.verb = "lock" /\ ~m.acked
    BY <2>1 DEF Of, Well
  <2>3. CASE c = m
    <3>1. m \in Of("lock", t.queued)
      BY <2>2, <2>3 DEF Of
    <3>2. LockLast(t)
      BY <1>1, <2>1, <2>2, <3>1 DEF LockLast
    <3>3. \A x \in Of("lock", t.queued) : x \in Of("lock", s.queued) \/ x.locked
      BY <2>1, <2>3 DEF Of
    <3>4. LockStays(t)
      BY <1>4, <3>1, <3>3 DEF StaysLocked, LockStays
    <3> QED BY <1>3, <3>2, <3>4 DEF StaysLocked
  <2>4. CASE c # m
    <3>1. c.verb # "lock"
      BY <2>1, <2>4 DEF Of
    <3>2. Of("lock", t.queued) = Of("lock", s.queued) /\ Of("lock", t.waiting) = Of("lock", s.waiting)
      BY <3>1 DEF Of
    <3>3. m \in t.waiting
      BY <2>4
    <3>4. LockLast(t)
      BY <1>1, <2>1, <3>2, <3>3 DEF LockLast
    <3>5. LockStays(t)
      BY <1>4, <3>2 DEF StaysLocked, LockStays
    <3> QED BY <1>3, <3>4, <3>5 DEF StaysLocked
  <2> QED BY <2>3, <2>4
<1> QED BY <1>5, <1>6 DEF StaysLocked, LockLast

\* A download of the day brings the account's note, and settles what was acknowledged.
LEMMA DownloadKeeps ==
  ASSUME NEW s, NEW t, NEW id, Well(s), StaysLocked(id, s),
         t.own = s.own, t.gone = s.gone, t.row = s.row, t.seen = s.seen, t.waiting = s.waiting,
         t.intent = s.intent, t.copy = s.own, t.queued = {op \in s.queued : ~op.acked}
  PROVE  StaysLocked(id, t)
<1>1. t.queued \subseteq s.queued /\ Of("lock", t.queued) \subseteq Of("lock", s.queued)
  BY DEF Of
<1>2. \A x \in s.queued \cup s.waiting : x.hlc \in Nat
  BY DEF Well, Orderly
<1>3. OneNote(id, t)
  <2>1. \A op \in t.queued \cup t.waiting \cup t.seen : op.id = id /\ op.verb # "delete"
    BY <1>1 DEF StaysLocked, OneNote
  <2>2. t.own # {} \/ \E op \in t.queued \cup t.waiting : op.verb = "write" /\ ~op.acked
    BY DEF StaysLocked, OneNote
  <2>3. s.own = {} => Of("write", t.queued) # {} /\ Of("write", s.seen) # {}
    <3> SUFFICES ASSUME s.own = {} PROVE Of("write", t.queued) # {} /\ Of("write", s.seen) # {}
      OBVIOUS
    <3>1. s.copy = {}
      BY DEF Well, StaysLocked, OneNote, Ids
    <3>2. Of("write", s.queued) # {} /\ Of("write", s.seen) # {}
      BY <3>1 DEF StaysLocked, OneNote
    <3>3. \A x \in s.queued : ~x.acked
      BY DEF Well, StaysLocked, OneNote, Ids
    <3> QED BY <3>2, <3>3 DEF Of
  <2> QED BY <2>1, <2>2, <2>3 DEF StaysLocked, OneNote
<1>4. LockLast(t)
  <2>1. CASE s.queued \cup s.waiting = {} /\ Locked(s.own)
    BY <1>1, <2>1 DEF LockLast
  <2>2. CASE \E m \in Of("lock", s.queued) :
               /\ m.locked /\ \A x \in s.queued \cup s.waiting : x.hlc <= m.hlc
               /\ m.acked => Locked(s.own)
    <3>1. PICK m \in Of("lock", s.queued) :
               /\ m.locked /\ \A x \in s.queued \cup s.waiting : x.hlc <= m.hlc
               /\ m.acked => Locked(s.own)
      BY <2>2
    <3>2. m \in s.queued
      BY DEF Of
    <3>3. CASE ~m.acked
      <4>1. m \in Of("lock", t.queued)
        BY <3>3 DEF Of
      <4> QED BY <1>1, <3>1, <3>3, <4>1 DEF LockLast
    <3>4. CASE m.acked
      <4>1. s.waiting = {}
        BY <1>2, <3>1, <3>2 DEF Well
      <4>2. \A x \in s.queued : x.acked
        BY <1>2, <3>1, <3>2, <3>4 DEF Well
      <4>3. t.queued \cup t.waiting = {}
        BY <4>1, <4>2
      <4> QED BY <3>1, <3>4, <4>3 DEF LockLast
    <3> QED BY <3>3, <3>4
  <2>3. CASE \E m \in s.waiting :
               /\ Of("lock", s.waiting) = {m} /\ m.locked
               /\ \A x \in s.queued \cup s.waiting : x.hlc <= m.hlc
               /\ EndsUnlocked(Of("lock", s.seen)) /\ EndsUnlocked(Of("lock", s.queued))
    <3>1. EndsUnlocked(Of("lock", t.queued))
      <4> SUFFICES ASSUME NEW op \in Of("lock", t.queued), op.locked
                   PROVE  \E x \in Named(op.id, Of("lock", t.queued)) : op.hlc < x.hlc
        BY DEF EndsUnlocked
      <4>1. op \in s.queued /\ ~op.acked
        BY DEF Of
      <4>2. PICK x \in Named(op.id, Of("lock", s.queued)) : op.hlc < x.hlc
        BY <1>1, <2>3 DEF EndsUnlocked
      <4>3. x \in s.queued /\ x.verb = "lock" /\ x.id = op.id
        BY DEF Of, Named
      <4>4. ~x.acked
        BY <1>2, <4>1, <4>2, <4>3 DEF Well
      <4>5. x \in Named(op.id, Of("lock", t.queued))
        BY <4>3, <4>4 DEF Of, Named
      <4> QED BY <4>2, <4>5
    <3> QED BY <1>1, <2>3, <3>1 DEF LockLast
  <2> QED BY <2>1, <2>2, <2>3 DEF StaysLocked, LockLast
<1>5. LockStays(t)
  <2>1. Shown(t) = Shown(s)
    BY DEF Shown
  <2>2. (\E x \in Of("lock", t.queued) : ~x.locked) => Of("lock", t.seen) # {}
    BY <1>1 DEF StaysLocked, LockStays
  <2>3. Of("lock", t.seen) = {} => (Locked(t.row) => Locked(t.copy))
    BY DEF StaysLocked, LockStays
  <2> QED BY <2>1, <2>2, <2>3 DEF StaysLocked, LockStays
<1> QED BY <1>3, <1>4, <1>5 DEF StaysLocked

\* The oldest command of the day that is not acknowledged is served: done is what is left of it.
Answered(s, t, op, done) ==
  /\ op \in s.queued /\ ~op.acked /\ \A x \in s.queued : ~x.acked => op.hlc <= x.hlc
  /\ t.queued = (s.queued \ {op}) \cup done /\ AtMostOne(done)
  /\ \A e \in done : /\ e.acked /\ e.verb = op.verb /\ e.locked = op.locked /\ e.hlc = op.hlc
                     /\ op.verb # "write" => e.id = op.id
  /\ done = {} => op.verb # "write" /\ op.id \notin Ids(s.own) \cup s.gone
  /\ op.verb # "delete" => t.gone = s.gone
  /\ op.verb = "write" /\ op.id \notin s.gone =>
       \E n \in t.own : /\ t.own = {n} /\ \A e \in done : e.id = n.id
                        /\ s.own = {} => n.id = op.id
                        /\ \A m \in s.own : n.id = m.id /\ n.locked = m.locked
  /\ op.verb = "lock" =>
       /\ s.own = {} => t.own = {}
       /\ \A m \in s.own : \E n \in t.own :
            /\ t.own = {n} /\ n.id = m.id
            /\ n.locked <=> IF m.id = op.id THEN op.locked ELSE m.locked

\* What an answer finds and leaves of the one note.
LEMMA AnswerFinds ==
  ASSUME NEW s, NEW t, NEW id, NEW op, NEW done, Well(s), OneNote(id, s), Answered(s, t, op, done)
  PROVE  /\ op.verb \in {"write", "lock"} /\ op.id = id /\ t.gone = s.gone
         /\ \A e \in done : e.id = id
         /\ \A r \in t.own : r.id = id
         /\ op.verb = "write" => t.own # {} /\ done # {}
         /\ op.verb = "lock" => (t.own = {} <=> s.own = {}) /\ (done = {} => s.own = {})
         /\ op.verb = "lock" /\ s.own # {} => (Locked(t.own) <=> op.locked)
         /\ op.verb = "write" /\ Locked(s.own) => Locked(t.own)
         /\ s.own = {} => s.copy = {} /\ \A x \in s.queued : ~x.acked
<1>1. op \in s.queued /\ op.id = id /\ op.verb # "delete" /\ id \notin s.gone
  BY DEF OneNote, Answered
<1>2. op.verb \in {"write", "lock"}
  BY <1>1 DEF Well, Orderly
<1>3. t.gone = s.gone
  BY <1>1 DEF Answered
<1>4. s.own = {} => s.copy = {} /\ \A x \in s.queued : ~x.acked
  BY DEF Well, OneNote, Ids
<1>5. ASSUME op.verb = "write"
      PROVE  /\ t.own # {} /\ done # {} /\ (Locked(s.own) => Locked(t.own))
             /\ \A e \in done : e.id = id
             /\ \A r \in t.own : r.id = id
  <2>1. PICK n \in t.own : /\ t.own = {n} /\ \A e \in done : e.id = n.id
                           /\ s.own = {} => n.id = op.id
                           /\ \A m \in s.own : n.id = m.id /\ n.locked = m.locked
    BY <1>1, <1>5 DEF Answered
  <2>2. n.id = id
    BY <1>1, <2>1 DEF OneNote
  <2>3. done # {}
    BY <1>5 DEF Answered
  <2> QED BY <2>1, <2>2, <2>3 DEF Locked
<1>6. ASSUME op.verb = "lock"
      PROVE  /\ t.own = {} <=> s.own = {}
             /\ done = {} => s.own = {}
             /\ s.own # {} => (Locked(t.own) <=> op.locked)
             /\ \A e \in done : e.id = id
             /\ \A r \in t.own : r.id = id
  <2>1. s.own = {} => t.own = {}
    BY <1>6 DEF Answered
  <2>2. \A e \in done : e.id = id
    BY <1>1, <1>6 DEF Answered
  <2>3. ASSUME NEW m \in s.own
        PROVE  t.own # {} /\ done # {} /\ (Locked(t.own) <=> op.locked) /\ \A r \in t.own : r.id = id
    <3>1. PICK n \in t.own : /\ t.own = {n} /\ n.id = m.id
                             /\ n.locked <=> IF m.id = op.id THEN op.locked ELSE m.locked
      BY <1>6 DEF Answered
    <3>2. m.id = id
      BY DEF OneNote
    <3>3. Locked(t.own) <=> op.locked
      BY <1>1, <3>1, <3>2 DEF Locked
    <3>4. id \in Ids(s.own)
      BY <3>2 DEF Ids
    <3>5. done # {}
      BY <1>1, <3>4 DEF Answered
    <3> QED BY <3>1, <3>2, <3>3, <3>5
  <2> QED BY <2>1, <2>2, <2>3
<1> QED BY <1>1, <1>2, <1>3, <1>4, <1>5, <1>6

\* An answer keeps the note one, and its lock last.
LEMMA AnswerKeepsLock ==
  ASSUME NEW s, NEW t, NEW id, NEW op, NEW done, Well(s), StaysLocked(id, s), Answered(s, t, op, done),
         t.seen = s.seen, t.waiting = s.waiting
  PROVE  LockLast(t)
<1>1. OneNote(id, s)
  BY DEF StaysLocked
<1>2. /\ op \in s.queued /\ ~op.acked /\ \A x \in s.queued : ~x.acked => op.hlc <= x.hlc
      /\ t.queued = (s.queued \ {op}) \cup done /\ AtMostOne(done)
      /\ \A e \in done : /\ e.acked /\ e.verb = op.verb /\ e.locked = op.locked /\ e.hlc = op.hlc
  BY DEF Answered
<1>3. \A x \in s.queued \cup s.waiting : x.hlc \in Nat
  BY DEF Well, Orderly
<1>4. /\ op.verb \in {"write", "lock"} /\ op.id = id
      /\ \A e \in done : e.id = id
      /\ op.verb = "lock" => (done = {} => s.own = {})
      /\ op.verb = "lock" /\ s.own # {} => (Locked(t.own) <=> op.locked)
      /\ s.own = {} => \A x \in s.queued : ~x.acked
  BY <1>1, AnswerFinds
<1>5. ASSUME NEW h, \A x \in s.queued \cup s.waiting : x.hlc <= h
      PROVE  \A x \in t.queued \cup t.waiting : x.hlc <= h
  BY <1>2, <1>5
<1>6. CASE s.queued \cup s.waiting = {}
  BY <1>2, <1>6
<1>7. CASE \E m \in Of("lock", s.queued) :
             /\ m.locked /\ \A x \in s.queued \cup s.waiting : x.hlc <= m.hlc
             /\ m.acked => Locked(s.own)
  <2>1. PICK m \in Of("lock", s.queued) :
             /\ m.locked /\ \A x \in s.queued \cup s.waiting : x.hlc <= m.hlc
             /\ m.acked => Locked(s.own)
    BY <1>7
  <2>2. m \in s.queued /\ m.verb = "lock"
    BY DEF Of
  <2>3. CASE m = op
    <3>1. s.own # {}
      <4> SUFFICES ASSUME s.own = {} PROVE FALSE
        OBVIOUS
      <4>1. PICK w \in s.queued \cup s.waiting : w.verb = "write" /\ ~w.acked
        BY <1>1 DEF OneNote
      <4>2. w.hlc <= m.hlc /\ w # m
        BY <2>1, <2>2, <4>1
      <4>3. CASE w \in s.waiting
        <5>1. m.hlc < w.hlc
          BY <2>2, <4>3 DEF Well
        <5> QED BY <1>3, <2>2, <4>2, <5>1
      <4>4. CASE w \in s.queued
        <5>1. w.hlc = m.hlc
          BY <1>2, <1>3, <2>2, <2>3, <4>1, <4>2, <4>4
        <5> QED BY <2>2, <4>1, <4>2, <5>1 DEF Well, Orderly
      <4> QED BY <4>1, <4>3, <4>4
    <3>2. PICK e \in done : TRUE
      BY <1>4, <2>2, <2>3, <3>1
    <3>3. e \in Of("lock", t.queued) /\ e.locked /\ e.hlc = m.hlc
      BY <1>2, <2>1, <2>2, <2>3, <3>2 DEF Of
    <3>4. Locked(t.own)
      BY <1>4, <2>1, <2>2, <2>3, <3>1
    <3>5. \A x \in t.queued \cup t.waiting : x.hlc <= e.hlc
      BY <1>5, <2>1, <3>3
    <3> QED BY <3>3, <3>4, <3>5 DEF LockLast
  <2>4. CASE m # op
    <3>1. ~m.acked
      <4> SUFFICES ASSUME m.acked PROVE FALSE
        OBVIOUS
      <4>1. m.hlc < op.hlc /\ op.hlc <= m.hlc
        BY <1>2, <2>1, <2>2 DEF Well
      <4> QED BY <1>2, <1>3, <2>2, <4>1
    <3>2. m \in Of("lock", t.queued)
      BY <1>2, <2>2, <2>4 DEF Of
    <3>3. \A x \in t.queued \cup t.waiting : x.hlc <= m.hlc
      BY <1>5, <2>1
    <3> QED BY <2>1, <3>1, <3>2, <3>3 DEF LockLast
  <2> QED BY <2>3, <2>4
<1>8. CASE \E m \in s.waiting :
             /\ Of("lock", s.waiting) = {m} /\ m.locked
             /\ \A x \in s.queued \cup s.waiting : x.hlc <= m.hlc
             /\ EndsUnlocked(Of("lock", s.seen)) /\ EndsUnlocked(Of("lock", s.queued))
  <2>1. ASSUME EndsUnlocked(Of("lock", s.queued)) PROVE EndsUnlocked(Of("lock", t.queued))
    <3> SUFFICES ASSUME NEW y \in Of("lock", t.queued), y.locked
                 PROVE  \E x \in Of("lock", t.queued) : x.id = y.id /\ y.hlc < x.hlc
      BY DEF EndsUnlocked, Named
    <3>1. \E z \in Of("lock", s.queued) : z.locked /\ z.hlc = y.hlc /\ z.id = y.id /\ (z = op <=> y \in done)
      <4>1. CASE y \in done
        BY <1>2, <1>4, <4>1 DEF Of
      <4>2. CASE y \notin done
        BY <1>2, <4>2 DEF Of
      <4> QED BY <4>1, <4>2
    <3>2. PICK z \in Of("lock", s.queued) : z.locked /\ z.hlc = y.hlc /\ z.id = y.id /\ (z = op <=> y \in done)
      BY <3>1
    <3>3. PICK x \in Named(z.id, Of("lock", s.queued)) : z.hlc < x.hlc
      BY <2>1, <3>2 DEF EndsUnlocked
    <3>4. x \in s.queued /\ x.verb = "lock" /\ x.id = y.id /\ y.hlc < x.hlc
      BY <3>2, <3>3 DEF Of, Named
    <3>5. CASE x # op
      <4>1. x \in Of("lock", t.queued)
        BY <1>2, <3>4, <3>5 DEF Of
      <4> QED BY <3>4, <4>1
    <3>6. CASE x = op
      <4>1. z # op
        BY <1>2, <1>3, <3>2, <3>4, <3>6
      <4>2. y \in s.queued
        BY <1>2, <3>2, <4>1 DEF Of
      <4>3. done # {}
        <5> SUFFICES ASSUME done = {} PROVE FALSE
          OBVIOUS
        <5>1. ~y.acked
          BY <1>4, <3>4, <3>6, <4>2
        <5>2. op.hlc <= y.hlc
          BY <1>2, <4>2, <5>1
        <5> QED BY <1>2, <1>3, <3>4, <3>6, <4>2, <5>2
      <4>4. PICK e \in done : TRUE
        BY <4>3
      <4>5. e \in Of("lock", t.queued) /\ e.id = y.id /\ y.hlc < e.hlc
        BY <1>2, <1>4, <3>4, <3>6, <4>4 DEF Of
      <4> QED BY <4>5
    <3> QED BY <3>5, <3>6
  <2> QED BY <1>5, <1>8, <2>1 DEF LockLast
<1> QED BY <1>6, <1>7, <1>8 DEF StaysLocked, LockLast

\* An answer keeps the note locked.
LEMMA AnswerKeeps ==
  ASSUME NEW s, NEW t, NEW id, NEW op, NEW done, Well(s), StaysLocked(id, s), Answered(s, t, op, done),
         t.copy = s.copy, t.row = s.row, t.seen = s.seen, t.waiting = s.waiting, t.intent = s.intent
  PROVE  StaysLocked(id, t)
<1>1. OneNote(id, s) /\ LockStays(s)
  BY DEF StaysLocked
<1>2. /\ op \in s.queued
      /\ t.queued = (s.queued \ {op}) \cup done /\ AtMostOne(done)
      /\ \A e \in done : e.verb = op.verb /\ e.locked = op.locked
  BY DEF Answered
<1>3. /\ op.verb \in {"write", "lock"} /\ op.id = id /\ t.gone = s.gone
      /\ \A e \in done : e.id = id
      /\ \A r \in t.own : r.id = id
      /\ op.verb = "write" => t.own # {} /\ done # {}
      /\ op.verb = "lock" => (t.own = {} <=> s.own = {}) /\ (done = {} => s.own = {})
      /\ op.verb = "lock" /\ s.own # {} => (Locked(t.own) <=> op.locked)
      /\ op.verb = "write" /\ Locked(s.own) => Locked(t.own)
      /\ s.own = {} => s.copy = {}
  BY <1>1, AnswerFinds
<1>4. OneNote(id, t)
  <2>1. \A x \in t.queued \cup t.waiting \cup t.seen : x.id = id /\ x.verb # "delete"
    BY <1>1, <1>2, <1>3 DEF OneNote
  <2>2. t.own # {} \/ \E x \in t.queued \cup t.waiting : x.verb = "write" /\ ~x.acked
    BY <1>1, <1>2, <1>3 DEF OneNote
  <2>3. Of("write", s.queued) # {} => Of("write", t.queued) # {}
    BY <1>2, <1>3 DEF Of
  <2> QED BY <1>1, <1>3, <2>1, <2>2, <2>3 DEF OneNote
<1>5. LockStays(t)
  <2>1. Shown(t) = Shown(s)
    BY DEF Shown
  <2>2. (\E x \in Of("lock", t.queued) : ~x.locked) => \E x \in Of("lock", s.queued) : ~x.locked
    BY <1>2 DEF Of
  <2>3. ASSUME Of("lock", t.queued) = {}, Locked(t.copy) PROVE Locked(t.own)
    <3>1. s.own # {}
      BY <1>3, <2>3 DEF Locked
    <3>2. op.verb = "write"
      BY <1>2, <1>3, <2>3, <3>1 DEF Of
    <3>3. Of("lock", s.queued) = {}
      BY <1>2, <2>3, <3>2 DEF Of
    <3> QED BY <1>1, <1>3, <2>3, <3>2, <3>3 DEF LockStays
  <2>4. ASSUME Of("lock", t.seen) = {}, Locked(t.copy) PROVE Locked(t.own)
    <3>1. s.own # {} /\ Locked(s.own)
      BY <1>1, <1>3, <2>4 DEF Locked, LockStays
    <3>2. op.verb = "lock" => op.locked
      BY <1>1, <1>2, <2>4 DEF LockStays, Of
    <3> QED BY <1>3, <3>1, <3>2
  <2> QED BY <1>1, <2>1, <2>2, <2>3, <2>4 DEF LockStays
<1>6. LockLast(t)
  BY AnswerKeepsLock
<1> QED BY <1>4, <1>5, <1>6 DEF StaysLocked

\* The panel shows the day d, has read it, and its note stays locked.
Guarded(d) ==
  /\ panel.open /\ panel.day = d /\ panel.rows # {} /\ panel.ops # {}
  /\ \E id \in Nat : StaysLocked(id, At(d))

\* What is not served yet of the day d ends with a lock.
EndsWithLock(d) == Pending(d) # {} => Latest(Pending(d)).verb = "lock"

\* Every day this panel has locked and not opened since is guarded while the panel is on
\* it; and once it is left, nothing is sent of it after the lock.
LockedInv == \A d \in guarded : IF panel.open /\ panel.day = d THEN Guarded(d) ELSE EndsWithLock(d)

\* A panel that has read its row shows that row under the effects it has read.
LEMMA OfThePanel ==
  ASSUME NEW p, PanelFine(p), p.rows # {}
  PROVE  /\ Only(p.rows) = UNION p.rows /\ Single(UNION p.rows)
         /\ \A s : s.row = UNION p.rows /\ s.seen = On(p.day, UNION p.ops) => (SyncedLocked(p) = Shown(s))
<1>1. PICK row \in p.rows : p.rows = {row}
  BY DEF PanelFine, AtMostOne
<1>2. Only(p.rows) = row /\ UNION p.rows = row
  BY <1>1, OnlyOne DEF AtMostOne
<1>3. Single(row)
  BY DEF PanelFine
<1>4. ASSUME NEW s, s.row = UNION p.rows, s.seen = On(p.day, UNION p.ops)
      PROVE  SyncedLocked(p) = Shown(s)
  <2>1. Entry(p) = Merged(s.row, s.seen)
    BY <1>1, <1>2, <1>4 DEF Entry
  <2> QED BY <2>1 DEF SyncedLocked, Shown
<1> QED BY <1>2, <1>3, <1>4

\* The fields of At.
LEMMA AtIs ==
  ASSUME NEW d
  PROVE  /\ At(d).own = server[d] /\ At(d).gone = buried[d] /\ At(d).copy = replica[d]
         /\ At(d).row = UNION panel.rows /\ At(d).seen = On(d, Read) /\ At(d).intent = panel.intent
         /\ At(d).queued = On(d, overlay) /\ At(d).waiting = On(d, dispatched)
  BY DEF At

\* What there is of a day is what the queue and the notes are.
LEMMA AtWell ==
  ASSUME Sound, NEW d \in Days, panel.rows # {}
  PROVE  Well(At(d))
<1>1. Single(server[d]) /\ Single(replica[d]) /\ Ids(replica[d]) \subseteq Ids(server[d]) \cup buried[d]
  BY DEF Sound, NotesInv
<1>2. Single(UNION panel.rows)
  BY OfThePanel DEF Sound, PanelInv
<1>3. Orderly(On(d, Read))
  <2>1. panel.ops = {} \/ \E ops \in panel.ops : panel.ops = {ops}
    BY DEF Sound, PanelInv, PanelFine, AtMostOne
  <2>2. Orderly(Read)
    <3>1. Orderly({})
      BY DEF Orderly
    <3>2. Read = {} \/ Read \in panel.ops
      BY <2>1 DEF Read
    <3> QED BY <3>1, <3>2 DEF Sound, PanelInv, PanelFine
  <2> QED BY <2>2, OrderlyPart DEF On
<1>4. On(d, overlay) \subseteq overlay /\ On(d, dispatched) \subseteq dispatched /\ \A op \in On(d, overlay) : op.day = d
  BY DEF On
<1>5. Orderly(On(d, overlay) \cup On(d, dispatched))
  <2>1. On(d, overlay) \cup On(d, dispatched) \subseteq overlay \cup dispatched
    BY <1>4
  <2> QED BY <2>1, OrderlyPart DEF Sound, QueueInv
<1>6. /\ \A x \in On(d, overlay), y \in On(d, dispatched) : x.hlc < y.hlc
      /\ \A y \in On(d, dispatched) : ~y.acked
      /\ \A x, y \in On(d, overlay) : x.acked /\ ~y.acked => x.hlc < y.hlc
  BY <1>4 DEF Sound, QueueInv
<1>7. \A x \in On(d, overlay) : x.acked => x.id \in Ids(server[d]) \cup buried[d]
  BY <1>4 DEF Sound, NotesInv
<1> QED BY <1>1, <1>2, <1>3, <1>5, <1>6, <1>7, AtIs DEF Well

\* A guarded note is shown locked.
LEMMA GuardedShows ==
  ASSUME Sound, NEW d, Guarded(d)
  PROVE  Preview(panel) /\ d \in Days /\ ~(Preview(panel) = FALSE)
<1>1. panel.open /\ panel.day = d /\ panel.rows # {}
  BY DEF Guarded
<1>2. PanelFine(panel) /\ d \in Days
  BY <1>1 DEF Sound, PanelInv
<1>3. panel.intent = {TRUE} \/ (panel.intent = {} /\ Shown(At(d)))
  BY AtIs DEF Guarded, StaysLocked, LockStays
<1>4. SyncedLocked(panel) = Shown(At(d))
  <2>1. At(d).row = UNION panel.rows /\ At(d).seen = On(panel.day, UNION panel.ops)
    BY <1>1, AtIs DEF Read
  <2> QED BY <1>1, <1>2, <2>1, OfThePanel
<1> QED BY <1>1, <1>2, <1>3, <1>4, LockShown DEF Sound

\* Nothing has touched the day or the panel's reading of it.
LEMMA GuardedStill ==
  ASSUME NEW d, Guarded(d),
         panel'.open = panel.open, panel'.day = panel.day, panel'.rows = panel.rows,
         panel'.ops = panel.ops, panel'.intent = panel.intent,
         server'[d] = server[d], buried'[d] = buried[d], replica'[d] = replica[d],
         On(d, overlay') = On(d, overlay), On(d, dispatched') = On(d, dispatched)
  PROVE  Guarded(d)'
<1>1. Read' = Read
  BY DEF Read
<1>2. At(d)' = At(d)
  BY <1>1 DEF At
<1> QED BY <1>2 DEF Guarded

\* A reading.
LEMMA ReadGuards ==
  ASSUME Sound, NEW d, Guarded(d), ReadRows \/ ReadOverlay
  PROVE  Guarded(d)'
<1>1. panel.open /\ panel.day = d /\ panel.rows # {} /\ panel.ops # {} /\ d \in Days
  BY GuardedShows DEF Guarded
<1>2. UNCHANGED <<account, queue>>
  BY DEF ReadRows, ReadOverlay
<1>3. UNCHANGED <<server, buried, replica, overlay, dispatched>> /\ Days' = Days
  BY <1>2 DEF account, queue, Days
<1>4. PICK p : /\ PanelFine(p) /\ Render(p) /\ p.rows = {replica[d]} /\ (p.ops = panel.ops \/ p.ops = {overlay})
               /\ p.open = panel.open /\ p.day = panel.day /\ p.intent = panel.intent
  <2>1. CASE ReadRows
    <3>1. PICK p : /\ PanelFine(p) /\ Render(p) /\ p.rows = {replica[panel.day]}
                   /\ DOMAIN p = DOMAIN panel /\ Fields(p, panel, {"rows"})
      BY <2>1, ReadRowsIs
    <3>2. p.ops = panel.ops /\ p.open = panel.open /\ p.day = panel.day /\ p.intent = panel.intent
      BY <3>1 DEF Fields, Closed
    <3> QED BY <1>1, <3>1, <3>2
  <2>2. CASE ReadOverlay
    <3>1. PICK p : /\ PanelFine(p) /\ Render(p) /\ p.ops = {overlay}
                   /\ p.rows = (IF panel.rows = {} THEN {} ELSE {replica[panel.day]})
                   /\ DOMAIN p = DOMAIN panel /\ Fields(p, panel, {"rows", "ops"})
      BY <2>2, ReadOverlayIs
    <3>2. p.open = panel.open /\ p.day = panel.day /\ p.intent = panel.intent
      BY <3>1 DEF Fields, Closed
    <3> QED BY <1>1, <3>1, <3>2
  <2> QED BY <2>1, <2>2
<1>5. /\ panel'.open = p.open /\ panel'.day = p.day /\ panel'.rows = p.rows /\ panel'.ops = p.ops
      /\ panel'.intent = IF p.intent = {SyncedLocked(p)} THEN {} ELSE p.intent
  BY <1>1, <1>3, <1>4, RenderIs DEF Sound
<1> DEFINE s == At(d)
           t == At(d)'
<1>6. /\ t.own = s.own /\ t.gone = s.gone /\ t.copy = s.copy /\ t.queued = s.queued /\ t.waiting = s.waiting
      /\ t.row = UNION p.rows /\ t.seen = On(d, UNION p.ops) /\ t.intent = panel'.intent
      /\ s.row = UNION panel.rows /\ s.seen = On(d, Read) /\ s.intent = panel.intent
      /\ s.copy = replica[d] /\ s.queued = On(d, overlay)
  <2>1. Read' = UNION p.ops
    BY <1>5 DEF Read
  <2> QED BY <1>3, <1>5, <2>1 DEF At
<1>7. Well(s)
  BY <1>1, AtWell
<1> HIDE DEF s, t
<1>8. t.row = s.copy /\ (t.seen = s.seen \/ t.seen = s.queued)
  <2>1. UNION {replica[d]} = replica[d] /\ UNION {overlay} = overlay
    OBVIOUS
  <2> QED BY <1>4, <1>6, <2>1 DEF Read
<1>9. SyncedLocked(p) = Shown(t)
  <2>1. p.rows # {} /\ p.day = d
    BY <1>1, <1>4
  <2> QED BY <1>4, <1>6, <2>1, OfThePanel
<1>10. t.intent = IF s.intent = {Shown(t)} THEN {} ELSE s.intent
  BY <1>4, <1>5, <1>6, <1>9
<1>11. PICK id \in Nat : StaysLocked(id, s)
  BY DEF Guarded, s
<1>12. StaysLocked(id, t)
  BY <1>6, <1>7, <1>8, <1>10, <1>11, ReadingKeeps
<1>13. panel'.open /\ panel'.day = d /\ panel'.rows # {} /\ panel'.ops # {}
  BY <1>1, <1>4, <1>5
<1> QED BY <1>12, <1>13 DEF Guarded, t

\* The day a lock is asked for that has one note, all of it read, is guarded from then on.
LEMMA LockBegins ==
  ASSUME NEW s, NEW t, NEW id, NEW m, Well(s), s.row = s.copy, s.seen = s.queued,
         Of("lock", s.waiting) = {}, ~Shown(s),
         Ids(s.own) \cup Ids(s.queued \cup s.waiting) \subseteq {id}, id \notin s.gone,
         Of("delete", s.queued \cup s.waiting) = {},
         s.own # {} \/ \E op \in s.queued \cup s.waiting : op.verb = "write" /\ ~op.acked,
         Ids(Merged(s.row, s.seen)) = {id},
         t.own = s.own, t.gone = s.gone, t.copy = s.copy, t.row = s.row, t.seen = s.seen,
         t.queued = s.queued, t.intent = {TRUE}, s.waiting \subseteq t.waiting,
         \A f \in t.waiting \ s.waiting : f.id = id /\ (f.verb = "write" \/ f = m),
         m \in t.waiting, m.verb = "lock", m.locked, \A x \in t.queued \cup t.waiting : x.hlc <= m.hlc
  PROVE  StaysLocked(id, t)
<1> DEFINE locks == Of("lock", s.seen)
<1>1. /\ \A r \in s.own : r.id = id
      /\ \A op \in s.queued \cup s.waiting : op.id = id /\ op.verb # "delete"
  BY DEF Ids, Of
<1>2. Orderly(s.seen) /\ Orderly(locks) /\ Of("delete", s.seen) = {} /\ locks \subseteq s.seen
  <2>1. locks \subseteq s.seen
    BY DEF Of
  <2> HIDE DEF locks
  <2> QED BY <1>1, <2>1, OrderlyPart DEF Well, Of
<1>3. /\ s.row # {} \/ Of("write", s.seen) # {}
      /\ s.row # {} => \A r \in s.row : r.id = id
  <2>1. PICK e \in Merged(s.row, s.seen) : e.id = id
    BY DEF Ids
  <2>2. s.row # {} \/ Of("write", s.seen) # {}
    BY <1>2, <2>1, MergedIs DEF Well
  <2>3. s.row # {} => id \in Ids(s.row)
    <3> SUFFICES ASSUME s.row # {} PROVE id \in Ids(s.row)
      OBVIOUS
    <3>1. Ids(Merged(s.row, s.seen)) \subseteq Ids(s.row)
      BY <1>2, MergedIs DEF Well
    <3> QED BY <3>1
  <2> QED BY <2>2, <2>3 DEF Well, Single, AtMostOne, Ids
<1>4. /\ locks = {} => ~Locked(s.row)
      /\ locks # {} => ~Latest(locks).locked
  <2>1. \A op \in s.seen : op.id = id /\ op.verb # "delete"
    BY <1>1
  <2>2. Single(s.row)
    BY DEF Well
  <2>3. /\ locks = {} => (Shown(s) <=> Locked(s.row))
        /\ locks # {} => (Shown(s) <=> Latest(locks).locked)
    BY <1>2, <1>3, <2>1, <2>2, ShownIs
  <2> QED BY <2>3
<1>5. EndsUnlocked(locks)
  <2> SUFFICES ASSUME NEW op \in locks, op.locked
               PROVE  \E x \in locks : x.id = op.id /\ op.hlc < x.hlc
    BY DEF EndsUnlocked, Named
  <2>1. Latest(locks) \in locks /\ \A x \in locks : x.hlc <= Latest(locks).hlc
    <3> HIDE DEF locks
    <3> QED BY <1>2, LatestIs
  <2>2. Latest(locks) # op /\ Latest(locks).id = id /\ op.id = id
    BY <1>1, <1>2, <1>4, <2>1
  <2>3. op.hlc # Latest(locks).hlc /\ op.hlc \in Nat /\ Latest(locks).hlc \in Nat
    <3> HIDE DEF locks
    <3> QED BY <1>2, <2>1, <2>2 DEF Orderly
  <2>4. op.hlc < Latest(locks).hlc
    <3> HIDE DEF locks
    <3> QED BY <2>1, <2>3
  <2> QED BY <2>1, <2>2, <2>4
<1>6. Of("lock", t.waiting) = {m}
  BY DEF Of
<1>7. OneNote(id, t)
  <2>1. \A op \in t.queued \cup t.waiting \cup t.seen : op.id = id /\ op.verb # "delete"
    BY <1>1
  <2>2. t.own # {} \/ \E op \in t.queued \cup t.waiting : op.verb = "write" /\ ~op.acked
    OBVIOUS
  <2> QED BY <1>1, <1>3, <2>1, <2>2 DEF OneNote
<1>8. LockLast(t)
  BY <1>5, <1>6 DEF LockLast
<1>9. LockStays(t)
  BY <1>4 DEF LockStays
<1> QED BY <1>7, <1>8, <1>9 DEF StaysLocked

\* A lock goes out last, after the text that was in the debounce, both for the note shown.
LEMMA LockGoesOut ==
  ASSUME Sound, ToggleLock, ~Preview(panel)
  PROVE  \E id \in Nat, m \in News :
           /\ ExistingId(panel) = {id} /\ m.verb = "lock" /\ m.locked /\ m.hlc = sent'
           /\ dispatched \subseteq dispatched' /\ sent' \in Nat /\ sent <= sent'
           /\ \A f \in News : /\ f.day = panel.day /\ f.id = id /\ f.hlc <= sent'
                              /\ f.verb = "write" \/ f = m
<1> DEFINE saves == Flushed(panel)
           lock == Command("lock", Only(ExistingId(panel)), Blank, ~Preview(panel))
           cmds == saves \o <<lock>>
<1>1. panel.open /\ ExistingId(panel) # {} /\ panel.draft # Blank /\ Dispatch(cmds)
  BY DEF ToggleLock, HasNote
<1>2. ExistingId(panel) \subseteq Nat /\ AtMostOne(ExistingId(panel))
  BY <1>1, EntryIs DEF Sound, PanelInv
<1>3. PICK id \in Nat : ExistingId(panel) = {id} /\ Only(ExistingId(panel)) = id
  <2>1. PICK id \in ExistingId(panel) : TRUE
    BY <1>1
  <2> QED BY <1>2, <2>1, OnlyOne
<1>4. lock \in Orders /\ lock.verb = "lock" /\ lock.id = id /\ lock.locked
  BY <1>3, JournalPanelAssumption DEF Orders, Command
<1>5. Saves(saves) /\ \A c \in Range(saves) : c.verb = "write" /\ c.id = id
  <2>1. Saves(saves)
    BY <1>1, FlushedSaves
  <2>2. saves = << >> \/ saves = <<Command("write", id, panel.draft, FALSE)>>
    BY <1>1, <1>3 DEF Flushed, Write
  <2>3. \A c \in Range(saves) : c.verb = "write" /\ c.id = id
    BY <2>2 DEF Range, Command
  <2> QED BY <2>1, <2>3
<1> HIDE DEF saves, lock
<1>6. saves \in Seq(Orders) /\ <<lock>> \in Seq(Orders) /\ Len(<<lock>>) = 1
  BY <1>4, <1>5 DEF Saves
<1>7. cmds \in Seq(Orders) /\ Len(cmds) = Len(saves) + 1 /\ Len(saves) \in Nat
  BY <1>6, ConcatProperties, LenProperties
<1>8. \A i \in DOMAIN cmds : (i # Len(cmds) => cmds[i] \in Range(saves)) /\ (i = Len(cmds) => cmds[i] = lock)
  <2>1. cmds \in Seq(Orders) /\ DOMAIN cmds = 1 .. Len(cmds)
    BY <1>7, LenProperties
  <2>2. DOMAIN saves = 1 .. Len(saves)
    BY <1>6, LenProperties
  <2>3. ASSUME NEW i \in DOMAIN cmds, i # Len(cmds) PROVE cmds[i] \in Range(saves)
    <3>1. i \in 1 .. Len(saves)
      BY <1>7, <2>1, <2>3
    <3>2. cmds[i] = saves[i]
      BY <1>6, <3>1
    <3> QED BY <2>2, <3>1, <3>2 DEF Range
  <2>4. cmds[Len(cmds)] = lock
    BY <1>6, <1>7
  <2> QED BY <2>3, <2>4
<1>9. Len(cmds) \in DOMAIN cmds
  <2>1. DOMAIN cmds = 1 .. Len(cmds)
    BY <1>7, LenProperties
  <2> QED BY <1>7, <2>1
<1> HIDE DEF cmds
<1>10. /\ Dispatched(cmds)
       /\ \A i \in DOMAIN cmds : \E f \in News : Sent(cmds[i], f) /\ (i = Len(cmds) => f.hlc = sent')
       /\ \A f \in News : \E i \in DOMAIN cmds : Sent(cmds[i], f) /\ f.hlc = sent + i
  BY <1>1, <1>7, DispatchIs DEF Sound
<1>11. PICK m \in News : Sent(lock, m) /\ m.hlc = sent'
  BY <1>8, <1>9, <1>10
<1>12. m.verb = "lock" /\ m.locked
  BY <1>4, <1>11 DEF Sent
<1>13. sent' = sent + Len(cmds) /\ sent \in Nat
  BY <1>1 DEF Dispatch, Sound, QueueInv
<1>14. ASSUME NEW f \in News
       PROVE  f.day = panel.day /\ f.id = id /\ f.hlc <= sent' /\ (f.verb = "write" \/ f = m)
  <2>1. PICK i \in DOMAIN cmds : Sent(cmds[i], f) /\ f.hlc = sent + i
    BY <1>10
  <2>2. f.day = panel.day /\ f.id = cmds[i].id /\ f.verb = cmds[i].verb
    BY <2>1 DEF Sent
  <2>3. f.hlc <= sent'
    BY <1>10 DEF Dispatched
  <2>4. CASE i # Len(cmds)
    BY <1>5, <1>8, <2>2, <2>3, <2>4
  <2>5. CASE i = Len(cmds)
    <3>1. f.id = id
      BY <1>4, <1>8, <2>2, <2>5
    <3>2. f.hlc = m.hlc
      BY <1>11, <1>13, <2>1, <2>5
    <3>3. f = m
      BY <1>10, <1>11, <3>2 DEF Dispatched
    <3> QED BY <2>2, <2>3, <3>1, <3>3
  <2> QED BY <2>4, <2>5
<1>15. dispatched \subseteq dispatched' /\ sent' \in Nat /\ sent <= sent'
  BY <1>10 DEF Dispatched
<1> QED BY <1>3, <1>11, <1>12, <1>14, <1>15

\* A lock asked for guards its day from then on.
LEMMA ToggleGuards ==
  ASSUME Sound, ToggleLock, NEW d, ~Preview(panel), CaughtUp, OnlyNote(panel.day), d = panel.day
  PROVE  Guarded(d)'
<1>1. panel.open /\ d \in Days /\ PanelFine(panel)
  BY DEF ToggleLock, Sound, PanelInv
<1>2. UNCHANGED <<server, buried, replica, overlay>> /\ Days' = Days
  BY DEF ToggleLock, account, Days
<1>3. /\ panel.rows = {replica[d]} /\ panel.ops = {overlay} /\ panel.intent = {}
      /\ Locks(d, dispatched) = {}
  BY DEF CaughtUp, Locks
<1>4. PICK p : /\ PanelFine(p) /\ Render(p) /\ p.intent = {TRUE}
               /\ p.open = panel.open /\ p.day = panel.day /\ p.rows = panel.rows /\ p.ops = panel.ops
  <2>1. PICK p : /\ PanelFine(p) /\ Render(p) /\ p.intent = {~Preview(panel)}
                 /\ p.timer = (IF ~Preview(panel) THEN "none" ELSE panel.timer)
                 /\ DOMAIN p = DOMAIN panel /\ Fields(p, panel, {"timer", "busy", "intent"})
    BY ToggleIs
  <2>2. p.open = panel.open /\ p.day = panel.day /\ p.rows = panel.rows /\ p.ops = panel.ops
    BY <2>1 DEF Fields, Closed
  <2> QED BY <2>1, <2>2
<1> DEFINE s == At(d)
           t == At(d)'
<1>5. /\ s.own = server[d] /\ s.gone = buried[d] /\ s.copy = replica[d] /\ s.row = replica[d]
      /\ s.seen = On(d, overlay) /\ s.queued = On(d, overlay) /\ s.waiting = On(d, dispatched)
      /\ s.row = UNION panel.rows /\ s.seen = On(panel.day, UNION panel.ops)
  BY <1>3 DEF At, Read
<1>6. Well(s)
  BY <1>1, <1>3, AtWell
<1>7. ~Shown(s)
  <2>1. SyncedLocked(panel) = Shown(s)
    <3> HIDE DEF s
    <3> QED BY <1>1, <1>3, <1>5, OfThePanel
  <2>2. ~SyncedLocked(panel)
    BY <1>1, <1>3, LockShown DEF Sound
  <2> QED BY <2>1, <2>2
<1>8. /\ panel'.open = p.open /\ panel'.day = p.day /\ panel'.rows = p.rows /\ panel'.ops = p.ops
      /\ panel'.intent = {TRUE}
  <2>1. SyncedLocked(p) = Shown(s)
    <3>1. s.row = UNION p.rows /\ s.seen = On(p.day, UNION p.ops) /\ p.rows # {}
      BY <1>3, <1>4, <1>5
    <3> HIDE DEF s
    <3> QED BY <1>4, <3>1, OfThePanel
  <2>2. SyncedLocked(p) = FALSE
    BY <1>7, <2>1 DEF Shown
  <2>3. /\ panel'.open = p.open /\ panel'.day = p.day /\ panel'.rows = p.rows /\ panel'.ops = p.ops
        /\ panel'.intent = IF p.intent = {SyncedLocked(p)} THEN {} ELSE p.intent
    BY <1>1, <1>2, <1>4, RenderIs DEF Sound
  <2> QED BY <1>4, <2>2, <2>3
<1>9. PICK id \in Nat, m \in News :
           /\ ExistingId(panel) = {id} /\ m.verb = "lock" /\ m.locked /\ m.hlc = sent'
           /\ dispatched \subseteq dispatched' /\ sent' \in Nat /\ sent <= sent'
           /\ \A f \in News : /\ f.day = panel.day /\ f.id = id /\ f.hlc <= sent'
                              /\ f.verb = "write" \/ f = m
  BY LockGoesOut
<1>10. /\ t.own = s.own /\ t.gone = s.gone /\ t.copy = s.copy /\ t.row = s.row /\ t.seen = s.seen
       /\ t.queued = s.queued /\ t.intent = {TRUE} /\ t.waiting = On(d, dispatched')
  <2>1. Read' = Read
    BY <1>4, <1>8 DEF Read
  <2> QED BY <1>2, <1>4, <1>8, <2>1 DEF At
<1> HIDE DEF s, t
<1>11. t.waiting = s.waiting \cup News
  BY <1>5, <1>9, <1>10 DEF On, News
<1>12. \A x \in t.queued \cup t.waiting : x.hlc <= m.hlc
  <2>1. \A x \in overlay \cup dispatched : x.hlc <= sent /\ x.hlc \in Nat
    BY DEF Sound, QueueInv, Orderly
  <2>2. \A x \in s.queued \cup s.waiting : x \in overlay \cup dispatched
    BY <1>5 DEF On
  <2>3. sent \in Nat
    BY DEF Sound, QueueInv
  <2> QED BY <1>9, <1>10, <1>11, <2>1, <2>2, <2>3
<1>13. /\ Ids(s.own) \cup Ids(s.queued \cup s.waiting) \subseteq {id} /\ id \notin s.gone
       /\ Of("delete", s.queued \cup s.waiting) = {}
       /\ s.own # {} \/ \E op \in s.queued \cup s.waiting : op.verb = "write" /\ ~op.acked
  <2>1. On(d, overlay \cup dispatched) = s.queued \cup s.waiting
    BY <1>5 DEF On
  <2>2. Of("write", Pending(d)) # {} => \E op \in s.queued \cup s.waiting : op.verb = "write" /\ ~op.acked
    BY <2>1 DEF Pending, Of
  <2> QED BY <1>5, <1>9, <2>1, <2>2 DEF OnlyNote
<1>14. Ids(Merged(s.row, s.seen)) = {id}
  <2>1. Entry(panel) = Merged(s.row, s.seen)
    <3>1. Only(panel.rows) = UNION panel.rows /\ panel.rows # {}
      BY <1>1, <1>3, OfThePanel
    <3> QED BY <1>5, <3>1 DEF Entry
  <2> QED BY <1>9, <2>1 DEF ExistingId, Ids
<1>15. Of("lock", s.waiting) = {} /\ s.row = s.copy /\ s.seen = s.queued
  BY <1>3, <1>5 DEF Locks
<1>16. StaysLocked(id, t)
  <2>1. \A f \in t.waiting \ s.waiting : f.id = id /\ (f.verb = "write" \/ f = m)
    BY <1>9, <1>11
  <2>2. m \in t.waiting /\ s.waiting \subseteq t.waiting
    BY <1>11
  <2>3. m.verb = "lock" /\ m.locked
    BY <1>9
  <2> QED BY <1>6, <1>7, <1>10, <1>12, <1>13, <1>14, <1>15, <2>1, <2>2, <2>3, LockBegins
<1>17. panel'.open /\ panel'.day = d /\ panel'.rows # {} /\ panel'.ops # {}
  BY <1>1, <1>3, <1>4, <1>8
<1> QED BY <1>16, <1>17 DEF Guarded, t

\* A command that is stored, or that is lost on another day.
LEMMA EnqueueGuards ==
  ASSUME Sound, NEW d \in guarded', d \in guarded => Guarded(d), Enqueue \/ EnqueueFails
  PROVE  Guarded(d)'
<1> DEFINE c == Oldest(dispatched)
<1>1. dispatched # {} /\ dispatched' = dispatched \ {c} /\ UNCHANGED <<account, replica>>
  BY DEF Enqueue, EnqueueFails
<1>2. c \in dispatched
  <2>1. Orderly(dispatched)
    BY OrderlyPart DEF Sound, QueueInv
  <2> QED BY <1>1, <2>1, OldestIs
<1>3. UNCHANGED <<server, buried, replica>>
  BY <1>1 DEF account
<1>4. CASE Enqueue
  <2>1. overlay' = overlay \cup {c} /\ panel' = panel /\ guarded' = guarded
    BY <1>4 DEF Enqueue, history
  <2>2. Guarded(d)
    BY <2>1
  <2>3. panel.rows # {} /\ d \in Days
    BY <2>2, GuardedShows DEF Guarded
  <2> HIDE DEF c
  <2>4. CASE c.day = d
    <3> DEFINE s == At(d)
               t == At(d)'
    <3>1. Well(s)
      BY <2>3, AtWell
    <3>2. PICK id \in Nat : StaysLocked(id, s)
      BY <2>2 DEF Guarded
    <3>3. /\ t.own = s.own /\ t.gone = s.gone /\ t.copy = s.copy /\ t.row = s.row /\ t.seen = s.seen
          /\ t.intent = s.intent
      BY <1>3, <2>1 DEF At, Read
    <3>4. c \in s.waiting /\ t.queued = s.queued \cup {c} /\ t.waiting = s.waiting \ {c}
      BY <1>1, <1>2, <2>1, <2>4 DEF At, On
    <3> HIDE DEF s, t
    <3>5. StaysLocked(id, t)
      BY <3>1, <3>2, <3>3, <3>4, StoringKeeps
    <3> QED BY <2>1, <2>2, <3>5 DEF Guarded, t
  <2>5. CASE c.day # d
    <3>1. On(d, overlay') = On(d, overlay) /\ On(d, dispatched') = On(d, dispatched)
      BY <1>1, <2>1, <2>5 DEF On
    <3> QED BY <1>3, <2>1, <2>2, <3>1, GuardedStill
  <2> QED BY <2>4, <2>5
<1>5. CASE EnqueueFails
  <2>1. /\ overlay' = overlay /\ guarded' = guarded \ {c.day}
        /\ IF c.verb = "lock" /\ panel.open /\ c.visit = panel.visit
           THEN Render([panel EXCEPT !.intent = {}]) ELSE UNCHANGED <<panel, cache, lockCache>>
    BY <1>5 DEF EnqueueFails
  <2> HIDE DEF c
  <2>2. Guarded(d) /\ c.day # d
    BY <2>1
  <2>3. panel.open /\ panel.day = d
    BY <2>2 DEF Guarded
  <2>4. c.visit # panel.visit
    BY <1>2, <2>2, <2>3 DEF Sound, PanelInv
  <2>5. panel' = panel
    BY <2>1, <2>4
  <2>6. On(d, dispatched') = On(d, dispatched)
    BY <1>1, <2>2 DEF On
  <2> QED BY <1>3, <2>1, <2>2, <2>5, <2>6, GuardedStill
<1> QED BY <1>4, <1>5

\* A download, of the guarded day or of others.
LEMMA DownloadGuards ==
  ASSUME Sound, NEW d, Guarded(d), Download
  PROVE  Guarded(d)'
<1>1. /\ replica' = [e \in Days |-> IF Live(e) THEN server[e] ELSE replica[e]]
      /\ overlay' = {op \in overlay : ~(op.acked /\ Live(op.day))}
      /\ UNCHANGED <<server, buried, dispatched, panel>>
  BY DEF Download, account
<1>2. panel.rows # {} /\ d \in Days
  BY GuardedShows DEF Guarded
<1>3. CASE ~Live(d)
  <2>1. replica'[d] = replica[d]
    BY <1>1, <1>2, <1>3
  <2>2. On(d, overlay') = On(d, overlay)
    BY <1>1, <1>3 DEF On
  <2> QED BY <1>1, <2>1, <2>2, GuardedStill
<1>4. CASE Live(d)
  <2> DEFINE s == At(d)
             t == At(d)'
  <2>1. Well(s)
    BY <1>2, AtWell
  <2>2. PICK id \in Nat : StaysLocked(id, s)
    BY DEF Guarded
  <2>3. /\ t.own = s.own /\ t.gone = s.gone /\ t.row = s.row /\ t.seen = s.seen /\ t.waiting = s.waiting
        /\ t.intent = s.intent
    BY <1>1 DEF At, Read
  <2>4. t.copy = s.own
    BY <1>1, <1>2, <1>4 DEF At
  <2>5. t.queued = {op \in s.queued : ~op.acked}
    BY <1>1, <1>4 DEF At, On
  <2> HIDE DEF s, t
  <2>6. StaysLocked(id, t)
    BY <2>1, <2>2, <2>3, <2>4, <2>5, DownloadKeeps
  <2> QED BY <1>1, <2>6 DEF Guarded, t
<1> QED BY <1>3, <1>4

\* The answer to a command, of the guarded day or of another.
LEMMA DeliverGuards ==
  ASSUME Sound, NEW d, Guarded(d), Deliver
  PROVE  Guarded(d)'
<1>1. UNCHANGED <<replica, dispatched, panel>>
  BY DEF Deliver
<1>2. PICK op, done : Delivered(op, done)
  BY DeliverIs DEF Sound
<1>3. panel.rows # {} /\ d \in Days
  BY GuardedShows DEF Guarded
<1>4. /\ op \in overlay /\ ~op.acked /\ \A x \in overlay : ~x.acked => op.hlc <= x.hlc
      /\ overlay' = (overlay \ {op}) \cup done /\ AtMostOne(done)
      /\ \A e \in done : Served(op, e)
      /\ \A e \in Days \ {op.day} : server'[e] = server[e] /\ buried'[e] = buried[e]
  BY <1>2 DEF Delivered
<1>5. CASE op.day # d
  <2>1. On(d, overlay') = On(d, overlay)
    BY <1>4, <1>5 DEF On, Served
  <2>2. server'[d] = server[d] /\ buried'[d] = buried[d]
    BY <1>3, <1>4, <1>5
  <2> QED BY <1>1, <2>1, <2>2, GuardedStill
<1>6. CASE op.day = d
  <2> DEFINE s == At(d)
             t == At(d)'
  <2>1. Well(s)
    BY <1>3, AtWell
  <2>2. PICK id \in Nat : StaysLocked(id, s)
    BY DEF Guarded
  <2>3. /\ t.copy = s.copy /\ t.row = s.row /\ t.seen = s.seen /\ t.waiting = s.waiting
        /\ t.intent = s.intent
    BY <1>1 DEF At, Read
  <2>4. /\ s.own = server[d] /\ s.gone = buried[d] /\ t.own = server'[d] /\ t.gone = buried'[d]
        /\ s.queued = On(d, overlay) /\ t.queued = On(d, overlay')
    BY DEF At
  <2> HIDE DEF s, t
  <2>5. op \in s.queued /\ \A x \in s.queued : ~x.acked => op.hlc <= x.hlc
    BY <1>4, <1>6, <2>4 DEF On
  <2>6. t.queued = (s.queued \ {op}) \cup done
    BY <1>4, <1>6, <2>4 DEF On, Served
  <2>7. \A e \in done : /\ e.acked /\ e.verb = op.verb /\ e.locked = op.locked /\ e.hlc = op.hlc
                        /\ op.verb # "write" => e.id = op.id
    BY <1>4 DEF Served
  <2>8. /\ done = {} => op.verb # "write" /\ op.id \notin Ids(s.own) \cup s.gone
        /\ op.verb # "delete" => t.gone = s.gone
    BY <1>2, <1>6, <2>4 DEF Delivered
  <2>9. op.verb = "write" /\ op.id \notin s.gone =>
          \E n \in t.own : /\ t.own = {n} /\ \A e \in done : e.id = n.id
                           /\ s.own = {} => n.id = op.id
                           /\ \A m \in s.own : n.id = m.id /\ n.locked = m.locked
    BY <1>2, <1>6, <2>4 DEF Delivered
  <2>10. op.verb = "lock" =>
           /\ s.own = {} => t.own = {}
           /\ \A m \in s.own : \E n \in t.own :
                /\ t.own = {n} /\ n.id = m.id
                /\ n.locked <=> IF m.id = op.id THEN op.locked ELSE m.locked
    <3> SUFFICES ASSUME op.verb = "lock"
                 PROVE  /\ s.own = {} => t.own = {}
                        /\ \A m \in s.own : \E n \in t.own :
                             /\ t.own = {n} /\ n.id = m.id
                             /\ n.locked <=> IF m.id = op.id THEN op.locked ELSE m.locked
      OBVIOUS
    <3>1. s.own = {} => t.own = {}
      BY <1>2, <1>6, <2>4 DEF Delivered
    <3>2. ASSUME NEW m \in s.own
          PROVE  \E n \in t.own : /\ t.own = {n} /\ n.id = m.id
                                  /\ n.locked <=> IF m.id = op.id THEN op.locked ELSE m.locked
      <4>1. PICK n \in t.own : /\ t.own = {n} /\ n.id = m.id
                               /\ n.locked = IF m.id = op.id THEN op.locked ELSE m.locked
        BY <1>2, <1>6, <2>4 DEF Delivered
      <4>2. n.locked <=> IF m.id = op.id THEN op.locked ELSE m.locked
        BY <4>1
      <4> QED BY <4>1, <4>2
    <3> QED BY <3>1, <3>2
  <2>11. Answered(s, t, op, done)
    BY <1>4, <2>5, <2>6, <2>7, <2>8, <2>9, <2>10 DEF Answered
  <2>12. StaysLocked(id, t)
    BY <2>1, <2>2, <2>3, <2>11, AnswerKeeps
  <2> QED BY <1>1, <2>12 DEF Guarded, t
<1> QED BY <1>5, <1>6

\* A note that is shown locked is not saved.
LEMMA SaveGuards ==
  ASSUME Sound, NEW d, Guarded(d), Fire \/ Blur
  PROVE  Guarded(d)'
<1>1. Preview(panel)
  BY GuardedShows
<1>2. PICK cmds : Saves(cmds) /\ Dispatch(cmds)
  BY SavesIs
<1>3. cmds = << >>
  BY <1>1, <1>2 DEF Saves
<1>4. dispatched' = dispatched
  BY <1>2, <1>3 DEF Dispatch
<1>5. UNCHANGED <<server, buried, replica, overlay>>
  BY DEF Fire, Blur, account
<1>6. DOMAIN panel = DOMAIN Closed
  BY DEF Sound, PanelInv, PanelFine
<1>7. /\ panel'.open = panel.open /\ panel'.day = panel.day /\ panel'.rows = panel.rows
      /\ panel'.ops = panel.ops /\ panel'.intent = panel.intent
  <2>1. CASE Fire
    BY <1>6, <2>1 DEF Fire, Closed
  <2>2. CASE Blur
    BY <1>6, <2>2 DEF Blur, Closed
  <2> QED BY <2>1, <2>2
<1> QED BY <1>4, <1>5, <1>7, GuardedStill

\* What happens to other days, to the subscriptions and to the panel's timers.
LEMMA OtherGuards ==
  ASSUME Sound, StreamsInv, NEW d, Guarded(d),
         \/ UNCHANGED <<account, queue, panel>> \/ LockTimer \/ HintExpires \/ Focus
         \/ \E e \in Days : Evict(e)
         \/ \E e \in Days \ {d} : OtherDevice(e)
  PROVE  Guarded(d)'
<1>1. panel.open /\ panel.day = d /\ d \in Days /\ DOMAIN panel = DOMAIN Closed
  BY GuardedShows DEF Guarded, Sound, PanelInv, PanelFine
<1>2. CASE UNCHANGED <<account, queue, panel>>
  <2>1. UNCHANGED <<server, buried, replica, overlay, dispatched, panel>>
    BY <1>2 DEF account, queue
  <2> QED BY <2>1, GuardedStill
<1>3. CASE LockTimer \/ HintExpires \/ Focus
  <2>1. UNCHANGED <<server, buried, replica, overlay, dispatched>>
    BY <1>3 DEF LockTimer, HintExpires, Focus, account, queue
  <2>2. /\ panel'.open = panel.open /\ panel'.day = panel.day /\ panel'.rows = panel.rows
        /\ panel'.ops = panel.ops /\ panel'.intent = panel.intent
    BY <1>1, <1>3 DEF LockTimer, HintExpires, Focus, Closed
  <2> QED BY <2>1, <2>2, GuardedStill
<1>4. ASSUME NEW e \in Days, Evict(e) PROVE Guarded(d)'
  <2>1. held[e] = {} /\ replica' = [replica EXCEPT ![e] = {}]
        /\ UNCHANGED <<server, buried, overlay, dispatched, panel>>
    BY <1>4 DEF Evict, account
  <2>2. held[d] # {}
    <3>1. Lookers(d) # 0
      BY <1>1 DEF Lookers
    <3> QED BY <1>1, <3>1 DEF StreamsInv, Entered
  <2>3. replica'[d] = replica[d]
    BY <1>1, <2>1, <2>2 DEF Sound, NotesInv
  <2> QED BY <2>1, <2>3, GuardedStill
<1>5. ASSUME NEW e \in Days \ {d}, OtherDevice(e) PROVE Guarded(d)'
  <2>1. UNCHANGED <<replica, overlay, dispatched, panel>>
    BY <1>5 DEF OtherDevice
  <2>2. server'[d] = server[d] /\ buried'[d] = buried[d]
    <3>1. DOMAIN buried = Days /\ d \in DOMAIN server /\ d # e
      BY <1>1, <1>5 DEF Sound, NotesInv, Days
    <3>2. \/ \E row : server' = [server EXCEPT ![e] = row] /\ buried' = buried
          \/ server' = [server EXCEPT ![e] = {}] /\ buried' = [buried EXCEPT ![e] = @ \cup Ids(server[e])]
      BY <1>5 DEF OtherDevice
    <3> QED BY <1>1, <3>1, <3>2
  <2> QED BY <2>1, <2>2, GuardedStill
<1> QED BY <1>2, <1>3, <1>4, <1>5

\* A guarded day's last command is the lock.
LEMMA LockedIsLast ==
  ASSUME Sound, NEW d, Guarded(d)
  PROVE  EndsWithLock(d)
<1> SUFFICES ASSUME Pending(d) # {} PROVE Latest(Pending(d)).verb = "lock"
  BY DEF EndsWithLock
<1> DEFINE here == On(d, overlay) \cup On(d, dispatched)
<1>2. Pending(d) \subseteq here /\ here = On(d, overlay \cup dispatched) /\ Pending(d) = {op \in here : ~op.acked}
  BY DEF Pending, On
<1>3. Orderly(Pending(d))
  <2>1. Pending(d) \subseteq overlay \cup dispatched
    BY DEF Pending, On
  <2> QED BY <2>1, OrderlyPart DEF Sound, QueueInv
<1>4. \E m \in here : m.verb = "lock" /\ \A x \in here : x.hlc <= m.hlc
  <2>1. LockLast(At(d))
    BY DEF Guarded, StaysLocked
  <2>2. At(d).queued = On(d, overlay) /\ At(d).waiting = On(d, dispatched)
    BY AtIs
  <2>3. here # {}
    BY <1>2
  <2> HIDE DEF here
  <2>4. At(d).queued \cup At(d).waiting = here
    BY <2>2 DEF here
  <2>5. CASE \E m \in Of("lock", At(d).queued) : \A x \in At(d).queued \cup At(d).waiting : x.hlc <= m.hlc
    <3>1. PICK m \in Of("lock", At(d).queued) : \A x \in At(d).queued \cup At(d).waiting : x.hlc <= m.hlc
      BY <2>5
    <3>2. m \in here /\ m.verb = "lock"
      BY <2>4 DEF Of
    <3> QED BY <2>4, <3>1, <3>2
  <2>6. CASE \E m \in At(d).waiting : /\ Of("lock", At(d).waiting) = {m}
                                      /\ \A x \in At(d).queued \cup At(d).waiting : x.hlc <= m.hlc
    <3>1. PICK m \in At(d).waiting : /\ Of("lock", At(d).waiting) = {m}
                                     /\ \A x \in At(d).queued \cup At(d).waiting : x.hlc <= m.hlc
      BY <2>6
    <3>2. m \in here /\ m.verb = "lock"
      BY <2>4, <3>1 DEF Of
    <3> QED BY <2>4, <3>1, <3>2
  <2> QED BY <2>1, <2>3, <2>4, <2>5, <2>6 DEF LockLast
<1>5. PICK m \in here : m.verb = "lock" /\ \A x \in here : x.hlc <= m.hlc
  BY <1>4
<1>6. PICK p \in Pending(d) : TRUE
  OBVIOUS
<1>7. ~m.acked
  <2>1. p \in here /\ ~p.acked /\ p.hlc <= m.hlc
    BY <1>2, <1>5
  <2>2. m \in overlay \cup dispatched /\ p \in overlay \cup dispatched /\ m.hlc \in Nat /\ p.hlc \in Nat
    BY <1>2, <2>1 DEF On, Sound, QueueInv, Orderly
  <2> SUFFICES ASSUME m.acked PROVE FALSE
    OBVIOUS
  <2>3. m \in overlay
    BY <2>2 DEF Sound, QueueInv
  <2>4. m.hlc < p.hlc
    BY <2>1, <2>2, <2>3 DEF Sound, QueueInv
  <2> QED BY <2>1, <2>2, <2>4
<1>8. m \in Pending(d) /\ \A x \in Pending(d) : x.hlc <= m.hlc
  BY <1>2, <1>5, <1>7
<1> HIDE DEF here
<1>9. m = Latest(Pending(d))
  BY <1>3, <1>8, LatestIs
<1> QED BY <1>5, <1>9

\* The last of what is not served stays last while only the oldest goes.
LEMMA LockStaysLast ==
  ASSUME Sound, NEW d, EndsWithLock(d), Pending(d)' \subseteq Pending(d),
         Pending(d)' # {} => Latest(Pending(d)) \in Pending(d)'
  PROVE  EndsWithLock(d)'
<1> SUFFICES ASSUME Pending(d)' # {} PROVE Latest(Pending(d)').verb = "lock"
  BY DEF EndsWithLock
<1>1. Orderly(Pending(d)) /\ Pending(d) # {}
  <2>1. Pending(d) \subseteq overlay \cup dispatched
    BY DEF Pending, On
  <2> QED BY <2>1, OrderlyPart DEF Sound, QueueInv
<1>2. Orderly(Pending(d)')
  BY <1>1, OrderlyPart
<1>3. Latest(Pending(d)) \in Pending(d)' /\ \A x \in Pending(d)' : x.hlc <= Latest(Pending(d)).hlc
  BY <1>1, LatestIs
<1> DEFINE rest == Pending(d)'
<1>4. Orderly(rest) /\ rest # {} /\ Latest(Pending(d)) \in rest /\ \A x \in rest : x.hlc <= Latest(Pending(d)).hlc
  BY <1>2, <1>3
<1> HIDE DEF rest
<1>5. Latest(rest) = Latest(Pending(d))
  BY <1>4, LatestIs
<1> QED BY <1>1, <1>5 DEF EndsWithLock, rest

\* The same commands wait.
LEMMA StillLast ==
  ASSUME NEW d, EndsWithLock(d),
         \A op : op.day = d /\ ~op.acked =>
           (op \in overlay' \cup dispatched' <=> op \in overlay \cup dispatched)
  PROVE  EndsWithLock(d)'
<1>1. Pending(d)' = Pending(d)
  BY DEF Pending, On
<1> QED BY <1>1 DEF EndsWithLock

\* A day that the panel is not on, or leaves, gets no command of the panel's.
LEMMA LeftStep ==
  ASSUME Sound, [Next]_vars, NEW d \in Days, EndsWithLock(d), d \in guarded', d \in guarded,
         panel.open /\ panel.day = d => Close /\ Preview(panel)
  PROVE  EndsWithLock(d)'
<1>1. CASE UNCHANGED queue
  BY <1>1, StillLast DEF queue
<1>2. CASE Fire \/ Blur \/ Close \/ ToggleLock \/ RemoveNote
  <2>1. overlay' = overlay
    BY <1>2 DEF Fire, Blur, Close, ToggleLock, RemoveNote
  <2>2. \A op \in dispatched' : op \in dispatched \/ op.day # d
    <3>1. CASE panel.day # d
      <4>1. PICK cmds \in Seq(Orders) : Dispatch(cmds) /\ panel.open
        BY <1>2, SendsOrders
      <4>2. \A f \in News : f.day = panel.day
        BY <4>1, DispatchIs DEF Sound, Dispatched, Sent
      <4> QED BY <3>1, <4>2 DEF News
    <3>2. CASE panel.day = d
      <4>1. panel.open
        BY <1>2, SendsOrders
      <4>2. Close /\ Preview(panel)
        BY <3>2, <4>1
      <4>3. PICK cmds : Saves(cmds) /\ Dispatch(cmds)
        BY <4>2, SavesIs
      <4>4. cmds = << >>
        BY <4>2, <4>3 DEF Saves
      <4> QED BY <4>3, <4>4 DEF Dispatch
    <3> QED BY <3>1, <3>2
  <2>3. dispatched \subseteq dispatched'
    <3>1. PICK cmds \in Seq(Orders) : Dispatch(cmds) /\ panel.open
      BY <1>2, SendsOrders
    <3> QED BY <3>1, DispatchIs DEF Sound, Dispatched
  <2> QED BY <2>1, <2>2, <2>3, StillLast
<1>3. ASSUME NEW e \in Days, Evict(e) \/ OtherDevice(e) PROVE EndsWithLock(d)'
  <2>1. overlay' = overlay /\ dispatched' = dispatched
    BY <1>3 DEF Evict, OtherDevice
  <2> QED BY <2>1, StillLast
<1>4. CASE Enqueue \/ EnqueueFails
  <2> DEFINE c == Oldest(dispatched)
  <2>1. dispatched # {} /\ dispatched' = dispatched \ {c} /\ Orderly(dispatched)
    BY <1>4, OrderlyPart DEF Enqueue, EnqueueFails, Sound, QueueInv
  <2>2. c \in dispatched
    BY <2>1, OldestIs
  <2>3. overlay' = overlay \cup {c} \/ (overlay' = overlay /\ c.day # d)
    BY <1>4 DEF Enqueue, EnqueueFails
  <2> HIDE DEF c
  <2> QED BY <2>1, <2>2, <2>3, StillLast
<1>5. CASE Download
  <2>1. /\ dispatched' = dispatched /\ overlay' \subseteq overlay
        /\ \A op \in overlay : ~op.acked => op \in overlay'
    BY <1>5 DEF Download
  <2> QED BY <2>1, StillLast
<1>6. CASE Reload
  <2>1. overlay' = overlay /\ dispatched' = {} /\ \A op \in dispatched : op.day # d
    BY <1>6 DEF Reload
  <2> QED BY <2>1, StillLast
<1>7. CASE Deliver
  <2>1. PICK op, done : Delivered(op, done)
    BY <1>7, DeliverIs DEF Sound
  <2>2. /\ dispatched' = dispatched /\ op \in overlay /\ ~op.acked
        /\ \A x \in overlay : ~x.acked => op.hlc <= x.hlc
        /\ overlay' = (overlay \ {op}) \cup done /\ \A e \in done : e.acked
    BY <1>7, <2>1 DEF Deliver, Delivered, Served
  <2>3. Pending(d)' = Pending(d) \ {op}
    <3>1. op \notin dispatched
      BY <2>2 DEF Sound, QueueInv, Commands
    <3> QED BY <2>2, <3>1 DEF Pending, On
  <2>4. Orderly(Pending(d))
    <3>1. Pending(d) \subseteq overlay \cup dispatched
      BY DEF Pending, On
    <3> QED BY <3>1, OrderlyPart DEF Sound, QueueInv
  <2>5. Pending(d)' # {} => Latest(Pending(d)) \in Pending(d)'
    <3> SUFFICES ASSUME Pending(d)' # {} PROVE Latest(Pending(d)) # op
      BY <2>3, <2>4, LatestIs
    <3>1. PICK x \in Pending(d) : x # op
      BY <2>3
    <3>2. op.hlc <= x.hlc /\ op.hlc # x.hlc /\ x.hlc \in Nat /\ op.hlc \in Nat
      <4>1. x \in overlay \cup dispatched /\ ~x.acked
        BY DEF Pending, On
      <4>2. op.hlc \in Nat /\ x.hlc \in Nat /\ op.hlc # x.hlc
        BY <2>2, <3>1, <4>1 DEF Sound, QueueInv, Orderly
      <4>3. x \in dispatched => op.hlc < x.hlc
        BY <2>2 DEF Sound, QueueInv
      <4> QED BY <2>2, <4>1, <4>2, <4>3
    <3>3. x.hlc <= Latest(Pending(d)).hlc
      BY <2>4, <3>1, LatestIs
    <3> QED BY <3>2, <3>3
  <2> QED BY <2>3, <2>5, LockStaysLast
<1> QED
  <2>1. CASE UNCHANGED vars
    BY <1>1, <2>1 DEF vars
  <2>2. ASSUME NEW e \in Days, Open(e) \/ AgendaShows(e) \/ AgendaLeaves(e) PROVE EndsWithLock(d)'
    BY <1>1, <2>2 DEF Open, AgendaShows, AgendaLeaves
  <2>3. ASSUME NEW i \in DOMAIN subs, Subscribed(i) \/ SubscribeFails(i) PROVE EndsWithLock(d)'
    BY <1>1, <2>3 DEF Subscribed, SubscribeFails
  <2>4. CASE Focus \/ LockTimer \/ HintExpires \/ (\E t \in Texts : Type(t)) \/ ReadRows \/ ReadOverlay
    BY <1>1, <2>4 DEF Focus, LockTimer, HintExpires, Type, ReadRows, ReadOverlay
  <2> QED BY <1>2, <1>3, <1>4, <1>5, <1>6, <1>7, <2>1, <2>2, <2>3, <2>4 DEF Next

\* The panel comes to a day by opening it, and a lock guards the panel's day only.
LEMMA GuardedDays ==
  ASSUME Sound, [Next]_vars
  PROVE  /\ panel'.open => IF panel.open THEN panel'.day = panel.day ELSE panel'.day \notin guarded'
         /\ guarded' \subseteq guarded \cup {e \in {panel.day} : ToggleLock}
         /\ panel.open /\ ~panel'.open => Close \/ Reload
<1>1. DOMAIN panel = DOMAIN Closed
  BY DEF Sound, PanelInv, PanelFine
<1>2. CASE UNCHANGED <<panel, guarded>>
  BY <1>2
<1>3. CASE Focus \/ LockTimer \/ HintExpires \/ (\E t \in Texts : Type(t)) \/ Fire \/ Blur \/ RemoveNote
  <2>1. panel'.open = panel.open /\ panel'.day = panel.day
    BY <1>1, <1>3 DEF Focus, LockTimer, HintExpires, Type, Fire, Blur, RemoveNote, Closed
  <2>2. guarded' \subseteq guarded
    BY <1>3 DEF Focus, LockTimer, HintExpires, Type, Fire, Blur, RemoveNote, history
  <2>3. panel.open \/ ~panel'.open
    BY <2>1
  <2> QED BY <2>1, <2>2, <2>3
<1>4. CASE Close \/ Reload
  <2>1. panel' = Closed /\ guarded' \subseteq guarded
    <3>1. CASE Close
      BY <3>1 DEF Close
    <3>2. CASE Reload
      BY <3>2 DEF Reload
    <3> QED BY <1>4, <3>1, <3>2
  <2>2. ~panel'.open
    BY <2>1 DEF Closed
  <2> QED BY <1>4, <2>1, <2>2
<1>5. ASSUME NEW e \in Days, Open(e)
      PROVE  /\ panel'.open => IF panel.open THEN panel'.day = panel.day ELSE panel'.day \notin guarded'
             /\ guarded' \subseteq guarded \cup {x \in {panel.day} : ToggleLock}
             /\ panel.open /\ ~panel'.open => Close \/ Reload
  <2>1. ~panel.open /\ PanelFine(Opened(e)) /\ Render(Opened(e)) /\ Opened(e).day = e
    BY <1>5, OpenIs
  <2>2. Days' = Days
    BY DaysStay
  <2>3. panel'.day = e
    BY <2>1, <2>2, RenderIs DEF Sound
  <2>4. guarded' = guarded \ {e}
    BY <1>5 DEF Open
  <2> QED BY <2>1, <2>3, <2>4
<1>6. ASSUME panel.open, NEW p, PanelFine(p), Render(p), p.open = panel.open, p.day = panel.day
      PROVE  panel'.open /\ panel'.day = panel.day
  <2>1. Days' = Days /\ panel.day \in Days
    BY <1>6, DaysStay DEF Sound, PanelInv
  <2> QED BY <1>6, <2>1, RenderIs DEF Sound
<1>7. CASE ReadRows \/ ReadOverlay
  <2>1. panel.open /\ guarded' = guarded
    BY <1>7 DEF ReadRows, ReadOverlay, history
  <2>2. PICK p : PanelFine(p) /\ Render(p) /\ Fields(p, panel, {"rows"} \cup {"ops"})
    <3>1. CASE ReadRows
      BY <3>1, ReadRowsIs DEF Fields
    <3>2. CASE ReadOverlay
      BY <3>2, ReadOverlayIs DEF Fields
    <3> QED BY <1>7, <3>1, <3>2
  <2>3. p.open = panel.open /\ p.day = panel.day
    BY <2>2 DEF Fields, Closed
  <2> QED BY <1>6, <2>1, <2>2, <2>3
<1>8. CASE ToggleLock
  <2>1. PICK p : PanelFine(p) /\ Render(p) /\ Fields(p, panel, {"timer", "busy", "intent"})
    BY <1>8, ToggleIs
  <2>2. p.open = panel.open /\ p.day = panel.day /\ panel.open
    BY <1>8, <2>1 DEF Fields, Closed, ToggleLock
  <2>3. guarded' \subseteq guarded \cup {panel.day}
    BY <1>8 DEF ToggleLock
  <2> QED BY <1>6, <1>8, <2>1, <2>2, <2>3
<1>9. CASE EnqueueFails
  <2>1. guarded' \subseteq guarded
    BY <1>9 DEF EnqueueFails
  <2>2. CASE panel.open /\ Render([panel EXCEPT !.intent = {}])
    <3> DEFINE p == [panel EXCEPT !.intent = {}]
    <3>1. PanelFine(p) /\ Fields(p, panel, {"intent"})
      BY IntentLost DEF Sound, PanelInv
    <3>2. Render(p) /\ p.day = panel.day /\ p.open = panel.open
      BY <2>2, <3>1 DEF Fields, Closed
    <3> HIDE DEF p
    <3> QED BY <1>6, <2>1, <2>2, <3>1, <3>2
  <2>3. CASE panel' = panel
    BY <2>1, <2>3
  <2> QED BY <1>9, <2>2, <2>3 DEF EnqueueFails
<1> QED
  <2>1. CASE UNCHANGED vars
    BY <1>2, <2>1 DEF vars, history
  <2>2. ASSUME NEW e \in Days, AgendaShows(e) \/ AgendaLeaves(e) \/ Evict(e)
        PROVE  UNCHANGED <<panel, guarded>>
    BY <2>2 DEF AgendaShows, AgendaLeaves, Evict, history
  <2>3. ASSUME NEW e \in Days, OtherDevice(e)
        PROVE  panel' = panel /\ guarded' \subseteq guarded
    BY <2>3 DEF OtherDevice
  <2>4. ASSUME NEW i \in DOMAIN subs, Subscribed(i) \/ SubscribeFails(i) PROVE UNCHANGED <<panel, guarded>>
    BY <2>4 DEF Subscribed, SubscribeFails, history
  <2>5. CASE Enqueue \/ Deliver \/ Download
    BY <1>2, <2>5 DEF Enqueue, Deliver, Download, history
  <2> QED BY <1>2, <1>3, <1>4, <1>5, <1>7, <1>8, <1>9, <2>1, <2>2, <2>3, <2>4, <2>5 DEF Next

\* The panel's own steps, and those of others, keep a day guarded that the panel is on.
LEMMA OnItsDay ==
  ASSUME Sound, StreamsInv, [Next]_vars, NEW d \in guarded', d \in guarded, Guarded(d), panel'.open
  PROVE  Guarded(d)'
<1>1. panel.open /\ panel.day = d /\ Preview(panel)
  BY GuardedShows DEF Guarded
<1>2. CASE UNCHANGED vars
  <2>1. UNCHANGED <<account, queue, panel>>
    BY <1>2 DEF vars
  <2> QED BY <2>1, OtherGuards
<1>3. ASSUME NEW e \in Days, Open(e) \/ AgendaShows(e) \/ AgendaLeaves(e) \/ Evict(e) \/ OtherDevice(e)
      PROVE  Guarded(d)'
  <2>1. CASE Open(e)
    BY <1>1, <2>1 DEF Open
  <2>2. CASE AgendaShows(e) \/ AgendaLeaves(e)
    <3>1. UNCHANGED <<account, queue, panel>>
      BY <2>2 DEF AgendaShows, AgendaLeaves
    <3> QED BY <3>1, OtherGuards
  <2>3. CASE Evict(e)
    BY <2>3, OtherGuards
  <2>4. CASE OtherDevice(e)
    <3>1. guarded' = guarded \ {e}
      BY <2>4 DEF OtherDevice
    <3> QED BY <2>4, <3>1, OtherGuards
  <2> QED BY <1>3, <2>1, <2>2, <2>3, <2>4
<1>4. ASSUME NEW i \in DOMAIN subs, Subscribed(i) \/ SubscribeFails(i)
      PROVE  Guarded(d)'
  <2>1. UNCHANGED <<account, queue, panel>>
    BY <1>4 DEF Subscribed, SubscribeFails
  <2> QED BY <2>1, OtherGuards
<1>5. CASE LockTimer \/ HintExpires \/ Focus
  BY <1>5, OtherGuards
<1>6. CASE \E t \in Texts : Type(t)
  BY <1>1, <1>6 DEF Type
<1>7. CASE ReadRows \/ ReadOverlay
  BY <1>7, ReadGuards
<1>8. CASE Fire \/ Blur
  BY <1>8, SaveGuards
<1>9. CASE Close \/ Reload
  <2>1. panel' = Closed
    BY <1>9 DEF Close, Reload
  <2> QED BY <2>1 DEF Closed
<1>10. CASE RemoveNote
  BY <1>1, <1>10 DEF RemoveNote
<1>11. CASE ToggleLock
  BY <1>1, <1>11 DEF ToggleLock
<1>12. CASE Enqueue \/ EnqueueFails
  BY <1>12, EnqueueGuards
<1>13. CASE Deliver \/ Download
  BY <1>13, DeliverGuards, DownloadGuards
<1> QED BY <1>2, <1>3, <1>4, <1>5, <1>6, <1>7, <1>8, <1>9, <1>10, <1>11, <1>12, <1>13 DEF Next

\* No step but a lock guards a day, and every step keeps those it leaves guarded, whether
\* the panel is on them, leaves them or has left them.
LEMMA LockedStep ==
  ASSUME Sound, StreamsInv, LockedInv, [Next]_vars, guarded \subseteq Days
  PROVE  LockedInv' /\ guarded' \subseteq Days'
<1>1. /\ panel'.open => IF panel.open THEN panel'.day = panel.day ELSE panel'.day \notin guarded'
      /\ guarded' \subseteq guarded \cup {e \in {panel.day} : ToggleLock}
      /\ panel.open /\ ~panel'.open => Close \/ Reload
  BY GuardedDays
<1>2. guarded' \subseteq Days'
  <2>1. ToggleLock => panel.day \in Days
    BY DEF ToggleLock, Sound, PanelInv
  <2> QED BY <1>1, <2>1, DaysStay
<1> SUFFICES ASSUME NEW d \in guarded'
             PROVE  IF panel'.open /\ panel'.day = d THEN Guarded(d)' ELSE EndsWithLock(d)'
  BY <1>2 DEF LockedInv
<1>3. CASE panel'.open /\ panel'.day = d
  <2>1. panel.open /\ panel.day = d
    BY <1>1, <1>3
  <2>2. CASE ToggleLock /\ ~Preview(panel) /\ CaughtUp /\ OnlyNote(panel.day)
    BY <1>3, <2>1, <2>2, ToggleGuards
  <2>3. CASE ~(ToggleLock /\ ~Preview(panel) /\ CaughtUp /\ OnlyNote(panel.day))
    <3>1. d \in guarded
      <4>1. CASE ToggleLock
        BY <2>3, <4>1 DEF ToggleLock
      <4>2. CASE ~ToggleLock
        BY <1>1, <4>2
      <4> QED BY <4>1, <4>2
    <3>2. Guarded(d)
      BY <2>1, <3>1 DEF LockedInv
    <3> QED BY <1>3, <3>1, <3>2, OnItsDay
  <2> QED BY <1>3, <2>2, <2>3
<1>4. CASE ~(panel'.open /\ panel'.day = d)
  <2>1. d \in guarded
    <3>1. CASE ToggleLock /\ d \notin guarded
      <4>1. d = panel.day
        BY <1>1, <3>1
      <4>2. panel'.open /\ panel'.day = panel.day
        <5>1. panel.open /\ panel.day \in Days /\ Days' = Days
          BY <3>1, DaysStay DEF ToggleLock, Sound, PanelInv
        <5>2. PICK p : PanelFine(p) /\ Render(p) /\ Fields(p, panel, {"timer", "busy", "intent"})
          BY <3>1, ToggleIs
        <5>3. p.open = panel.open /\ p.day = panel.day
          BY <5>2 DEF Fields, Closed
        <5> QED BY <5>1, <5>2, <5>3, RenderIs DEF Sound
      <4> QED BY <1>4, <4>1, <4>2
    <3> QED BY <1>1, <3>1
  <2>2. CASE ~(panel.open /\ panel.day = d)
    <3>1. EndsWithLock(d) /\ d \in Days
      BY <2>1, <2>2 DEF LockedInv
    <3> QED BY <1>4, <2>1, <2>2, <3>1, LeftStep
  <2>3. CASE panel.open /\ panel.day = d
    <3>1. Guarded(d) /\ Preview(panel) /\ d \in Days /\ EndsWithLock(d)
      BY <2>1, <2>3, GuardedShows, LockedIsLast DEF LockedInv
    <3>2. Close \/ Reload
      BY <1>1, <1>4, <2>3
    <3>3. CASE Close
      BY <1>4, <2>1, <3>1, <3>3, LeftStep
    <3>4. CASE Reload
      <4>1. overlay' = overlay /\ dispatched' = {} /\ \A op \in dispatched : op.day # d
        BY <3>4 DEF Reload
      <4>2. EndsWithLock(d)'
        BY <3>1, <4>1, StillLast
      <4> QED BY <1>4, <4>2
    <3> QED BY <3>2, <3>3, <3>4
  <2> QED BY <2>2, <2>3
<1> QED BY <1>2, <1>3, <1>4

\* Once the panel has locked a note it sends nothing that would change the note's text
\* until the day is opened again, whatever timer, blur or unmount still comes and whatever
\* the editor that goes reports (DayJournal's write asks the lock again).
THEOREM LockedNoteStays == Spec => []LockedNoteIsLeftAlone
<1>1. Init => LockedInv /\ guarded \subseteq Days
  BY DEF Init, LockedInv
<1>2. Spec => []StreamsInv
  BY InvHolds
<1>3. Sound /\ StreamsInv /\ LockedInv /\ guarded \subseteq Days /\ [Next]_vars =>
        (LockedInv /\ guarded \subseteq Days)'
  BY LockedStep
<1>4. Sound /\ LockedInv => LockedNoteIsLeftAlone
  <2> SUFFICES ASSUME Sound, LockedInv, NEW d \in guarded PROVE EndsWithLock(d)
    BY DEF LockedNoteIsLeftAlone, EndsWithLock
  <2> QED BY LockedIsLast DEF LockedInv
<1> QED BY <1>1, <1>2, <1>3, <1>4, PanelSound, PTL DEF Spec

=============================================================================
