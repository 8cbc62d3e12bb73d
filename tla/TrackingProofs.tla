--------------------------- MODULE TrackingProofs ---------------------------
(***************************************************************************)
(* Proofs about Tracking: its tables implement the time sheet of TimeSheet,  *)
(* for any tasks, entries, payloads and rules and any number of requests;    *)
(* while these do not overlap, the timers of two devices resolve; and a      *)
(* command that is rejected leaves the facts of the others alone.            *)
(***************************************************************************)
EXTENDS Tracking, TLAPS

\* A payload of each verb has the fields of its verb.
LEMMA Payloads ==
  ASSUME NEW c \in Commands
  PROVE  /\ c.verb \in {"clockIn", "clockOut", "review", "checkOff", "uncheck"}
         /\ c.verb = "clockIn" => /\ c.entry \in Entries /\ c.task \in Tasks
                                  /\ c.at \in Times /\ c.device \in Devices
         /\ c.verb = "clockOut" => c.entry \in Entries /\ c.at \in Times
         /\ c.verb = "review" => c.entry \in Entries /\ c.finished \in BOOLEAN
         /\ c.verb = "checkOff" => c.task \in Tasks /\ c.at \in Times
         /\ c.verb = "uncheck" => c.task \in Tasks
  BY TrackingAssumption DEF Command

\* Instants are numbers, and no instant is the end of a running session.
LEMMA Instants == \A t \in Times : t \in Int /\ t # None
  BY TrackingAssumption

-----------------------------------------------------------------------------
(* The invariant.                                                            *)

\* The plan p suits its command c and the table: what a plan relies on however
\* much has happened since it was made.
Suits(c, p) ==
  /\ p.kind \in {"insert", "takeOver"} => c.verb = "clockIn"
  /\ p.kind = "takeOver" => p.other \in DOMAIN entries
  /\ p.kind = "close" =>
       c.verb = "clockOut" /\ c.entry \in DOMAIN entries /\ entries[c.entry].start < c.at
  /\ p.kind \in {"review", "reviewDone", "reviewRefused"} =>
       c.verb = "review" /\ c.entry \in DOMAIN entries
  /\ p.kind = "reviewDone" => entries[c.entry].end # None
  /\ p.kind = "complete" => c.verb = "checkOff"
  /\ p.kind = "reopen" => c.verb = "uncheck"

\* What it relies on besides when nothing has happened.
Fresh(c, p) ==
  /\ p.kind \in {"insert", "takeOver"} => c.entry \notin DOMAIN entries
  /\ p.kind = "insert" =>
       \/ p.end = None /\ OpenEntry = {}
       \/ \E o \in OpenEntry : p.end = entries[o].start /\ c.at <= p.end
  /\ p.kind = "takeOver" =>
       p.other \in OpenEntry /\ p.end = c.at /\ entries[p.other].start <= c.at
  /\ p.kind = "close" => c.entry \in OpenEntry

\* At most one session runs, and a closed one ends after its start.
SheetInv ==
  /\ \A e \in DOMAIN entries : entries[e].end # None => entries[e].start < entries[e].end
  /\ \A a, b \in OpenEntry : a = b

\* A request that is under way has at most one command in hand.
PlansInv ==
  \A q \in Requests : /\ cur[q] # {} => q \in open
                      /\ \A x, y \in cur[q] : x = y
                      /\ \A x \in cur[q] : Suits(x.cmd, x.plan)

\* While requests have not overlapped, one is under way and its plan is fresh.
SerialInv ==
  ~overlapped => /\ \A q, r \in open : q = r
                 /\ \A q \in Requests : \A x \in cur[q] : Fresh(x.cmd, x.plan)

\* The invariant of the timer handlers.
TrackingInv == TypeOK /\ SheetInv /\ PlansInv /\ SerialInv

-----------------------------------------------------------------------------
(* Reading.                                                                  *)

\* Whatever the handlers decide is a plan that suits its command and is fresh.
LEMMA PlansSuit ==
  ASSUME TypeOK, SheetInv, NEW q \in Requests, NEW c \in Commands
  PROVE  /\ PlanOf(q, c) \in Plans
         /\ Suits(c, PlanOf(q, c))
         /\ Fresh(c, PlanOf(q, c))
<1> DEFINE p == PlanOf(q, c)
<1> USE TrackingAssumption
<1>1. CASE c.verb = "clockIn"
  <2>1. p = PlanClockIn(q, c)
    BY <1>1 DEF PlanOf
  <2>2. c.entry \in Entries /\ c.at \in Times
    BY <1>1, Payloads
  <2>3. CASE p = Plan("converged") \/ p = Plan("rejected")
    BY <2>3 DEF Plan, Plans, Suits, Fresh
  <2>4. CASE c.entry \notin DOMAIN entries /\ OpenEntry = {} /\ p = Insert(None)
    BY <1>1, <2>4 DEF Insert, Plans, Suits, Fresh
  <2>5. CASE c.entry \notin DOMAIN entries /\ \E o \in OpenEntry : p = ResolveTimers(c, o)
    <3>1. PICK other \in OpenEntry : p = ResolveTimers(c, other)
      BY <2>5
    <3>2. other \in DOMAIN entries /\ entries[other].start \in Times /\ other \in Entries
      BY <3>1 DEF OpenEntry, TypeOK, TimeEntry
    <3> DEFINE s == entries[other].start
    <3>5. s \in Int /\ c.at \in Int
      BY <2>2, <3>2, Instants
    <3>3. CASE StaysOpen(c.entry, c.at, other)
      <4>1. p = Close(other, c.at)
        BY <3>1, <3>3 DEF ResolveTimers
      <4>2. s <= c.at
        <5>1. c.at > s \/ s = c.at
          BY <3>3 DEF StaysOpen
        <5> HIDE DEF s
        <5> QED BY <3>5, <5>1
      <4> QED BY <1>1, <2>2, <2>5, <3>1, <3>2, <4>1, <4>2 DEF Close, Plans, Suits, Fresh
    <3>4. CASE ~StaysOpen(c.entry, c.at, other)
      <4>1. p = Insert(entries[other].start)
        BY <3>1, <3>4 DEF ResolveTimers
      <4>2. c.at <= s
        <5>1. ~(c.at > s)
          BY <3>4 DEF StaysOpen
        <5> HIDE DEF s
        <5> QED BY <3>5, <5>1
      <4> QED BY <1>1, <2>2, <2>5, <3>1, <3>2, <4>1, <4>2 DEF Insert, Plans, Suits, Fresh
    <3> QED BY <3>3, <3>4
  <2> QED BY <2>1, <2>3, <2>4, <2>5 DEF PlanClockIn
<1>2. CASE c.verb = "clockOut"
  <2>1. p = PlanClockOut(c)
    BY <1>2 DEF PlanOf
  <2>2. CASE p = Plan("rejected")
    BY <2>2 DEF Plan, Plans, Suits, Fresh
  <2>3. CASE /\ p = Plan("close") /\ c.entry \in DOMAIN entries
             /\ entries[c.entry].end = None /\ entries[c.entry].start < c.at
    BY <1>2, <2>3 DEF Plan, Plans, Suits, Fresh, OpenEntry
  <2>4. c.entry \in DOMAIN entries => entries[c.entry].start \in Nat
    BY DEF TypeOK, TimeEntry
  <2>5. c.at \in Nat
    BY <1>2, Payloads
  <2> QED BY <2>1, <2>2, <2>3, <2>4, <2>5 DEF PlanClockOut
<1>3. CASE c.verb = "review"
  <2>1. p = PlanReview(q, c)
    BY <1>3 DEF PlanOf
  <2>2. CASE c.entry \notin DOMAIN entries
    BY <2>1, <2>2 DEF PlanReview, Plan, Plans, Suits, Fresh
  <2>3. CASE c.entry \in DOMAIN entries
    <3>1. \/ p = Plan("review") \/ p = Plan("reviewRefused")
          \/ p = Plan("reviewDone") /\ entries[c.entry].end # None
      BY <2>1, <2>3 DEF PlanReview
    <3> QED BY <1>3, <2>3, <3>1 DEF Plan, Plans, Suits, Fresh
  <2> QED BY <2>2, <2>3
<1>4. CASE c.verb = "checkOff"
  BY <1>4 DEF PlanOf, PlanCheckOff, Plan, Plans, Suits, Fresh
<1>5. CASE c.verb = "uncheck"
  BY <1>5 DEF PlanOf, Plan, Plans, Suits, Fresh
<1> QED BY <1>1, <1>2, <1>3, <1>4, <1>5, Payloads

-----------------------------------------------------------------------------
(* Writing.                                                                  *)

\* The table, as far as the sheet shows it, grows: sessions are kept with their
\* start, and a closed one stays closed.
Grows ==
  /\ DOMAIN entries \subseteq DOMAIN entries'
  /\ \A e \in DOMAIN entries :
       /\ entries'[e].start = entries[e].start
       /\ entries[e].end # None => entries'[e].end # None

\* What a write may do to the table.
LEMMA WriteKeeps ==
  ASSUME TypeOK, SheetInv, NEW q \in Requests, NEW x \in cur[q],
         Suits(x.cmd, x.plan), x.plan.kind \in Writes \cup {"reviewRefused"},
         ~Refused(x.cmd, x.plan), Write(x.cmd, x.hlc, x.plan)
  PROVE  /\ entries' \in [DOMAIN entries' -> TimeEntry] /\ DOMAIN entries' \subseteq Entries
         /\ done' \in [Tasks -> Times \cup {None}]
         /\ doneBy' \in [Tasks -> 0 .. MaxCommands]
         /\ reviewedBy' \in [Entries -> 0 .. MaxCommands]
         /\ SheetInv' /\ Grows
<1> DEFINE c == x.cmd
           p == x.plan
           h == x.hlc
<1> USE TrackingAssumption
<1>0. c \in Commands /\ p \in Plans /\ h \in 0 .. MaxCommands
  BY DEF TypeOK
<1>1. CASE p.kind = "insert"
  <2>1. c.verb = "clockIn" /\ c.entry \in Entries /\ c.task \in Tasks /\ c.at \in Times
        /\ c.device \in Devices
    BY <1>0, <1>1, Payloads DEF Suits
  <2>2. p.end \in Times \cup {None}
    BY <1>0, <1>1 DEF Plans
  <2>3. entries' = NewEntry(c, p.end) /\ UNCHANGED <<done, doneBy, reviewedBy>>
    BY <1>1 DEF Write
  <2>4. /\ c.entry \notin DOMAIN entries
        /\ p.end = None => OpenEntry = {}
        /\ p.end # None => c.at < p.end
    BY <1>1, <2>1, <2>2 DEF Refused
  <2>5. DOMAIN entries' = DOMAIN entries \cup {c.entry}
    BY <2>3 DEF NewEntry
  <2>6. /\ \A e \in DOMAIN entries : entries'[e] = entries[e]
        /\ entries'[c.entry] = [task |-> c.task, start |-> c.at, end |-> p.end,
                                device |-> c.device, finished |-> FALSE]
    BY <2>3, <2>4 DEF NewEntry
  <2>7. entries'[c.entry] \in TimeEntry
    BY <2>1, <2>2, <2>6 DEF TimeEntry
  <2>8. entries' \in [DOMAIN entries' -> TimeEntry]
    BY <2>3, <2>5, <2>6, <2>7 DEF TypeOK, NewEntry
  <2>9. SheetInv'
    BY <2>4, <2>5, <2>6 DEF SheetInv, OpenEntry
  <2> QED BY <2>1, <2>3, <2>5, <2>6, <2>8, <2>9 DEF TypeOK, Grows
<1>2. CASE p.kind = "takeOver"
  <2>1. c.verb = "clockIn" /\ c.entry \in Entries /\ c.task \in Tasks /\ c.at \in Times
        /\ c.device \in Devices /\ p.other \in DOMAIN entries
    BY <1>0, <1>2, Payloads DEF Suits
  <2>2. p.end \in Times
    BY <1>0, <1>2 DEF Plans
  <2>3. /\ entries' = [NewEntry(c, None) EXCEPT ![p.other].end = p.end]
        /\ UNCHANGED <<done, doneBy, reviewedBy>>
    BY <1>2 DEF Write
  <2>4. /\ c.entry \notin DOMAIN entries
        /\ entries[p.other].start < p.end
        /\ OpenEntry \ {p.other} = {}
    <3>1. entries[p.other].start \in Times
      BY <2>1 DEF TypeOK, TimeEntry
    <3> QED BY <1>2, <2>2, <3>1 DEF Refused
  <2>5. DOMAIN entries' = DOMAIN entries \cup {c.entry}
    BY <2>3 DEF NewEntry
  <2>6. /\ \A e \in DOMAIN entries \ {p.other} : entries'[e] = entries[e]
        /\ entries'[p.other] = [entries[p.other] EXCEPT !.end = p.end]
        /\ entries'[c.entry] = [task |-> c.task, start |-> c.at, end |-> None,
                                device |-> c.device, finished |-> FALSE]
    BY <2>1, <2>3, <2>4 DEF NewEntry
  <2>7. entries'[c.entry] \in TimeEntry
    BY <2>1, <2>6 DEF TimeEntry
  <2>8. entries[p.other] \in TimeEntry
    BY <2>1 DEF TypeOK
  <2>9. /\ entries'[p.other] \in TimeEntry /\ entries'[p.other].end = p.end
        /\ entries'[p.other].start = entries[p.other].start
    BY <2>2, <2>6, <2>8 DEF TimeEntry
  <2>10. entries' \in [DOMAIN entries' -> TimeEntry]
    BY <2>3, <2>5, <2>6, <2>7, <2>9 DEF TypeOK, NewEntry
  <2>11. SheetInv'
    <3>1. entries'[c.entry].end = None /\ entries'[p.other].end # None
      BY <2>2, <2>6, <2>9, Instants
    <3>2. ASSUME NEW e \in DOMAIN entries', entries'[e].end # None
          PROVE  entries'[e].start < entries'[e].end
      <4>1. e \in DOMAIN entries
        BY <2>5, <3>1, <3>2
      <4>2. CASE e = p.other
        BY <2>4, <2>9, <4>2
      <4>3. CASE e # p.other
        BY <2>6, <3>2, <4>1, <4>3 DEF SheetInv
      <4> QED BY <4>2, <4>3
    <3>3. ASSUME NEW e \in DOMAIN entries, e # p.other
          PROVE  entries'[e].end # None
      BY <2>4, <2>6, <3>3 DEF OpenEntry
    <3>4. OpenEntry' \subseteq {c.entry}
      BY <2>5, <3>1, <3>3 DEF OpenEntry
    <3> QED BY <3>2, <3>4 DEF SheetInv
  <2> QED BY <2>1, <2>2, <2>3, <2>5, <2>6, <2>9, <2>10, <2>11 DEF TypeOK, Grows
<1>3. CASE p.kind = "close"
  <2>1. c.verb = "clockOut" /\ c.entry \in DOMAIN entries /\ c.at \in Times
        /\ entries[c.entry].start < c.at
    BY <1>0, <1>3, Payloads DEF Suits
  <2>2. /\ entries' = [entries EXCEPT ![c.entry].end = c.at]
        /\ UNCHANGED <<done, doneBy, reviewedBy>>
    BY <1>3 DEF Write
  <2>3. entries[c.entry] \in TimeEntry
    BY <2>1 DEF TypeOK
  <2>4. /\ DOMAIN entries' = DOMAIN entries
        /\ \A e \in DOMAIN entries \ {c.entry} : entries'[e] = entries[e]
        /\ entries'[c.entry] = [entries[c.entry] EXCEPT !.end = c.at]
    BY <2>1, <2>2
  <2>5. /\ entries'[c.entry] \in TimeEntry /\ entries'[c.entry].end = c.at
        /\ entries'[c.entry].start = entries[c.entry].start
    BY <2>1, <2>3, <2>4 DEF TimeEntry
  <2>6. entries' \in [DOMAIN entries' -> TimeEntry]
    BY <2>2, <2>4, <2>5 DEF TypeOK
  <2>7. SheetInv'
    BY <2>1, <2>4, <2>5 DEF SheetInv, OpenEntry
  <2> QED BY <2>1, <2>2, <2>4, <2>5, <2>6, <2>7 DEF TypeOK, Grows
<1>4. CASE p.kind \in {"complete", "reopen"}
  <2>1. UNCHANGED <<entries, reviewedBy>>
    BY <1>4 DEF Write
  <2>2. \/ p.kind = "complete" /\ c.verb = "checkOff" /\ Complete(c.task, c.at, h)
        \/ p.kind = "reopen" /\ c.verb = "uncheck" /\ Complete(c.task, None, h)
    BY <1>4 DEF Write, Suits
  <2>3. c.task \in Tasks /\ (c.verb = "checkOff" => c.at \in Times)
    BY <1>0, <2>2, Payloads
  <2>4. done' \in [Tasks -> Times \cup {None}] /\ doneBy' \in [Tasks -> 0 .. MaxCommands]
    BY <1>0, <2>2, <2>3 DEF Complete, TypeOK
  <2> QED BY <2>1, <2>4 DEF TypeOK, SheetInv, OpenEntry, Grows
<1>5. CASE p.kind \in {"review", "reviewDone", "reviewRefused"}
  <2>1. WriteReview(c, h, p)
    BY <1>5 DEF Write
  <2>2. /\ c.verb = "review" /\ c.entry \in DOMAIN entries /\ c.entry \in Entries
        /\ c.finished \in BOOLEAN
        /\ p.kind = "reviewDone" => entries[c.entry].end # None
    BY <1>0, <1>5, Payloads DEF Suits
  <2>3. entries[c.entry] \in TimeEntry
    BY <2>2 DEF TypeOK
  <2>4. reviewedBy' \in [Entries -> 0 .. MaxCommands]
    BY <1>0, <2>1 DEF WriteReview, TypeOK
  <2>5. done' \in [Tasks -> Times \cup {None}] /\ doneBy' \in [Tasks -> 0 .. MaxCommands]
    BY <1>0, <2>1, <2>2, <2>3 DEF WriteReview, Complete, TypeOK, TimeEntry
  <2>6. entries' = [entries EXCEPT ![c.entry].finished = c.finished] \/ entries' = entries
    BY <2>1 DEF WriteReview
  <2>7. /\ DOMAIN entries' = DOMAIN entries
        /\ entries' \in [DOMAIN entries -> TimeEntry]
        /\ \A e \in DOMAIN entries : /\ entries'[e].start = entries[e].start
                                     /\ entries'[e].end = entries[e].end
    <3>1. \A e \in DOMAIN entries : entries[e] \in TimeEntry
      BY DEF TypeOK
    <3>2. \/ entries' = entries
          \/ /\ entries' = [entries EXCEPT ![c.entry] = entries'[c.entry]]
             /\ entries'[c.entry] = [entries[c.entry] EXCEPT !.finished = c.finished]
      BY <2>2, <2>6 DEF TypeOK
    <3>3. /\ entries'[c.entry] \in TimeEntry
          /\ entries'[c.entry].start = entries[c.entry].start
          /\ entries'[c.entry].end = entries[c.entry].end
      BY <2>2, <2>3, <3>2 DEF TimeEntry
    <3> QED BY <2>2, <3>1, <3>2, <3>3 DEF TypeOK
  <2>8. SheetInv'
    BY <2>7 DEF SheetInv, OpenEntry
  <2> QED BY <2>4, <2>5, <2>7, <2>8 DEF TypeOK, Grows
<1> QED BY <1>1, <1>2, <1>3, <1>4, <1>5 DEF Writes

\* Plans keep suiting a table that grows.
LEMMA SuitsStays ==
  ASSUME NEW c, NEW p, Suits(c, p), Grows, TypeOK
  PROVE  Suits(c, p)'
<1>1. p.kind = "close" => entries'[c.entry].start = entries[c.entry].start
  BY DEF Suits, Grows
<1> QED BY <1>1 DEF Suits, Grows

-----------------------------------------------------------------------------
(* The invariant holds.                                                      *)

\* It holds before the first request.
LEMMA InvInit == Init => TrackingInv
<1> SUFFICES ASSUME Init PROVE TrackingInv
  OBVIOUS
<1>1. DOMAIN entries = {} /\ entries \in [DOMAIN entries -> TimeEntry]
  BY DEF Init
<1>2. TypeOK
  <2>1. 0 \in 0 .. MaxCommands
    BY TrackingAssumption
  <2>2. done \in [Tasks -> Times \cup {None}] /\ doneBy \in [Tasks -> 0 .. MaxCommands]
        /\ reviewedBy \in [Entries -> 0 .. MaxCommands]
    BY <2>1 DEF Init
  <2>3. cur \in [Requests -> SUBSET [cmd : Commands, hlc : 1 .. MaxCommands, plan : Plans]]
    BY DEF Init
  <2> QED BY <1>1, <2>2, <2>3 DEF Init, TypeOK
<1>3. SheetInv /\ PlansInv /\ SerialInv
  BY <1>1 DEF Init, SheetInv, OpenEntry, PlansInv, SerialInv
<1> QED BY <1>2, <1>3 DEF TrackingInv

\* A request that opens keeps it.
LEMMA OpenKeeps ==
  ASSUME TrackingInv, NEW q \in Requests, Open(q)
  PROVE  TrackingInv'
<1> USE DEF Open
<1>1. TypeOK'
  BY DEF TrackingInv, TypeOK
<1>2. SheetInv' /\ PlansInv'
  BY DEF TrackingInv, SheetInv, OpenEntry, PlansInv, Suits
<1>3. SerialInv'
  BY DEF TrackingInv, SerialInv, PlansInv, Fresh, OpenEntry
<1> QED BY <1>1, <1>2, <1>3 DEF TrackingInv

\* A handler that reads and decides keeps it.
LEMMA ReadKeeps ==
  ASSUME TrackingInv, NEW q \in Requests, Read(q)
  PROVE  TrackingInv'
<1>1. PICK c \in Commands, h \in (1 .. MaxCommands) \ minted :
        /\ minted' = minted \cup {h}
        /\ cur' = [cur EXCEPT ![q] = {[cmd |-> c, hlc |-> h, plan |-> PlanOf(q, c)]}]
        /\ facts' = [facts EXCEPT ![q] = IF ReadsFacts(c) THEN {Seen(q)} ELSE @]
  BY DEF Read
<1> DEFINE p == PlanOf(q, c)
           x == [cmd |-> c, hlc |-> h, plan |-> p]
<1>2. p \in Plans /\ Suits(c, p) /\ Fresh(c, p)
  BY PlansSuit DEF TrackingInv
<1> HIDE DEF p
<1>3. x \in [cmd : Commands, hlc : 1 .. MaxCommands, plan : Plans]
  BY <1>2
<1>4. /\ UNCHANGED <<done, entries, doneBy, reviewedBy, now, open, overlapped>>
      /\ q \in open /\ cur[q] = {}
  BY DEF Read
<1>5. cur' = [cur EXCEPT ![q] = {x}]
  BY <1>1 DEF p
<1>6. x.cmd = c /\ x.plan = p
  OBVIOUS
<1> HIDE DEF x
<1>7. /\ cur'[q] = {x}
      /\ \A r \in Requests \ {q} : cur'[r] = cur[r]
  BY <1>5 DEF TrackingInv, TypeOK
<1>8. TypeOK'
  BY <1>1, <1>3, <1>4, <1>5 DEF TrackingInv, TypeOK
<1>9. SheetInv'
  BY <1>4 DEF TrackingInv, SheetInv, OpenEntry
<1>10. \A y, z : Suits(y, z)' = Suits(y, z) /\ Fresh(y, z)' = Fresh(y, z)
  BY <1>4 DEF Suits, Fresh, OpenEntry
<1>11. PlansInv'
  BY <1>2, <1>4, <1>6, <1>7, <1>10 DEF TrackingInv, PlansInv
<1>12. SerialInv'
  BY <1>2, <1>4, <1>6, <1>7, <1>10 DEF TrackingInv, SerialInv
<1> QED BY <1>8, <1>9, <1>11, <1>12 DEF TrackingInv

\* A command that is through has left the table alone, or written by its plan.
LEMMA CommitDoes ==
  ASSUME TrackingInv, NEW q \in Requests, Commit(q)
  PROVE  \E x \in cur[q] :
           /\ cur' = [cur EXCEPT ![q] = {}]
           /\ UNCHANGED <<now, open, minted, overlapped>>
           /\ DOMAIN facts' = Requests
           /\ \/ /\ x.plan.kind \in {"rejected", "converged"} \/ Refused(x.cmd, x.plan)
                 /\ UNCHANGED <<done, entries, doneBy, reviewedBy>>
              \/ /\ x.plan.kind \in Writes \cup {"reviewRefused"}
                 /\ ~Refused(x.cmd, x.plan) /\ Write(x.cmd, x.hlc, x.plan)
<1>1. PICK x \in cur[q] :
       \/ /\ x.plan.kind = "rejected" \/ Refused(x.cmd, x.plan)
          /\ UNCHANGED <<done, entries, doneBy, reviewedBy, facts>>
       \/ /\ x.plan.kind = "converged"
          /\ facts' = [facts EXCEPT ![q] = {}]
          /\ UNCHANGED <<done, entries, doneBy, reviewedBy>>
       \/ /\ x.plan.kind \in Writes /\ ~Refused(x.cmd, x.plan)
          /\ Write(x.cmd, x.hlc, x.plan)
          /\ facts' = [facts EXCEPT ![q] = {}]
       \/ /\ x.plan.kind = "reviewRefused"
          /\ Write(x.cmd, x.hlc, x.plan)
          /\ UNCHANGED facts
  BY DEF Commit
<1>2. x.plan.kind = "reviewRefused" => ~Refused(x.cmd, x.plan)
  BY DEF Refused
<1>3. cur' = [cur EXCEPT ![q] = {}] /\ UNCHANGED <<now, open, minted, overlapped>>
  BY DEF Commit
<1>4. DOMAIN facts' = Requests
  BY <1>1 DEF TrackingInv, TypeOK
<1> QED BY <1>1, <1>2, <1>3, <1>4

\* A commit keeps it, and every recorded interval stays.
LEMMA CommitKeeps ==
  ASSUME TrackingInv, NEW q \in Requests, Commit(q)
  PROVE  TrackingInv' /\ Grows
<1>1. PICK x \in cur[q] :
        /\ cur' = [cur EXCEPT ![q] = {}]
        /\ UNCHANGED <<now, open, minted, overlapped>>
        /\ DOMAIN facts' = Requests
        /\ \/ /\ x.plan.kind \in {"rejected", "converged"} \/ Refused(x.cmd, x.plan)
              /\ UNCHANGED <<done, entries, doneBy, reviewedBy>>
           \/ /\ x.plan.kind \in Writes \cup {"reviewRefused"}
              /\ ~Refused(x.cmd, x.plan) /\ Write(x.cmd, x.hlc, x.plan)
  BY CommitDoes
<1>2. /\ entries' \in [DOMAIN entries' -> TimeEntry] /\ DOMAIN entries' \subseteq Entries
      /\ done' \in [Tasks -> Times \cup {None}]
      /\ doneBy' \in [Tasks -> 0 .. MaxCommands]
      /\ reviewedBy' \in [Entries -> 0 .. MaxCommands]
      /\ SheetInv' /\ Grows
  <2>1. CASE UNCHANGED <<done, entries, doneBy, reviewedBy>>
    BY <2>1 DEF TrackingInv, TypeOK, SheetInv, OpenEntry, Grows
  <2>2. CASE /\ x.plan.kind \in Writes \cup {"reviewRefused"}
             /\ ~Refused(x.cmd, x.plan) /\ Write(x.cmd, x.hlc, x.plan)
    <3>1. TypeOK /\ SheetInv /\ Suits(x.cmd, x.plan)
      BY DEF TrackingInv, PlansInv
    <3> QED BY <2>2, <3>1, WriteKeeps
  <2> QED BY <1>1, <2>1, <2>2
<1>3. cur'[q] = {} /\ \A r \in Requests \ {q} : cur'[r] = cur[r]
  BY <1>1 DEF TrackingInv, TypeOK
<1>4. TypeOK'
  <2>1. cur' \in [Requests -> SUBSET [cmd : Commands, hlc : 1 .. MaxCommands, plan : Plans]]
    BY <1>1 DEF TrackingInv, TypeOK
  <2> QED BY <1>1, <1>2, <2>1 DEF TrackingInv, TypeOK
<1>5. PlansInv'
  <2>1. ASSUME NEW r \in Requests, NEW y \in cur'[r] PROVE Suits(y.cmd, y.plan)'
    <3>1. y \in cur[r]
      BY <1>3, <2>1
    <3>2. Suits(y.cmd, y.plan)
      BY <3>1 DEF TrackingInv, PlansInv
    <3> QED BY <1>2, <3>2, SuitsStays DEF TrackingInv
  <2> QED BY <1>1, <1>3, <2>1 DEF TrackingInv, PlansInv
<1>6. SerialInv'
  <2> SUFFICES ASSUME ~overlapped'
               PROVE  /\ \A a, b \in open' : a = b
                      /\ \A r \in Requests : cur'[r] = {}
    BY DEF SerialInv
  <2>1. \A a, b \in open : a = b
    BY <1>1 DEF TrackingInv, SerialInv
  <2>2. q \in open /\ \A r \in Requests : cur[r] # {} => r \in open
    BY <1>1 DEF TrackingInv, PlansInv
  <2> QED BY <1>1, <1>3, <2>1, <2>2
<1> QED BY <1>2, <1>4, <1>5, <1>6 DEF TrackingInv

\* The invariant is inductive.
LEMMA InvStep ==
  ASSUME TrackingInv, [Next]_vars
  PROVE  TrackingInv'
<1>1. CASE Tick
  BY <1>1 DEF Tick, request, TrackingInv, TypeOK, SheetInv, OpenEntry, PlansInv, Suits, SerialInv, Fresh
<1>2. ASSUME NEW q \in Requests, Done(q) PROVE TrackingInv'
  <2> USE <1>2 DEF Done
  <2>1. TypeOK' /\ SheetInv'
    BY DEF TrackingInv, TypeOK, SheetInv, OpenEntry
  <2>2. PlansInv' /\ SerialInv'
    BY DEF TrackingInv, PlansInv, Suits, SerialInv, Fresh, OpenEntry
  <2> QED BY <2>1, <2>2 DEF TrackingInv
<1>3. CASE UNCHANGED vars
  BY <1>3 DEF vars, request, TrackingInv, TypeOK, SheetInv, OpenEntry, PlansInv, Suits, SerialInv, Fresh
<1> QED BY <1>1, <1>2, <1>3, OpenKeeps, ReadKeeps, CommitKeeps DEF Next

\* It holds in every reachable state.
LEMMA InvHolds == Spec => []TrackingInv
  BY InvInit, InvStep, PTL DEF Spec

\* Every reachable state of the tables and the requests has its type, and every
\* plan in hand is one of those the handlers make.
THEOREM TypeCorrect == Spec => []TypeOK
<1>1. TrackingInv => TypeOK
  BY DEF TrackingInv
<1> QED BY <1>1, InvHolds, PTL

-----------------------------------------------------------------------------
(* Tracking implements TimeSheet.                                            *)

\* What the sheet shows of the table.
LEMMA SheetShows ==
  /\ DOMAIN Intervals = DOMAIN entries
  /\ \A e \in DOMAIN entries :
       /\ Intervals[e] = [start |-> entries[e].start, end |-> entries[e].end]
       /\ Intervals[e].start = entries[e].start /\ Intervals[e].end = entries[e].end
  /\ Sheet!Running = OpenEntry
  BY DEF Sheet!Running, OpenEntry, Intervals

\* The abstract sheet of the next state is that of its entries.
LEMMA SheetShowsNext ==
  /\ DOMAIN Intervals' = DOMAIN entries'
  /\ \A e \in DOMAIN entries' :
       /\ Intervals'[e] = [start |-> entries'[e].start, end |-> entries'[e].end]
       /\ Intervals'[e].start = entries'[e].start /\ Intervals'[e].end = entries'[e].end
  /\ Sheet!Running' = OpenEntry'
  BY DEF Sheet!Running, OpenEntry, Intervals

\* A step of overlapping requests is one the sheet allows them.
LEMMA ContendedStep ==
  ASSUME TrackingInv, TrackingInv', Grows, overlapped, UNCHANGED overlapped,
         NEW new \in SUBSET Entries, DOMAIN entries' = DOMAIN entries \cup new,
         new \cap DOMAIN entries = {}
  PROVE  Sheet!Amend
<1>1. new \in SUBSET (Entries \ DOMAIN Intervals)
  BY SheetShows
<1>2. Intervals' \in [DOMAIN Intervals \cup new -> [start : Times, end : Times \cup {None}]]
  <2>1. \A e \in DOMAIN entries' : entries'[e] \in TimeEntry
    BY DEF TrackingInv, TypeOK
  <2>2. Intervals' = [e \in DOMAIN entries \cup new |->
                        [start |-> entries'[e].start, end |-> entries'[e].end]]
    BY DEF Intervals
  <2> QED BY <2>1, <2>2, SheetShows DEF TimeEntry
<1>3. \A s \in DOMAIN Intervals : /\ Intervals'[s].start = Intervals[s].start
                                  /\ Intervals[s].end # None => Intervals'[s].end # None
  BY SheetShows, SheetShowsNext DEF Grows
<1>4. \A s \in DOMAIN Intervals' : Intervals'[s].end # None => Intervals'[s].start < Intervals'[s].end
  BY SheetShowsNext DEF TrackingInv, SheetInv
<1>5. \A r, s \in Sheet!Running' : r = s
  BY SheetShowsNext DEF TrackingInv, SheetInv
<1>6. Sheet!Kept
  <2> SUFFICES \E some \in SUBSET (Entries \ DOMAIN Intervals) :
    /\ Intervals' \in [DOMAIN Intervals \cup some -> [start : Times, end : Times \cup {None}]]
    /\ \A s \in DOMAIN Intervals : /\ Intervals'[s].start = Intervals[s].start
                                  /\ Intervals[s].end # None => Intervals'[s].end # None
    BY DEF Sheet!Kept
  <2> HIDE DEF Intervals
  <2> WITNESS new \in SUBSET (Entries \ DOMAIN Intervals)
  <2> QED BY <1>2, <1>3
<1>7. Sheet!WellFormed'
  BY <1>4, <1>5 DEF Sheet!WellFormed
<1> QED BY <1>6, <1>7 DEF Sheet!Amend

\* A step of a request that is alone starts, takes over, books or stops a session.
LEMMA AloneStep ==
  ASSUME TrackingInv, TrackingInv', NEW q \in Requests, NEW x \in cur[q],
         ~overlapped, UNCHANGED overlapped, x.plan.kind \in Writes \cup {"reviewRefused"},
         ~Refused(x.cmd, x.plan), Write(x.cmd, x.hlc, x.plan)
  PROVE  \/ UNCHANGED Intervals
         \/ \E s \in Entries, t \in Times :
              Sheet!Start(s, t) \/ Sheet!TakeOver(s, t) \/ Sheet!Book(s, t) \/ Sheet!Stop(s, t)
<1> DEFINE c == x.cmd
           p == x.plan
<1>1. /\ c \in Commands /\ p \in Plans /\ Suits(c, p) /\ Fresh(c, p)
      /\ TypeOK /\ SheetInv
  BY DEF TrackingInv, TypeOK, PlansInv, SerialInv
<1>2. CASE p.kind = "insert"
  <2>1. /\ c.entry \in Entries /\ c.at \in Times /\ p.end \in Times \cup {None}
        /\ c.entry \notin DOMAIN entries
    BY <1>1, <1>2, Payloads DEF Suits, Fresh, Plans
  <2>2. entries' = NewEntry(c, p.end)
    BY <1>2 DEF Write
  <2>3. Intervals' = Sheet!Recorded(c.entry, c.at, p.end)
    BY <2>1, <2>2, SheetShows DEF NewEntry, Intervals, Sheet!Recorded
  <2>4. CASE p.end = None /\ OpenEntry = {}
    <3>1. Sheet!Start(c.entry, c.at)
      BY <2>1, <2>3, <2>4, SheetShows DEF Sheet!Start
    <3> QED BY <2>1, <3>1
  <2>5. CASE \E o \in OpenEntry : p.end = entries[o].start /\ c.at <= p.end
    <3>1. PICK o \in OpenEntry : p.end = entries[o].start /\ c.at <= p.end
      BY <2>5
    <3>2. o \in DOMAIN entries /\ entries[o].start \in Times
      BY <1>1, <3>1 DEF OpenEntry, TypeOK, TimeEntry
    <3>3. p.end # None
      BY <3>1, <3>2, Instants
    <3>4. c.at < p.end
      BY <1>2, <2>1, <3>1, <3>2, <3>3, Instants DEF Refused
    <3>5. o \in Sheet!Running /\ Intervals[o].start = p.end
      BY <3>1, <3>2, SheetShows
    <3>6. Sheet!Book(c.entry, c.at)
      BY <2>1, <2>3, <3>4, <3>5, SheetShows DEF Sheet!Book
    <3> QED BY <2>1, <3>6
  <2> QED BY <1>1, <1>2, <2>4, <2>5 DEF Fresh
<1>3. CASE p.kind = "takeOver"
  <2>1. /\ c.entry \in Entries /\ c.at \in Times /\ p.other \in OpenEntry /\ p.end = c.at
        /\ c.entry \notin DOMAIN entries /\ p.other \in DOMAIN entries
    BY <1>1, <1>3, Payloads DEF Suits, Fresh
  <2>2. entries' = [NewEntry(c, None) EXCEPT ![p.other].end = p.end]
    BY <1>3 DEF Write
  <2>3. entries[p.other].start < c.at
    <3>1. entries[p.other].start \in Times
      BY <1>1, <2>1 DEF TypeOK, TimeEntry
    <3> QED BY <1>3, <2>1, <3>1, Instants DEF Refused
  <2>4. Intervals' = [Sheet!Recorded(c.entry, c.at, None) EXCEPT ![p.other].end = c.at]
    <3>1. entries[p.other] \in TimeEntry
      BY <1>1, <2>1 DEF TypeOK
    <3>2. /\ DOMAIN entries' = DOMAIN entries \cup {c.entry}
          /\ \A e \in DOMAIN entries \ {p.other} : entries'[e] = entries[e]
          /\ entries'[p.other] = [entries[p.other] EXCEPT !.end = c.at]
          /\ entries'[c.entry].start = c.at /\ entries'[c.entry].end = None
      BY <2>1, <2>2 DEF NewEntry
    <3>3. entries'[p.other].start = entries[p.other].start /\ entries'[p.other].end = c.at
      BY <3>1, <3>2 DEF TimeEntry
    <3> DEFINE R == Sheet!Recorded(c.entry, c.at, None)
    <3>4. /\ DOMAIN R = DOMAIN entries \cup {c.entry}
          /\ \A e \in DOMAIN entries : R[e] = [start |-> entries[e].start, end |-> entries[e].end]
          /\ R[c.entry] = [start |-> c.at, end |-> None]
      BY <2>1, SheetShows DEF Sheet!Recorded
    <3>5. R = [e \in DOMAIN R |-> R[e]]
      BY DEF Sheet!Recorded
    <3> HIDE DEF R
    <3>6. [R EXCEPT ![p.other].end = c.at]
            = [e \in DOMAIN R |-> IF e = p.other THEN [R[e] EXCEPT !.end = c.at] ELSE R[e]]
      BY <2>1, <3>4, <3>5
    <3>8. ASSUME NEW e \in DOMAIN R
          PROVE  (IF e = p.other THEN [R[e] EXCEPT !.end = c.at] ELSE R[e])
                 = [start |-> entries'[e].start, end |-> entries'[e].end]
      <4>1. CASE e = p.other
        BY <2>1, <3>3, <3>4, <4>1
      <4>2. CASE e # p.other /\ e \in DOMAIN entries
        BY <3>2, <3>4, <4>2
      <4>3. CASE e = c.entry
        BY <2>1, <3>2, <3>4, <4>3
      <4> QED BY <3>4, <4>1, <4>2, <4>3
    <3>7. [R EXCEPT ![p.other].end = c.at]
            = [e \in DOMAIN entries' |-> [start |-> entries'[e].start, end |-> entries'[e].end]]
      BY <3>2, <3>4, <3>6, <3>8
    <3> QED BY <3>7 DEF Intervals, R
  <2>5. Sheet!TakeOver(c.entry, c.at)
    BY <2>1, <2>3, <2>4, SheetShows DEF Sheet!TakeOver
  <2> QED BY <2>1, <2>5
<1>4. CASE p.kind = "close"
  <2>1. /\ c.entry \in OpenEntry /\ c.entry \in DOMAIN entries /\ c.entry \in Entries
        /\ c.at \in Times /\ entries[c.entry].start < c.at
    BY <1>1, <1>4, Payloads DEF Suits, Fresh, TypeOK
  <2>2. entries' = [entries EXCEPT ![c.entry].end = c.at]
    BY <1>4 DEF Write
  <2>3. /\ DOMAIN entries' = DOMAIN entries
        /\ \A e \in DOMAIN entries \ {c.entry} : entries'[e] = entries[e]
        /\ entries'[c.entry].start = entries[c.entry].start /\ entries'[c.entry].end = c.at
    BY <1>1, <2>1, <2>2 DEF TypeOK, TimeEntry
  <2>4. Intervals' = [Intervals EXCEPT ![c.entry].end = c.at]
    BY <2>1, <2>3, SheetShows DEF Intervals
  <2>5. Sheet!Stop(c.entry, c.at)
    BY <2>1, <2>4, SheetShows DEF Sheet!Stop
  <2> QED BY <2>1, <2>5
<1>5. CASE p.kind \in {"complete", "reopen"}
  BY <1>5 DEF Write, Intervals
<1>6. CASE p.kind \in {"review", "reviewDone", "reviewRefused"}
  <2>1. entries' = [entries EXCEPT ![c.entry].finished = c.finished] \/ entries' = entries
    BY <1>6 DEF Write, WriteReview
  <2>2. /\ DOMAIN entries' = DOMAIN entries
        /\ \A e \in DOMAIN entries : /\ entries'[e].start = entries[e].start
                                     /\ entries'[e].end = entries[e].end
    BY <1>1, <1>6, <2>1 DEF TypeOK, TimeEntry, Suits
  <2> QED BY <2>2 DEF Intervals
<1> QED BY <1>2, <1>3, <1>4, <1>5, <1>6 DEF Writes


\* The time sheet of the user is what TimeSheet promises: at most one session
\* runs, no session is lost or moved, and while requests do not overlap a closed
\* one never changes.
THEOREM ImplementsTimeSheet == Spec => SheetSpec
<1>1. Init => Sheet!Init
  BY DEF Init, Sheet!Init, Intervals
<1>2. ASSUME TrackingInv, [Next]_vars PROVE [Sheet!Next]_(Sheet!vars)
  <2>1. TrackingInv'
    BY <1>2, InvStep
  <2>2. CASE UNCHANGED <<entries, overlapped>>
    BY <2>2 DEF Sheet!vars, Intervals
  <2>3. ASSUME NEW q \in Requests, Open(q) PROVE [Sheet!Next]_(Sheet!vars)
    <3>1. UNCHANGED Intervals
      BY <2>3 DEF Open, Intervals
    <3>2. overlapped' = overlapped \/ overlapped' = TRUE
      BY <1>2, <2>3 DEF Open, TrackingInv, TypeOK
    <3> QED BY <3>1, <3>2 DEF Sheet!Next, Sheet!vars
  <2>4. ASSUME NEW q \in Requests, Commit(q) PROVE [Sheet!Next]_(Sheet!vars)
    <3>1. PICK x \in cur[q] :
            /\ UNCHANGED <<now, open, minted, overlapped>>
            /\ \/ UNCHANGED <<done, entries, doneBy, reviewedBy>>
               \/ /\ x.plan.kind \in Writes \cup {"reviewRefused"}
                  /\ ~Refused(x.cmd, x.plan) /\ Write(x.cmd, x.hlc, x.plan)
      BY <1>2, <2>4, CommitDoes
    <3>2. CASE UNCHANGED <<done, entries, doneBy, reviewedBy>>
      BY <2>2, <3>1, <3>2
    <3>3. CASE /\ ~overlapped
               /\ x.plan.kind \in Writes \cup {"reviewRefused"}
               /\ ~Refused(x.cmd, x.plan) /\ Write(x.cmd, x.hlc, x.plan)
      <4>1. \/ UNCHANGED Intervals
            \/ \E s \in Entries, t \in Times :
                 Sheet!Start(s, t) \/ Sheet!TakeOver(s, t) \/ Sheet!Book(s, t) \/ Sheet!Stop(s, t)
        BY <1>2, <2>1, <3>1, <3>3, AloneStep
      <4> QED BY <3>1, <4>1 DEF Sheet!Next, Sheet!vars
    <3>4. CASE overlapped
      <4>1. Grows
        BY <1>2, <2>4, CommitKeeps
      <4> DEFINE new == DOMAIN entries' \ DOMAIN entries
      <4>2. /\ new \in SUBSET Entries /\ DOMAIN entries' = DOMAIN entries \cup new
            /\ new \cap DOMAIN entries = {}
        BY <2>1, <4>1 DEF TrackingInv, TypeOK, Grows
      <4> HIDE DEF new
      <4>3. Sheet!Amend
        BY <1>2, <2>1, <3>1, <3>4, <4>1, <4>2, ContendedStep
      <4> QED BY <3>1, <4>3 DEF Sheet!Next
    <3> QED BY <1>2, <3>1, <3>2, <3>3, <3>4 DEF TrackingInv, TypeOK
  <2> QED BY <1>2, <2>2, <2>3, <2>4 DEF Next, Tick, Read, Done, vars, request
<1> QED BY <1>1, <1>2, InvHolds, PTL DEF Spec, SheetSpec, Sheet!Spec

-----------------------------------------------------------------------------
(* What two devices and other commands see.                                  *)

\* A step that puts the command x through is the commit of its request.
LEMMA ThroughCommits ==
  ASSUME TrackingInv, [Next]_vars, NEW x \in Ahead, Through(x)
  PROVE  \E q \in Requests : Commit(q) /\ \A y \in cur[q] : y = x
<1>1. PICK q \in Requests : x \in cur[q] /\ cur'[q] = {}
  BY DEF Through
<1>2. \A y \in cur[q] : y = x
  BY <1>1 DEF TrackingInv, PlansInv
<1>3. Commit(q)
  <2>1. ASSUME NEW r \in Requests, Commit(r), r # q PROVE FALSE
    BY <1>1, <2>1 DEF Commit, TrackingInv, TypeOK
  <2>2. ASSUME NEW r \in Requests, Read(r) PROVE FALSE
    BY <1>1, <2>2 DEF Read, TrackingInv, TypeOK
  <2> QED BY <1>1, <2>1, <2>2 DEF Next, Tick, Open, Done, vars, request
<1> QED BY <1>2, <1>3

\* A clock-in that another device lost a race with is still recorded, and what
\* runs then is the one that started last.
THEOREM TimersResolve == Spec => SerialTimersResolve
<1> DEFINE Resolves(x) ==
      /\ x.cmd.entry \in DOMAIN entries'
      /\ \A o \in OpenEntry \cup {x.cmd.entry}, r \in DOMAIN entries' :
           entries'[r].end = None => entries'[r].start >= entries'[o].start
<1>1. ASSUME TrackingInv, [Next]_vars, NEW x \in Ahead, ~overlapped', Through(x),
             x.cmd.verb = "clockIn", x.plan.kind \in {"insert", "takeOver"},
             \A o \in OpenEntry : entries[o].start # x.cmd.at
      PROVE  Resolves(x)
  <2> DEFINE c == x.cmd
             p == x.plan
  <2>1. PICK q \in Requests : Commit(q) /\ x \in cur[q] /\ \A y \in cur[q] : y = x
    <3>1. PICK q \in Requests : x \in cur[q] /\ cur'[q] = {}
      BY <1>1 DEF Through
    <3>2. PICK r \in Requests : Commit(r) /\ \A y \in cur[r] : y = x
      BY <1>1, ThroughCommits
    <3>3. \E y \in cur[r] : TRUE
      BY <1>1, <3>2, CommitDoes
    <3> QED BY <3>2, <3>3
  <2>2. /\ overlapped' = overlapped
        /\ \/ Refused(c, p) \/ Write(c, x.hlc, p)
    BY <1>1, <2>1, CommitDoes DEF Writes
  <2>3. /\ c \in Commands /\ p \in Plans /\ Fresh(c, p) /\ Suits(c, p)
        /\ TypeOK /\ SheetInv
    BY <1>1, <2>1, <2>2 DEF TrackingInv, TypeOK, SerialInv, PlansInv
  <2>4. /\ c.entry \in Entries /\ c.at \in Times /\ c.entry \notin DOMAIN entries
    BY <1>1, <2>3, Payloads DEF Fresh
  <2>5. \A o \in OpenEntry : o \in DOMAIN entries /\ entries[o].start \in Times
    BY <2>3 DEF OpenEntry, TypeOK, TimeEntry
  <2>6. TrackingInv'
    BY <1>1, InvStep
  <2>7. \A a, b \in OpenEntry' : a = b
    BY <2>6 DEF TrackingInv, SheetInv
  <2>8. \A r \in DOMAIN entries' : entries'[r].end = None => r \in OpenEntry'
    BY DEF OpenEntry
  <2>9. CASE p.kind = "insert" /\ OpenEntry = {} /\ p.end = None
    <3>1. ~Refused(c, p)
      BY <2>4, <2>9 DEF Refused
    <3>2. entries' = NewEntry(c, None)
      BY <2>2, <2>9, <3>1 DEF Write
    <3>3. c.entry \in DOMAIN entries' /\ entries'[c.entry].end = None /\ entries'[c.entry].start = c.at
      BY <3>2 DEF NewEntry
    <3>4. c.entry \in OpenEntry'
      BY <3>3 DEF OpenEntry
    <3>5. \A r \in DOMAIN entries' : entries'[r].end = None => r = c.entry
      BY <2>7, <2>8, <3>4
    <3> QED BY <2>4, <2>9, <3>3, <3>5, Instants
  <2>10. CASE p.kind = "insert" /\ \E o \in OpenEntry : p.end = entries[o].start /\ c.at <= p.end
    <3>1. PICK o \in OpenEntry : p.end = entries[o].start /\ c.at <= p.end
      BY <2>10
    <3>2. c.at < p.end /\ p.end \in Int /\ p.end # None /\ c.at \in Int
      BY <1>1, <2>4, <2>5, <3>1, Instants
    <3>3. ~Refused(c, p)
      BY <2>4, <2>10, <3>2 DEF Refused
    <3>4. entries' = NewEntry(c, p.end)
      BY <2>2, <2>10, <3>3 DEF Write
    <3>5. /\ c.entry \in DOMAIN entries' /\ entries'[c.entry].start = c.at
          /\ entries'[o] = entries[o] /\ o \in DOMAIN entries'
      BY <2>4, <2>5, <3>1, <3>4 DEF NewEntry
    <3>6. o \in OpenEntry'
      BY <3>1, <3>5 DEF OpenEntry
    <3>7. \A r \in DOMAIN entries' : entries'[r].end = None => r = o
      BY <2>7, <2>8, <3>6
    <3>8. \A a \in OpenEntry : a = o
      BY <2>3, <3>1 DEF SheetInv
    <3> QED BY <3>1, <3>2, <3>5, <3>7, <3>8
  <2>11. CASE p.kind = "takeOver"
    <3>1. /\ p.other \in OpenEntry /\ p.end = c.at /\ p.other # c.entry
          /\ entries[p.other].start < c.at /\ entries[p.other].start \in Int /\ c.at \in Int
      BY <1>1, <2>3, <2>4, <2>5, <2>11, Instants DEF Fresh
    <3>2. OpenEntry \ {p.other} = {}
      BY <2>3, <3>1 DEF SheetInv
    <3>3. ~Refused(c, p)
      BY <2>4, <2>11, <3>1, <3>2 DEF Refused
    <3>4. entries' = [NewEntry(c, None) EXCEPT ![p.other].end = p.end]
      BY <2>2, <2>11, <3>3 DEF Write
    <3>5. entries[p.other] \in TimeEntry
      BY <2>3, <2>5, <3>1 DEF TypeOK
    <3>6. /\ c.entry \in DOMAIN entries' /\ entries'[c.entry].start = c.at
          /\ entries'[c.entry].end = None
          /\ entries'[p.other].start = entries[p.other].start
      BY <2>5, <3>1, <3>4, <3>5 DEF NewEntry, TimeEntry
    <3>7. c.entry \in OpenEntry'
      BY <3>6 DEF OpenEntry
    <3>8. \A r \in DOMAIN entries' : entries'[r].end = None => r = c.entry
      BY <2>7, <2>8, <3>7
    <3> QED BY <3>1, <3>2, <3>6, <3>8
  <2> QED BY <1>1, <2>3, <2>9, <2>10, <2>11 DEF Fresh
<1>2. TrackingInv /\ [Next]_vars =>
        \A x \in Ahead :
          /\ ~overlapped' /\ Through(x) /\ x.cmd.verb = "clockIn"
          /\ x.plan.kind \in {"insert", "takeOver"}
          /\ \A o \in OpenEntry : entries[o].start # x.cmd.at
          => Resolves(x)
  BY <1>1
<1> QED BY <1>2, InvHolds, PTL DEF Spec, SerialTimersResolve

\* A rejected command leaves every fact the others read as it was, even a review
\* that is refused after it has written.
THEOREM RejectionsKeepFacts == Spec => RejectionKeepsFacts
<1>1. ASSUME TrackingInv, [Next]_vars, NEW x \in Ahead, Through(x),
             x.plan.kind \in {"rejected", "reviewRefused"} \/ Refused(x.cmd, x.plan)
      PROVE  Facts' = Facts
  <2>1. PICK q \in Requests : Commit(q) /\ \A y \in cur[q] : y = x
    BY <1>1, ThroughCommits
  <2>2. PICK y \in cur[q] :
          \/ UNCHANGED <<done, entries, doneBy, reviewedBy>>
          \/ /\ y.plan.kind \in Writes \cup {"reviewRefused"}
             /\ ~Refused(y.cmd, y.plan) /\ Write(y.cmd, y.hlc, y.plan)
    BY <1>1, <2>1, CommitDoes
  <2>3. y = x
    BY <2>1
  <2>4. CASE UNCHANGED <<done, entries>>
    BY <2>4 DEF Facts
  <2>5. CASE x.plan.kind = "reviewRefused" /\ Write(x.cmd, x.hlc, x.plan)
    <3>1. WriteReview(x.cmd, x.hlc, x.plan)
      BY <2>5 DEF Write
    <3>2. /\ x.cmd.entry \in DOMAIN entries /\ entries[x.cmd.entry] \in TimeEntry
      BY <1>1, <2>1, <2>3, <2>5 DEF TrackingInv, PlansInv, Suits, TypeOK
    <3>3. done' = done
      BY <2>5, <3>1 DEF WriteReview
    <3>4. entries' = entries \/ entries' = [entries EXCEPT ![x.cmd.entry].finished = x.cmd.finished]
      BY <3>1 DEF WriteReview
    <3>5. /\ DOMAIN entries' = DOMAIN entries
          /\ \A e \in DOMAIN entries : /\ entries'[e].task = entries[e].task
                                       /\ entries'[e].start = entries[e].start
                                       /\ entries'[e].end = entries[e].end
      BY <1>1, <3>2, <3>4 DEF TrackingInv, TypeOK, TimeEntry
    <3> DEFINE Rows == {[task |-> entries[e].task, start |-> entries[e].start, end |-> entries[e].end] :
                          e \in DOMAIN entries}
    <3>6. Rows' = Rows
      BY <3>5
    <3> QED BY <3>3, <3>6 DEF Facts
  <2> QED BY <1>1, <2>2, <2>3, <2>4, <2>5 DEF Writes
<1>2. TrackingInv /\ [Next]_vars =>
        \A x \in Ahead :
          Through(x) /\ (x.plan.kind \in {"rejected", "reviewRefused"} \/ Refused(x.cmd, x.plan))
          => Facts' = Facts
  BY <1>1
<1> QED BY <1>2, InvHolds, PTL DEF Spec, RejectionKeepsFacts
=============================================================================
